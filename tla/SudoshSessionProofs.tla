------------------------- MODULE SudoshSessionProofs -------------------------
(***************************************************************************)
(* Proofs about SudoshSession. For a task built with become_pass set:    *)
(* the host reports success only for a started command, and the session  *)
(* implements the safety part of BecomeEscalation. For every task: the   *)
(* type invariant, with the password written at most once.              *)
(***************************************************************************)
EXTENDS SudoshSession, SequenceTheorems, TLAPS

(* The tasks the theorems are about: become_pass is set, so the host     *)
(* waits for a prompt (expect_prompt) and tests check_password_prompt    *)
(* first on every line.                                                   *)
PasswordMode == PassValues = {TRUE}

Configs == [pass : PassValues, needpass : NeedPassValues,
            passok : PassOkValues, verbose : VerboseValues, session : Sessions]

-----------------------------------------------------------------------------
(* Lemmas about the classifiers on single lines. *)

(* The words of the lines sudosh writes. *)
Words == {"[sudosh]", "Password:", "sudosh:", "Ansible", "Augment", "session",
          "detected", "authentication", "successful", "failed", "Sorry,",
          "try", "again.", SuccessWord, "hello"}

LEMMA LinesOfWords == Lines \subseteq Seq(Words)
BY DEF Lines, Words, PromptLine, AnsibleLine, AugmentLine, AuthOkLine, SorryLine,
       AuthFailLine, MarkerLine, OutputLine

(* A stretch of a line is one of its SubSeqs. *)
LEMMA InSubSeqs ==
    ASSUME NEW s, NEW m, NEW i \in 0..Len(s), NEW j \in 0..Len(s), m = SubSeq(s, i + 1, j)
    PROVE  m \in SubSeqs(s)
BY DEF SubSeqs

(* A line whose first word is one of sudosh's prompt markers is taken    *)
(* for a prompt by check_password_prompt.                                 *)
LEMMA FirstWordPrompt ==
    ASSUME NEW W, NEW l \in Seq(W), Len(l) >= 1, l[1] \in {"[sudosh]", "sudosh:"}
    PROVE  CheckPasswordPrompt(l)
<1>1. <<l[1]>> \in SudoshPrompts
  BY DEF SudoshPrompts
<1>2. Lower(<<l[1]>>) = <<LowerWord(l[1])>>
  BY DEF Lower
<1>3. Len(Lower(l)) = Len(l) /\ Lower(l)[1] = LowerWord(l[1])
      /\ Lower(l) \in Seq({LowerWord(w) : w \in W})
  BY DEF Lower
<1>4. SubSeq(Lower(l), 0 + 1, 1) = Lower(<<l[1]>>)
  BY <1>2, <1>3
<1>5. 0 \in 0..Len(Lower(l)) /\ 1 \in 0..Len(Lower(l))
  BY <1>3
<1>6. Lower(<<l[1]>>) \in SubSeqs(Lower(l))
  BY <1>4, <1>5, InSubSeqs
<1>7. QED
  BY <1>1, <1>6 DEF CheckPasswordPrompt, Occurs

(* A marker whose first word is no word of a line does not occur in it. *)
LEMMA NotOccurs ==
    ASSUME NEW W, NEW m \in Seq(W), NEW l \in Seq(W), Len(m) >= 1,
           \A i \in 1..Len(l) : l[i] # m[1]
    PROVE  ~Occurs(m, l)
<1> SUFFICES ASSUME NEW i \in 0..Len(l), NEW j \in 0..Len(l), m = SubSeq(l, i + 1, j)
             PROVE  FALSE
  BY DEF Occurs, SubSeqs
<1>1. Len(SubSeq(l, i + 1, j)) = IF i + 1 <= j THEN j - i ELSE 0
  BY SubSeqProperties
<1>2. j >= i + 1
  BY <1>1
<1>3. m[1] = l[i + 1]
  BY <1>2, SubSeqProperties
<1>4. QED
  BY <1>2, <1>3

(* Neither "Sorry, try again." nor the command's output holds the       *)
(* success marker or the word sudosh: that starts every success indicator. *)
LEMMA QuietLines ==
    /\ \A i \in 1..Len(SorryLine) : SorryLine[i] \notin {SuccessWord, "sudosh:"}
    /\ \A i \in 1..Len(OutputLine) : OutputLine[i] \notin {SuccessWord, "sudosh:"}
<1>1. \A i \in 1..Len(SorryLine) : SorryLine[i] \notin {SuccessWord, "sudosh:"}
  <2> SUFFICES ASSUME NEW i \in 1..Len(SorryLine)
               PROVE  SorryLine[i] \notin {SuccessWord, "sudosh:"}
    OBVIOUS
  <2>1. i \in {1, 2, 3}
    BY DEF SorryLine
  <2>2. SorryLine[1] = "Sorry," /\ SorryLine[2] = "try" /\ SorryLine[3] = "again."
    BY DEF SorryLine
  <2>3. {"Sorry,", "try", "again."} \cap {SuccessWord, "sudosh:"} = {}
    BY DEF SuccessWord
  <2>4. QED
    BY <2>1, <2>2, <2>3, Zenon
<1>2. \A i \in 1..Len(OutputLine) : OutputLine[i] \notin {SuccessWord, "sudosh:"}
  <2> SUFFICES ASSUME NEW i \in 1..Len(OutputLine)
               PROVE  OutputLine[i] \notin {SuccessWord, "sudosh:"}
    OBVIOUS
  <2>1. i = 1 /\ OutputLine[1] = "hello"
    BY DEF OutputLine
  <2>2. QED
    BY <2>1 DEF SuccessWord
<1>3. QED
  BY <1>1, <1>2

(* The success flag is raised, with become_pass set, only by the line    *)
(* that carries the success marker: every sudosh message that            *)
(* check_success accepts is taken for a prompt first.                    *)
LEMMA OnlyMarkerSucceeds ==
    ASSUME ExpectPrompt, NEW l \in Lines, Raised(l) = "success"
    PROVE  l = MarkerLine
<1>0. l \in Seq(Words)
  BY LinesOfWords
<1>1. CASE l \in {PromptLine, AnsibleLine, AugmentLine, AuthOkLine, AuthFailLine}
  <2>1. Len(l) >= 1 /\ l[1] \in {"[sudosh]", "sudosh:"}
    <3>1. CASE l = PromptLine
      BY <3>1 DEF PromptLine
    <3>2. CASE l = AnsibleLine
      BY <3>2 DEF AnsibleLine
    <3>3. CASE l = AugmentLine
      BY <3>3 DEF AugmentLine
    <3>4. CASE l = AuthOkLine
      BY <3>4 DEF AuthOkLine
    <3>5. CASE l = AuthFailLine
      BY <3>5 DEF AuthFailLine
    <3>6. QED
      BY <1>1, <3>1, <3>2, <3>3, <3>4, <3>5
  <2>2. CheckPasswordPrompt(l)
    BY <1>0, <2>1, FirstWordPrompt
  <2>3. QED
    BY <2>2 DEF Raised
<1>2. CASE l \in {SorryLine, OutputLine}
  <2>1. \A i \in 1..Len(l) : l[i] \notin {SuccessWord, "sudosh:"}
    <3>1. CASE l = SorryLine
      BY <3>1, QuietLines
    <3>2. CASE l = OutputLine
      BY <3>2, QuietLines
    <3>3. QED
      BY <1>2, <3>1, <3>2
  <2>2. <<SuccessWord>> \in Seq(Words) /\ Len(<<SuccessWord>>) >= 1
    BY DEF Words
  <2>3. ~Occurs(<<SuccessWord>>, l)
    BY <1>0, <2>1, <2>2, NotOccurs
  <2>4. ASSUME NEW s \in SuccessIndicators PROVE ~Occurs(s, l)
    <3>1. s \in Seq(Words) /\ Len(s) >= 1 /\ s[1] = "sudosh:"
      <4>1. CASE s = <<"sudosh:", "Ansible", "session", "detected">>
        BY <4>1 DEF Words
      <4>2. CASE s = <<"sudosh:", "Augment", "session", "detected">>
        BY <4>2 DEF Words
      <4>3. CASE s = <<"sudosh:", "authentication", "successful">>
        BY <4>3 DEF Words
      <4>4. QED
        BY <4>1, <4>2, <4>3 DEF SuccessIndicators
    <3>2. QED
      BY <1>0, <2>1, <3>1, NotOccurs
  <2>5. ~CheckSuccess(l)
    BY <2>3, <2>4 DEF CheckSuccess, BaseCheckSuccess
  <2>6. QED
    BY <2>5 DEF Raised
<1>3. QED
  BY <1>1, <1>2 DEF Lines

(* The flags after a chunk are flags, and the success flag is up after a *)
(* chunk only if it was before or the chunk holds the success marker.    *)
LEMMA ChunkFlagsProps ==
    ASSUME ExpectPrompt, NEW c \in Seq(Lines), NEW fl \in [FlagNames -> BOOLEAN]
    PROVE  /\ ChunkFlags(fl, c) \in [FlagNames -> BOOLEAN]
           /\ ChunkFlags(fl, c).success =>
                 fl.success \/ \E i \in 1..Len(c) : c[i] = MarkerLine
<1>1. ChunkFlags(fl, c) \in [FlagNames -> BOOLEAN]
  BY DEF ChunkFlags
<1>2. ASSUME ChunkFlags(fl, c).success, ~fl.success
      PROVE  \E i \in 1..Len(c) : c[i] = MarkerLine
  <2>1. PICK i \in DOMAIN c : Raised(c[i]) = "success"
    BY <1>2 DEF ChunkFlags, FlagNames
  <2>2. i \in 1..Len(c) /\ c[i] \in Lines
    BY <2>1
  <2>3. c[i] = MarkerLine
    BY <2>1, <2>2, OnlyMarkerSucceeds
  <2>4. QED
    BY <2>2, <2>3
<1>3. QED
  BY <1>1, <1>2

(* The awaiting_prompt and awaiting_escalation steps: the state stays a  *)
(* become state, success is declared only on the success flag, which is *)
(* never raised by the steps themselves, and the password is written    *)
(* only from awaiting_prompt, which the host then leaves for good.      *)
LEMMA AwaitSteps ==
    ASSUME NEW st \in Waiting, NEW fl \in [FlagNames -> BOOLEAN],
           NEW r, r = AwaitEscalation(AwaitPrompt(st, fl))
    PROVE  /\ r.st \in Waiting \cup Verdicts
           /\ r.fl \in [FlagNames -> BOOLEAN]
           /\ r.write \in BOOLEAN
           /\ r.st = "ready_to_send" => fl.success
           /\ r.fl.success => fl.success
           /\ r.write => st = "awaiting_prompt" /\ r.st # "awaiting_prompt"
           /\ r.st = "awaiting_prompt" => st = "awaiting_prompt"
<1> DEFINE q == AwaitPrompt(st, fl)
<1>1. /\ q = [st |-> q.st, fl |-> q.fl, write |-> q.write]
      /\ q.st \in Waiting
      /\ q.fl \in [FlagNames -> BOOLEAN]
      /\ q.write \in BOOLEAN
      /\ q.fl.success = fl.success
      /\ q.write => st = "awaiting_prompt" /\ q.st = "awaiting_escalation"
      /\ q.st = "awaiting_prompt" => st = "awaiting_prompt"
  BY DEF AwaitPrompt, Waiting, FlagNames
<1>2. CASE q.st # "awaiting_escalation"
  <2>1. r = q
    BY <1>2 DEF AwaitEscalation
  <2>2. QED
    BY <1>1, <1>2, <2>1 DEF Waiting
<1>3. CASE q.st = "awaiting_escalation" /\ q.fl.success
  <2>1. r = [st |-> "ready_to_send", fl |-> [q.fl EXCEPT !.success = FALSE],
             write |-> q.write]
    BY <1>1, <1>3 DEF AwaitEscalation
  <2>2. [q.fl EXCEPT !.success = FALSE] \in [FlagNames -> BOOLEAN]
         /\ ~[q.fl EXCEPT !.success = FALSE].success
    BY <1>1 DEF FlagNames
  <2>3. r.st = "ready_to_send" /\ r.write = q.write /\ r.fl = [q.fl EXCEPT !.success = FALSE]
    BY <2>1
  <2>4. QED
    BY <1>1, <1>3, <2>2, <2>3 DEF Verdicts, Waiting
<1>4. CASE q.st = "awaiting_escalation" /\ ~q.fl.success
  <2>1. r \in {q, [st |-> "incorrect", fl |-> q.fl, write |-> q.write],
                  [st |-> "missing", fl |-> q.fl, write |-> q.write]}
    BY <1>1, <1>4 DEF AwaitEscalation
  <2>2. QED
    BY <1>1, <1>4, <2>1 DEF Verdicts, Waiting
<1>5. QED
  BY <1>2, <1>3, <1>4

-----------------------------------------------------------------------------
(* Lemmas about what sudosh writes to the channel. *)

\* the lines other than the success marker
NotMarker == {PromptLine, AnsibleLine, AugmentLine, AuthOkLine, SorryLine,
              AuthFailLine, OutputLine}

(* Only the wrapped command writes the success marker. *)
LEMMA NotMarkerLines == NotMarker \subseteq Lines /\ MarkerLine \notin NotMarker
<1>1. NotMarker \subseteq Lines
  BY DEF NotMarker, Lines
<1>2. \A x \in {AnsibleLine, AugmentLine} : Len(x) = 4
  BY DEF AnsibleLine, AugmentLine
<1>3. Len(AuthOkLine) = 3 /\ Len(SorryLine) = 3 /\ Len(AuthFailLine) = 3
  <2>1. Len(AuthOkLine) = 3
    BY DEF AuthOkLine
  <2>2. Len(SorryLine) = 3
    BY DEF SorryLine
  <2>3. Len(AuthFailLine) = 3
    BY DEF AuthFailLine
  <2>4. QED
    BY <2>1, <2>2, <2>3
<1>4. Len(PromptLine) = 2 /\ Len(MarkerLine) = 1
  BY DEF PromptLine, MarkerLine
<1>5. OutputLine[1] # MarkerLine[1]
  BY DEF OutputLine, MarkerLine, SuccessWord
<1>6. QED
  BY <1>1, <1>2, <1>3, <1>4, <1>5 DEF NotMarker

(* Appending a line keeps the channel a sequence of lines whose markers *)
(* all belong to a started command, when the new line is no marker or  *)
(* the command has started.                                             *)
LEMMA AppendLine ==
    ASSUME NEW c \in Seq(Lines), NEW x \in Lines, NEW b,
           \A i \in 1..Len(c) : c[i] = MarkerLine => b,
           x = MarkerLine => b
    PROVE  /\ Append(c, x) \in Seq(Lines)
           /\ \A i \in 1..Len(Append(c, x)) : Append(c, x)[i] = MarkerLine => b
BY AppendProperties

(* The same for a chunk of lines. *)
LEMMA ConcatLines ==
    ASSUME NEW c \in Seq(Lines), NEW d \in Seq(Lines), NEW b,
           \A i \in 1..Len(c) : c[i] = MarkerLine => b,
           \A i \in 1..Len(d) : d[i] = MarkerLine => b
    PROVE  /\ c \o d \in Seq(Lines)
           /\ \A i \in 1..Len(c \o d) : (c \o d)[i] = MarkerLine => b
BY ConcatProperties

-----------------------------------------------------------------------------
(* The inductive invariant.  SuccessMeansCommandRan alone is not          *)
(* inductive: a read that declares success needs that the success flag   *)
(* and every success marker still unread belong to a started command,    *)
(* and the refinement needs that the command has not started while      *)
(* sudosh is still before its run step.                                  *)
IInv ==
    /\ TypeOK
    /\ cfg \in Configs
    /\ \A i \in 1..Len(chan) : chan[i] = MarkerLine => ran
    /\ flags.success => ran
    /\ SuccessMeansCommandRan
    /\ spc \in {"start", "auth", "await_pw", "run"} => ~ran
    /\ pwsent = 1 => hstate # "awaiting_prompt"

LEMMA InitIInv == ASSUME PasswordMode PROVE Init => IInv
<1> SUFFICES ASSUME Init PROVE IInv
  OBVIOUS
<1>1. cfg \in Configs /\ cfg.pass
  BY DEF Init, Configs, PasswordMode
<1>2. hstate = "awaiting_prompt"
  BY <1>1 DEF Init, ExpectPrompt
<1>3. chan = <<>> /\ chan \in Seq(Lines)
  BY DEF Init
<1>4. NoFlags \in [FlagNames -> BOOLEAN] /\ ~NoFlags.success
  BY DEF NoFlags, FlagNames
<1>5. TypeOK
  <2>1. stdin \in BOOLEAN /\ ran \in BOOLEAN /\ leaked \in BOOLEAN
    BY Zenon DEF Init
  <2>2. spc \in {"start", "auth", "await_pw", "run", "output", "exited"} /\ pwsent \in 0..1
    BY DEF Init
  <2>3. flags \in [FlagNames -> BOOLEAN]
    BY <1>4, Zenon DEF Init
  <2>4. QED
    BY <1>2, <1>3, <2>1, <2>2, <2>3 DEF TypeOK, Waiting
<1>6. QED
  BY <1>1, <1>2, <1>3, <1>4, <1>5 DEF Init, IInv, SuccessMeansCommandRan

(* Every step keeps the invariant. *)
LEMMA StepIInv == ASSUME PasswordMode PROVE IInv /\ [Next]_vars => IInv'
<1> SUFFICES ASSUME IInv, [Next]_vars PROVE IInv'
  OBVIOUS
<1>0. /\ cfg \in Configs /\ ExpectPrompt /\ chan \in Seq(Lines)
      /\ flags \in [FlagNames -> BOOLEAN] /\ pwsent \in 0..1
  BY DEF IInv, TypeOK, Configs, PasswordMode, ExpectPrompt
<1>a. \A i \in 1..Len(chan) : chan[i] = MarkerLine => ran
  BY DEF IInv
<1>b. NotMarker \subseteq Lines /\ MarkerLine \notin NotMarker
  BY NotMarkerLines
<1>c. ASSUME UNCHANGED <<cfg, hstate, flags, pwsent>>, ran => ran',
             chan' \in Seq(Lines), \A i \in 1..Len(chan') : chan'[i] = MarkerLine => ran',
             spc' \in {"start", "auth", "await_pw", "run", "output", "exited"},
             spc' \in {"start", "auth", "await_pw", "run"} => ~ran',
             stdin' \in BOOLEAN, ran' \in BOOLEAN, leaked' \in BOOLEAN
      PROVE  IInv'
  <2>1. TypeOK'
    BY <1>c, <1>0 DEF IInv, TypeOK
  <2>2. (flags.success => ran)' /\ SuccessMeansCommandRan'
    BY <1>c, Zenon DEF IInv, SuccessMeansCommandRan
  <2>3. (pwsent = 1 => hstate # "awaiting_prompt")' /\ cfg' \in Configs
    BY <1>c, <1>0 DEF IInv
  <2>4. QED
    BY <1>c, <2>1, <2>2, <2>3 DEF IInv
<1>1. CASE SudoshStart
  <2>1. spc = "start" /\ ~ran /\ UNCHANGED <<cfg, stdin, ran, leaked, hstate, flags, pwsent>>
    BY <1>1 DEF SudoshStart, IInv, HostVars
  <2>2. CASE cfg.session = "augment"
    <3>1. chan' = Append(chan, AugmentLine) /\ spc' = "exited"
      BY <1>1, <2>2 DEF SudoshStart
    <3>2. AugmentLine \in Lines /\ AugmentLine # MarkerLine
      BY <1>b DEF NotMarker
    <3>3. QED
      BY <1>0, <1>a, <2>1, <3>1, <3>2, AppendLine, <1>c DEF IInv, TypeOK
  <2>3. CASE cfg.session # "augment"
    <3>1. chan' \in {chan, Append(chan, AnsibleLine)} /\ spc' = "auth"
      BY <1>1, <2>3 DEF SudoshStart
    <3>2. AnsibleLine \in Lines /\ AnsibleLine # MarkerLine
      BY <1>b DEF NotMarker
    <3>3. QED
      BY <1>0, <1>a, <2>1, <3>1, <3>2, AppendLine, <1>c DEF IInv, TypeOK
  <2>4. QED
    BY <2>2, <2>3
<1>2. CASE SudoshAuth
  <2>1. spc = "auth" /\ ~ran /\ UNCHANGED <<cfg, stdin, ran, leaked, hstate, flags, pwsent>>
    BY <1>2 DEF SudoshAuth, IInv, HostVars
  <2>2. chan' \in {chan, Append(chan, PromptLine)} /\ spc' \in {"await_pw", "run"}
    BY <1>2 DEF SudoshAuth
  <2>3. PromptLine \in Lines /\ PromptLine # MarkerLine
    BY <1>b DEF NotMarker
  <2>4. QED
    BY <1>0, <1>a, <2>1, <2>2, <2>3, AppendLine, <1>c DEF IInv, TypeOK
<1>3. CASE SudoshCheckPassword
  <2>1. spc = "await_pw" /\ ~ran /\ stdin' = FALSE
        /\ UNCHANGED <<cfg, ran, leaked, hstate, flags, pwsent>>
    BY <1>3 DEF SudoshCheckPassword, IInv, HostVars
  <2>2. CASE cfg.passok
    <3>1. chan' = Append(chan, AuthOkLine) /\ spc' = "run"
      BY <1>3, <2>2 DEF SudoshCheckPassword
    <3>2. AuthOkLine \in Lines /\ AuthOkLine # MarkerLine
      BY <1>b DEF NotMarker
    <3>3. QED
      BY <1>0, <1>a, <2>1, <3>1, <3>2, AppendLine, <1>c DEF IInv, TypeOK
  <2>3. CASE ~cfg.passok
    <3>1. chan' = chan \o <<SorryLine, AuthFailLine>> /\ spc' = "exited"
      BY <1>3, <2>3 DEF SudoshCheckPassword
    <3>2. /\ <<SorryLine, AuthFailLine>> \in Seq(Lines)
          /\ \A i \in 1..Len(<<SorryLine, AuthFailLine>>) :
                <<SorryLine, AuthFailLine>>[i] # MarkerLine
      <4>1. SorryLine \in NotMarker /\ AuthFailLine \in NotMarker
        BY DEF NotMarker
      <4>2. QED
        BY <1>b, <4>1
    <3>3. QED
      BY <1>0, <1>a, <2>1, <3>1, <3>2, ConcatLines, <1>c DEF IInv, TypeOK
  <2>4. QED
    BY <2>2, <2>3
<1>4. CASE SudoshRun
  <2>1. spc = "run" /\ spc' = "output" /\ ran' = TRUE /\ leaked' = stdin
        /\ chan' = Append(chan, MarkerLine)
        /\ UNCHANGED <<cfg, stdin, hstate, flags, pwsent>>
    BY <1>4 DEF SudoshRun, HostVars
  <2>2. \A i \in 1..Len(chan) : chan[i] = MarkerLine => ran'
    BY <2>1
  <2>3. MarkerLine \in Lines
    BY DEF Lines
  <2>4. QED
    BY <1>0, <2>1, <2>2, <2>3, AppendLine, <1>c DEF IInv, TypeOK
<1>5. CASE SudoshOutput
  <2>1. spc = "output" /\ spc' = "exited" /\ chan' = Append(chan, OutputLine)
        /\ UNCHANGED <<cfg, stdin, ran, leaked, hstate, flags, pwsent>>
    BY <1>5 DEF SudoshOutput, HostVars
  <2>2. OutputLine \in Lines /\ OutputLine # MarkerLine
    BY <1>b DEF NotMarker
  <2>3. QED
    BY <1>0, <1>a, <2>1, <2>2, AppendLine, <1>c DEF IInv, TypeOK
<1>6. CASE HostRead
  <2>1. PICK k \in 1..Len(chan) :
              /\ chan' = SubSeq(chan, k + 1, Len(chan))
              /\ hstate' = HostStep(k).st
              /\ flags' = HostStep(k).fl
              /\ pwsent' = IF HostStep(k).write THEN pwsent + 1 ELSE pwsent
              /\ stdin' = (stdin \/ HostStep(k).write)
    BY <1>6 DEF HostRead
  <2>2. hstate \in Waiting /\ UNCHANGED <<cfg, spc, ran, leaked>>
    BY <1>6 DEF HostRead
  <2> DEFINE c == SubSeq(chan, 1, k)
             fl == ChunkFlags(flags, c)
  <2>3. c \in Seq(Lines) /\ Len(c) = k /\ \A i \in 1..k : c[i] = chan[i]
    BY <1>0, SubSeqProperties
  <2>4. /\ fl \in [FlagNames -> BOOLEAN]
        /\ fl.success => flags.success \/ \E i \in 1..Len(c) : c[i] = MarkerLine
    BY <1>0, <2>3, ChunkFlagsProps
  <2>5. fl.success => ran
    BY <2>3, <2>4 DEF IInv
  <2>6. HostStep(k) = AwaitEscalation(AwaitPrompt(hstate, fl))
    BY DEF HostStep
  <2>7. /\ HostStep(k).st \in Waiting \cup Verdicts
        /\ HostStep(k).fl \in [FlagNames -> BOOLEAN]
        /\ HostStep(k).write \in BOOLEAN
        /\ HostStep(k).st = "ready_to_send" => fl.success
        /\ HostStep(k).fl.success => fl.success
        /\ HostStep(k).write => hstate = "awaiting_prompt" /\ HostStep(k).st # "awaiting_prompt"
        /\ HostStep(k).st = "awaiting_prompt" => hstate = "awaiting_prompt"
    BY <2>2, <2>4, <2>6, AwaitSteps
  <2>8. /\ chan' \in Seq(Lines) /\ Len(chan') = Len(chan) - k
        /\ \A i \in 1..Len(chan') : chan'[i] = chan[i + k]
    BY <1>0, <2>1, SubSeqProperties
  <2>9. \A i \in 1..Len(chan') : chan'[i] = MarkerLine => ran'
    <3> SUFFICES ASSUME NEW i \in 1..Len(chan'), chan'[i] = MarkerLine PROVE ran'
      OBVIOUS
    <3>1. i + k \in 1..Len(chan) /\ chan[i + k] = MarkerLine
      BY <2>8
    <3>2. ran
      BY <3>1, <1>a
    <3>3. QED
      BY <3>2, <2>2
  <2>10. pwsent' \in 0..1 /\ (pwsent' = 1 => hstate' # "awaiting_prompt")
    BY <2>1, <2>7, <1>0 DEF IInv
  <2>11. QED
    BY <2>1, <2>2, <2>5, <2>7, <2>8, <2>9, <2>10, <1>0
       DEF IInv, TypeOK, SuccessMeansCommandRan
<1>7. CASE UNCHANGED vars
  BY <1>7 DEF vars, IInv, TypeOK, SuccessMeansCommandRan
<1>8. QED
  BY <1>1, <1>2, <1>3, <1>4, <1>5, <1>6, <1>7 DEF Next

(* With become_pass set, the host reports escalation success only for a   *)
(* task whose wrapped command started: no sudosh banner or authentication *)
(* line is taken for the success marker (check_password_prompt and       *)
(* check_success, lines 304-344, in the host's order), for every task    *)
(* configuration.                                                          *)
THEOREM SuccessOnlyAfterRun ==
    ASSUME PasswordMode PROVE Spec => []SuccessMeansCommandRan
<1>1. Init => IInv
  BY InitIInv
<1>2. IInv /\ [Next]_vars => IInv'
  BY StepIInv
<1>3. IInv => SuccessMeansCommandRan
  BY DEF IInv
<1>4. QED
  BY <1>1, <1>2, <1>3, PTL DEF Spec

(* With become_pass set, the session implements the safety part of      *)
(* BecomeEscalation under the refinement mapping of SudoshSession: sudosh *)
(* starts the wrapped command at most once and only before it exits, and  *)
(* each read of the become loop (lines 304-344) either leaves the host    *)
(* waiting or gives its one verdict, success only for a started command.  *)
THEOREM ImplementsEscalationSafety ==
    ASSUME PasswordMode
    PROVE  Spec => Escalation!AInit /\ [][Escalation!ANext]_Escalation!avars
<1>1. Init => Escalation!AInit
  BY DEF Init, Escalation!AInit, ExpectPrompt, Waiting
<1>2. IInv /\ IInv' /\ [Next]_vars => [Escalation!ANext]_Escalation!avars
  <2> SUFFICES ASSUME IInv, IInv', [Next]_vars
               PROVE  [Escalation!ANext]_Escalation!avars
    OBVIOUS
  <2>0. hstate \in Waiting \cup Verdicts /\ hstate' \in Waiting \cup Verdicts
    BY DEF IInv, TypeOK
  <2>1. CASE SudoshStart \/ SudoshAuth \/ SudoshCheckPassword \/ SudoshOutput
    <3>1. spc # "exited" /\ UNCHANGED <<hstate, ran>>
      BY <2>1 DEF SudoshStart, SudoshAuth, SudoshCheckPassword, SudoshOutput, HostVars
    <3>2. CASE spc' = "exited"
      BY <3>1, <3>2 DEF Escalation!ANext, Escalation!EndRemote
    <3>3. CASE spc' # "exited"
      BY <3>1, <3>3 DEF Escalation!avars
    <3>4. QED
      BY <3>2, <3>3
  <2>2. CASE SudoshRun
    <3>1. spc = "run" /\ spc' = "output" /\ ran' = TRUE /\ UNCHANGED hstate
      BY <2>2 DEF SudoshRun, HostVars
    <3>2. ~ran
      BY <3>1 DEF IInv
    <3>3. QED
      BY <3>1, <3>2 DEF Escalation!ANext, Escalation!StartCommand
  <2>3. CASE HostRead
    <3>1. hstate \in Waiting /\ UNCHANGED <<spc, ran>>
      BY <2>3 DEF HostRead
    <3>2. CASE hstate' \in Waiting
      BY <3>1, <3>2 DEF Escalation!avars
    <3>3. CASE hstate' \in Verdicts
      <4>1. hstate' = "ready_to_send" => ran
        BY <3>1 DEF IInv, SuccessMeansCommandRan
      <4>2. "pending" \notin Verdicts /\ Waiting \cap Verdicts = {}
        BY DEF Verdicts, Waiting
      <4>3. QED
        BY <3>1, <3>3, <4>1, <4>2 DEF Escalation!ANext, Escalation!Decide
    <3>4. QED
      BY <2>0, <3>2, <3>3
  <2>4. CASE UNCHANGED vars
    BY <2>4 DEF vars, Escalation!avars
  <2>5. QED
    BY <2>1, <2>2, <2>3, <2>4 DEF Next
<1>3. QED
  BY <1>1, <1>2, InitIInv, StepIInv, PTL DEF Spec

-----------------------------------------------------------------------------
(* The type invariant, for every task configuration, with become_pass set *)
(* or not.                                                                *)

\* the inductive invariant of SessionTypeCorrect: a written password means
\* the host has left awaiting_prompt, so it is written at most once
TInv ==
    /\ TypeOK
    /\ cfg \in Configs
    /\ pwsent = 1 => hstate # "awaiting_prompt"

(* The flags after a chunk are flags, whatever the host expects. *)
LEMMA ChunkFlagsType ==
    ASSUME NEW c, NEW fl
    PROVE  ChunkFlags(fl, c) \in [FlagNames -> BOOLEAN]
BY DEF ChunkFlags

LEMMA TInvInit == Init => TInv
<1> SUFFICES ASSUME Init PROVE TInv
  OBVIOUS
<1>1. cfg \in Configs /\ hstate \in Waiting /\ chan = <<>> /\ chan \in Seq(Lines)
  BY DEF Init, Configs, Waiting
<1>2. stdin \in BOOLEAN /\ ran \in BOOLEAN /\ leaked \in BOOLEAN
  BY Zenon DEF Init
<1>3. flags \in [FlagNames -> BOOLEAN] /\ spc = "start" /\ pwsent = 0
  BY Zenon DEF Init, NoFlags
<1>4. QED
  BY <1>1, <1>2, <1>3 DEF TInv, TypeOK

LEMMA TInvStep == TInv /\ [Next]_vars => TInv'
<1> SUFFICES ASSUME TInv, [Next]_vars PROVE TInv'
  OBVIOUS
<1>0. /\ cfg \in Configs /\ chan \in Seq(Lines) /\ hstate \in Waiting \cup Verdicts
      /\ flags \in [FlagNames -> BOOLEAN] /\ pwsent \in 0..1
      /\ stdin \in BOOLEAN /\ ran \in BOOLEAN /\ leaked \in BOOLEAN
  BY DEF TInv, TypeOK
<1>a. NotMarker \subseteq Lines
  BY NotMarkerLines
<1>b. ASSUME UNCHANGED <<cfg, hstate, flags, pwsent>>, chan' \in Seq(Lines),
             spc' \in {"start", "auth", "await_pw", "run", "output", "exited"},
             stdin' \in BOOLEAN, ran' \in BOOLEAN, leaked' \in BOOLEAN
      PROVE  TInv'
  BY <1>0, <1>b DEF TInv, TypeOK
<1>1. CASE SudoshStart
  <2>1. /\ chan' \in {chan, Append(chan, AugmentLine), Append(chan, AnsibleLine)}
        /\ spc' \in {"exited", "auth"}
        /\ UNCHANGED <<cfg, stdin, ran, leaked, hstate, flags, pwsent>>
    BY <1>1 DEF SudoshStart, HostVars
  <2>2. AugmentLine \in Lines /\ AnsibleLine \in Lines
    BY <1>a DEF NotMarker
  <2>3. chan' \in Seq(Lines)
    BY <1>0, <2>1, <2>2, AppendProperties
  <2>4. QED
    BY <1>0, <2>1, <2>3, <1>b
<1>2. CASE SudoshAuth
  <2>1. /\ chan' \in {chan, Append(chan, PromptLine)} /\ spc' \in {"await_pw", "run"}
        /\ UNCHANGED <<cfg, stdin, ran, leaked, hstate, flags, pwsent>>
    BY <1>2 DEF SudoshAuth, HostVars
  <2>2. chan' \in Seq(Lines)
    BY <1>0, <1>a, <2>1, AppendProperties DEF NotMarker
  <2>3. QED
    BY <1>0, <2>1, <2>2, <1>b
<1>3. CASE SudoshCheckPassword
  <2>1. /\ chan' \in {Append(chan, AuthOkLine), chan \o <<SorryLine, AuthFailLine>>}
        /\ spc' \in {"run", "exited"} /\ stdin' = FALSE
        /\ UNCHANGED <<cfg, ran, leaked, hstate, flags, pwsent>>
    BY <1>3 DEF SudoshCheckPassword, HostVars
  <2>2. AuthOkLine \in Lines /\ <<SorryLine, AuthFailLine>> \in Seq(Lines)
    BY <1>a DEF NotMarker
  <2>3. chan' \in Seq(Lines)
    <3>1. Append(chan, AuthOkLine) \in Seq(Lines)
      BY <1>0, <2>2, AppendProperties
    <3>2. chan \o <<SorryLine, AuthFailLine>> \in Seq(Lines)
      BY <1>0, <2>2, ConcatProperties
    <3>3. QED
      BY <2>1, <3>1, <3>2, Zenon
  <2>4. QED
    BY <1>0, <2>1, <2>3, <1>b
<1>4. CASE SudoshRun
  <2>1. /\ chan' = Append(chan, MarkerLine) /\ spc' = "output" /\ ran' = TRUE
        /\ leaked' = stdin /\ UNCHANGED <<cfg, stdin, hstate, flags, pwsent>>
    BY <1>4 DEF SudoshRun, HostVars
  <2>2. chan' \in Seq(Lines)
    BY <1>0, <2>1, AppendProperties DEF Lines
  <2>3. QED
    BY <1>0, <2>1, <2>2, <1>b
<1>5. CASE SudoshOutput
  <2>1. /\ chan' = Append(chan, OutputLine) /\ spc' = "exited"
        /\ UNCHANGED <<cfg, stdin, ran, leaked, hstate, flags, pwsent>>
    BY <1>5 DEF SudoshOutput, HostVars
  <2>2. chan' \in Seq(Lines)
    BY <1>0, <1>a, <2>1, AppendProperties DEF NotMarker
  <2>3. QED
    BY <1>0, <2>1, <2>2, <1>b
<1>6. CASE HostRead
  <2>1. PICK k \in 1..Len(chan) :
              /\ chan' = SubSeq(chan, k + 1, Len(chan))
              /\ hstate' = HostStep(k).st
              /\ flags' = HostStep(k).fl
              /\ pwsent' = IF HostStep(k).write THEN pwsent + 1 ELSE pwsent
              /\ stdin' = (stdin \/ HostStep(k).write)
    BY <1>6 DEF HostRead
  <2>2. hstate \in Waiting /\ UNCHANGED <<cfg, spc, ran, leaked>>
    BY <1>6 DEF HostRead
  <2> DEFINE fl == ChunkFlags(flags, SubSeq(chan, 1, k))
  <2>3. fl \in [FlagNames -> BOOLEAN]
    BY ChunkFlagsType
  <2>4. /\ HostStep(k).st \in Waiting \cup Verdicts
        /\ HostStep(k).fl \in [FlagNames -> BOOLEAN]
        /\ HostStep(k).write \in BOOLEAN
        /\ HostStep(k).write => hstate = "awaiting_prompt" /\ HostStep(k).st # "awaiting_prompt"
        /\ HostStep(k).st = "awaiting_prompt" => hstate = "awaiting_prompt"
    <3>1. HostStep(k) = AwaitEscalation(AwaitPrompt(hstate, fl))
      BY DEF HostStep, fl
    <3>2. QED
      BY <2>2, <2>3, <3>1, AwaitSteps
  <2>5. chan' \in Seq(Lines)
    BY <1>0, <2>1, SubSeqProperties
  <2>6. pwsent' \in 0..1 /\ (pwsent' = 1 => hstate' # "awaiting_prompt")
    BY <1>0, <2>1, <2>4 DEF TInv
  <2>7. stdin' \in BOOLEAN
    BY <1>0, <2>1, <2>4
  <2>8. QED
    BY <1>0, <2>1, <2>2, <2>4, <2>5, <2>6, <2>7 DEF TInv, TypeOK
<1>7. CASE UNCHANGED vars
  BY <1>7 DEF vars, TInv, TypeOK
<1>8. QED
  BY <1>1, <1>2, <1>3, <1>4, <1>5, <1>6, <1>7 DEF Next

(* Every state of a session has its type, with become_pass set or not:  *)
(* in particular the host writes the password at most once per task      *)
(* (pwsent \in 0..1), because the awaiting_prompt step that writes it    *)
(* leaves awaiting_prompt for good.                                       *)
THEOREM SessionTypeCorrect == Spec => []TypeOK
<1>1. Init => TInv
  BY TInvInit
<1>2. TInv /\ [Next]_vars => TInv'
  BY TInvStep
<1>3. TInv => TypeOK
  BY DEF TInv
<1>4. QED
  BY <1>1, <1>2, <1>3, PTL DEF Spec

=============================================================================
