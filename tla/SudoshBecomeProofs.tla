------------------------- MODULE SudoshBecomeProofs -------------------------
(***************************************************************************)
(* Proofs about SudoshBecome for every value of its constants: the type   *)
(* invariant, and that a built command carries the verbose flag exactly  *)
(* when the option asks for it.                                           *)
(***************************************************************************)
EXTENDS SudoshBecome, WellFoundedInduction, SequenceTheorems, TLAPS

(* A non-empty set of positions of a sequence has a greatest element.    *)
(* It is what makes the "last n" that StripN removes well defined.       *)
LEMMA MaxIndex ==
    \A N \in Nat : \A I \in SUBSET (1..N) :
        I # {} => \E i \in I : \A j \in I : j <= i
<1> SUFFICES ASSUME NEW N \in Nat, NEW I \in SUBSET (1..N), I # {}
             PROVE  \E i \in I : \A j \in I : j <= i
  OBVIOUS
<1> DEFINE T == {N - i : i \in I}
<1>1. T \subseteq Nat
  BY SMT DEF T
<1>2. T # {}
  BY DEF T
<1>3. PICK x \in T : \A y \in T : ~(<<y, x>> \in OpToRel(<, Nat))
  BY <1>1, <1>2, NatLessThanWellFounded, WFMin
<1>4. \A y \in T : ~(<<y, x>> \in {ss \in Nat \X Nat : ss[1] < ss[2]})
  BY <1>3, Zenon DEF OpToRel
<1>5. \A y \in T : ~(y < x)
  BY <1>1, <1>4
<1>6. PICK i \in I : x = N - i
  BY DEF T
<1>7. \A j \in I : j <= i
  BY <1>5, <1>6 DEF T
<1>8. QED
  BY <1>7

(* Removing one element of a sequence leaves a sequence of the same set. *)
LEMMA RemoveAtType ==
    ASSUME NEW S, NEW s \in Seq(S), NEW k \in 1..Len(s)
    PROVE  RemoveAt(s, k) \in Seq(S)
BY DEF RemoveAt

(* Deleting the last "n" of a cluster leaves a cluster of switch letters. *)
LEMMA StripNType ==
    ASSUME NEW sw \in Seq(Letters)
    PROVE  StripN(sw) \in Seq(Letters)
<1> DEFINE IsLast(i) == sw[i] = "n" /\ \A j \in DOMAIN sw : j > i => sw[j] # "n"
<1>1. CASE \E i \in DOMAIN sw : sw[i] = "n"
  <2> DEFINE I == {i \in 1..Len(sw) : sw[i] = "n"}
  <2>1. Len(sw) \in Nat /\ I \in SUBSET (1..Len(sw)) /\ I # {}
    BY <1>1 DEF I
  <2>2. PICK m \in I : \A j \in I : j <= m
    BY <2>1, MaxIndex, Zenon DEF I
  <2>3. \E i \in DOMAIN sw : IsLast(i)
    BY <2>2 DEF I, IsLast
  <2> DEFINE last == CHOOSE i \in DOMAIN sw : IsLast(i)
  <2>4. last \in 1..Len(sw)
    BY <2>3 DEF last
  <2>8. RemoveAt(sw, last) \in Seq(Letters)
    BY <2>4, RemoveAtType
  <2>9. QED
    BY <1>1, <2>8 DEF StripN, last, IsLast
<1>2. CASE ~\E i \in DOMAIN sw : sw[i] = "n"
  BY <1>2 DEF StripN
<1>3. QED
  BY <1>1, <1>2

(* The long flags the plugin writes are tokens. *)
LEMMA NamedTokens ==
    {Detect, Verbose, AnsibleForce, NoSessionLog, NonInteractive} \subseteq Token
BY DEF Detect, Verbose, AnsibleForce, NoSessionLog, NonInteractive, Long, Token,
       LongNames

LEMMA ReflagType ==
    ASSUME NEW t \in Token \cup {Gone}
    PROVE  Reflag(t) \in Token \cup {Gone}
<1> DEFINE ShortTok == [form : {"short"}, name : {""}, sw : Seq(Letters)]
<1>1. CASE t.form = "short" /\ t \notin {Short(<<"n">>), NonInteractive}
  <2>0. Gone.form # "short"
    BY DEF Gone
  <2>a. t # Gone
    BY <1>1, <2>0
  <2>b. /\ t \notin [form : {"long"}, name : LongNames, sw : {<<>>}]
        /\ t \notin [form : {"arg"}, name : ArgValues, sw : {<<>>}]
    BY <1>1
  <2>1. t \in ShortTok
    BY <2>a, <2>b DEF Token, ShortTok
  <2>2. t.sw \in Seq(Letters)
    BY <2>1 DEF ShortTok
  <2>3. StripN(t.sw) \in Seq(Letters)
    BY <2>2, StripNType
  <2>4. Short(StripN(t.sw)) \in ShortTok
    BY <2>3 DEF Short, ShortTok
  <2>5. Reflag(t) = Short(StripN(t.sw))
    BY <1>1 DEF Reflag
  <2>6. Reflag(t) \in Token
    BY <2>4, <2>5 DEF Token, ShortTok
  <2>7. QED
    BY <2>6
<1>2. CASE ~(t.form = "short" /\ t \notin {Short(<<"n">>), NonInteractive})
  BY <1>2 DEF Reflag
<1>3. QED
  BY <1>1, <1>2

(* The flags the user gave, after the verbose flag is replaced, are tokens. *)
LEMMA UserFlagsType ==
    ASSUME NEW o \in Options, UserFlags(o) # Malformed
    PROVE  /\ ResolvedFlags(o) \in Seq(Token)
           /\ UserFlags(o) \in Seq(Token \cup {Gone})
<1>1. ResolvedFlags(o) \in Seq(Token) \cup {Malformed}
  <2>1. CASE FlagsSet(o.become_flags)
    BY <2>1, ConstantsAssumption DEF ResolvedFlags, FlagsSet, Options
  <2>2. CASE ~FlagsSet(o.become_flags)
    BY <2>2, NamedTokens DEF ResolvedFlags
  <2>3. QED
    BY <2>1, <2>2
<1>2. ResolvedFlags(o) # Malformed
  BY DEF UserFlags
<1>3. UserFlags(o) \in Seq(Token \cup {Gone})
  <2>1. CASE o.sudosh_detection_verbose
    BY <1>1, <2>1 DEF UserFlags
  <2>2. CASE ~o.sudosh_detection_verbose
    BY <1>1, <2>2 DEF UserFlags, ReplaceAll
  <2>3. QED
    BY <2>1, <2>2, ConstantsAssumption DEF Options
<1>4. QED
  BY <1>1, <1>2, <1>3

(* The flags derived from the boolean options are tokens. *)
LEMMA SudoshFlagsType ==
    ASSUME NEW o \in Options
    PROVE  SudoshFlags(o) \in Seq(Token)
<1>1. /\ (IF o.sudosh_detection_force THEN <<AnsibleForce>> ELSE <<>>) \in Seq(Token)
      /\ (IF o.sudosh_detection_verbose THEN <<Verbose>> ELSE <<>>) \in Seq(Token)
      /\ (IF o.sudosh_session_log THEN <<>> ELSE <<NoSessionLog>>) \in Seq(Token)
  BY NamedTokens
<1>2. QED
  BY <1>1 DEF SudoshFlags

LEMMA FinalFlagsType ==
    ASSUME NEW o \in Options, UserFlags(o) # Malformed
    PROVE  FinalFlags(o) \in Seq(Token \cup {Gone})
<1>1. AllFlags(o) \in Seq(Token \cup {Gone})
  BY UserFlagsType, SudoshFlagsType DEF AllFlags
<1>2. \A i \in DOMAIN AllFlags(o) : Reflag(AllFlags(o)[i]) \in Token \cup {Gone}
  BY <1>1, ReflagType
<1>3. QED
  BY <1>1, <1>2 DEF FinalFlags

LEMMA AnnotationsType ==
    ASSUME NEW o \in Options, NEW e \in Environments
    PROVE  Annotations(o, e) \in Seq(Annotation)
<1>1. AmbientKeys = {"ANSIBLE_MODULE_NAME", "ANSIBLE_TASK_UUID",
                      "ANSIBLE_PLAYBOOK_DIR", "ANSIBLE_INVENTORY",
                      "ANSIBLE_CONFIG"}
  BY DEF AmbientKeys, FixedKeys, OptionalKeys, ToSet
<1>2. \A k \in AmbientKeys : k \in AnnotationKeys /\ e[k] \in EnvValues \cup {Absent}
  BY DEF Environments, AnnotationKeys
<1>3. (IF Truthy(o.become_user) THEN o.become_user ELSE "root")
          \in (UserValues \ {None}) \cup {"root"}
  BY DEF Options, Truthy
<1>4. ASSUME NEW k \in AmbientKeys
      PROVE  /\ EnvGet(e, k) \in EnvValues \cup {"unknown"}
             /\ EnvOpt(e, k) \in Seq(Annotation)
  <2>1. k \in AnnotationKeys /\ e[k] \in EnvValues \cup {Absent}
    BY <1>2
  <2>2. EnvGet(e, k) \in EnvValues \cup {"unknown"}
    BY <2>1 DEF EnvGet
  <2>3. EnvOpt(e, k) \in Seq(Annotation)
    <3>1. CASE e[k] \notin {Absent, ""}
      <4>0. e[k] \in EnvValues
        BY <2>1, <3>1
      <4>1. [key |-> k, val |-> e[k]] \in Annotation
        BY <2>1, <4>0 DEF Annotation
      <4>2. <<[key |-> k, val |-> e[k]]>> \in Seq(Annotation)
        BY <4>1
      <4>3. QED
        BY <3>1, <4>2 DEF EnvOpt
    <3>2. CASE e[k] \in {Absent, ""}
      <4>1. EnvOpt(e, k) = << >>
        BY <3>2 DEF EnvOpt
      <4>2. QED
        BY <4>1, EmptySeq
    <3>3. QED
      BY <3>1, <3>2
  <2>4. QED
    BY <2>2, <2>3
<1>5. "ANSIBLE_BECOME_METHOD" \in AnnotationKeys
      /\ "ANSIBLE_BECOME_USER" \in AnnotationKeys
  BY DEF AnnotationKeys
<1>6. << [key |-> "ANSIBLE_BECOME_METHOD", val |-> "sudosh"],
         [key |-> "ANSIBLE_BECOME_USER",
          val |-> IF Truthy(o.become_user) THEN o.become_user ELSE "root"],
         [key |-> "ANSIBLE_MODULE_NAME", val |-> EnvGet(e, "ANSIBLE_MODULE_NAME")],
         [key |-> "ANSIBLE_TASK_UUID", val |-> EnvGet(e, "ANSIBLE_TASK_UUID")] >>
      \in Seq(Annotation)
  <2>1. "ANSIBLE_MODULE_NAME" \in AmbientKeys /\ "ANSIBLE_TASK_UUID" \in AmbientKeys
    BY <1>1
  <2>2. "ANSIBLE_MODULE_NAME" \in AnnotationKeys /\ "ANSIBLE_TASK_UUID" \in AnnotationKeys
    BY <2>1, <1>2
  <2>3. /\ EnvGet(e, "ANSIBLE_MODULE_NAME") \in EnvValues \cup {"unknown"}
        /\ EnvGet(e, "ANSIBLE_TASK_UUID") \in EnvValues \cup {"unknown"}
    BY <2>1, <1>4
  <2>4. QED
    BY <1>3, <1>5, <2>2, <2>3 DEF Annotation
<1>7. /\ EnvOpt(e, "ANSIBLE_PLAYBOOK_DIR") \in Seq(Annotation)
      /\ EnvOpt(e, "ANSIBLE_INVENTORY") \in Seq(Annotation)
      /\ EnvOpt(e, "ANSIBLE_CONFIG") \in Seq(Annotation)
  BY <1>1, <1>4
<1>8. QED
  BY <1>6, <1>7 DEF Annotations

LEMMA BuiltCommandType ==
    ASSUME NEW o \in Options, NEW e \in Environments, NEW n \in 1..MaxBuilds,
           UserFlags(o) # Malformed
    PROVE  BuiltCommand(o, e, n) \in Command
<1>1. BecomeCmd(o) \in ExeValues \ {None}
  BY ConstantsAssumption DEF BecomeCmd, Options, Truthy
<1>2. (IF Truthy(o.become_user) THEN o.become_user ELSE "")
          \in (UserValues \ {None}) \cup {""}
  BY DEF Options, Truthy
<1>3. QED
  BY <1>1, <1>2, FinalFlagsType, AnnotationsType DEF BuiltCommand, Command

-----------------------------------------------------------------------------
(* A step of the plugin preserves the type of its state. *)
LEMMA TypeStep == TypeOK /\ [Next]_vars => TypeOK'
<1> SUFFICES ASSUME TypeOK, [Next]_vars PROVE TypeOK'
  OBVIOUS
<1>1. ASSUME NEW o \in Options, SetOptions(o) PROVE TypeOK'
  BY <1>1 DEF SetOptions, TypeOK
<1>2. ASSUME NEW c \in Commands, BuildBecomeCommand(c) PROVE TypeOK'
  <2>0. /\ id < MaxBuilds /\ id' = id + 1 /\ success' = id + 1
        /\ opts' = opts /\ environ' = environ
    BY <1>2 DEF BuildBecomeCommand
  <2>1. id' \in 0..MaxBuilds /\ success' = id' /\ opts' \in Options
        /\ environ' \in Environments
    BY <2>0, ConstantsAssumption DEF TypeOK
  <2>2. prompt' \in 0..id'
    <3>1. prompt' \in {prompt, id + 1}
      BY <1>2 DEF BuildBecomeCommand, NewPrompt
    <3>2. QED
      BY <2>0, <3>1 DEF TypeOK
  <2>3. built' \in Command \cup {NotBuilt, Unchanged, BuildError}
    <3>1. CASE built' \in {Unchanged, BuildError}
      BY <3>1
    <3>2. CASE UserFlags(opts) # Malformed
               /\ built' = BuiltCommand(opts, environ, id + 1)
      <4>1. id + 1 \in 1..MaxBuilds /\ opts \in Options /\ environ \in Environments
        BY <2>0, ConstantsAssumption DEF TypeOK
      <4>2. QED
        BY <3>2, <4>1, BuiltCommandType
    <3>3. QED
      BY <1>2, <3>1, <3>2 DEF BuildBecomeCommand
  <2>4. QED
    BY <2>1, <2>2, <2>3 DEF TypeOK
<1>3. CASE UNCHANGED vars
  BY <1>3 DEF vars, TypeOK
<1>4. QED
  BY <1>1, <1>2, <1>3 DEF Next

(* The initial state of the plugin has its type. *)
LEMMA InitType == Init => TypeOK
BY ConstantsAssumption
DEF Init, TypeOK, DefaultOptions, Options, NotBuilt, Command, NoPrompt

(* The state of the plugin always has its type: in particular every built *)
(* command is made of flag tokens, annotations and strings, whatever the  *)
(* options and the environment.                                           *)
THEOREM TypeCorrect == Spec => []TypeOK
BY InitType, TypeStep, PTL DEF Spec

-----------------------------------------------------------------------------
(* --ansible-verbose reaches sudosh exactly when verbose detection is on. *)

\* x is an element of the sequence s
Has(s, x) == \E i \in 1..Len(s) : s[i] = x

(* An element of a concatenation is an element of one of its parts. *)
LEMMA ConcatHas ==
    ASSUME NEW S, NEW s \in Seq(S), NEW t \in Seq(S), NEW x
    PROVE  Has(s \o t, x) <=> Has(s, x) \/ Has(t, x)
<1>1. /\ Len(s \o t) = Len(s) + Len(t)
      /\ \A i \in 1..Len(s) + Len(t) :
            (s \o t)[i] = IF i <= Len(s) THEN s[i] ELSE t[i - Len(s)]
      /\ Len(s) \in Nat /\ Len(t) \in Nat
  BY ConcatProperties, LenProperties
<1>2. ASSUME Has(s \o t, x) PROVE Has(s, x) \/ Has(t, x)
  <2>1. PICK i \in 1..Len(s \o t) : (s \o t)[i] = x
    BY <1>2 DEF Has
  <2>2. CASE i <= Len(s)
    BY <1>1, <2>1, <2>2 DEF Has
  <2>3. CASE i > Len(s)
    <3>1. i - Len(s) \in 1..Len(t) /\ t[i - Len(s)] = x
      BY <1>1, <2>1, <2>3
    <3>2. QED
      BY <3>1 DEF Has
  <2>4. QED
    BY <1>1, <2>2, <2>3
<1>3. ASSUME Has(s, x) PROVE Has(s \o t, x)
  <2>1. PICK i \in 1..Len(s) : s[i] = x
    BY <1>3 DEF Has
  <2>2. QED
    BY <1>1, <2>1 DEF Has
<1>4. ASSUME Has(t, x) PROVE Has(s \o t, x)
  <2>1. PICK i \in 1..Len(t) : t[i] = x
    BY <1>4 DEF Has
  <2>2. Len(s) + i \in 1..Len(s \o t) /\ (s \o t)[Len(s) + i] = x
    BY <1>1, <2>1
  <2>3. QED
    BY <2>2 DEF Has
<1>5. QED
  BY <1>2, <1>3, <1>4

(* The flag loop of password mode (lines 270-276) neither removes nor    *)
(* creates --ansible-verbose.                                            *)
LEMMA ReflagVerbose ==
    ASSUME NEW t \in Token \cup {Gone}
    PROVE  Reflag(t) = Verbose <=> t = Verbose
<1>1. Verbose \notin {Short(<<"n">>), NonInteractive} /\ Verbose.form = "long"
  BY DEF Verbose, NonInteractive, Long, Short
<1>2. Reflag(Verbose) = Verbose
  BY <1>1 DEF Reflag
<1>3. Gone # Verbose /\ \A w : Short(w) # Verbose
  BY DEF Gone, Verbose, Long, Short
<1>4. ASSUME t # Verbose PROVE Reflag(t) # Verbose
  BY <1>3, <1>4 DEF Reflag
<1>5. QED
  BY <1>2, <1>4

(* --ansible-verbose is among the flags of the command exactly when      *)
(* sudosh_detection_verbose is set: the replace of line 252 removes every *)
(* copy the user gave, line 249 appends one, and the password-mode loop  *)
(* keeps it.                                                              *)
LEMMA VerboseInFinalFlags ==
    ASSUME NEW o \in Options, UserFlags(o) # Malformed
    PROVE  Has(FinalFlags(o), Verbose) <=> o.sudosh_detection_verbose
<1> DEFINE TS == Token \cup {Gone}
<1>0. /\ ResolvedFlags(o) \in Seq(Token) /\ UserFlags(o) \in Seq(TS)
      /\ SudoshFlags(o) \in Seq(TS) /\ AllFlags(o) \in Seq(TS)
  <2>1. ResolvedFlags(o) \in Seq(Token) /\ UserFlags(o) \in Seq(TS)
    BY UserFlagsType
  <2>2. SudoshFlags(o) \in Seq(TS)
    BY SudoshFlagsType
  <2>3. QED
    BY <2>1, <2>2, ConcatProperties DEF AllFlags
<1>1. Has(FinalFlags(o), Verbose) <=> Has(AllFlags(o), Verbose)
  <2>1. CASE Truthy(o.become_pass)
    <3>1. FinalFlags(o) = [i \in 1..Len(AllFlags(o)) |-> Reflag(AllFlags(o)[i])]
      BY <1>0, <2>1, LenProperties DEF FinalFlags
    <3>2. Len(FinalFlags(o)) = Len(AllFlags(o))
      BY <1>0, <3>1, LenProperties
    <3>3. \A i \in 1..Len(AllFlags(o)) :
              FinalFlags(o)[i] = Verbose <=> AllFlags(o)[i] = Verbose
      BY <1>0, <3>1, ElementOfSeq, ReflagVerbose
    <3>4. QED
      BY <3>2, <3>3 DEF Has
  <2>2. CASE ~Truthy(o.become_pass)
    BY <2>2 DEF FinalFlags
  <2>3. QED
    BY <2>1, <2>2
<1>2. Has(AllFlags(o), Verbose) <=> Has(UserFlags(o), Verbose) \/ Has(SudoshFlags(o), Verbose)
  BY <1>0, ConcatHas DEF AllFlags
<1> DEFINE F == IF o.sudosh_detection_force THEN <<AnsibleForce>> ELSE <<>>
           V == IF o.sudosh_detection_verbose THEN <<Verbose>> ELSE <<>>
           L == IF o.sudosh_session_log THEN <<>> ELSE <<NoSessionLog>>
<1>3. /\ SudoshFlags(o) = (F \o V) \o L
      /\ F \in Seq(TS) /\ V \in Seq(TS) /\ L \in Seq(TS)
  <2>1. SudoshFlags(o) = (F \o V) \o L
    BY DEF SudoshFlags, F, V, L
  <2>2. AnsibleForce \in TS /\ Verbose \in TS /\ NoSessionLog \in TS
    BY NamedTokens DEF TS
  <2>3. <<>> \in Seq(TS) /\ <<AnsibleForce>> \in Seq(TS) /\ <<Verbose>> \in Seq(TS)
        /\ <<NoSessionLog>> \in Seq(TS)
    BY <2>2
  <2>4. QED
    BY <2>1, <2>3 DEF F, V, L
<1>4. Has(SudoshFlags(o), Verbose) <=> Has(F, Verbose) \/ Has(V, Verbose) \/ Has(L, Verbose)
  <2>1. F \o V \in Seq(TS)
    BY <1>3, ConcatProperties
  <2>2. Has((F \o V) \o L, Verbose) <=> Has(F \o V, Verbose) \/ Has(L, Verbose)
    BY <1>3, <2>1, ConcatHas
  <2>3. Has(F \o V, Verbose) <=> Has(F, Verbose) \/ Has(V, Verbose)
    BY <1>3, ConcatHas
  <2>4. QED
    BY <1>3, <2>2, <2>3
<1>5. ~Has(F, Verbose) /\ ~Has(L, Verbose) /\ (Has(V, Verbose) <=> o.sudosh_detection_verbose)
  <2>1. AnsibleForce # Verbose /\ NoSessionLog # Verbose
    BY DEF AnsibleForce, NoSessionLog, Verbose, Long
  <2>2. QED
    BY <2>1 DEF Has, Options, F, V, L
<1>6. ASSUME ~o.sudosh_detection_verbose PROVE ~Has(UserFlags(o), Verbose)
  <2>1. UserFlags(o) = ReplaceAll(ResolvedFlags(o), Verbose, Gone)
    BY <1>0, <1>6 DEF UserFlags
  <2>2. Len(UserFlags(o)) = Len(ResolvedFlags(o))
        /\ \A i \in 1..Len(ResolvedFlags(o)) :
              UserFlags(o)[i] = IF ResolvedFlags(o)[i] = Verbose THEN Gone
                                ELSE ResolvedFlags(o)[i]
    BY <1>0, <2>1, LenProperties DEF ReplaceAll
  <2>3. Gone # Verbose
    BY DEF Gone, Verbose, Long
  <2>4. QED
    BY <2>2, <2>3 DEF Has
<1>7. QED
  BY <1>1, <1>2, <1>4, <1>5, <1>6


(* The command a build returns holds the flags FinalFlags computes from   *)
(* the options it was built from, which shlex.split could tokenise.  No  *)
(* step changes a built command but the build that replaces it.         *)
BuiltFromCfg ==
    built.kind = "cmd" =>
        UserFlags(built.cfg) # Malformed /\ built.flags = FinalFlags(built.cfg)

\* the inductive invariant of VerboseMatchesOption
VInv == TypeOK /\ BuiltFromCfg

(* Every command the plugin builds passes --ansible-verbose to sudosh     *)
(* exactly when sudosh_detection_verbose is set, whatever become_flags    *)
(* holds and whether a password is set (lines 248-252 and 264-277).      *)
THEOREM VerboseMatchesOption == Spec => []VerboseFlagMatchesOption
<1>1. Init => VInv
  BY InitType DEF Init, VInv, BuiltFromCfg, NotBuilt
<1>2. VInv /\ [Next]_vars => VInv'
  <2> SUFFICES ASSUME VInv, [Next]_vars PROVE VInv'
    OBVIOUS
  <2>0. TypeOK'
    BY TypeStep DEF VInv
  <2>1. ASSUME NEW o \in Options, SetOptions(o) PROVE BuiltFromCfg'
    BY <2>1 DEF SetOptions, VInv, BuiltFromCfg
  <2>2. ASSUME NEW c \in Commands, BuildBecomeCommand(c) PROVE BuiltFromCfg'
    <3>1. CASE built' \in {Unchanged, BuildError}
      BY <3>1 DEF BuiltFromCfg, Unchanged, BuildError
    <3>2. CASE UserFlags(opts) # Malformed /\ built' = BuiltCommand(opts, environ, id + 1)
      BY <3>2 DEF BuiltFromCfg, BuiltCommand
    <3>3. QED
      BY <2>2, <3>1, <3>2 DEF BuildBecomeCommand
  <2>3. ASSUME UNCHANGED vars PROVE BuiltFromCfg'
    BY <2>3 DEF vars, VInv, BuiltFromCfg
  <2>4. QED
    BY <2>0, <2>1, <2>2, <2>3 DEF Next, VInv
<1>3. VInv => VerboseFlagMatchesOption
  <2> SUFFICES ASSUME VInv, built.kind = "cmd"
               PROVE  HasFlag(built, Verbose) <=> built.cfg.sudosh_detection_verbose
    BY DEF VerboseFlagMatchesOption
  <2>1. built \in Command
    BY DEF VInv, TypeOK, NotBuilt, Unchanged, BuildError
  <2>2. built.cfg \in Options /\ UserFlags(built.cfg) # Malformed
        /\ built.flags = FinalFlags(built.cfg)
    BY <2>1 DEF VInv, BuiltFromCfg, Command
  <2>3. DOMAIN built.flags = 1..Len(built.flags)
    BY <2>2, FinalFlagsType, LenProperties
  <2>4. HasFlag(built, Verbose) <=> Has(FinalFlags(built.cfg), Verbose)
    BY <2>2, <2>3 DEF HasFlag, Has
  <2>5. QED
    BY <2>2, <2>4, VerboseInFinalFlags
<1>4. QED
  BY <1>1, <1>2, <1>3, PTL DEF Spec

=============================================================================
