# Formal models of the sudosh Ansible become plugin

This directory holds TLA+ models of the become plugin in
`src/packaging/rpm/BUILD/sudosh-2.0.0/ansible_plugins/become/sudosh.py`
(class `BecomeModule`), together with TLC configurations and TLAPS proofs.

## The system

The plugin sits between Ansible and the `sudosh` binary. Each escalated task
goes through the following steps:

1. **Option resolution.** This belongs to the host and to Ansible's
   `BecomeBase`. The host resolves the seven options of `DOCUMENTATION`
   (lines 34-129) and sets them on the plugin instance.
2. **Command Builder.** `build_become_command` (lines 189-302) first calls
   `BecomeBase.build_become_command`, which regenerates `self._id` and
   `self.success = 'BECOME-SUCCESS-<id>'`. It then works through these steps:
   - resolves the executable and the flag string (218, 221);
   - builds the `env` annotations from the options and the controller's
     `os.environ` (224-240);
   - derives the force, verbose and no-log flags (243-255), and strips
     `--ansible-verbose` from the user's flags when verbose detection is off;
   - tokenises the flags with `shlex.split` (258-261);
   - when a password is set, keys `self.prompt` by the new id and removes the
     non-interactive switches from every flag (263-277);
   - joins `env ... exe flags -u user wrapped-command` (279-302).
3. **Host read loop.** This is external. The host runs the command and reads
   its output. While `expect_prompt()` holds (`self.prompt and become_pass`),
   it waits for `check_password_prompt` and then writes the password. It
   decides success or failure with `check_success` and with BecomeBase's
   substring checks against the `fail`/`missing` tuples (185-187).
4. **Response Classifier.** `check_password_prompt` (304-324) and
   `check_success` (326-344) each extend the base check with sudosh-specific
   markers.

The plugin instance is long-lived: one instance serves many tasks. So
`self.prompt`, `self._id` and `self.success` are state that passes from one
build to the next. The companion test file `src/tests/test_ansible_plugin.py`
describes a different, JSON-based protocol (`--ansible-mode --command`,
`--become-user`). The shipped plugin does not implement that protocol.

### Inventory of components and hazards

| Component | State | Operations | Status |
|---|---|---|---|
| Command Builder | `self._id`, `self.success`, `self.prompt`, the returned command | `build_become_command` | modelled (`SudoshBecome`; its text and the remote shell's word splitting in `SudoshCommandLine`) |
| Option resolution | the resolved options | `set_options` | external; modelled as the `SetOptions` action |
| Response Classifier | none (pure) | `check_password_prompt`, `check_success`, BecomeBase `check_incorrect_password`/`check_missing_password` | modelled (`SudoshSession`) |
| Host read loop | the output read so far, whether the password was sent | read a chunk, send the password, decide | external; modelled from Ansible's become loop (`SudoshSession`), its contract in `BecomeEscalation` |
| JSON protocol of the tests | none | parse and classify | not modelled: not implemented by the shipped plugin |
| sudosh binary | not modelled | emits prompt, banner, failure and success lines | external; the lines it writes and its stdin, in `SudoshSession` |

`PROJECT.json` lists every hazard at the line where it applies. The main
hazards are:
- state that goes stale between builds (`self.prompt`);
- the flag rewriting (string `replace`, the greedy regex);
- unquoted interpolation into the shell command line;
- prompt markers that also match failure and success lines;
- output split across reads.

## Modules

### `SudoshBecome` (Command Builder)

**Variables.** The model's variables map onto the code as follows:

| Variable | What it holds |
|---|---|
| `opts` | the resolved options |
| `environ` | the four ANSIBLE_* variables the builder reads, each `Absent` or a value |
| `id` | `self._id` |
| `success` | `self.success`, identified by its id |
| `prompt` | `self.prompt`, as `NoPrompt` or the id it is keyed by |
| `built` | what the last call returned: a command record, `Unchanged`, or `BuildError` (the `ValueError` of `shlex.split`) |

**Abstraction.** Strings are abstracted to what the properties distinguish:
- A flag token is a long flag, a short cluster (a sequence of switch
  letters), or an argument (`Arg(v)`, a token without a leading dash, from
  `ArgValues`, such as the one `shlex` makes of `'release 2'`).
- `Gone` marks a token that the code deletes or skips. It contributes no
  word, just as the empty string left by `replace` does.
- `None` stands for an unset option, and `Malformed` for a flag string with
  unbalanced quotes.

**Actions.** The model has two actions:
- `SetOptions(o)` models the host setting the options of the next task.
- `BuildBecomeCommand(c)` models the whole of `build_become_command`. It
  regenerates the id and the success marker. It returns an empty command
  unchanged. A malformed flag string raises before `self.prompt` is
  written. In every other case it writes `self.prompt` and builds the
  command.

**Operators.** The operators are named after the code's steps: `BecomeCmd`,
`ResolvedFlags`, `EnvGet`/`EnvOpt`/`Annotations`, `UserFlags` (the
`replace`), `SudoshFlags`, `AllFlags`, `StripN`/`Reflag`/`FinalFlags` (the
password-mode loop), `NewPrompt` and `BuiltCommand`.

**Token level.** Line 252 runs `str.replace` on the raw flag string before
`shlex.split`. The model replaces whole `--ansible-verbose` tokens. A
substring inside another token, or a replace that glues two pieces into a
new `--ansible-verbose` (`--ansible---ansible-verboseverbose`), cannot be
expressed over `Token`. `VerboseFlagMatchesOption` and its theorem hold at
the token level only.

**The regex.** `re.sub(r'^(-\w*)n(\w*.*)', r'\1\2', flag)` has a greedy
`\w*`, so it deletes the *last* `n` of the cluster. `StripN` deletes exactly
that one. The reference `SpecStrip` deletes every `n`, as spec section 9
asks.

## Runs

All runs use `MCSudoshBecome` and share the same instance:
- `become_exe` ∈ {"sudosh", None};
- `become_user` = "root";
- a password that is either absent or "pw";
- every combination of the three booleans;
- no ambient variables;
- the commands "" and "ls";
- `MaxBuilds = 2`, which gives two successive builds of one instance, with
  the options changed in between. Two builds are enough to reach a stale
  `self.prompt`.

`MCFlagValues` holds eight `become_flags` values:
- the empty value and the default value;
- a lone `--ansible-verbose`, and a duplicated one;
- `-kn --non-interactive`, `-n --ansible-force`, and `-nk`;
- a malformed value.

Together these reach every branch of the flag handling.

| Run | Expect | Properties | What it shows |
|---|---|---|---|
| `sudosh_become` | pass | `TypeOK`, `VerboseFlagMatchesOption`, `PasswordStripMatchesSpec` | See below. About 145,000 distinct states, about one minute. |
| `force_dup` | violation | `ForceFlagExactlyOnce` | `--ansible-force` in both `become_flags` and the force option reaches sudosh twice (line 246); spec section 8 says exactly once. |
| `empty_flags` | violation | `EmptyFlagsNoFlagSegment` | `become_flags: ''` falls back to the default flags (line 221, `or`); spec section 4.1 says no flag segment. |
| `repeated_n` | violation | `PasswordStripMatchesSpec` | Adds `-nn` to the flag values: the greedy regex leaves `-n`, so sudosh stays non-interactive although a password is to be typed. |
| `stale_prompt` | violation | `PromptModeOfThisBuild` | A build with a password keys `self.prompt` by its id. The host then sets options without a password and builds again: the new command still carries the old prompt (lines 265-266 never clear it). |

The passing run `sudosh_become` shows three things:
- `--ansible-verbose` reaches sudosh exactly when its option is on. This
  holds whatever `become_flags` contains, including duplicates.
- With a password set, the flag loop removes exactly the non-interactive
  switches, for the flags without repeated `n`.

`PromptModeOfThisBuild` states what spec sections 4.1 (step 6) and 5 say of
the password-prompt mode. It is recorded against the invocation that wrote
it. So the last built command is in prompt mode, keyed by its own id,
exactly when it was built with a password. The code keeps the mode of an
earlier build (`stale_prompt`, five states deep). Ansible's `expect_prompt`
also requires `become_pass`, so the host does not wait for that stale
prompt. The finding is a divergence from the spec's per-invocation state,
not a hang.

Each property of the passing run has a mutant in `PROJECT.json` that TLC
rejects:

| Mutant | Bug it models |
|---|---|
| `BecomeCmdNoDefault` | the fallback `or self.name` is dropped |
| `UserFlagsReplaceOnce` | `replace(..., 1)` |
| `ReflagDropCluster` | the cluster containing `n` is dropped whole |

There is no fairness and no liveness property yet. The builder is a single
synchronous call, and liveness questions belong to the host loop.

### `SudoshSession` (Response Classifier with the host loop and sudosh)

This module puts the classifier between a sudosh process and the host's
become loop, on a task built with a password (or without one, in
`SudoshSessionNoPass.cfg`).

**Abstraction of output.** A line is a sequence of words. The model
handles a substring test (`in`) and `startswith` on such lines as follows:
- a substring test becomes `Occurs`, membership in `SubSeqs`;
- `startswith` becomes `IsPrefix`;
- `.lower()` becomes `Lower`, a word table that covers the words that occur.

Every line that sudosh or the wrapped command can print is listed once:
- the prompt `[sudosh] Password:`;
- the Ansible and Augment detection banners (verbose detection only);
- `sudosh: authentication successful`;
- `Sorry, try again.`;
- `sudosh: authentication failed`;
- the `BECOME-SUCCESS-<id>` marker;
- ordinary command output.

The prompt `self.prompt` is keyed by the id of this task's build. A build
with a password always keys it so (`SudoshBecome`, line 266).

**State.** The variables map onto the system as follows:

| Variable | What it holds |
|---|---|
| `cfg` | the task: password set, sudoers needs one, password right, verbose detection |
| `spc` | sudosh's program counter |
| `chan` | the lines written and not yet read |
| `stdin` | a password is buffered on sudosh's stdin |
| `ran` | the wrapped command started |
| `leaked` | it started with the password still on stdin |
| `hstate`, `flags`, `pwsent` | the host's become state, its flags for the current iteration, and the number of passwords written |

**Actions.** The sudosh actions are spec_modelled from what the binary
prints:
- `SudoshStart` prints the banner and then either prompts or runs.
- `SudoshAuth` prompts.
- `SudoshCheckPassword` reads stdin and either succeeds or fails.
- `SudoshRun` runs the wrapped command.
- `SudoshOutput` prints its output and exits.

`HostRead` models one iteration of the connection's read loop:
1. It reads the first `k` pending lines as one chunk; every split of the
   output is reachable.
2. `ChunkFlags` raises, for every line of the chunk, the one flag
   `Raised` gives it. `Raised` tests the prompt check first (only while
   `expect_prompt()`), then the success, incorrect and missing checks, in
   BecomeBase's order. A flag stays up across the lines of the chunk.
   `HostStep(k)` is the resulting state, flags and password write.
3. It applies the become state machine with both of its checks:
   - `awaiting_prompt` writes the password on a prompt;
   - `awaiting_escalation` turns success into `ready_to_send`, turns an
     error or a repeated prompt into `incorrect`, and a missing-password
     line into `missing`.

**Fairness.** Each action has weak fairness. The host's `select` loop reads
whenever output is pending. sudosh runs to completion once it is scheduled.
Ansible's timeout is not modelled, so `Termination` shows there is no wait
cycle, not that a timeout never fires. `CHECK_DEADLOCK FALSE` is set because
a finished session is a final state.

**Runs.**

| Run | Expect | Properties | What it shows |
|---|---|---|---|
| `sudosh_session` | pass | `TypeOK`, `SuccessMeansCommandRan`, `Termination` | With a password set, success is reported only after the command started, the password is written at most once, and the session always reaches a verdict or the end of output (129 states). |
| `right_password` | violation | `RightPasswordAccepted` | `b'sudosh:'` (line 313) matches the banner, so the password is written early and the real prompt then counts as a repeated prompt. The result is "Incorrect sudosh password" for the right password. |
| `password_leak` | violation | `NoPasswordLeak` | When sudoers needs no password, the banner is still answered, and the wrapped command reads the password on its stdin. |
| `nopass_success` | violation | `SuccessMeansCommandRan` | Without a password, `sudosh: Augment session detected` (line 335) is taken as success for a session that sudosh blocks. |

The passing run has these mutants:

| Mutant | Bug it models | Property broken |
|---|---|---|
| `AwaitPromptNoAdvance` | a host that never leaves `awaiting_prompt` | `TypeOK` (a second write) |
| `CheckPasswordPromptNoColon` | the `sudosh:` entry without its colon, so `sudosh` matches the marker | `SuccessMeansCommandRan` |
| `CheckPasswordPromptBaseOnly` | the override removed | `Termination`: the host and sudosh wait on each other |

The safety properties are proved in `SudoshSessionProofs` (see Proofs).
`Termination` is liveness, and stays with TLC.

### `BecomeEscalation` (what the become loop promises)

This is the abstract specification of privilege escalation as the host relies
on it, whatever the become method. It has three variables:
- `verdict`: `"pending"` until the host decides, then one of `Verdicts`;
- `started`: the wrapped command has started;
- `over`: the remote process has ended.

Its actions are:
- `StartCommand`: at most once, and only before the remote side ends;
- `EndRemote`;
- `Decide(v)`: once, and `ready_to_send` only after `started`.

`NoHang` says that a verdict is reached or the remote side ends.

`SudoshSession` refines it with this mapping:
- `verdict` is `"pending"` while `hstate` is a waiting state, and `hstate`
  otherwise;
- `started` is `ran`;
- `over` is `spc = "exited"`.

The safety part of the refinement is proved (`ImplementsEscalationSafety`).
It is not a separate run: its content is `SuccessMeansCommandRan`, which the
`sudosh_session` run checks, plus the structural facts that the verdict is
given once and the command starts once, and `NoHang` follows from
`Termination`.

### `SudoshCommandLine` (the command line as text)

This module extends `SudoshBecome` and turns the built command into the line
that `build_become_command` returns (lines 279-302). It then splits that line
as the remote shell does.

**Text.** A text is a sequence of pieces: a word, or `Blank`. The constant
`WordsOf` gives the blank-separated words of every value that an option or an
ANSIBLE_* variable can hold, so `"/srv/my plays"` is
`<<"/srv/my", "plays">>`. The following operators build the line:
- `Text(v)` is `'%s' % v`.
- `AnnotationText` is `'KEY=%s'`.
- `TokenText` writes a flag token.
- `FlagsText` is `' '.join(all_flags)` (line 288).
- `UserFlagText` is `'-u %s'` (line 282).
- `CommandLine` joins the parts with blanks (lines 287-302).

The wrapped command is one opaque piece. Its quoting belongs to the shell
plugin.

**The shell.** `ShellWords` splits a line into its maximal runs of non-blank
pieces, in order. `IntendedArgv` is the argument vector that spec steps 3 and
7 describe. It has:
- `env`;
- one `KEY=value` per annotation;
- the executable;
- one argument per flag token;
- `-u` and the user;
- the wrapped command.

**Runs.** Both runs use `MCSudoshCommandLine`, with one build
(`MaxBuilds = 1`) and a constraint that keeps the options of that build. The
flag values are the default and `-kn ops --ansible-detect ops`.

| Run | Expect | Properties | What it shows |
|---|---|---|---|
| `argv_env_blank` | violation | `ArgvPreserved` | With `ANSIBLE_CONFIG = "/srv/my plays"`, `env` receives `ANSIBLE_CONFIG=/srv/my` and runs `plays` as the program (lines 240 and 302; lines 236 and 238 write the other two ambient values the same way). |
| `argv_flag_blank` | violation | `ArgvPreserved` | In `-kn 'release 2' --ansible-detect 'release 2'`, `'release 2'` is one `shlex` token, but line 288 re-joins the tokens with blanks, so sudosh receives `release` and `2`. |

There is no passing run of this module. With values that hold no blank,
`ArgvPreserved` holds by the shape of join-with-blanks and split-on-blanks,
so such a run would show nothing. `WordsOf` is meant to give non-blank
words, and the empty sequence exactly for `""`.

## Proofs (`SudoshBecomeProofs` and `SudoshSessionProofs`, checked by `tlapm`)

- **`TypeCorrect`**: `Spec => []TypeOK`, for all constants that satisfy
  `ConstantsAssumption`. The argument rests on these lemmas:
  - `MaxIndex`: a non-empty set of positions has a greatest element. It is
    proved by well-founded minimisation on `N - i`.
  - `RemoveAtType`.
  - `StripNType`: removing the last `n` leaves a sequence of letters.
  - `NamedTokens`.
  - `ReflagType`, `FinalFlagsType`, `AnnotationsType` and
    `BuiltCommandType`, one per step of the builder.

  `TypeStep` then proves that each action preserves `TypeOK`.
- **`VerboseMatchesOption`**: `Spec => []VerboseFlagMatchesOption`. The
  inductive invariant is `VInv == TypeOK /\ BuiltFromCfg`: a built command
  has the flags `FinalFlags` computes from the options it was built with.
  The argument rests on these lemmas:
  - `ConcatHas`: a token occurs in `s \o t` iff it occurs in `s` or in `t`.
  - `ReflagVerbose`: re-joining a token keeps `--ansible-verbose` and makes
    no other token into it.
  - `VerboseInFinalFlags`: `--ansible-verbose` is in `FinalFlags(o)` iff the
    option is on. `ReplaceAll` removes every user copy, and the verbose
    option appends exactly one.

  `ReplaceAll` is a function over indices, not a recursion, so no induction
  is needed.
The provers do not know that a string literal belongs to `STRING`. The
record types therefore use the value sets of the constants, for example an
annotation value ranges over `EnvValues`, the user values and the literals
the builder writes. `ConstantsAssumption` states that the defaults
"sudosh" and "root" are values other than `None`.

In `SudoshSessionProofs`, one theorem holds for every task configuration,
with `become_pass` set or not:

- **`SessionTypeCorrect`**: `Spec => []TypeOK`. The inductive invariant
  `TInv` adds two conjuncts to `TypeOK`:
  - the configuration is a record of the constants' values;
  - a written password means the host has left `awaiting_prompt`.

  Without the second conjunct, `pwsent \in 0..1` is not inductive.
  `ChunkFlagsType` and `AwaitSteps` type the host's step.
The other theorems assume `PasswordMode` (`PassValues = {TRUE}`): every task
has `become_pass` set, so the host tests `check_password_prompt` first on
every line. Without a password the safety claim is false (the
`nopass_success` run).

- **`SuccessOnlyAfterRun`**: `Spec => []SuccessMeansCommandRan`. The
  invariant is not inductive on its own. A read that declares success needs
  two facts: the success flag, and every success marker not yet read, belong
  to a command that has started. The inductive invariant `IInv` therefore
  adds these conjuncts to `TypeOK`:
  - every `MarkerLine` in `chan` implies `ran`;
  - `flags.success => ran`;
  - sudosh before its run step implies `~ran`;
  - a written password means the host has left `awaiting_prompt`.

  The step proof rests on these lemmas:
  - `FirstWordPrompt`: a line that starts with `[sudosh]` or `sudosh:` is a
    prompt.
  - `NotOccurs` and `QuietLines`.
  - `OnlyMarkerSucceeds`: every line that `check_success` accepts, other than
    the marker, is taken for a prompt first.
  - `ChunkFlagsProps`.
  - `AwaitSteps`: the two become steps.
  - `AppendLine` and `ConcatLines`.
- **`ImplementsEscalationSafety`**: `Spec => Escalation!AInit /\
  [][Escalation!ANext]_Escalation!avars`, from the same `IInv`. Each sudosh
  step maps to `StartCommand`, to `EndRemote`, or to a stutter. A host read
  maps to a stutter or to `Decide`.

The following are only model-checked:
- **`PasswordStripMatchesSpec`**. The code's `StripN` is defined with
  `CHOOSE`, and the spec's strip with `SelectSeq`. Relating the two for
  every input needs induction over sequences, which the installed provers
  cannot instantiate. It is also false in general (the `repeated_n` run).
- **`ArgvPreserved`** is checked only in violation runs. It is false for
  values that hold a blank, and a proof for values without one would need
  induction over `FlattenSeq` and the shell's word splitting.
- **Liveness**: `Termination`. It involves fairness and `ENABLED`, which
  `tlapm` does not handle here.

## Not modelled, and why

- **Shell metacharacters other than the blank.** `SudoshCommandLine` splits
  on blanks only. Quotes, `$`, `;` and globbing in option values would break
  the line in further ways, and a blank is enough to show that nothing is
  quoted.
- **Liveness in TLAPS.** `Termination` is checked by TLC only.
- **Without a password.** With no password, `SuccessMeansCommandRan` is
  violated (`nopass_success`), so the theorems assume `PasswordMode`.
- **JSON protocol of the tests.** `test_ansible_plugin.py` tests a protocol
  that the shipped plugin does not implement, so there is no code to model.
- **Connection timeout, option precedence, logging.** These belong to
  Ansible, not to this plugin.
