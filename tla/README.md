# A TLA+ model of nxpch

nxpch compiles `.nxpch` sources, patches for Nintendo Switch programs, into IPS
and pchtxt files and packs them into one zip per target.  It is a Rust program
of about 5 000 lines (`src/src/`).  This directory models its own logic: the
modules are translated from the source, checked with TLC on small instances,
and for the pre-parser, the preprocessor, the expansion of macros, code lines, the
parser, the assembler, the IPS writer, the pchtxt writer and import, the zips and the
driver invariants are proved with TLAPS for every value of the constants.  Paths below are relative to `src/src/`.

1. The system · 2. Modules and how they correspond to the code · 3. Runs ·
4. Fairness and deadlock · 5. Proofs · 6. Where the code and its statements
disagree · 7. What is not modelled · 8. Plan · 9. How to run

## 1. The system

A compile goes through the parts in this order:

    source --pre_parse--> statements --parse (+ preprocessor)--> one ParsingResult per build
           --assemble--> PatchVec per build --output--> IPS / pchtxt --zip_gen--> zips

and a pchtxt comes back through `pchtxt.rs`, as a patch or as source.

| Component | Source | State it keeps | Operations | What makes it correct |
|---|---|---|---|---|
| Pre-parser | `pre_parse.rs` | the statements cut so far | cut a line into option, directive or code; trim comments; collect an option that spans lines | every line is in one statement; JSON5 text ends where its brackets close |
| Options | `option.rs` | none | one option line to a value | - (serde) |
| Preprocessor | `preprocessor/main.rs` | `defines`; `activity`, a stack of block states | `exec` of each directive, `active`, `end` | text is compiled iff every enclosing branch is the selected one |
| Macros | `preprocessor/macros.rs` | the text, its offsets, how far the search is | expand a line | expansion is what each use means; offsets map back to the source |
| Conditions | `preprocessor/expr.rs` | position in the expression | evaluate a condition | agrees with C on the operators it has; an error is shown where it is |
| Parser, forks | `parse.rs` | `active_states`, one sub-state per build still possible; `finished_results` | `parse_statements`, `step`, `step_once`, `make_forks`, `make_deep_forks`, `finish` | ends with exactly the builds the source describes |
| Parser, code | `parse.rs` | `code_output`, `code_multi`, `code_multi_ended`, `code_labels` | an origin, an addressed item, a bare item, a label | items tile the space after their origin; nothing leaves 32 bits |
| Assembler | `assemble.rs` | the `PatchVec` being filled; the debug pchtxt | data, strings, runs of instructions, line-by-line retry; the debug listing | every byte is what its own line means at its own address; both ways agree |
| Patches, IPS | `output.rs` | address to byte map; the writer's hunk and `safety_byte` | put, hunk iterator, `check_generate_ips`, `generate_ips` | a reader of the file gets the patch back |
| pchtxt writer | `output.rs` | the pieces of a hunk being joined | `generate_pchtxt` | as above |
| pchtxt reader | `pchtxt.rs` | enabled, offset, endianness | `pchtxt_to_patches`, `pchtxt_to_nxpch` | both commands understand a file alike |
| Zips | `zip_gen.rs`, `main.rs` | temporary files, shared diagnostics | generate, name, move into place | nothing in its place after an error; one format per hardware zip |
| Driver | `main.rs` | shared code, output file and its buffer | build, single output, pchtxt compile, minify, generate, import | errors fail the command; success means the output is there |

**Interactions.**  `ParseState::step` hands all sub-states to a rayon pool;
each takes the mutex around the diagnostics for its whole run, executes
statements until it forks or ends, and leaves its forks to the next round.  A
sub-state owns its `PreprocessorState`, which is copied at a fork, and asks
`active()` before every option and code line.  `#if` and `#elif` expand the
macros of their condition and evaluate what is left.  The zip branch of `main`
runs one job per target on the pool; each runs one assembly job per build inside
it; all share one list of diagnostics behind a mutex, and `main` moves the files
into place only when the list holds no error.  The other commands narrow the
builds to one, whose code they take out of an `Arc` that forks shared, and write
one file through a buffer.

**What is hard.**  The order in which the pool runs sub-states and jobs; one
diagnostic standing in for another; state copied in the middle of a statement;
the three-valued block states standing for a whole history of branches; text
and offsets spliced in step through nested expansions; the last address of a
32-bit space; the detour the IPS writer makes around the offset whose bytes
spell the end mark; lengths carried along through cuts and joins; two pieces of
code that must agree on a text (writer and reader, the two assemblers, the
layout and the content of the hardware zip); a failure half-way through a row
of settings, a run of instructions, a file or a zip.  Nothing is persisted
between runs and there is no network: crash recovery and lost messages do not
arise.  `PROJECT.json` lists every such place with its line under `hazards`.

## 2. Modules and how they correspond to the code

| Module | Models | Extends |
|---|---|---|
| `PreprocessorState` | `PreprocessorState` as a value: what each directive does to it, what it reports | - |
| `Preprocessor` | one preprocessor fed any source | `PreprocessorState` |
| `Macros` | `MacroDefine::expand_all_in`, a step per use | - |
| `Expr` | `evaluate` and its ten loops | - |
| `Condition` | `resolve`: expansion, then evaluation | `Macros`, `Expr` |
| `PreParse` | `PreParsedCode::parse`, `json5_trim`, `find_up_to_comment` | - |
| `FrontEndProofs` | the theorems of `Preprocessor`, `PreParse` and `Macros` | those three |
| `CodeLines` | the collected code of a build as a value: the `Code` arm, `parse_code`, `CodeAddress` | - |
| `CodeSection` | one build fed any code lines | `CodeLines` |
| `CodeSectionProofs` | its theorems | `CodeSection` |
| `SubState` | `ParseSubState` as a value: statements, forks, the end | `PreprocessorState`, `CodeLines` |
| `Parse` | `ParseState`, its rounds on the pool, `compile_in_memory` | `SubState` |
| `ParseProofs` | its theorems | `Parse` |
| `PatchVec` | the byte map and its hunk iterator | - |
| `PatchVecProofs` | lemmas on its operators and on `put` | `PatchVec` |
| `Assemble` | `Assembler::assemble` | `PatchVec` |
| `DebugPchtxt` | `assemble_debug_pchtxt` over the same code, and its file read back | `Assemble` |
| `AssembleProofs` | the theorems of both | `DebugPchtxt`, `PatchVecProofs` |
| `Ips` | `check_generate_ips`, `generate_ips` | `PatchVec` |
| `IpsProofs` | its theorems | `Ips`, `PatchVecProofs` |
| `PchtxtText` | one value of a pchtxt line: escapes and closing quotes of both sides | - |
| `PchtxtWriter` | `generate_pchtxt`, and its file read back | `PatchVec`, `PchtxtText` |
| `PchtxtImport` | `PchtxtParseIter`, `pchtxt_to_patches` and `pchtxt_to_nxpch` over one file | `PatchVec` |
| `PchtxtProofs` | the theorems of both | `PchtxtImport`, `PchtxtWriter`, `PatchVecProofs` |
| `Zip` | the zip branch of `main`, `zip_gen.rs` | - |
| `Driver` | every command: those with one file, and the build of zips composed from `Zip` | `Zip` |
| `DriverProofs` | the theorems of `Zip` and of the commands | `Driver` |

`MC*` modules hold the instances; each module's `X_Something` beside `X` is a
plausible bug in `X`, which `PROJECT.json` uses to show that a property notices.

Two parts of the code are *copied* at every fork: the preprocessor's state and
the collected code.  They are modelled as values, a group of operators from a
value and an input to a value and a set of diagnostics.  `Preprocessor` and
`CodeSection` each drive one such value with every input; `Parse` composes both
in each of its sub-states.  So the operators checked alone are the very ones
the parser uses.

**Preprocessor.**  `activity` is the code's stack: a tag of three
(`ResolvedTrue`, `ResolvedFalse`, `InactivePendingEndif`) and the position of
the latest directive of the block.  `chains` is a history the code does not
keep: for each open block, what the condition of each branch met was worth at
its line.  A condition is a macro name or malformed text; a macro's body is
nonzero, zero or malformed.  `#define`, `#undef`, `#warning` and `#error` act
in skipped text too, as in the code, and `Parse` reports what they say.

**Macros, Expr, Condition.**  Text is a sequence of tokens.  `Expand` replaces
the leftmost use and goes on from the start of what replaced it, `RefuseCall` is
a call with a wrong number of arguments, `Return` the end of the loop; `text`
and `offsets` are spliced in step, as in the code; `written` remembers the
line, and `origins` (a history) where each token was really written, and whether
it came by an argument that was `torn` (section 6.8).  `Expr` has one recursive operator for the ten loops of the code, which
differ in their operators only; a result is a value and a position, an error at
a position, or a panic, and `checks` says whether the build checks overflow.
The meaning they are compared with is written the other way round: `Meaning`
expands each use on its own, `MeaningOf` cuts a text at the last of its loosest
operators.

**PreParse.**  A file is a sequence of symbols: what matters of a character is
whether it is blank, a newline, a quote, a bracket, a backslash, the start of an
option, a directive or a comment.  Blanks behind the equals sign of an option are
taken by its regex (`ValueStart`); its value begins behind them.  The reference, `StatementsOfFile`, is known
from how the file was put together out of entries.

**CodeSection.**  `code` holds the four `code_*` fields; `source` and
`reported` are histories.  An address is a code address, before
`NSO_HEADER_LEN` is added; `MaxAddr` stands for `MAX_ALLOWED_ADDR`.

**Parse.**  One step per statement of the sub-state that holds the mutex;
`TakeLock` chooses, as the scheduler does, which runs next; `EndRound` is the
end of `ParseState::step`, which gathers forks in their parents' order.
`diags` is the `BTreeSet` of `compile_in_memory`: its order looks at labels
only, so of two diagnostics with equal labels the first stays, and the four kinds
without any (`Unlabelled`: no version, no build ID, `#warning`, `#error`) are equal
to each other; `recorded` is the history of all.  The text of a code line is what
its macros make of it: a line that uses a name has a form per way the name may be
defined, one of which is reported as a wrong call (`Preprocessed`, `MacroDiags`).  The reference is written without rounds, forks or filters: a
world is one way through the source and all that was said on it.  `Ways` is how
a statement can go on for one build, `Read` takes a set of worlds through some
statements, `Worlds` through all of them from `FirstWorlds`, one per target;
`Asked` keeps the worlds the command line names, at the very end.
(It shares with the model what one statement
does to *one* build; forking, filtering, rounds, truncation and order are what
it checks.)  Nothing keeps a source from offering the same choice twice, and then
the same build comes out twice, as in the code: `ChoicesDiffer` says when not.

**Assemble, DebugPchtxt.**  A byte records the item it comes from, its place in
it and the address it was assembled for, so a byte assembled for a wrong place
is seen.  Keystone is external: a run assembles iff each line does, to four
bytes a line, which is what the code asserts of it.  `EmitData` and `EmitString`
put what the parser already has; `AssembleRun` is the one call for a whole run,
`AssembleLines` that call failing, after which `first` and `end` hold the run
that is drained by `AssembleLine` and `ReportLine`.  `DebugPchtxt` goes on after
`Assemble`: it writes the listing of the same code item by item, strings escaped
and quoted as `PchtxtText` has it and with the source of their line behind them, and
reads it back with the reader's own idea of escapes and of closing quotes.

**Ips.**  One action per hunk taken and per piece written.  The thresholds of
the code (runs of 3, 10, 14 and 15 bytes, hunks of 0xFFFF) are constants scaled
down in the run (1, 2, 3, 4 and 7), in the same order.  The reader of the file stops
at a record that starts at the unsafe offset, which it takes for the end mark.  `Plus` is `u32` addition
as a release build does it.  Any write may fail; `out` is the file so far.

**PchtxtWriter.**  A byte is the class the code puts it in (NUL, other control
characters, quote, backslash, the letters of two escapes, the two bytes of a
character outside ASCII).  `Cut` is the split at NULs and the control characters
cut off the front of a string; `JoinNext` and `KeepApart` are the two ways
through the joining loop, with the length that is *carried along* kept beside
the bytes; then the lines are written and read back.

**PchtxtImport.**  A line is its kind; both commands take it in the same step,
`bin` and `src` being what each has so far.  The lines of a patch come from a
loop (`Rounds`), a piece at a time.  `CompileLine` is what the compiler makes of
one line of the imported source, and `Compiled` what it has after each.  A quoted
text without `.string` is an instruction to `parse_code` (`parse.rs:596-598`), which
no assembler takes.  Capstone and Keystone are external: the constant `Lost` holds
the words that, disassembled and assembled again, are an error or another word.

**Zip.**  A build is its settings, ID, name, version, forced format, and three
facts of its code: whether it assembles, whether `check_generate_ips`
refuses it, and its `trap`: an assertion its assembly or its ips breaks.  A job that
panics does not stop the other; the panic is raised again in `main` when both are
over.  `ZipFails` is any I/O error of a job; `MoveZip` may fail too.

**Driver.**  One `command` of every kind; `step` is where it is.  `holders`
counts the results that share the code, `handed` and `onDisk` the pieces of the
output given to the buffer and written to the file, `broken` remembers that the
file system refused something.  `builds.trap` is the first place where the program
does not survive its input or come to an end (`Traps`): while it reads the source,
in a circular macro, at a line Keystone makes more than a word of, at adjoining runs
in an ips (section 6.11).  In the step `zips` the steps are those of `Zip`.

## 3. Runs

| Run | Question | Bounds, and why they are enough |
|---|---|---|
| `preprocessor` | Does a stack of three-valued states answer what the whole history of a source would? Are open blocks and bad conditions reported exactly where they should be? | Six directives, one macro: three nested blocks, or a block with five branches. A tag has three values, so a block's later fate is decided within two more branches; the theorems of section 5 hold without the bound. |
| `condition` | Is an expanded condition what its uses mean, shown at the right places, and is its value, its error or its panic the right one? | Words of 4 bits, in both kinds of build. Every text of up to four tokens of eight kinds, calls of macros with zero to two parameters and up to five more tokens, two operators of any kind between three numbers, signs and parentheses. Two adjacent operators decide precedence and associativity. Three levels of macros within macros, one of which makes an argument of two of its own (section 6.8). |
| `pre_parse` | Are the statements of a file the ones that were written? Is any symbol lost? | Every file of up to three entries of twelve kinds (values over several lines, brackets and comment marks in strings, comments of every kind), with and without a last newline; every text of up to four of eleven symbols. A reader has no memory across entries, so neighbours are what matters. |
| `code_section` | Are items laid out without hole or overlap, labels at the next item, nothing past the end, no line lost in silence, and the right line blamed for a lost origin? | Five lines over ten addresses: origin, label, item, line that ends the origin, line that misses it. An item can end short of, on and past the last address. |
| `parse` | Whatever the order of the sub-states of a round: exactly the builds described, each once, with the code and diagnostics it would have alone? Does `step`'s assertion hold? | Every source of at most three statements over an alphabet of fourteen (options, forks, blocks, an `#error`, code lines with and without a macro), with at most four builds per target, and seven longer sources, each for one interaction (named in `MCParse`), under four command lines. Two rounds of forks and an interleaving of up to four sub-states occur in the short ones, three rounds and forks of forks of forks in the long ones. |
| `parse_ends` | Does every parse end? | As above with at most two statements: liveness over the state graph costs more. |
| `assemble` | Do runs of instructions give what each line gives alone, is every bad line reported, and does the debug pchtxt say the same? | Four items over fourteen addresses, adjoining, overlapping, or at the last address; a run of three instructions with one invalid in any place. Strings of every kind the reader treats in its own way: empty, with quotes, line ends, a NUL, a vertical tab or a last backslash, before source with a quote and without. |
| `ips` | Is the file the patch, also past the unsafe offset, is a file cut short sound, and which assertions can stop the writer? | Every patch over ten addresses and two byte values, and every one without gaps over fifteen: two full hunks, the second starting at the unsafe offset. |
| `pchtxt_writer` | Is the file the patch, read back, and is the length carried along the right one? | Every patch of up to three bytes of ten classes, five and six bytes of the classes that decide how a hunk is cut, and patches with a hole; hunks of at most five bytes, so that both limits are met; a line costs two characters, so that joining wins sometimes and loses sometimes. |
| `pchtxt_import` | Do the two commands that read a pchtxt understand it alike? | Files of up to three lines of every kind, and up to five of the kinds that enable, shift or set bytes; 32 addresses with a header of 8, so that items lie in the header, cross the top and wrap; strings, and a word that is lost on its way. |
| `driver` | Does a command end, fail after an error, keep the old file where it can, and leave its output in its place when it succeeds? For zips: does an error or a panic of either target keep both away, is a zip complete and of one format? | Every command and destination; outputs of three pieces through a buffer of two, so that a piece is written early and one is left for the end. Two builds in one target and one or none in the other, equal and different in every field; every interleaving of the jobs, every failure and every panic. |
| `pre_parse_options` | Section 6: a statement of the repository the code does not keep. | Two options. |

What the passing properties say, in the code's terms.  The type invariant of a
module is a conjunct of one of its properties, or a theorem.

* `ActiveIffSelected`, `StackFollowsHistory`: a line is compiled iff in every block
  around it its branch is the first whose condition held; the three-valued stack
  says no less than the history of all branches.
* `UnterminatedReport`, `BadConditionReportedWhereItMatters`: `end()` reports
  each open block once, innermost first; a condition is asked exactly when its
  value can matter.
* `ExpansionIsMeaning`, `PassedIsSettled`, `OffsetsFollow`: expanding in place,
  left to right, comes to what each use means by itself; what the search has
  passed does not change again; every token that is no part of a torn argument
  knows its place in the source.
* `ValueIsMeaning`, `ErrorIsWhereItStops`: value, panic and error of a condition.
* `FindsTheStatements`, `NothingDropped`: the statements of a file, no symbol lost;
  `OptionsAreStatements` (an option on each line, as in `sample.nxpch`) is refuted, see 6.
* `WithinAddressSpace`, `RunsAreContiguous`, `LabelNamesNextItem`,
  `NothingDropped`, `ClearedFromIsTheCulprit`: layout and blame of code lines.
* `ResultsAreTheWorlds`, `DiagnosticsAreTheWorlds`: forking is invisible.
  `NoPanic`: no fork outlives an abandoned build.
  `ErrorsFailTheBuild`: no error is merged away, but for one without a label by a
  warning without a label.
* `EachByteFromTheLatestItem`, `BadLinesReported`: batching and the retry are
  invisible.  `DebugIsThePatch`: the debug listing, read back, is the patch, but for
  three kinds of string.
* `FileIsThePatch`, `EveryPrefixIsSound`, `HunksAvoidUnsafe`, `AssertionsHold`:
  what a reader of the file sets is the patch, unless a run meets other bytes right
  at the unsafe offset, where a reader may stop; the assertions on the
  `safety_byte` hold, and the one of `encode_hunk_len` fails at adjoining runs only.
  (A file whose writer stopped at a bad length is covered by `EveryPrefixIsSound`
  and not by `FileIsThePatch`.)
* `CachedLengthIsRight`, `NothingDropped`, `ReadsBackUnlessUnlucky`: the pchtxt
  of a patch, and which strings are read back as something else.
* `BlocksBalance`, `ImportAgrees`: the imported source has its `#if 0` and
  `#endif` in turn, and compiles to the bytes `pchtxt compile` finds when it has no
  enabled string and no lost word; with an enabled string it never does.
* `NothingWrittenAfterAnError`, `ZipHoldsEveryBuild`, `FormatsFit`: a zip put in
  place is complete, of the format asked for, and only there when nothing went
  wrong before.  A *move* that fails leaves the zips moved before it.
* `FailureKeepsTheFile`: a failure or a panic costs the old file in four cases only.
  `OutcomeIsDeserved`: a command panics over its input only and never over shared
  code, errors fail, success means the output is in its place.  `CommandEnds`: every
  command comes to an end, unless its source has a circular macro.

## 4. Fairness and deadlock

The sequential loops (`Preprocessor`, `Macros`, `PreParse`, `CodeSection`,
`Assemble`, `Ips`, the pchtxt modules) state no fairness.  That they end is
mostly evident from a position that moves on; where it is not, the check for
deadlock does the work: `Macros` has no step for a text that outgrows its bound,
so an expansion that does not end would be stuck there (a circular macro is, and
is left out of the instance: section 6).

`Parse` has `WF_vars(Next)`: rayon runs every job it is given, `step` waits for
them, and a sub-state that runs loops until it forks or ends.  Nothing more is
assumed: which sub-state goes first is never fair, and `Termination` does not
need it, since each has its turn exactly once in a round.

`SpecCommand` has weak fairness of the command's own steps, of `main`'s in a
build of zips, and of each job's own.  I/O errors are possible and not fair.  A
job the pool has not started when the other failed may be skipped (collecting
into a `Result` stops early), and is not waited for.

Deadlock is not checked where the bound on the input is a guard (`preprocessor`,
`code_section`); every other module has an explicit last step, and the runs show
that no other state is stuck.

## 5. Proofs

`FrontEndProofs` proves, of the preprocessor, for every set of macro names and every
bound on the source:

| Theorem | States |
|---|---|
| `TypeCorrect` | `Spec => []TypeOK` |
| `StackIsResolved` | `Spec => []StackFollowsHistory` |
| `ActivityIsSelection` | `Spec => []ActiveIffSelected` |
| `EndReportsOpenBlocks` | `Spec => []UnterminatedReport` |
| `BadConditionsReported` | `Spec => []BadConditionReportedWhereItMatters` |

The assumptions are those the modules name: `MaxLines` is a natural number, and
the text of a malformed condition is not a macro name.

`ActiveIffSelected` is not inductive: the tag on top of the stack is made from
the tag below and the conditions met, and two states that agree on `active()`
can differ after the next `#else` or `#endif`.  The induction needs the meaning
of *every* entry.  `IInv` therefore holds the types, `Follows(activity,
chains)` (each of the three tags says exactly what the history of its block and
of the blocks around it says), that no position of a chain lies after the
current line, and, for the latest call's report, what was asked.  One lemma per
shape of directive says what it does to the stack (`OpenerActivity`,
`BranchActivity`, `EndIfActivity`, `OtherActivity`), and three say that `Follows`
survives a push, a replacement of the top and a pop (`FollowsPush`,
`FollowsReplace`, `FollowsPop`); the step lemma has a case per action that cites
them.

Of the pre-parser, for any files:

| Theorem | States |
|---|---|
| `PreParseInvariance` | `SpecPreParse => []PreParseInv` |
| `PreParseDropsNothing` | `SpecPreParse => []NothingDropped` |

`FilesAreEntries` says only that a file is a sequence of texts; nothing is assumed of
what stands in them, so these are all texts. `NothingDropped` is inductive with the
types alone: the input is a text (`IsText`, by `FlattenType`), and each statement has
a kind and two places. The work is in the scans, which jump: `skip_string` moves two
symbols at a backslash, `json5_trim` and `find_up_to_comment` go on behind a string. A
scan that always hands on to a place further along exists (`ThereIsAScan`) and keeps
what every stop has and every step back hands on (`ScanKeeps`); `SkipStringIs`,
`CommentStartIs` and `ValueEndIs` follow, and say between which places the results lie
and that a comment is cut at its mark. So each step accounts for all symbols between
the old place and the new (`Accounted`), and takes nothing back of what was accounted
for (`StaysAccounted`).

Of the expansion of macros, for any macros, any line and any bound on the text:

| Theorem | States |
|---|---|
| `MacrosInvariance` | `SpecMacros => []MacrosInv` |
| `ExpansionSettles` | `SpecMacros => PassedIsSettled` |
| `ExpansionIsComplete` | `SpecMacros => [](done => NothingLeftUnexpanded)` |

`TextsAreTokens` says that lines and bodies are texts, and that a macro has
parameters and a place.  Two vectors are spliced with one range: that they stay of
one length (`Aligned`), without which the lookups of `base_offsets` would be out of
bounds, needs that what replaces a use has as many places as tokens
(`SubstitutedIs`), which holds piece by piece and so of the whole
(`FlattenLengths`).  `PassedReported` makes the end inductive: what lies before the
search is expanded or in a reported call, and an expansion moves the search only to
the *first* use (`UpToTheUse`).  `Condition` takes these very steps: each of its own
is one of `NextMacros` or leaves the text alone.

`CodeSectionProofs` proves, for any set of lines, any `MaxAddr` and sources of
any length (`MaxLines` is any natural number):

| Theorem | States |
|---|---|
| `SpaceIsKept` | `Spec => []WithinAddressSpace` |
| `RunsTouch` | `Spec => []RunsAreContiguous` |
| `LabelsName` | `Spec => []LabelNamesNextItem` |
| `NoLineIsDropped` | `Spec => []NothingDropped` |
| `CulpritIsNamed` | `Spec => []ClearedFromIsTheCulprit` |

The properties speak of the whole sequence of lines, the parser keeps one
address and one line number.  `IInv` says what those two stand for: while an
origin is in force, the address is where the last item of the run ended
(`LastEnds`), every label of the run that no item has followed names it
(`PendingLabel`), and there is a good `.origin` the run comes from; while none
is, `code_multi_ended` is the line that took it away (`EndedIsTheCulprit`).
`PastLines` (nothing speaks of a line to come, items follow the lines) makes
what was said of earlier lines stay true (`StableStep`).  `ExecShape` reduces
the nested cases of the code to four shapes of step, and each part of `IInv` is
kept by a lemma of its own over these shapes.

`DriverProofs` proves, of `Zip` alone, for any lists of builds (`Inputs` is any
set of pairs of sequences of patches):

| Theorem | States |
|---|---|
| `TypeCorrect` | `Spec => []TypeOK` |
| `ErrorsKeepZipsAway` | `Spec => []NothingWrittenAfterAnError` |
| `ZipsAreComplete` | `Spec => []ZipHoldsEveryBuild` |
| `FormatsAreKept`, `HardwareOfOneFormat`, `FormatsAreRight` | `Spec => []FormatsFit`, by its parts |

What is wanted speaks of the zips on disk; what makes it true is what the jobs
did long before, and that the shared list has kept it.  The invariant has a part
per job, `JobInv`: `Counts` (the position in the list and the types),
`BadAsmReported` and `RefusalsReported` (each bad build met so far is in the
list), `Complete` (while none was left out, the zip is the list so far),
`OwnPaths` and `Survives` (nothing written would have panicked, and a job panicked
over one of its patches); and `MainInv` for the main thread: no job runs after the phase of
generating, and to move on means the list is `Clean`.  `OthersJob` says that a
step of one job does not disturb the other (the list only grows), `OwnStep` that
it keeps its own part, one case per action; `NothingLeftOut` draws from it that
a zip on disk left nothing out, which all the theorems rest on.

and of the commands, for outputs and buffers of any size:

| Theorem | States |
|---|---|
| `FileTypeCorrect` | `SpecCommand => []FileTypeOK` |
| `BadBuildsAreFailures`, `OutcomesAreDeserved` | `SpecCommand => []OutcomeIsDeserved`, and its parts |
| `FileIsKept` | `SpecCommand => []FailureKeepsTheFile` |
| `CommandImplementsZip` | `SpecCommand => Spec` of `Zip` |
| `CommandKeepsZipsAway`, `CommandFillsTheZips` | the theorems on `Zip`, of the command |

`FileInvariant` says what each step may rely on: `NotOpenedYet`,
`NarrowedFirst` (one output, and its code held once), `ErrorsWait` (only
`pchtxt generate` goes on after an error), `PatchFits` (nothing is written of a
patch the format cannot hold), `Panics` (only at a trap), `AtTheEnd`.  The composition steps `Zip` or
leaves it alone, hence `CommandImplementsZip`, by which the theorems on zips
hold of the command as they stand; `OutcomesAreDeserved` needs both invariants.

`ParseProofs` proves, for every set of sources and command lines, and every
order the pool runs sub-states in:

| Theorem | States |
|---|---|
| `Invariance` | `Spec => []IInv` |
| `ResultsAreTheWorldsAlways` | `Spec => []ResultsAreTheWorlds` |
| `DiagnosticsAreTheWorldsAlways` | `Spec => []DiagnosticsAreTheWorlds` |
| `NoPanicAlways` | `Spec => []NoPanic` |
| `ErrorsFailTheBuildAlways` | `Spec => []ErrorsFailTheBuild` |

The assumption `SetupsAreSources` is what the Rust types say of a statement (the
kinds of `NxpchOption`; an entry has a build ID; lists are lists) and that `main`
always asks for at least one target.  It allows a build ID to be forced, which
`main` never does and the run leaves out.

The promise is about the end of the parse and about whole builds; nothing
about it can be said of a state half-way without the invariant:

* `Types`: the lists of a round have one entry per sub-state; one that waits has
  left nothing yet.
* `Sound`: every sub-state waiting *is* one of the worlds, read as far as its
  position; every result is that of a world that was asked for; every diagnostic
  is one some world reports.
* `Complete`: every world asked for is done with (its result is there, its
  diagnostics are recorded) or is in the `Future` of a sub-state still waiting,
  among the worlds it can still become.
* `EachOnce`: what the sub-states stand for, be it a build still being read, forks
  or a result, is pairwise `Apart`: told apart by a choice already made, which
  nothing later can undo.  This is why a build is not found twice.
* `DiagnosticsAreKept`: a recorded diagnostic is in the set, or another one whose
  labels are the same.

Three lemmas carry the argument.  `ResultMatches` compares what a statement makes
of a sub-state (itself and its forks) with the `Ways` the reference has for it:
the same states up to those the command line rules out, and everything said was
said on some way.  It rests on lemmas per kind of fork (`MakeForksIs`,
`ForkRowIs`, `DeepForks`, `BuildForksMatch`), on what the filters keep
(`RetainIs`, `KeptIs`) and on the fact that a choice once made stays
(`DescendsOn`, `ApartStays`).  `StepKeeps` and `StepComesTo` lift it to worlds:
the heirs are worlds one statement further, and no world asked for is lost
between them.  `EndKeeps` and `EndFuture` do this for the end of the source.  A
round changes nothing of what is waiting (`Gathered`).  That reading a set of
worlds is reading each of them (`OneWorld`), and reading in two stretches is
reading once (`FirstStep`, `ReadSteps`), is what the worlds need of `Read`.

`AssembleProofs` proves, for any lists of items and any size of the address space:

| Theorem | States |
|---|---|
| `Invariance` | `Spec => []IInv` |
| `EachByteFromTheLatestItemAlways` | `Spec => []EachByteFromTheLatestItem` |
| `BadLinesReportedAlways` | `Spec => []BadLinesReported` |
| `GenerateImplementsAssemble` | `SpecDebug => Spec` |
| `DebugIsThePatchAlways` | `SpecDebug => []DebugIsThePatch` |

`CodesAreItems` is what the parser guarantees (`parse.rs:599-613`; `SpaceIsKept`
of `CodeSectionProofs` proves it of the model): an item ends within the address
space, an instruction is four bytes wide.  The invariant says that the patch is
`Latest(patch, next)`, the patch of the items dealt with, whichever of them were
assembled in one call, and that what was reported is `Lists(reported, next)`,
the bad lines among them in order; `DrainsARun` says that between a call that
failed and its last line the items drained are a run.  Each action `Extends` the
patch by the cells of its items (`DataExtends`, `TextExtends`, `RunExtends`),
and `LatestExtends` says that this makes the patch of more items.  For the debug
listing the same invariant is kept of the patch read back; `Latest` and `Lists`
determine what they speak of (`LatestIsUnique`, `ListsIsUnique`), so the two ways
to assemble, which are different code, come to one patch.  What the reader makes of
a string is told by `ReadStringIs` (of `PatchVecProofs`) and `ClosedStays`: a lucky string is read back as it was, whatever source is behind it.  `HeaderLen >= 1` keeps
the NUL of a string at the last address from wrapping onto the string itself.

`IpsProofs` proves, for any patches, address space, unsafe offset and thresholds:

| Theorem | States |
|---|---|
| `Invariance` | `Spec => []IInv` |
| `FileIsThePatchAlways` | `Spec => []FileIsThePatch` |
| `EveryPrefixIsSoundAlways` | `Spec => []EveryPrefixIsSound` |
| `HunksAvoidUnsafeAlways` | `Spec => []HunksAvoidUnsafe` |
| `AssertionsHoldAlways` | `Spec => []AssertionsHold` |

The thresholds are related as in the code: a run worth a record inside a hunk
(15) is at least one at its edge (10), and a hunk has an edge whenever it is
longer than `Standard` (14).  The writer holds bytes back in three places: the
rest of the hunk, the `safety_byte`, and the byte given up before it.  `Pos` is
the address of the first byte not yet written, counted from where the iterator is
(`from`) less what is held, and the invariant is that the records so far set the
patch below `Pos` (`Reaches`) and what is held is the patch from there on
(`HunkIsThePatch`).  `SafetyIsHeld` (the byte is held exactly while the next hunk
would start at the unsafe offset) carries the detour; `StartsAreSafe` and
`RunsAreMarked` (a run is looked for where none is left behind, the run set aside
is at the end) are what the assertions and the offsets of the pieces need; a
record at the unsafe offset is excluded except where a run meets other bytes there,
which is the exception of section 6 in `HunksAvoidUnsafe` and `FileIsThePatch`;
that nothing else stops a reader early is drawn from it (`Seen` is all of `out`).

`PchtxtProofs` proves, of the import, for any files, any header and any address space:

| Theorem | States |
|---|---|
| `Invariance` | `Spec => []IInv` |
| `BlocksBalanceAlways` | `Spec => []BlocksBalance` |
| `ImportAgreesAlways` | `Spec => []ImportAgrees` |

`FilesAreLines` is what the Rust types say of a line: an offset is a `u32`, a shift
an `i32`; nothing is assumed of `Lost`.  Besides the two properties the invariant
says what the reader has read so far: `Following` (its flag is what the lines before
make of it) and `Alike` (the source has gone wrong only over an enabled string or a
lost word, and has over a string).  What takes work is a patch.  `Sets` says of some lines added to a
source that they put the first `n` bytes at a place and leave all blocks closed;
each round of the loop writes one item more (`RoundIs`, by `SetsMore`), two pieces
put one after the other are one put (`PutTwice`), and the widths come out even
(`WidthIs`), so that the lines of a patch set all of its bytes (`SourceIs`).  In a
disabled part the same lines set nothing (`QuietLines`).  That nothing is said of a
source with an item past the last address is `crosses`: the compiler refuses it,
and a pchtxt may wrap there.

Of the writer, for any patches, limit of a hunk, cost of a line and classes of bytes:

| Theorem | States |
|---|---|
| `WriterInvariance` | `SpecWriter => []WriterInv` |
| `CachedLengthIsRightAlways` | `SpecWriter => []CachedLengthIsRight` |
| `WriterDropsNothing` | `SpecWriter => []NothingDropped` |
| `ReadsBackUnlessUnluckyAlways` | `SpecWriter => []ReadsBackUnlessUnlucky` |

`PatchesArePatchVecs` says that a patch maps addresses to bytes, `LettersAreBytes`
that the letter of an escape is a byte.  No property is inductive as it stands.

* `PiecesFit`: the comment of the code, that a joined piece is never a string,
  "because such a joined hunk will always have a 0 byte in the middle", made
  precise.  Every piece *but the last* of a hunk holds an `Obstacle` (a control
  character without an escape), be it the NUL it was cut after or what was cut off
  the front of a string, and joining keeps it (`CutIs`, `JoinNextKeeps`).
* `PendingFits`: the pieces one after the other are the patch from `base` to `next`.
* `TakenFits`, `ApartFits`: a byte taken is in the pieces or in one line.
* `LinesFit`: a line is the text of what it *says*, which is told from the patch: for
  a string, the bytes up to the first NUL from its address on, and that is the NUL
  it was cut after (`SaidIs`).
* `BackFits`: what the reader has is, at the place of each line read, what the line
  reads as.

`LineReads` compares what a line reads as with what it says.  Every quote of an
escaped text has a backslash before it, and the closing one has only if the string
ends in a backslash (`ClosingIs`); reading goes from one escape of the writer to the
next (`EncIs`, `ThereIsAReading`, `ReadStringIs`) and gives back every byte but the
vertical tab, so that a string is unlucky in exactly three ways.

Recursive functions (`Read`, `Branched`, `ForkedBy`, `Retain`, `DefinedBy`,
`Rounds`, `Compiled`) need a proof that they exist at all: the least number
without one would follow a number with one (`LeastOf`, from the well-founded
order of the naturals).  The same principle gives induction for a *set* of
numbers (`Induction` in `ParseProofs`, `PatchVecProofs` and `FrontEndProofs`), which is why these
proofs are within reach although the library's induction theorems, with their
operator parameters, are not.

Only model-checked, and why:

* `Termination` of `Parse` and `CommandEnds` of `Driver`: liveness under fairness.
* `Expr`, `Condition` (`ValueIsMeaning`, `ErrorIsWhereItStops`,
  `ExpansionIsMeaning`): what recursive operators compute, and the prover loses its
  arithmetic in a module that declares one.  That nothing is left unexpanded, the
  first half of `ExpansionIsMeaning`, is proved.
* `FindsTheStatements` of `PreParse`: what a scan finds in a text is told by
  induction over how the text was written, and no shape of entry covers all that can
  be written.
* `OffsetsFollow` of `Macros`: which tokens are of a torn argument is told by
  induction over the calls they came through.  That there is a place for every token
  is proved.

## 6. Where the code and its statements disagree

Found while modelling.  `pre_parse_options` is a run that TLC ends with a
counterexample:

1. *Options that follow each other.*  `sample.nxpch:3-4` has one option on the
   line after another.  A value without brackets ends at the first blank, which
   is the newline, and `find('\n')` then looks for the end of the line from
   behind it: the next line is taken into the same statement (`pre_parse.rs:125`).

The others are the exceptions that passing properties name:

2. *Unlabelled diagnostics.*  They are a `BTreeSet` ordered by labels; two
   without labels are equal, and no label is given to a missing version, a missing
   build ID, `#warning` and `#error`.  A warning of these four can displace an *error*
   of them, so that the command succeeds, or not, by the order of the source and the
   order the pool ran the builds in.  `#warning` and `#error` speak in skipped text
   too.  `ErrorsFailTheBuild` names this exception.
3. *Empty hunks in IPS.*  A run of equal bytes right after a run makes
   `generate_ips` encode an empty hunk, which the assertion of `encode_hunk_len`
   refuses.  `OnlyAdjoiningRunsStop` says that nothing else does.
4. *The unsafe offset.*  The check for a hunk at 0x45454F46 looks at the hunks of
   `iter_hunks`; cutting a hunk at its runs can still start a record there, which a
   reader takes for the end of the file: the file is then not the patch, against
   `output.rs:205-206`.  `HunksAvoidUnsafe` and `FileIsThePatch` except a run that
   meets other bytes right at that offset.
5. *The NUL of a string* is outside the bytes the parser checked and reserved: it
   overwrites an earlier item, or wraps past the end of the address space.
   `EachByteFromTheLatestItem` counts it as a byte of its item.
6. *Strings in pchtxt.*  An empty string, one that ends in a backslash and one with
   a vertical tab are written and not read back as they were, or not as a string at
   all: the reader may find its closing quote in the source behind it.
   `ReadsBackUnlessUnlucky` and `DebugIsThePatch` except these three.  A string
   that `pchtxt import` copies into nxpch is written as bare quoted text, without
   `.string`, which the compiler takes for an instruction (`pchtxt.rs:179-197`,
   `parse.rs:596-598`): such an import does not compile.  `ImportAgrees` says so.
7. *Values of an option* with a quote in a comment inside brackets: the quote opens
   a string, and its end may lie past the end of the text, where slicing panics
   (`pre_parse.rs:130`).  `FindsTheStatements` leaves these out (`Derails`).
8. *Macros.*  A comma within nested parentheses cuts an argument in two
   (`ExpansionIsMeaning`).  An argument of a call in a body may be put together of
   tokens from several places, as in `F(x + y)` with parameters `x` and `y`; the code
   takes it to stand in one piece (`preprocessor/macros.rs:104-109`), and an error in
   it is shown at a wrong place (`OffsetsFollow` excepts such `torn` arguments).  A
   macro whose body leads back to itself is expanded for ever
   (`preprocessor/macros.rs:137`; `CommandEnds` excepts it).  The macros of a
   condition are expanded before `defined()` looks at its name.
9. *Conditions.*  `!=` is evaluated as `==` (`preprocessor/expr.rs:180`:
   `ValueIsMeaning` leaves it out); division by zero, and in a build with
   overflow checks every overflow, is a panic of the program.
10. *Late failures.*  A patch ips cannot hold is refused when the old file has been
    emptied, and adjoining runs panic then; `pchtxt generate` fails after it wrote its
    output (`FailureKeepsTheFile`); nobody flushes the buffer of the output, so its
    last error is lost (`SuccessIsWritten`).
11. *Panics.*  Besides those of 3, 7 and 9: a code line with nothing behind the
    equals sign indexes `code_offsets` past its end (`parse.rs:389`, and `:363` for
    `.origin =`); a line of several instructions breaks the assertion on its size
    (`assemble.rs:102`, `:117`, `:180`).  `OutcomeIsDeserved` says that a command
    panics at these only, as far as the model has them: it takes as its input
    (`builds.trap`) *whether* the source or the patch has such a place.

## 7. What is not modelled, and what is abstracted

* `option.rs` and `json5`: what serde makes of the text of an option is an input
  of the parser in its final form.
* The text of directives, macro definitions, code lines and numbers:
  `PreprocessorDirective::parse`, `MacroDefine::parse`, the lexer of conditions
  (made by the `logos` crate) and the splitting of a code line are string handling
  without state; their results are inputs.  In a code line of `Parse` the macros it uses
  decide between forms that are inputs; `Macros` has the expansion itself.  A code line
  with an empty value is no input, since it panics (section 6.11).  The spans that `expr.rs:320-344` gives
  an error are abstracted to the token it is at.
* Expanding a line is one step of `Parse`, and parsing a source one of `Driver`: where
  they do not end or survive is the trap of the command's source.
* Keystone, Capstone, the zip container, `clap` and terminal output are external or pure
  I/O.  From the zip crate the model takes that a second file of one name is refused.
* Labels of diagnostics: a position stands for a span of its own per kind, so that of
  the labelled ones only those of one kind at one place can be equal in the set.
* `NothingDropped` of `PreParse` excuses a symbol left out behind any `//` of its line;
  where a comment really begins is what `FindsTheStatements` judges.
* `u32` arithmetic wraps (`Plus`) as in a release build; the overflow panics of a
  debug build are modelled in `Expr` only.
* The source lines that the debug pchtxt shows as comments.
* `main` never fills `forced.build_id`; the parser's filter by it is modelled,
  and the runs leave it out (`NoBuild`).

## 8. Plan

Done, in the order of importance: the preprocessor and its proofs; code lines and their proofs; forks and rounds, composed of both;
the assembler; the IPS writer; the zips and their proofs; conditions (macros
and evaluator); the pre-parser; the pchtxt writer, reader and import; the debug
pchtxt; the driver, composed with the zips, and its proofs.

The proofs of the parser, the assembler with its debug listing, the IPS writer, the
import and the writer of pchtxt, the pre-parser and the expansion of macros
followed.  What is left is in section 5, under what is only model-checked, and in
section 7.

## 9. How to run

    tlc -workers 2 -config MCPreprocessor.cfg MCPreprocessor    # a run
    tlapm FrontEndProofs.tla                                    # proofs

Each run of section 3 takes between a second and a minute and a half; a module
of proofs takes a few minutes, `ParseProofs` six and `PchtxtProofs` seven.
