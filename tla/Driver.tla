------------------------------ MODULE Driver ------------------------------
(***************************************************************************)
(* The commands, src/main.rs.  Those that write one file are build         *)
(* --single, import pchtxt, and pchtxt compile, minify and generate: what  *)
(* matters of them is what becomes of the file the output goes to, on      *)
(* every way through a command and whatever fails.  A build without        *)
(* --single makes zips, as module Zip has it.                              *)
(***************************************************************************)
EXTENDS Zip

CONSTANTS Pieces,     \* the output is written in this many pieces
          Capacity    \* of these the buffer of the file holds so many

ASSUME PiecesAssumption == Pieces \in Nat \ {0}
ASSUME CapacityAssumption == Capacity \in Nat \ {0}

VARIABLES command,  \* what is to be done; never changes
          builds,   \* what compiling gives for one file: its outputs, the patch, a trap; never changes
          step,     \* of the command
          holders,  \* results that hold the code of the one that is built
          errors,   \* the assembler reported one
          touched,  \* a file has been opened, and emptied
          handed,   \* pieces handed to the buffer
          onDisk,   \* pieces in the file
          broken,   \* the file system refused something
          outcome   \* "running", then "success", "failure" or "panic"

fileVars == <<command, builds, step, holders, errors, touched, handed, onDisk, broken, outcome>>

\* A build of nxpch to one file is for the file named, by its extension; for a name
\* without one, or none given; or for the standard output.
Commands ==
    [kind : {"single"}, dest : {"ips", "pchtxt", "other", "bare", "stdout"}]
    \cup [kind : {"generate", "compile", "minify", "import"}, dest : {"file", "stdout"}]
    \cup [kind : {"zips"}, dest : {"file"}]

MakesZips == command.kind = "zips"

\* Commands that compile nxpch, and want one output of it.
Compiles == command.kind \in {"single", "generate"}

\* Mutant: the patch is not asked for what the format cannot hold.
Format_Unchecked ==
    IF command.kind = "compile" \/ command.dest \in {"ips", "bare"} THEN "ips"
    ELSE IF command.kind = "import" THEN "nxpch" ELSE "pchtxt"

Format ==
    IF command.kind = "compile" \/ command.dest = "ips" \/ (command.dest = "bare" /\ builds.fitsIps)
    THEN "ips"
    ELSE IF command.kind = "import" THEN "nxpch" ELSE "pchtxt"

\* Where the program meets what it does not end or survive: reading the source (a slice
\* out of range, a division of an #if by zero), a macro that comes back to itself, a
\* line that Keystone makes more than a word of, two adjoining runs in an ips.
Traps == {"none", "parse", "loop", "assemble", "ips"}

\* The outputs of the two targets count as one where they are the same.
IsSingle ==
    \/ builds.emulator + builds.hardware = 1
    \/ builds.emulator = 1 /\ builds.hardware = 1 /\ builds.same

-----------------------------------------------------------------------------
NoPatches == [t \in Targets |-> <<>>]

Builds == [emulator : 0..2, hardware : 0..2, same : BOOLEAN, fitsIps : BOOLEAN, trap : Traps]

\* The outputs of zips are in patches, with traps of their own.
NoBuilds == {b \in Builds : b.emulator = 0 /\ b.hardware = 0 /\ ~b.same /\ ~b.fitsIps
                            /\ b.trap \in {"none", "parse", "loop"}}

InitCommand ==
    /\ Init
    /\ command \in Commands
    /\ builds \in IF MakesZips THEN NoBuilds ELSE Builds
    /\ builds.trap \in {"loop", "assemble"} => Compiles \/ MakesZips
    /\ MakesZips <=> patches # NoPatches
    /\ step = "source"
    /\ holders = 0
    /\ errors = FALSE /\ touched = FALSE /\ broken = FALSE
    /\ handed = 0 /\ onDisk = 0
    /\ outcome = "running"

In(s) == outcome = "running" /\ step = s

Fail == outcome' = "failure" /\ UNCHANGED step

GoTo(s) == step' = s /\ UNCHANGED outcome

Panic == outcome' = "panic" /\ UNCHANGED step

ReadSource ==
    /\ In("source")
    /\ Fail \/ GoTo("parse")
    /\ UNCHANGED <<command, builds, holders, errors, touched, handed, onDisk, broken>>

\* A macro that comes back to itself is replaced for ever, a step that leads nowhere.
StuckInSource ==
    /\ In("parse") /\ builds.trap \in {"parse", "loop"}
    /\ IF builds.trap = "parse" THEN Panic ELSE UNCHANGED <<step, outcome>>
    /\ UNCHANGED <<command, builds, holders, errors, touched, handed, onDisk, broken>>

\* The parser of the source and, for a build, parse_statements: forks share the code.
ParseSource ==
    /\ In("parse") /\ builds.trap \notin {"parse", "loop"}
    /\ \/ Fail /\ UNCHANGED holders
       \/ MakesZips /\ GoTo("zips") /\ UNCHANGED holders
       \/ ~MakesZips /\ ~Compiles /\ GoTo("open") /\ UNCHANGED holders
       \/ /\ Compiles /\ builds.emulator + builds.hardware > 0
          /\ GoTo("narrow")
          /\ holders' \in 1..(builds.emulator + builds.hardware)
    /\ UNCHANGED <<command, builds, errors, touched, handed, onDisk, broken>>

\* Mutant: the other target's result is still held.
Narrow_Holds ==
    /\ In("narrow")
    /\ IF ~IsSingle THEN Fail ELSE GoTo(IF command.kind = "single" THEN "assemble" ELSE "open")
    /\ UNCHANGED <<command, builds, holders, errors, touched, handed, onDisk, broken>>

\* narrow_to_single_output: all results but one are dropped.
Narrow ==
    /\ In("narrow")
    /\ IF ~IsSingle THEN Fail /\ UNCHANGED holders
       ELSE GoTo(IF command.kind = "single" THEN "assemble" ELSE "open") /\ holders' = 1
    /\ UNCHANGED <<command, builds, errors, touched, handed, onDisk, broken>>

\* Arc::try_unwrap(to_build.code).unwrap()
Unwrapped == Compiles => holders = 1

\* The assembler's errors are counted; and the extension may be unknown.
Assemble ==
    /\ In("assemble")
    /\ errors' \in BOOLEAN
    /\ IF ~Unwrapped \/ builds.trap = "assemble" THEN Panic
       ELSE IF errors' \/ command.dest = "other" THEN Fail ELSE GoTo("open")
    /\ UNCHANGED <<command, builds, holders, touched, handed, onDisk, broken>>

\* open_file, open_file_or_stdout: File::create empties the file.
Open ==
    /\ In("open")
    /\ \/ GoTo("write") /\ touched' = (command.dest # "stdout") /\ UNCHANGED broken
       \/ command.dest # "stdout" /\ Fail /\ broken' = TRUE /\ UNCHANGED touched
    /\ UNCHANGED <<command, builds, holders, errors, handed, onDisk>>

Refused == Format = "ips" /\ ~builds.fitsIps

\* generate_ips looks at the patch before it writes anything, but after Open.
RefuseFormat ==
    /\ In("write") /\ handed = 0 /\ Refused
    /\ Fail
    /\ UNCHANGED <<command, builds, holders, errors, touched, handed, onDisk, broken>>

\* Panics while the output is written: pchtxt generate assembles a line that is not one
\* word, generate_ips meets adjoining runs.
TrappedWriting ==
    \/ command.kind = "generate" /\ builds.trap = "assemble"
    \/ Format = "ips" /\ builds.trap = "ips" /\ ~Refused

\* Somewhere before the end.  The buffer is dropped, and written, all the same.
PanicWriting ==
    /\ In("write") /\ handed < Pieces /\ TrappedWriting
    /\ Panic
    /\ \/ onDisk' = handed /\ UNCHANGED broken
       \/ onDisk' = onDisk /\ broken' = TRUE
    /\ UNCHANGED <<command, builds, holders, errors, touched, handed>>

\* A full buffer is written out first.  Only pchtxt generate assembles as it writes,
\* and goes on after an error; it takes the code out of its Arc before it begins.
WritePiece ==
    /\ In("write") /\ handed < Pieces /\ ~Refused
    /\ TrappedWriting => handed + 1 < Pieces
    /\ IF ~Unwrapped THEN Panic /\ UNCHANGED <<errors, handed, onDisk, broken>>
       ELSE \/ /\ onDisk' = IF handed - onDisk = Capacity THEN handed ELSE onDisk
               /\ handed' = handed + 1
               /\ errors' \in IF command.kind = "generate" THEN {errors, TRUE} ELSE {errors}
               /\ UNCHANGED <<step, broken, outcome>>
            \/ /\ handed - onDisk = Capacity
               /\ Fail /\ broken' = TRUE
               /\ UNCHANGED <<onDisk, handed, errors>>
    /\ UNCHANGED <<command, builds, holders, touched>>

\* Nothing calls flush: the buffer is written when it is dropped, and an error is lost.
DropFile ==
    /\ In("write") /\ handed = Pieces
    /\ \/ onDisk' = handed /\ UNCHANGED broken
       \/ onDisk' = onDisk /\ broken' = TRUE
    /\ GoTo("end")
    /\ UNCHANGED <<command, builds, holders, errors, touched, handed>>

\* Mutant: the errors are printed only.
CloseFile_Uncounted ==
    /\ In("end")
    /\ outcome' = "success"
    /\ UNCHANGED <<command, builds, step, holders, errors, touched, handed, onDisk, broken>>

\* pchtxt generate counts the assembler's errors last.
CloseFile ==
    /\ In("end")
    /\ outcome' = IF errors THEN "failure" ELSE "success"
    /\ UNCHANGED <<command, builds, step, holders, errors, touched, handed, onDisk, broken>>

FileStep ==
    \/ ReadSource \/ StuckInSource \/ ParseSource \/ Narrow \/ Assemble \/ Open \/ RefuseFormat
    \/ PanicWriting \/ WritePiece \/ DropFile \/ CloseFile

\* Mutant: the result of the zips is dropped.
EndZips_Ignores ==
    /\ In("zips") /\ phase \in Outcomes
    /\ outcome' = "success"
    /\ UNCHANGED <<command, builds, step, holders, errors, touched, handed, onDisk, broken>>

\* What main returns.
EndZips ==
    /\ In("zips") /\ phase \in Outcomes
    /\ outcome' = IF phase = "built" THEN "success"
                  ELSE IF phase = "failed" THEN "failure" ELSE "panic"
    /\ UNCHANGED <<command, builds, step, holders, errors, touched, handed, onDisk, broken>>

CommandEnded == outcome # "running" /\ UNCHANGED <<vars, fileVars>>

NextCommand ==
    \/ (FileStep \/ EndZips) /\ UNCHANGED vars
    \/ In("zips") /\ Next /\ UNCHANGED fileVars
    \/ CommandEnded

\* Main goes on, and so does the pool; nothing need fail.
SpecCommand ==
    /\ InitCommand /\ [][NextCommand]_<<vars, fileVars>>
    /\ WF_<<vars, fileVars>>((FileStep \/ EndZips) /\ UNCHANGED vars)
    /\ WF_<<vars, fileVars>>(In("zips") /\ Main /\ UNCHANGED fileVars)
    /\ \A t \in Targets : WF_<<vars, fileVars>>(In("zips") /\ ZipJob(t) /\ UNCHANGED fileVars)

-----------------------------------------------------------------------------
(* The types; and no more is in the file than was handed to it.            *)
FileTypeOK ==
    /\ command \in Commands
    /\ builds \in Builds
    /\ step \in {"source", "parse", "zips", "narrow", "assemble", "open", "write", "end"}
    /\ holders \in 0..4
    /\ errors \in BOOLEAN /\ touched \in BOOLEAN /\ broken \in BOOLEAN
    /\ handed \in 0..Pieces /\ onDisk \in 0..handed
    /\ handed - onDisk <= Capacity
    /\ outcome \in {"running", "success", "failure", "panic"}

(* A command panics over its input alone, in the few ways that are known:  *)
(* never over code that somebody else holds when it is taken out of its    *)
(* Arc, whatever the forks of the parser shared.                           *)
PanicsOverInput ==
    outcome = "panic" =>
        \/ builds.trap = "parse"
        \/ Compiles /\ builds.trap = "assemble"
        \/ ~MakesZips /\ TrappedWriting
        \/ MakesZips /\ \E t \in Targets : \E i \in DOMAIN patches[t] :
              patches[t][i].trap = "assemble" \/ Overruns(patches[t][i])

(* A command that fails or panics, on a file system that does neither,     *)
(* leaves the old file alone, but for the four that look at what they      *)
(* write too late: ips was asked for and cannot hold the patch; the ips    *)
(* has adjoining runs; pchtxt generate met a line that does not assemble,  *)
(* or one that makes more than a word.                                     *)
FailureKeepsTheFile ==
    outcome \in {"failure", "panic"} /\ ~broken /\ touched =>
        \/ /\ (command.kind = "compile" \/ command.dest = "ips") /\ ~builds.fitsIps
           /\ outcome = "failure" /\ onDisk = 0
        \/ command.kind = "generate" /\ errors /\ outcome = "failure" /\ onDisk = Pieces
        \/ TrappedWriting /\ outcome = "panic" /\ onDisk < Pieces

(* A build the assembler had errors for does not end as a success, and     *)
(* neither does one whose several outputs are not the same.                *)
BadBuildsFail == outcome = "success" => ~errors /\ (Compiles => IsSingle)

(* A command that says it is finished has its output in its place, all of  *)
(* it: every zip there is something for; the file, unless the buffer could *)
(* not be written out when it was dropped, which nobody is told.           *)
SuccessIsWritten ==
    outcome = "success" =>
        IF MakesZips THEN disk = {t \in Targets : patches[t] # <<>>}
        ELSE onDisk = Pieces \/ broken

(* A command ends as it should: in a panic over its input only, as a       *)
(* failure after any error, and as a success only when its output is in    *)
(* its place.                                                              *)
OutcomeIsDeserved == PanicsOverInput /\ BadBuildsFail /\ SuccessIsWritten

(* Every command comes to an end, unless a macro comes back to itself:     *)
(* main waits for both jobs of a build, one of which the pool may never    *)
(* start once the other has failed, and every loop moves on.               *)
CommandEnds == builds.trap # "loop" => <>(outcome # "running")
=============================================================================
