-------------------------------- MODULE Zip --------------------------------
(***************************************************************************)
(* The zips of a build: the zip branch of main (src/main.rs) and           *)
(* src/zip_gen.rs.  One job per target runs on the thread pool; each       *)
(* assembles its patches in parallel jobs of their own, then writes them   *)
(* in order to a temporary file.  All share one list of diagnostics.  Only *)
(* when both jobs are over, and no error was recorded, are the temporary   *)
(* files moved to their place, one after the other.                        *)
(*                                                                         *)
(* A patch is what the parser made of one build: its settings, build ID,   *)
(* name and version, the format it forces, and three facts about its code: *)
(* whether it assembles, whether check_generate_ips refuses it, and which  *)
(* assertion it breaks: that a line is one word (assemble.rs), or that no  *)
(* piece of an ips is empty (generate_ips, two runs that adjoin).          *)
(***************************************************************************)
EXTENDS Naturals, Sequences

CONSTANTS Patches,
          Inputs,       \* the patches per target, each list sorted
          NoFormat

Targets == {"emulator", "hardware"}

ASSUME InputsAssumption == Inputs \subseteq [Targets -> Seq(Patches)]

VARIABLES patches,      \* the patches of each target; never change
          job,          \* where the job of each target is
          unassembled,  \* the patches of each target no thread has assembled
          next,         \* the patch each job writes next
          entries,      \* the files in each temporary zip
          diags,        \* the shared list, as a set
          disk,         \* the targets whose zip is in its place
          phase         \* of the main thread

vars == <<patches, job, unassembled, next, entries, diags, disk, phase>>

Outcomes == {"built", "failed", "panicked"}

Ended == {"none", "skipped", "finished", "error", "panicked"}

Warnings == {"InconsistentModNames", "InconsistentModVersions"}

-----------------------------------------------------------------------------
Forced(p, format) == p.format = format

AllForcePchtxt(t) == \A i \in DOMAIN patches[t] : Forced(patches[t][i], "Pchtxt")

ForceIpsDefault(t) == t = "hardware"

\* ips_generate_error; not asked when pchtxt is forced.
IpsRefused(p) == ~Forced(p, "Pchtxt") /\ p.refused

\* Mutant: one build for hardware may force pchtxt alone.
Complaint_AllowsForced(t, p) ==
    IF ForceIpsDefault(t) /\ ~AllForcePchtxt(t) /\ IpsRefused(p) THEN "PchtxtRequired"
    ELSE IF Forced(p, "Ips") /\ IpsRefused(p) THEN "IpsError" ELSE "none"

\* Why the patch cannot be written, in the order the code asks.
Complaint(t, p) ==
    IF ForceIpsDefault(t) /\ ~AllForcePchtxt(t) /\ IpsRefused(p) THEN "PchtxtRequired"
    ELSE IF ForceIpsDefault(t) /\ ~AllForcePchtxt(t) /\ Forced(p, "Pchtxt") THEN "PchtxtPartiallyRequested"
    ELSE IF Forced(p, "Ips") /\ IpsRefused(p) THEN "IpsError"
    ELSE "none"

\* Mutant: the format is chosen by what can be written only.
Extension_Ignores(p) == IF p.refused THEN "pchtxt" ELSE "ips"

Extension(p) ==
    IF Forced(p, "Ips") \/ (~Forced(p, "Pchtxt") /\ ~IpsRefused(p)) THEN "ips" ELSE "pchtxt"

\* An ips is not written to its end.
Overruns(p) == p.trap = "ips" /\ Extension(p) = "ips"

\* The directories of the hardware zip tell which program reads it.
Layout(t) ==
    IF t = "emulator" THEN "exefs" ELSE IF AllForcePchtxt(t) THEN "ipswitch" ELSE "exefs_patches"

Path(t, p) == <<p.settings, Layout(t), p.name, p.build, Extension(p)>>

Entry(t, i) ==
    [path |-> Path(t, patches[t][i]), extension |-> Extension(patches[t][i]), patch |-> i]

\* generate_zip_filename: the first name and version, a warning for each other.
NameDiags(t) ==
    LET first == patches[t][1]
        others == {i \in DOMAIN patches[t] : i > 1}
    IN  {[kind |-> "InconsistentModNames", target |-> t, patch |-> i] :
            i \in {j \in others : patches[t][j].name # first.name}} \cup
        {[kind |-> "InconsistentModVersions", target |-> t, patch |-> i] :
            i \in {j \in others : patches[t][j].version # first.version}}

-----------------------------------------------------------------------------
Init ==
    /\ patches \in Inputs
    /\ job = [t \in Targets |-> IF patches[t] = <<>> THEN "none" ELSE "queued"]
    /\ unassembled = [t \in Targets |-> DOMAIN patches[t]]
    /\ next = [t \in Targets |-> 1]
    /\ entries = [t \in Targets |-> <<>>]
    /\ diags = {}
    /\ disk = {}
    /\ phase = "generating"

Goes(t, state) == job' = [job EXCEPT ![t] = state]

\* The temporary file and the name of the zip.
OpenZip(t) ==
    /\ job[t] = "queued"
    /\ Goes(t, "assembling")
    /\ diags' = diags \cup NameDiags(t)
    /\ UNCHANGED <<patches, unassembled, next, entries, disk, phase>>

\* Collecting into a Result starts no job once another ended in an error.
SkipZip(t) ==
    /\ job[t] = "queued"
    /\ \E u \in Targets : job[u] = "error"
    /\ Goes(t, "skipped")
    /\ UNCHANGED <<patches, unassembled, next, entries, diags, disk, phase>>

AssembleOne(t, i) ==
    /\ job[t] = "assembling" /\ i \in unassembled[t]
    /\ unassembled' = [unassembled EXCEPT ![t] = @ \ {i}]
    /\ diags' = IF patches[t][i].assembles THEN diags
                ELSE diags \cup {[kind |-> "InvalidAsm", target |-> t, patch |-> i]}
    /\ UNCHANGED <<patches, job, next, entries, disk, phase>>

\* A panic of one of these jobs is raised again when all of them are over.
AllAssembled(t) ==
    /\ job[t] = "assembling" /\ unassembled[t] = {}
    /\ Goes(t, IF \E i \in DOMAIN patches[t] : patches[t][i].trap = "assemble"
               THEN "panicked" ELSE "writing")
    /\ UNCHANGED <<patches, unassembled, next, entries, diags, disk, phase>>

\* Mutants: nothing is said of a patch left out; the loop does not go on to the next.
RefusePatch_Silent(t) ==
    /\ job[t] = "writing" /\ next[t] \in DOMAIN patches[t]
    /\ Complaint(t, patches[t][next[t]]) # "none"
    /\ next' = [next EXCEPT ![t] = @ + 1]
    /\ UNCHANGED <<patches, job, unassembled, entries, diags, disk, phase>>

RefusePatch_Stays(t) ==
    /\ job[t] = "writing" /\ next[t] \in DOMAIN patches[t]
    /\ LET p == patches[t][next[t]]
       IN  /\ Complaint(t, p) # "none"
           /\ diags' = diags \cup {[kind |-> Complaint(t, p), target |-> t, patch |-> next[t]]}
    /\ UNCHANGED <<patches, job, unassembled, next, entries, disk, phase>>

\* A patch that cannot be written as asked: a diagnostic, and on to the next.
RefusePatch(t) ==
    /\ job[t] = "writing" /\ next[t] \in DOMAIN patches[t]
    /\ LET p == patches[t][next[t]]
       IN  /\ Complaint(t, p) # "none"
           /\ diags' = diags \cup {[kind |-> Complaint(t, p), target |-> t, patch |-> next[t]]}
    /\ next' = [next EXCEPT ![t] = @ + 1]
    /\ UNCHANGED <<patches, job, unassembled, entries, disk, phase>>

\* A zip does not hold two files of one name: start_file fails.
WritePatch(t) ==
    /\ job[t] = "writing" /\ next[t] \in DOMAIN patches[t]
    /\ Complaint(t, patches[t][next[t]]) = "none"
    /\ IF \E i \in DOMAIN entries[t] : entries[t][i].path = Entry(t, next[t]).path
       THEN Goes(t, "error") /\ UNCHANGED <<next, entries>>
       ELSE IF Overruns(patches[t][next[t]]) THEN Goes(t, "panicked") /\ UNCHANGED <<next, entries>>
       ELSE /\ entries' = [entries EXCEPT ![t] = Append(@, Entry(t, next[t]))]
            /\ next' = [next EXCEPT ![t] = @ + 1]
            /\ UNCHANGED job
    /\ UNCHANGED <<patches, unassembled, diags, disk, phase>>

FinishZip(t) ==
    /\ job[t] = "writing" /\ next[t] \notin DOMAIN patches[t]
    /\ Goes(t, "finished")
    /\ UNCHANGED <<patches, unassembled, next, entries, diags, disk, phase>>

\* Creating the temporary file, or a write to it, fails.
ZipFails(t) ==
    /\ job[t] \in {"queued", "writing"}
    /\ Goes(t, "error")
    /\ UNCHANGED <<patches, unassembled, next, entries, diags, disk, phase>>

\* Mutant: only the job's own result is looked at.
BuildFailed_NoCount == \E t \in Targets : job[t] = "error"

\* An error of a job ends main before the diagnostics are counted.
BuildFailed ==
    \/ \E t \in Targets : job[t] = "error"
    \/ \E d \in diags : d.kind \notin Warnings

\* A panic of a job becomes one of main, when both are over.
Gather ==
    /\ phase = "generating"
    /\ \A t \in Targets : job[t] \in Ended
    /\ phase' = IF \E t \in Targets : job[t] = "panicked" THEN "panicked"
                ELSE IF BuildFailed THEN "failed" ELSE "moving"
    /\ UNCHANGED <<patches, job, unassembled, next, entries, diags, disk>>

ToMove == {t \in Targets : job[t] = "finished" /\ t \notin disk}

\* The order of main's list.
NextToMove == IF "emulator" \in ToMove THEN "emulator" ELSE "hardware"

\* persist, which may fail and leave the zips already moved.
MoveZip ==
    /\ phase = "moving" /\ ToMove # {}
    /\ \/ disk' = disk \cup {NextToMove} /\ UNCHANGED phase
       \/ phase' = "failed" /\ UNCHANGED disk
    /\ UNCHANGED <<patches, job, unassembled, next, entries, diags>>

Finish ==
    /\ phase = "moving" /\ ToMove = {}
    /\ phase' = "built"
    /\ UNCHANGED <<patches, job, unassembled, next, entries, diags, disk>>

Done == phase \in Outcomes /\ UNCHANGED vars

ZipJob(t) ==
    \/ OpenZip(t) \/ SkipZip(t) \/ AllAssembled(t) \/ RefusePatch(t) \/ WritePatch(t)
    \/ FinishZip(t)
    \/ \E i \in unassembled[t] : AssembleOne(t, i)

Main == Gather \/ MoveZip \/ Finish

Next == Main \/ Done \/ \E t \in Targets : ZipJob(t) \/ ZipFails(t)

Spec == Init /\ [][Next]_vars

-----------------------------------------------------------------------------
(* The types; and a job writes only once its patches are assembled.        *)
TypeOK ==
    /\ job \in [Targets -> {"queued", "assembling", "writing"} \cup Ended]
    /\ \A t \in Targets :
          /\ unassembled[t] \subseteq DOMAIN patches[t]
          /\ next[t] \in 1..(Len(patches[t]) + 1)
          /\ Len(entries[t]) < next[t]
          /\ job[t] \in {"writing", "finished"} => unassembled[t] = {}
    /\ disk \subseteq {t \in Targets : job[t] = "finished"}
    /\ phase \in {"generating", "moving"} \cup Outcomes

(* No zip is put in its place when anything of either target went wrong:   *)
(* a line that does not assemble, a patch that cannot be written as asked, *)
(* an I/O error, a panic of a job; and no job still runs by then.          *)
NothingWrittenAfterAnError ==
    disk # {} =>
        /\ \A t \in Targets : job[t] \in {"none", "finished"}
        /\ \A t \in Targets : \A i \in DOMAIN patches[t] :
              /\ patches[t][i].assembles /\ patches[t][i].trap # "assemble"
              /\ Complaint(t, patches[t][i]) = "none" /\ ~Overruns(patches[t][i])

(* A zip that is written holds every build of its target, each under a     *)
(* path of its own that its settings and build ID lead to.                 *)
ZipHoldsEveryBuild ==
    \A t \in disk :
        /\ Len(entries[t]) = Len(patches[t])
        /\ \A i \in DOMAIN entries[t] :
              /\ entries[t][i].patch = i
              /\ \A j \in 1..(i - 1) : entries[t][j].path # entries[t][i].path

(* The format a build forces is the one it gets.                           *)
ForcedFormatIsKept ==
    \A t \in disk : \A i \in DOMAIN entries[t] :
        LET p == patches[t][entries[t][i].patch]
        IN  /\ Forced(p, "Ips") => entries[t][i].extension = "ips"
            /\ Forced(p, "Pchtxt") => entries[t][i].extension = "pchtxt"
            /\ entries[t][i].extension = "ips" => ~p.refused

(* A zip for hardware is of one format, the one its directories are for.   *)
HardwareIsUniform ==
    "hardware" \in disk =>
        \A i \in DOMAIN entries["hardware"] :
            entries["hardware"][i].extension =
                (IF Layout("hardware") = "ipswitch" THEN "pchtxt" ELSE "ips")

(* The format of every file in a zip is one its patch allows and the zip   *)
(* is read for.                                                            *)
FormatsFit == ForcedFormatIsKept /\ HardwareIsUniform
=============================================================================
