---------------------------- MODULE DriverProofs ----------------------------
(***************************************************************************)
(* What Zip says of the zips in their place, for any lists of builds; then *)
(* what Driver says of every command, for outputs and buffers of any size, *)
(* and of the zips, as parts of the command that makes them.               *)
(***************************************************************************)
EXTENDS Driver, SequenceTheorems, TLAPS

-----------------------------------------------------------------------------
(* The zips: the invariant tells what each job has done so far, and what   *)
(* the list of diagnostics must hold for it.                               *)

Jobs == {"queued", "assembling", "writing"} \cup Ended

\* What a job may write.
Entries == {Entry(t, i) : t \in Targets, i \in Nat}

Types ==
    /\ patches \in [Targets -> Seq(Patches)]
    /\ job \in [Targets -> Jobs]
    /\ unassembled \in [Targets -> SUBSET Nat]
    /\ next \in [Targets -> Nat]
    /\ entries \in [Targets -> Seq(Entries)]
    /\ disk \subseteq Targets
    /\ phase \in {"generating", "moving"} \cup Outcomes

-----------------------------------------------------------------------------
(* The job of one target.                                                  *)
Counts(t) ==
    /\ unassembled[t] \subseteq DOMAIN patches[t]
    /\ next[t] \in 1..(Len(patches[t]) + 1)
    /\ Len(entries[t]) < next[t]
    /\ job[t] \in {"writing", "finished"} => unassembled[t] = {}
    /\ job[t] = "finished" => next[t] = Len(patches[t]) + 1
    /\ job[t] = "none" <=> patches[t] = <<>>

Bad(kind, t, i) == [kind |-> kind, target |-> t, patch |-> i]

BadAsmReported(t) ==
    \A i \in DOMAIN patches[t] :
        patches[t][i].assembles \/ i \in unassembled[t] \/ Bad("InvalidAsm", t, i) \in diags

RefusalsReported(t) ==
    \A i \in 1..(next[t] - 1) :
        \/ Complaint(t, patches[t][i]) = "none"
        \/ Bad(Complaint(t, patches[t][i]), t, i) \in diags

\* While nothing was left out, the zip holds the patches so far.
Complete(t) ==
    (\A i \in 1..(next[t] - 1) : Complaint(t, patches[t][i]) = "none") =>
        /\ Len(entries[t]) = next[t] - 1
        /\ \A i \in 1..(next[t] - 1) : entries[t][i] = Entry(t, i)

\* No job writes what it would not survive, nor ends in a panic for anything else.
Survives(t) ==
    /\ \A i \in 1..(next[t] - 1) : Complaint(t, patches[t][i]) # "none" \/ ~Overruns(patches[t][i])
    /\ job[t] \in {"writing", "finished"} => \A i \in DOMAIN patches[t] : patches[t][i].trap # "assemble"
    /\ job[t] = "panicked" =>
          \E i \in DOMAIN patches[t] : patches[t][i].trap = "assemble" \/ Overruns(patches[t][i])

OwnPaths(t) ==
    \A i, j \in DOMAIN entries[t] : i # j => entries[t][i].path # entries[t][j].path

JobInv(t) ==
    /\ Counts(t) /\ BadAsmReported(t) /\ RefusalsReported(t) /\ Complete(t) /\ OwnPaths(t)
    /\ Survives(t)

(* The main thread.                                                        *)
Clean ==
    /\ \A t \in Targets : job[t] \in {"none", "finished"}
    /\ \A d \in diags : d.kind \in Warnings

MainInv ==
    /\ phase # "generating" => \A t \in Targets : job[t] \in Ended
    /\ phase = "generating" => disk = {}
    /\ phase \in {"moving", "built"} \/ disk # {} => Clean
    /\ \A t \in disk : job[t] = "finished"
    /\ phase = "built" => \A t \in Targets : job[t] = "finished" => t \in disk
    /\ phase = "panicked" => \E t \in Targets : job[t] = "panicked"
    /\ \A t \in Targets : job[t] = "skipped" => \E u \in Targets : job[u] = "error"

Invariant == Types /\ MainInv /\ \A t \in Targets : JobInv(t)

-----------------------------------------------------------------------------
(* What the formats and paths depend on never changes.                     *)
LEMMA PatchesStay == ASSUME [Next]_vars PROVE patches' = patches
BY DEF Next, vars, Main, Gather, MoveZip, Finish, Done, ZipJob, OpenZip, SkipZip, AssembleOne,
       AllAssembled, RefusePatch, WritePatch, FinishZip, ZipFails

LEMMA SameWords ==
    ASSUME patches' = patches
    PROVE  /\ \A t, i : Entry(t, i)' = Entry(t, i)
           /\ \A t, p : Complaint(t, p)' = Complaint(t, p)
           /\ Entries' = Entries
<1>1. \A t : AllForcePchtxt(t)' = AllForcePchtxt(t)
    BY DEF AllForcePchtxt
<1>2. \A t : Layout(t)' = Layout(t)
    BY <1>1 DEF Layout
<1>3. \A t, p : Path(t, p)' = Path(t, p)
    BY <1>2 DEF Path
<1>4. \A t, i : Entry(t, i)' = Entry(t, i)
    BY <1>3 DEF Entry
<1>5. \A t, p : Complaint(t, p)' = Complaint(t, p)
    BY <1>1 DEF Complaint
<1>6. Entries' = Entries
    BY <1>4 DEF Entries
<1>. QED
    BY <1>4, <1>5, <1>6

(* A job is not disturbed by what another one does.                        *)
LEMMA OthersJob ==
    ASSUME NEW t \in Targets, JobInv(t),
           patches' = patches, diags \subseteq diags',
           job'[t] = job[t], unassembled'[t] = unassembled[t],
           next'[t] = next[t], entries'[t] = entries[t]
    PROVE  JobInv(t)'
<1>1. /\ \A u, i : Entry(u, i)' = Entry(u, i)
      /\ \A u, p : Complaint(u, p)' = Complaint(u, p)
    BY SameWords
<1>2. Counts(t)'
    BY DEF JobInv, Counts
<1>3. BadAsmReported(t)'
    BY DEF JobInv, BadAsmReported
<1>4. RefusalsReported(t)'
    BY <1>1 DEF JobInv, RefusalsReported
<1>5. Complete(t)'
    BY <1>1 DEF JobInv, Complete
<1>6. OwnPaths(t)'
    BY DEF JobInv, OwnPaths
<1>7. Survives(t)'
    BY <1>1 DEF JobInv, Survives
<1>. QED
    BY <1>2, <1>3, <1>4, <1>5, <1>6, <1>7 DEF JobInv

-----------------------------------------------------------------------------
LEMMA InitInvariant == ASSUME Init PROVE Invariant
<1>1. patches \in [Targets -> Seq(Patches)]
    BY InputsAssumption DEF Init
<1>2. Types
    BY <1>1 DEF Init, Types, Jobs, Ended, Outcomes
<1>3. MainInv
    BY DEF Init, MainInv
<1>4. ASSUME NEW t \in Targets PROVE JobInv(t)
    <2>1. patches[t] \in Seq(Patches) /\ next[t] = 1 /\ entries[t] = <<>>
          /\ unassembled[t] = DOMAIN patches[t] /\ job[t] \in {"none", "queued"}
          /\ (job[t] = "none" <=> patches[t] = <<>>)
        BY <1>1 DEF Init
    <2>. QED
        BY <2>1 DEF JobInv, Counts, BadAsmReported, RefusalsReported, Complete, OwnPaths, Survives
<1>. QED
    BY <1>2, <1>3, <1>4 DEF Invariant

(* The types, step by step.                                                *)
LEMMA NextTypes == ASSUME Types, [Next]_vars PROVE Types'
<1>. USE DEF Types, Jobs, Ended, Outcomes
<1>1. Entries' = Entries
    BY PatchesStay, SameWords
<1>2. ASSUME Main PROVE Types'
    BY <1>1, <1>2 DEF Main, Gather, MoveZip, Finish, NextToMove, Targets
<1>3. ASSUME NEW t \in Targets, OpenZip(t) \/ SkipZip(t) \/ AllAssembled(t) \/ FinishZip(t) \/ ZipFails(t)
      PROVE  Types'
    BY <1>1, <1>3 DEF OpenZip, SkipZip, AllAssembled, FinishZip, ZipFails, Goes
<1>4. ASSUME NEW t \in Targets, NEW i \in unassembled[t], AssembleOne(t, i) PROVE Types'
    BY <1>1, <1>4 DEF AssembleOne
<1>5. ASSUME NEW t \in Targets, RefusePatch(t) PROVE Types'
    BY <1>1, <1>5 DEF RefusePatch
<1>6. ASSUME NEW t \in Targets, WritePatch(t) PROVE Types'
    <2>1. Entry(t, next[t]) \in Entries
        BY DEF Entries
    <2>2. Append(entries[t], Entry(t, next[t])) \in Seq(Entries)
        BY <2>1, AppendProperties
    <2>3. entries' \in [Targets -> Seq(Entries)]
        BY <1>6, <2>2 DEF WritePatch
    <2>4. next' \in [Targets -> Nat] /\ job' \in [Targets -> Jobs]
        <3>1. next' = next \/ next' = [next EXCEPT ![t] = @ + 1]
            BY <1>6 DEF WritePatch
        <3>2. job' = job \/ job' = [job EXCEPT ![t] = "error"] \/ job' = [job EXCEPT ![t] = "panicked"]
            BY <1>6 DEF WritePatch, Goes
        <3>3. next' \in [Targets -> Nat]
            <4>1. next \in [Targets -> Nat]
                OBVIOUS
            <4>. HIDE DEF Types
            <4>. QED
                BY <3>1, <4>1
        <3>4. job' \in [Targets -> Jobs]
            BY <3>2
        <3>. QED
            BY <3>3, <3>4
    <2>5. UNCHANGED <<patches, unassembled, diags, disk, phase>>
        BY <1>6 DEF WritePatch
    <2>. QED
        BY <1>1, <2>3, <2>4, <2>5
<1>7. ASSUME UNCHANGED vars PROVE Types'
    BY <1>1, <1>7 DEF vars
<1>. QED
    BY <1>2, <1>3, <1>4, <1>5, <1>6, <1>7 DEF Next, Done, ZipJob

(* The job that moves.                                                     *)
LEMMA OwnStep ==
    ASSUME Types, Types', NEW t \in Targets, JobInv(t), ZipJob(t) \/ ZipFails(t)
    PROVE  JobInv(t)'
<1>. USE DEF JobInv, Counts
<1>1. patches' = patches /\ patches[t] \in Seq(Patches) /\ Len(patches[t]) \in Nat
    BY DEF Types, ZipJob, OpenZip, SkipZip, AssembleOne, AllAssembled, RefusePatch, WritePatch,
           FinishZip, ZipFails
<1>2. /\ \A u, i : Entry(u, i)' = Entry(u, i)
      /\ \A u, p : Complaint(u, p)' = Complaint(u, p)
    BY <1>1, SameWords
<1>3. CASE OpenZip(t) \/ SkipZip(t) \/ AllAssembled(t) \/ FinishZip(t) \/ ZipFails(t)
    <2>. USE <1>3 DEF OpenZip, SkipZip, AllAssembled, FinishZip, ZipFails, Goes
    <2>1. Counts(t)'
        BY <1>1 DEF Types
    <2>2. diags \subseteq diags' /\ unassembled' = unassembled /\ next' = next /\ entries' = entries
        OBVIOUS
    <2>3. BadAsmReported(t)'
        BY <1>1, <2>2 DEF BadAsmReported
    <2>4. RefusalsReported(t)'
        BY <1>1, <1>2, <2>2 DEF RefusalsReported
    <2>5. Complete(t)' /\ OwnPaths(t)'
        BY <1>1, <1>2, <2>2 DEF Complete, OwnPaths
    <2>6. Survives(t)'
        BY <1>1, <1>2, <2>2 DEF Survives, Types
    <2>. QED
        BY <2>1, <2>3, <2>4, <2>5, <2>6
<1>4. CASE \E i \in unassembled[t] : AssembleOne(t, i)
    <2>1. PICK i \in unassembled[t] : AssembleOne(t, i)
        BY <1>4
    <2>. USE <2>1 DEF AssembleOne
    <2>2. diags \subseteq diags' /\ job' = job /\ next' = next /\ entries' = entries
          /\ unassembled'[t] = unassembled[t] \ {i}
        BY DEF Types
    <2>3. Counts(t)'
        BY <1>1, <2>2
    <2>4. BadAsmReported(t)'
        BY <1>1, <2>2 DEF BadAsmReported, Bad
    <2>5. RefusalsReported(t)'
        BY <1>1, <1>2, <2>2 DEF RefusalsReported
    <2>6. Complete(t)' /\ OwnPaths(t)'
        BY <1>1, <1>2, <2>2 DEF Complete, OwnPaths
    <2>7. Survives(t)'
        BY <1>1, <1>2, <2>2 DEF Survives
    <2>. QED
        BY <2>3, <2>4, <2>5, <2>6, <2>7
<1>5. CASE RefusePatch(t)
    <2>1. /\ next[t] \in DOMAIN patches[t] /\ Complaint(t, patches[t][next[t]]) # "none"
          /\ next'[t] = next[t] + 1 /\ job' = job /\ unassembled' = unassembled /\ entries' = entries
          /\ diags' = diags \cup {Bad(Complaint(t, patches[t][next[t]]), t, next[t])}
        BY <1>5 DEF RefusePatch, Types, Bad
    <2>2. Counts(t)'
        BY <1>1, <2>1 DEF Types
    <2>3. BadAsmReported(t)'
        BY <1>1, <2>1 DEF BadAsmReported
    <2>4. RefusalsReported(t)'
        <3>1. \A i \in 1..(next'[t] - 1) : i = next[t] \/ i \in 1..(next[t] - 1)
            BY <2>1 DEF Types
        <3>. HIDE DEF JobInv, Counts
        <3>2. RefusalsReported(t)
            BY DEF JobInv
        <3>3. \A i : Complaint(t, patches[t][i])' = Complaint(t, patches[t][i])
            BY <1>1, <1>2
        <3>4. \A kind, i : Bad(kind, t, i) \in diags => Bad(kind, t, i) \in diags'
            BY <2>1
        <3>5. Bad(Complaint(t, patches[t][next[t]]), t, next[t]) \in diags'
            BY <2>1
        <3>6. ASSUME NEW i \in 1..(next'[t] - 1)
              PROVE  \/ Complaint(t, patches[t][i]) = "none"
                     \/ Bad(Complaint(t, patches[t][i]), t, i) \in diags'
            <4>1. CASE i = next[t]
                BY <3>5, <4>1
            <4>2. CASE i \in 1..(next[t] - 1)
                BY <3>2, <3>4, <4>2 DEF RefusalsReported
            <4>. QED
                BY <3>1, <4>1, <4>2
        <3>. QED
            BY <1>1, <1>2, <3>6 DEF RefusalsReported
    <2>5. Complete(t)'
        <3>1. next[t] \in 1..(next'[t] - 1)
            BY <1>1, <2>1 DEF Types
        <3>2. \E i \in 1..(next'[t] - 1) : Complaint(t, patches[t][i]) # "none"
            BY <2>1, <3>1
        <3>. QED
            BY <1>1, <1>2, <3>2 DEF Complete
    <2>6. OwnPaths(t)'
        BY <2>1 DEF OwnPaths
    <2>7. Survives(t)'
        <3>1. \A i \in 1..(next'[t] - 1) : i = next[t] \/ i \in 1..(next[t] - 1)
            BY <2>1 DEF Types
        <3>2. Survives(t) /\ job[t] = "writing"
            BY <1>5 DEF RefusePatch
        <3>. QED
            BY <1>1, <1>2, <2>1, <3>1, <3>2 DEF Survives
    <2>. QED
        BY <2>6, <2>2, <2>3, <2>4, <2>5, <2>7
<1>6. CASE WritePatch(t)
    <2>1. CASE entries' = entries
        <3>1. next' = next /\ job'[t] \in {"error", "panicked"} /\ unassembled' = unassembled /\ diags' = diags
              /\ (job'[t] = "panicked" => Overruns(patches[t][next[t]]) /\ next[t] \in DOMAIN patches[t])
            <4>1. Len(entries[t]) \in Nat /\ Len(Append(entries[t], Entry(t, next[t]))) = Len(entries[t]) + 1
                BY DEF Types
            <4>. QED
                BY <1>6, <2>1, <4>1 DEF WritePatch, Goes, Types
        <3>2. job[t] = "writing" /\ patches[t] # <<>>
            BY <1>6 DEF WritePatch
        <3>3. Counts(t)' /\ BadAsmReported(t)'
            BY <1>1, <2>1, <3>1, <3>2 DEF Types, BadAsmReported
        <3>4. RefusalsReported(t)' /\ Complete(t)' /\ OwnPaths(t)'
            BY <1>1, <1>2, <2>1, <3>1 DEF RefusalsReported, Complete, OwnPaths
        <3>5. Survives(t)'
            BY <1>1, <1>2, <3>1 DEF Survives
        <3>. QED
            BY <3>3, <3>4, <3>5
    <2>2. CASE entries' # entries
        <3>1. /\ next[t] \in DOMAIN patches[t] /\ Complaint(t, patches[t][next[t]]) = "none"
              /\ next'[t] = next[t] + 1 /\ job' = job /\ unassembled' = unassembled /\ diags' = diags
              /\ entries'[t] = Append(entries[t], Entry(t, next[t]))
              /\ \A i \in DOMAIN entries[t] : entries[t][i].path # Entry(t, next[t]).path
              /\ ~Overruns(patches[t][next[t]])
            BY <1>6, <2>2 DEF WritePatch, Goes, Types
        <3>2. entries[t] \in Seq(Entries) /\ next[t] \in Nat
            BY DEF Types
        <3>3. /\ Len(entries'[t]) = Len(entries[t]) + 1
              /\ entries'[t][Len(entries[t]) + 1] = Entry(t, next[t])
              /\ \A i \in 1..Len(entries[t]) : entries'[t][i] = entries[t][i]
            BY <3>1, <3>2
        <3>4. Counts(t)' /\ BadAsmReported(t)'
            BY <1>1, <3>1, <3>2, <3>3 DEF BadAsmReported
        <3>5. RefusalsReported(t)'
            <4>1. \A i \in 1..(next'[t] - 1) : i = next[t] \/ i \in 1..(next[t] - 1)
                BY <3>1, <3>2
            <4>. HIDE DEF JobInv, Counts
            <4>2. RefusalsReported(t)
                BY DEF JobInv
            <4>3. \A i : Complaint(t, patches[t][i])' = Complaint(t, patches[t][i])
                BY <1>1, <1>2
            <4>4. ASSUME NEW i \in 1..(next'[t] - 1)
                  PROVE  \/ Complaint(t, patches[t][i]) = "none"
                         \/ Bad(Complaint(t, patches[t][i]), t, i) \in diags
                BY <3>1, <4>1, <4>2 DEF RefusalsReported
            <4>. QED
                BY <1>1, <1>2, <3>1, <4>4 DEF RefusalsReported
        <3>6. Complete(t)'
            <4>1. next'[t] - 1 = next[t] /\ \A i \in 1..next[t] : i = next[t] \/ i \in 1..(next[t] - 1)
                BY <3>1, <3>2
            <4>2. SUFFICES ASSUME \A i \in 1..next[t] : Complaint(t, patches[t][i]) = "none"
                           PROVE  /\ Len(entries'[t]) = next[t]
                                  /\ \A i \in 1..next[t] : entries'[t][i] = Entry(t, i)
                BY <1>1, <1>2, <4>1 DEF Complete
            <4>3. /\ Len(entries[t]) = next[t] - 1
                  /\ \A i \in 1..(next[t] - 1) : entries[t][i] = Entry(t, i)
                <5>1. Complete(t)
                    OBVIOUS
                <5>2. \A i \in 1..(next[t] - 1) : i \in 1..next[t]
                    BY <3>2
                <5>. HIDE DEF JobInv, Counts
                <5>. QED
                    BY <4>2, <5>1, <5>2 DEF Complete
            <4>4. Len(entries'[t]) = next[t] /\ entries'[t][next[t]] = Entry(t, next[t])
                BY <3>2, <3>3, <4>3
            <4>5. \A i \in 1..(next[t] - 1) : entries'[t][i] = Entry(t, i)
                BY <3>2, <3>3, <4>3
            <4>. HIDE DEF JobInv, Counts
            <4>. QED
                BY <4>1, <4>4, <4>5
        <3>7. OwnPaths(t)'
            BY <1>2, <3>1, <3>2, <3>3 DEF OwnPaths, Types
        <3>8. Survives(t)'
            <4>1. \A i \in 1..(next'[t] - 1) : i = next[t] \/ i \in 1..(next[t] - 1)
                BY <3>1, <3>2
            <4>. QED
                BY <1>1, <1>2, <3>1, <4>1 DEF Survives
        <3>. QED
            BY <3>4, <3>5, <3>6, <3>7, <3>8
    <2>. QED
        BY <2>1, <2>2
<1>. QED
    BY <1>3, <1>4, <1>5, <1>6 DEF ZipJob

(* The main thread: after Gather no job moves, and none is reported more.  *)
LEMMA NextMain == ASSUME Types, MainInv, [Next]_vars PROVE MainInv'
<1>. USE DEF MainInv
<1>1. ASSUME NEW t \in Targets, ZipJob(t) \/ ZipFails(t) PROVE MainInv'
    <2>. USE DEF ZipJob, OpenZip, SkipZip, AssembleOne, AllAssembled, RefusePatch, WritePatch, FinishZip,
                 ZipFails
    <2>1. job[t] \in {"queued", "assembling", "writing"} /\ UNCHANGED <<disk, phase>>
        BY <1>1
    <2>2. phase = "generating" /\ disk = {}
        BY <2>1 DEF Ended, Types
    <2>3. ASSUME NEW u \in Targets, job'[u] = "skipped" PROVE \E v \in Targets : job'[v] = "error"
        <3>1. \A v \in Targets : job[v] = "error" => job'[v] = "error"
            BY <1>1, <2>1 DEF Goes, Types
        <3>2. CASE SkipZip(t)
            BY <3>1, <3>2
        <3>3. CASE job'[u] = job[u]
            BY <2>3, <3>1, <3>3
        <3>4. CASE ~SkipZip(t) /\ job'[u] # job[u]
            <4>1. \E state \in {"assembling", "writing", "finished", "error", "panicked"} : Goes(t, state)
                BY <1>1, <3>4
            <4>. QED
                BY <2>3, <3>4, <4>1 DEF Goes, Types
        <3>. QED
            BY <3>2, <3>3, <3>4
    <2>. QED
        BY <2>1, <2>2, <2>3
<1>2. ASSUME Gather PROVE MainInv'
    <2>1. UNCHANGED <<job, diags, disk>> /\ \A t \in Targets : job[t] \in Ended
        BY <1>2 DEF Gather
    <2>2. disk = {}
        BY <1>2 DEF Gather
    <2>3. phase' = "moving" => Clean
        BY <1>2, <2>1 DEF Gather, BuildFailed, Clean, Ended
    <2>4. Clean' = Clean
        BY <2>1 DEF Clean
    <2>. QED
        BY <1>2, <2>1, <2>2, <2>3, <2>4 DEF Gather
<1>3. ASSUME MoveZip \/ Finish PROVE MainInv'
    <2>1. UNCHANGED <<job, diags>> /\ phase = "moving" /\ phase' \notin {"generating", "panicked"}
        BY <1>3 DEF MoveZip, Finish
    <2>2. phase' = "built" => disk' = disk /\ ToMove = {}
        BY <1>3, <2>1 DEF MoveZip, Finish
    <2>3. disk' \subseteq disk \cup {t \in Targets : job[t] = "finished"}
        BY <1>3 DEF MoveZip, Finish, NextToMove, ToMove, Targets
    <2>4. Clean' = Clean
        BY <2>1 DEF Clean
    <2>. QED
        BY <2>1, <2>2, <2>3, <2>4 DEF ToMove
<1>4. ASSUME UNCHANGED vars PROVE MainInv'
    BY <1>4 DEF vars, Clean
<1>. QED
    BY <1>1, <1>2, <1>3, <1>4 DEF Next, Main, Done

LEMMA NextInvariant == ASSUME Invariant, [Next]_vars PROVE Invariant'
<1>. USE DEF Invariant
<1>1. Types' /\ MainInv'
    BY NextTypes, NextMain
<1>2. ASSUME NEW t \in Targets, ZipJob(t) \/ ZipFails(t), NEW u \in Targets PROVE JobInv(u)'
    <2>1. CASE u = t
        BY <1>1, <1>2, <2>1, OwnStep
    <2>2. CASE u # t
        <3>. USE DEF ZipJob, OpenZip, SkipZip, AssembleOne, AllAssembled, RefusePatch, WritePatch,
                     FinishZip, ZipFails, Goes
        <3>1. patches' = patches /\ diags \subseteq diags'
            BY <1>2
        <3>2. /\ job'[u] = job[u] /\ unassembled'[u] = unassembled[u]
              /\ next'[u] = next[u] /\ entries'[u] = entries[u]
            BY <1>2, <2>2 DEF Types
        <3>. HIDE DEF ZipJob, ZipFails
        <3>. QED
            BY <3>1, <3>2, OthersJob
    <2>. QED
        BY <2>1, <2>2
<1>3. ASSUME Main \/ UNCHANGED vars, NEW u \in Targets PROVE JobInv(u)'
    <2>1. UNCHANGED <<patches, job, unassembled, next, entries, diags>>
        BY <1>3 DEF Main, Gather, MoveZip, Finish, vars
    <2>. QED
        BY <2>1, OthersJob
<1>. QED
    BY <1>1, <1>2, <1>3 DEF Next, Done

(* The invariant is inductive.                                             *)
THEOREM InvariantHolds == Spec => []Invariant
<1>. QED
    BY InitInvariant, NextInvariant, PTL DEF Spec

-----------------------------------------------------------------------------
(* In a zip that is in its place no patch was left out, nor one that does  *)
(* not assemble let in.                                                    *)
LEMMA NothingLeftOut ==
    ASSUME Invariant, disk # {}, NEW t \in Targets
    PROVE  /\ \A i \in DOMAIN patches[t] :
                  /\ patches[t][i].assembles /\ patches[t][i].trap # "assemble"
                  /\ Complaint(t, patches[t][i]) = "none" /\ ~Overruns(patches[t][i])
           /\ Len(entries[t]) = Len(patches[t])
           /\ \A i \in DOMAIN patches[t] : entries[t][i] = Entry(t, i)
<1>1. Clean /\ JobInv(t) /\ patches[t] \in Seq(Patches) /\ entries[t] \in Seq(Entries)
    BY DEF Invariant, MainInv, Types
<1>2. /\ \A kind, i : Bad(kind, t, i) \in diags => kind \in Warnings
      /\ job[t] \in {"none", "finished"}
    BY <1>1 DEF Clean, Bad
<1>3. DOMAIN patches[t] = 1..Len(patches[t]) /\ Len(patches[t]) \in Nat /\ Len(entries[t]) \in Nat
    BY <1>1
<1>4. \A p : Complaint(t, p) \notin Warnings
    BY DEF Complaint, Warnings
<1>5. CASE patches[t] = <<>>
    BY <1>1, <1>3, <1>5 DEF JobInv, Counts
<1>6. CASE patches[t] # <<>>
    <2>1. job[t] = "finished" /\ next[t] = Len(patches[t]) + 1 /\ unassembled[t] = {}
        BY <1>1, <1>2, <1>6 DEF JobInv, Counts
    <2>2. \A i \in DOMAIN patches[t] : patches[t][i].assembles
        BY <1>1, <1>2, <2>1 DEF JobInv, BadAsmReported, Warnings
    <2>3. \A i \in DOMAIN patches[t] : Complaint(t, patches[t][i]) = "none"
        BY <1>1, <1>2, <1>3, <1>4, <2>1 DEF JobInv, RefusalsReported
    <2>4. \A i \in DOMAIN patches[t] : patches[t][i].trap # "assemble" /\ ~Overruns(patches[t][i])
        BY <1>1, <1>3, <2>1, <2>3 DEF JobInv, Survives
    <2>. QED
        BY <1>1, <1>3, <2>1, <2>2, <2>3, <2>4 DEF JobInv, Complete
<1>. QED
    BY <1>5, <1>6

(* The types, and that a job writes after all was assembled, for any lists.*)
THEOREM TypeCorrect == Spec => []TypeOK
<1>1. Invariant => TypeOK
    BY DEF Invariant, Types, TypeOK, JobInv, Counts, MainInv, Jobs
<1>. QED
    BY <1>1, InvariantHolds, PTL

(* An error anywhere, in either target, keeps both zips from their place.  *)
THEOREM ErrorsKeepZipsAway == Spec => []NothingWrittenAfterAnError
<1>1. Invariant => NothingWrittenAfterAnError
    BY NothingLeftOut DEF Invariant, MainInv, Clean, NothingWrittenAfterAnError
<1>. QED
    BY <1>1, InvariantHolds, PTL

(* A zip in its place holds every build of its target, at its own path.    *)
THEOREM ZipsAreComplete == Spec => []ZipHoldsEveryBuild
<1>1. ASSUME Invariant, NEW t \in disk PROVE
          /\ Len(entries[t]) = Len(patches[t])
          /\ \A i \in DOMAIN entries[t] :
                /\ entries[t][i].patch = i
                /\ \A j \in 1..(i - 1) : entries[t][j].path # entries[t][i].path
    <2>1. t \in Targets /\ disk # {} /\ OwnPaths(t)
          /\ patches[t] \in Seq(Patches) /\ entries[t] \in Seq(Entries)
        BY <1>1 DEF Invariant, Types, JobInv
    <2>2. Len(entries[t]) = Len(patches[t]) /\ \A i \in DOMAIN patches[t] : entries[t][i] = Entry(t, i)
        BY <1>1, <2>1, NothingLeftOut
    <2>3. DOMAIN entries[t] = 1..Len(entries[t]) /\ DOMAIN patches[t] = 1..Len(patches[t])
          /\ Len(entries[t]) \in Nat
        BY <2>1
    <2>4. \A i \in DOMAIN entries[t] : entries[t][i].patch = i
        <3>1. \A i : Entry(t, i).patch = i
            BY DEF Entry
        <3>. QED
            BY <2>2, <2>3, <3>1
    <2>5. \A i \in DOMAIN entries[t] : \A j \in 1..(i - 1) : entries[t][j].path # entries[t][i].path
        BY <2>1, <2>3 DEF OwnPaths
    <2>. QED
        BY <2>2, <2>4, <2>5
<1>2. Invariant => ZipHoldsEveryBuild
    BY <1>1 DEF ZipHoldsEveryBuild
<1>. QED
    BY <1>2, InvariantHolds, PTL

(* A format that is forced is kept, and ips never chosen for a patch it    *)
(* cannot hold.                                                            *)
THEOREM FormatsAreKept == Spec => []ForcedFormatIsKept
<1>1. ASSUME Invariant, NEW t \in disk, NEW i \in DOMAIN entries[t]
      PROVE  LET p == patches[t][entries[t][i].patch]
             IN  /\ Forced(p, "Ips") => entries[t][i].extension = "ips"
                 /\ Forced(p, "Pchtxt") => entries[t][i].extension = "pchtxt"
                 /\ entries[t][i].extension = "ips" => ~p.refused
    <2>1. t \in Targets /\ disk # {} /\ patches[t] \in Seq(Patches) /\ entries[t] \in Seq(Entries)
        BY <1>1 DEF Invariant, Types
    <2>2. i \in DOMAIN patches[t] /\ entries[t][i] = Entry(t, i) /\ Complaint(t, patches[t][i]) = "none"
        BY <1>1, <2>1, NothingLeftOut
    <2> DEFINE p == patches[t][i]
    <2>3. entries[t][i].patch = i /\ entries[t][i].extension = Extension(p)
        <3>1. Entry(t, i).patch = i /\ Entry(t, i).extension = Extension(p)
            BY DEF Entry
        <3>. QED
            BY <2>2, <3>1
    <2>4. Forced(p, "Ips") => ~Forced(p, "Pchtxt") /\ ~IpsRefused(p)
        BY <2>2 DEF Complaint, Forced
    <2>5. /\ Forced(p, "Ips") => Extension(p) = "ips"
          /\ Forced(p, "Pchtxt") => Extension(p) = "pchtxt"
          /\ Extension(p) = "ips" => ~p.refused
        BY <2>4 DEF Extension, IpsRefused
    <2>. QED
        BY <2>3, <2>5
<1>2. Invariant => ForcedFormatIsKept
    BY <1>1 DEF ForcedFormatIsKept
<1>. QED
    BY <1>2, InvariantHolds, PTL

(* The hardware zip is of one format, the one its directories are for.     *)
THEOREM HardwareOfOneFormat == Spec => []HardwareIsUniform
<1>1. ASSUME Invariant, "hardware" \in disk, NEW i \in DOMAIN entries["hardware"]
      PROVE  entries["hardware"][i].extension =
                 (IF Layout("hardware") = "ipswitch" THEN "pchtxt" ELSE "ips")
    <2> DEFINE p == patches["hardware"][i]
    <2>1. "hardware" \in Targets /\ disk # {} /\ patches["hardware"] \in Seq(Patches)
          /\ entries["hardware"] \in Seq(Entries)
        BY <1>1 DEF Invariant, Types, Targets
    <2>2. /\ i \in DOMAIN patches["hardware"] /\ entries["hardware"][i] = Entry("hardware", i)
          /\ Complaint("hardware", p) = "none"
        BY <1>1, <2>1, NothingLeftOut
    <2>3. CASE AllForcePchtxt("hardware")
        BY <2>2, <2>3 DEF AllForcePchtxt, Entry, Extension, Forced, Layout
    <2>4. CASE ~AllForcePchtxt("hardware")
        BY <2>2, <2>4 DEF Entry, Extension, Forced, Layout, Complaint, ForceIpsDefault, IpsRefused
    <2>. QED
        BY <2>3, <2>4
<1>2. Invariant => HardwareIsUniform
    BY <1>1 DEF HardwareIsUniform
<1>. QED
    BY <1>2, InvariantHolds, PTL

(* Together: every file in a zip has the format its patch and its reader   *)
(* ask for.                                                                *)
THEOREM FormatsAreRight == Spec => []FormatsFit
<1>. QED
    BY FormatsAreKept, HardwareOfOneFormat, PTL DEF FormatsFit

-----------------------------------------------------------------------------
(* A build of zips that is over has every zip there is something for.      *)
LEMMA BuiltIsWritten ==
    ASSUME Invariant, phase = "built"
    PROVE  disk = {t \in Targets : patches[t] # <<>>}
<1>1. \A t \in Targets : job[t] \in {"none", "finished"} /\ (job[t] = "none" <=> patches[t] = <<>>)
    BY DEF Invariant, MainInv, Clean, JobInv, Counts
<1>2. disk \subseteq Targets /\ (\A t \in disk : job[t] = "finished")
      /\ \A t \in Targets : job[t] = "finished" => t \in disk
    BY DEF Invariant, Types, MainInv
<1>. QED
    BY <1>1, <1>2

-----------------------------------------------------------------------------
(* The commands.                                                           *)

\* The file is opened in the last two steps only, and by no build of zips.
BeforeOpen == {"source", "parse", "zips", "narrow", "assemble", "open"}

(* What holds between the steps of a command.                              *)
NotOpenedYet == step \in BeforeOpen => ~touched /\ handed = 0 /\ onDisk = 0

NarrowedFirst ==
    step \in {"assemble", "open", "write", "end"} /\ Compiles => IsSingle /\ holders = 1

ErrorsWait ==
    errors => \/ step = "assemble" /\ outcome \in {"failure", "panic"}
              \/ command.kind = "generate" /\ step \in {"write", "end"}

PatchFits == handed > 0 => ~Refused

AtTheEnd ==
    /\ step = "end" => handed = Pieces /\ (onDisk = Pieces \/ broken)
    /\ outcome = "success" => step \in {"end", "zips"}
    /\ step = "assemble" => command.kind = "single"
    /\ step = "zips" <=> MakesZips /\ step \notin {"source", "parse"}

Panics ==
    outcome = "panic" =>
        \/ builds.trap = "parse"
        \/ Compiles /\ builds.trap = "assemble"
        \/ ~MakesZips /\ TrappedWriting
        \/ MakesZips /\ phase = "panicked"

FileInvariant ==
    /\ FileTypeOK /\ Panics
    /\ NotOpenedYet /\ NarrowedFirst /\ ErrorsWait /\ PatchFits /\ AtTheEnd
    /\ FailureKeepsTheFile /\ BadBuildsFail

-----------------------------------------------------------------------------
\* A patch is refused where ips was named, never where the format was chosen for it.
LEMMA OnlyNamedIpsIsRefused ==
    ASSUME command \in Commands, Refused
    PROVE  (command.kind = "compile" \/ command.dest = "ips") /\ ~builds.fitsIps
BY DEF Refused, Format, Commands

LEMMA InitFile == ASSUME InitCommand PROVE FileInvariant
<1>. USE PiecesAssumption, CapacityAssumption
<1>1. handed \in 0..Pieces /\ onDisk \in 0..handed /\ handed - onDisk <= Capacity
    BY DEF InitCommand
<1>2. holders \in 0..4
    BY DEF InitCommand
<1>3. errors \in BOOLEAN /\ touched \in BOOLEAN /\ broken \in BOOLEAN
    BY Zenon DEF InitCommand
<1>4. FileTypeOK
    <2>1. step \in {"source", "zips", "narrow", "assemble", "open", "write", "end"}
          /\ outcome \in {"running", "success", "failure", "panic"}
        BY DEF InitCommand
    <2>2. NoBuilds \subseteq Builds
        BY DEF NoBuilds
    <2>3. command \in Commands /\ builds \in Builds
        BY <2>2, Zenon DEF InitCommand
    <2>. QED
        BY <1>1, <1>2, <1>3, <2>1, <2>3, Zenon DEF FileTypeOK
<1>. QED
    BY <1>4 DEF InitCommand, FileInvariant, Panics, NotOpenedYet, NarrowedFirst, ErrorsWait, PatchFits,
                AtTheEnd, FailureKeepsTheFile, BadBuildsFail

LEMMA NextFile == ASSUME FileInvariant, [NextCommand]_<<vars, fileVars>> PROVE FileInvariant'
<1>. USE PiecesAssumption, CapacityAssumption
         DEF FileInvariant, FileTypeOK, Builds, Traps, MakesZips, Panics, NotOpenedYet, NarrowedFirst, ErrorsWait, PatchFits, AtTheEnd,
             FailureKeepsTheFile, BadBuildsFail, BeforeOpen, Refused, Format, Compiles, IsSingle,
             TrappedWriting
<1>1. CASE ReadSource
    BY <1>1 DEF ReadSource, Fail, GoTo, In
<1>11. CASE StuckInSource
    BY <1>11 DEF StuckInSource, Panic, In
<1>12. CASE ParseSource
    BY <1>12 DEF ParseSource, Fail, GoTo, In
<1>13. CASE PanicWriting
    <2>. USE <1>13 DEF PanicWriting, Panic, In
    <2>1. handed' \in 0..Pieces /\ onDisk' \in 0..handed' /\ handed' - onDisk' <= Capacity
        OBVIOUS
    <2>2. FileTypeOK'
        BY <2>1
    <2>3. Panics' /\ NotOpenedYet' /\ NarrowedFirst'
        OBVIOUS
    <2>4. ErrorsWait' /\ PatchFits' /\ AtTheEnd'
        OBVIOUS
    <2>5. FailureKeepsTheFile' /\ BadBuildsFail'
        OBVIOUS
    <2>. QED
        BY <2>2, <2>3, <2>4, <2>5
<1>2. CASE Narrow
    BY <1>2 DEF Narrow, Fail, GoTo, In
<1>3. CASE Assemble
    BY <1>3 DEF Assemble, Fail, GoTo, Panic, In, Unwrapped
<1>4. CASE Open
    <2>. USE <1>4 DEF Open, Fail, GoTo, In
    <2>1. FileTypeOK'
        OBVIOUS
    <2>2. Panics' /\ NotOpenedYet' /\ NarrowedFirst'
        OBVIOUS
    <2>3. ErrorsWait' /\ PatchFits' /\ AtTheEnd'
        OBVIOUS
    <2>4. FailureKeepsTheFile' /\ BadBuildsFail'
        OBVIOUS
    <2>. QED
        BY <2>1, <2>2, <2>3, <2>4
<1>5. CASE RefuseFormat
    BY <1>5, OnlyNamedIpsIsRefused DEF RefuseFormat, Fail, In
<1>6. CASE WritePiece
    <2>. USE <1>6 DEF WritePiece, Fail, Panic, In, Unwrapped
    <2>1. Unwrapped
        OBVIOUS
    <2>2. handed' \in 0..Pieces /\ onDisk' \in 0..handed' /\ handed' - onDisk' <= Capacity
        <3>1. Pieces \in Nat /\ Capacity \in Nat /\ Capacity >= 1
            OBVIOUS
        <3>2. handed \in Nat /\ onDisk \in Nat /\ onDisk <= handed
              /\ handed - onDisk <= Capacity /\ handed < Pieces
            OBVIOUS
        <3>3. \/ handed' = handed /\ onDisk' = onDisk
              \/ handed' = handed + 1 /\ onDisk' = handed /\ handed - onDisk = Capacity
              \/ handed' = handed + 1 /\ onDisk' = onDisk /\ handed - onDisk # Capacity
            BY <2>1
        <3>. HIDE <1>6
        <3>. QED
            BY <3>1, <3>2, <3>3
    <2>3. FileTypeOK'
        BY <2>1, <2>2
    <2>4. Panics' /\ NotOpenedYet' /\ NarrowedFirst'
        BY <2>1
    <2>5. ErrorsWait' /\ PatchFits' /\ AtTheEnd'
        BY <2>1
    <2>6. FailureKeepsTheFile' /\ BadBuildsFail'
        BY <2>1
    <2>. QED
        BY <2>3, <2>4, <2>5, <2>6
<1>7. CASE DropFile
    <2>. USE <1>7 DEF DropFile, Fail, GoTo, In
    <2>1. handed' \in 0..Pieces /\ onDisk' \in 0..handed' /\ handed' - onDisk' <= Capacity
        OBVIOUS
    <2>2. FileTypeOK'
        BY <2>1
    <2>3. Panics' /\ NotOpenedYet' /\ NarrowedFirst'
        OBVIOUS
    <2>4. ErrorsWait' /\ PatchFits' /\ AtTheEnd'
        OBVIOUS
    <2>5. FailureKeepsTheFile' /\ BadBuildsFail'
        OBVIOUS
    <2>. QED
        BY <2>2, <2>3, <2>4, <2>5
<1>8. CASE CloseFile
    BY <1>8 DEF CloseFile, In
<1>9. CASE EndZips /\ UNCHANGED vars
    BY <1>9 DEF EndZips, Outcomes, In, vars
<1>10. CASE (In("zips") \/ UNCHANGED vars) /\ UNCHANGED fileVars
    BY <1>10 DEF fileVars, vars, In
<1>. QED
    BY <1>1, <1>2, <1>3, <1>4, <1>5, <1>6, <1>7, <1>8, <1>9, <1>10, <1>11, <1>12, <1>13
       DEF NextCommand, FileStep, CommandEnded

(* The invariant is inductive.                                             *)
THEOREM FileInvariantHolds == SpecCommand => []FileInvariant
<1>. QED
    BY InitFile, NextFile, PTL DEF SpecCommand

(* A command stays well typed, whatever the sizes of the output and of the *)
(* buffer: never more is in the file than was handed to it.                *)
THEOREM FileTypeCorrect == SpecCommand => []FileTypeOK
<1>. QED
    BY FileInvariantHolds, PTL DEF FileInvariant

(* The only failures and panics that cost the old file, while the file     *)
(* system works: a patch that the ips asked for cannot hold or its writer  *)
(* does not survive, and generate's bad lines.                             *)
THEOREM FileIsKept == SpecCommand => []FailureKeepsTheFile
<1>. QED
    BY FileInvariantHolds, PTL DEF FileInvariant

(* What main returns for a build of zips is what became of them.           *)
ZipsDecide == MakesZips /\ outcome = "success" => phase = "built"

LEMMA NextZipsDecide ==
    ASSUME FileInvariant, ZipsDecide, [NextCommand]_<<vars, fileVars>> PROVE ZipsDecide'
<1>. USE DEF ZipsDecide, MakesZips
<1>1. CASE FileStep /\ UNCHANGED vars
    <2>1. ~MakesZips \/ step \in {"source", "parse", "zips"}
        BY DEF FileInvariant, AtTheEnd
    <2>. QED
        BY <1>1, <2>1 DEF FileStep, ReadSource, StuckInSource, ParseSource, Narrow, Assemble, Open,
                          RefuseFormat, PanicWriting, WritePiece, DropFile, CloseFile, In, Fail, GoTo, Panic, FileInvariant, FileTypeOK
<1>2. CASE EndZips /\ UNCHANGED vars
    BY <1>2 DEF EndZips, vars
<1>3. CASE In("zips") /\ UNCHANGED fileVars
    BY <1>3 DEF In, fileVars
<1>4. CASE UNCHANGED <<vars, fileVars>>
    BY <1>4 DEF vars, fileVars
<1>. QED
    BY <1>1, <1>2, <1>3, <1>4 DEF NextCommand, CommandEnded

(* No build with an error of the assembler, and none with outputs that     *)
(* differ, ends as a success.                                              *)
THEOREM BadBuildsAreFailures == SpecCommand => []BadBuildsFail
<1>. QED
    BY FileInvariantHolds, PTL DEF FileInvariant

-----------------------------------------------------------------------------
(* What a command does to the zips is what Zip allows: the steps of main   *)
(* and of the jobs, or nothing.                                            *)
THEOREM CommandImplementsZip == SpecCommand => Spec
<1>1. InitCommand => Init
    BY DEF InitCommand
<1>2. [NextCommand]_<<vars, fileVars>> => [Next]_vars
    BY DEF NextCommand, CommandEnded
<1>. QED
    BY <1>1, <1>2, PTL DEF SpecCommand, Spec

(* No command puts a zip in its place after an error of either target.     *)
THEOREM CommandKeepsZipsAway == SpecCommand => []NothingWrittenAfterAnError
<1>. QED
    BY CommandImplementsZip, ErrorsKeepZipsAway, PTL

(* A command ends as it should: in a panic only where its input holds a    *)
(* trap, as a failure after any error, and as a success only with all of   *)
(* its output in its place.                                                *)
THEOREM OutcomesAreDeserved == SpecCommand => []OutcomeIsDeserved
<1>1. InitCommand => ZipsDecide
    BY DEF InitCommand, ZipsDecide
<1>2. SpecCommand => []ZipsDecide
    BY <1>1, NextZipsDecide, FileInvariantHolds, PTL DEF SpecCommand
<1>3. SpecCommand => []Invariant
    BY CommandImplementsZip, InvariantHolds, PTL
<1>4. FileInvariant /\ Invariant /\ ZipsDecide => OutcomeIsDeserved
    <2>. SUFFICES ASSUME FileInvariant, Invariant, ZipsDecide PROVE OutcomeIsDeserved
        OBVIOUS
    <2>1. MakesZips /\ outcome = "success" => disk = {t \in Targets : patches[t] # <<>>}
        BY BuiltIsWritten DEF ZipsDecide
    <2>2. ~MakesZips /\ outcome = "success" => onDisk = Pieces \/ broken
        BY DEF FileInvariant, AtTheEnd
    <2>3. phase = "panicked" => \E t \in Targets : \E i \in DOMAIN patches[t] :
                                   patches[t][i].trap = "assemble" \/ Overruns(patches[t][i])
        BY DEF Invariant, MainInv, JobInv, Survives
    <2>4. PanicsOverInput
        BY <2>3 DEF PanicsOverInput, Panics, FileInvariant
    <2>. QED
        BY <2>1, <2>2, <2>4 DEF OutcomeIsDeserved, SuccessIsWritten, FileInvariant
<1>. QED
    BY <1>2, <1>3, <1>4, FileInvariantHolds, PTL

(* No command puts a file of the wrong format in a zip, or leaves one out. *)
THEOREM CommandFillsTheZips == SpecCommand => [](FormatsFit /\ ZipHoldsEveryBuild)
<1>. QED
    BY CommandImplementsZip, FormatsAreRight, ZipsAreComplete, PTL
=============================================================================
