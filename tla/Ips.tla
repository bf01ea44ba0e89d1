-------------------------------- MODULE Ips --------------------------------
(***************************************************************************)
(* generate_ips of src/output.rs: a PatchVec written as an IPS32 file, one *)
(* action per hunk, or per round of the loop inside a hunk.  A record sets *)
(* the bytes it lists, or one byte repeated (RLE).  No record may start at *)
(* UnsafeOffset, whose four bytes a reader takes for the end of the file:  *)
(* a hunk that would start there is begun one byte earlier, with the byte  *)
(* the hunk before it gave up.                                             *)
(*                                                                         *)
(* The thresholds of the code are constants, so that small files reach     *)
(* every branch: Short is 3, Standard 14, Edge 10, Inner 15, MaxHunk       *)
(* 0xFFFF, UnsafeOffset 0x45454F46.                                        *)
(***************************************************************************)
EXTENDS PatchVec, SequencesExt

CONSTANTS Contents,     \* the patches to write
          Short, Standard, Edge, Inner, MaxHunk, UnsafeOffset,
          NoByte

ASSUME Thresholds ==
    /\ {Short, Standard, Edge, Inner} \subseteq Nat \ {0}
    /\ Edge <= Standard + 1     \* the slice of the first Edge bytes exists
    /\ Edge <= Inner            \* a run inside a hunk would be a run at its edge
    /\ MaxHunk \in Nat /\ MaxHunk > 1
    /\ UnsafeOffset \in 1..Top
    /\ NoByte \notin Bytes

ASSUME ContentsArePatches == \A d \in Contents : IsPatchVec(d)

VARIABLES data,         \* the patch; never changes
          from,         \* what the hunk iterator still holds
          addr, hunk,   \* the rest of the hunk being written, and where it goes
          safety,       \* safety_byte
          extra,        \* extra_byte
          finishing,    \* finishing_hunk: the length of the run at the end, 0 if none
          out,          \* the records written
          phase

vars == <<data, from, addr, hunk, safety, extra, finishing, out, phase>>

Outcomes == {"written", "refused", "failed", "bad length", "bad safety byte"}

-----------------------------------------------------------------------------
\* encode_standard_hunk, encode_rle_hunk.
StandardRecord(offset, bytes) == [offset |-> offset, rle |-> FALSE, bytes |-> bytes]

RleRecord(offset, byte, count) == [offset |-> offset, rle |-> TRUE, byte |-> byte, count |-> count]

Size(r) == IF r.rle THEN r.count ELSE Len(r.bytes)

\* What a reader of the file sets.
ByteAt(r, a) == IF r.rle THEN r.byte ELSE r.bytes[a - r.offset + 1]

Covered(r) == r.offset..(r.offset + Size(r) - 1)

AllEqual(s) == \A i, j \in DOMAIN s : s[i] = s[j]

From(s, n) == SubSeq(s, n + 1, Len(s))

\* The length of the run s begins with, `known` of it already seen.
RunLength(s, known) ==
    CHOOSE n \in known..Len(s) :
        /\ \A i \in (known + 1)..n : s[i] = s[1]
        /\ n = Len(s) \/ s[n + 1] # s[1]

\* The length of the run s ends with, 0 if it is shorter than Edge.
FinishingRun(s) ==
    IF Len(s) < Edge \/ ~AllEqual(From(s, Len(s) - Edge)) THEN 0
    ELSE CHOOSE n \in Edge..Len(s) :
            /\ \A i \in (Len(s) - n + 1)..Len(s) : s[i] = Last(s)
            /\ n = Len(s) \/ s[Len(s) - n] # Last(s)

\* The starts, from 0, of the windows of Inner equal bytes.
RunStarts(s) == {p \in 0..(Len(s) - Inner) : AllEqual(SubSeq(s, p + 1, p + Inner))}

FirstRun(s) == CHOOSE p \in RunStarts(s) : \A q \in RunStarts(s) : p <= q

-----------------------------------------------------------------------------
Init ==
    /\ data \in Contents
    /\ from = 0 /\ addr = 0 /\ hunk = <<>>
    /\ safety = NoByte /\ extra = NoByte /\ finishing = 0
    /\ out = <<>>
    /\ phase = "start"

Good(r) == Size(r) \in 1..MaxHunk

(* Records are written in order, up to the first encode_hunk_len refuses.  *)
Write(records, next) ==
    IF \A i \in DOMAIN records : Good(records[i])
    THEN out' = out \o records /\ phase' = next
    ELSE /\ phase' = "bad length"
         /\ out' = out \o SubSeq(records, 1,
                       CHOOSE n \in 0..(Len(records) - 1) :
                          ~Good(records[n + 1]) /\ \A i \in 1..n : Good(records[i]))

\* The check made again by generate_ips, and the header.
Start ==
    /\ phase = "start"
    /\ phase' = IF HasHunkStartingAt(data, UnsafeOffset) THEN "refused" ELSE "hunks"
    /\ UNCHANGED <<data, from, addr, hunk, safety, extra, finishing, out>>

Iterating == phase = "hunks" /\ Remaining(data, from) # {}

Base == NextBase(data, from)

Taken == Hunk(data, Base, MaxHunk)

End == Plus(Base, Len(Taken))

\* Mutant: nothing is guarded unless a hunk starts at the offset.
Guarded_StartOnly == HasHunkStartingAt(data, UnsafeOffset)

Guarded == HasEditAt(data, UnsafeOffset)

PlainHunk ==
    /\ Iterating
    /\ Guarded => UnsafeOffset \notin {End, Base}
    /\ from' = Base + Len(Taken)
    /\ addr' = Base /\ hunk' = Taken /\ extra' = NoByte
    /\ phase' = "whole"
    /\ UNCHANGED <<data, safety, finishing, out>>

\* The hunk ends where the next would start: its last byte is kept for that one.
HunkBeforeUnsafe ==
    /\ Iterating
    /\ Guarded /\ End = UnsafeOffset
    /\ from' = Base + Len(Taken)
    /\ addr' = Base /\ extra' = NoByte
    /\ IF safety # NoByte \/ Len(Taken) # MaxHunk
       THEN phase' = "bad safety byte" /\ UNCHANGED <<hunk, safety>>
       ELSE phase' = "whole" /\ hunk' = Front(Taken) /\ safety' = Last(Taken)
    /\ UNCHANGED <<data, finishing, out>>

\* Mutant: the byte given up is not put back.
WithSafetyByte_Lost(bytes) == bytes

WithSafetyByte(bytes) == <<safety>> \o bytes

\* Mutant: nothing makes room for the byte put in front.
HunkAtUnsafe_TooLong ==
    /\ Iterating
    /\ Guarded /\ End # UnsafeOffset /\ Base = UnsafeOffset
    /\ from' = Base + Len(Taken)
    /\ extra' = IF Len(Taken) = MaxHunk THEN Last(Taken) ELSE NoByte
    /\ IF safety = NoByte
       THEN phase' = "bad safety byte" /\ UNCHANGED <<addr, hunk, safety>>
       ELSE /\ phase' = "whole"
            /\ addr' = Base - 1
            /\ hunk' = WithSafetyByte(Taken)
            /\ safety' = NoByte
    /\ UNCHANGED <<data, finishing, out>>

\* The last byte of a full hunk makes room for the one put in front.
HunkAtUnsafe ==
    /\ Iterating
    /\ Guarded /\ End # UnsafeOffset /\ Base = UnsafeOffset
    /\ from' = Base + Len(Taken)
    /\ extra' = IF Len(Taken) = MaxHunk THEN Last(Taken) ELSE NoByte
    /\ IF safety = NoByte
       THEN phase' = "bad safety byte" /\ UNCHANGED <<addr, hunk, safety>>
       ELSE /\ phase' = "whole"
            /\ addr' = Base - 1
            /\ hunk' = WithSafetyByte(IF Len(Taken) = MaxHunk THEN Front(Taken) ELSE Taken)
            /\ safety' = NoByte
    /\ UNCHANGED <<data, finishing, out>>

\* Mutant: the address does not move past the record.
Past_Stays(a, n) == a

Past(a, n) == Plus(a, n)

\* Hunks written as one record.
WholeHunk ==
    /\ phase = "whole"
    /\ Len(hunk) <= Standard \/ AllEqual(hunk)
    /\ Write(<<IF Len(hunk) > Short /\ AllEqual(hunk)
               THEN RleRecord(addr, hunk[1], Len(hunk)) ELSE StandardRecord(addr, hunk)>>,
             "extra")
    /\ addr' = Past(addr, Len(hunk))
    /\ hunk' = <<>>
    /\ UNCHANGED <<data, from, safety, extra, finishing>>

\* A long hunk: the run it begins with is written, the one it ends with set aside.
SplitHunk ==
    /\ phase = "whole"
    /\ Len(hunk) > Standard /\ ~AllEqual(hunk)
    /\ LET n    == IF AllEqual(SubSeq(hunk, 1, Edge)) THEN RunLength(hunk, Edge) ELSE 0
           rest == From(hunk, n)
       IN  /\ Write(IF n = 0 THEN <<>> ELSE <<RleRecord(addr, hunk[1], n)>>, "middle")
           /\ addr' = Past(addr, n)
           /\ finishing' = FinishingRun(rest)
           \* The run set aside stays at the end of hunk; the code keeps it as a value and a length.
           /\ hunk' = rest
    /\ UNCHANGED <<data, from, safety, extra>>

\* The part of the hunk before the run set aside.
Middle == SubSeq(hunk, 1, Len(hunk) - finishing)

\* One round of the loop: the bytes before a run, and the run.
MiddleRun ==
    /\ phase = "middle"
    /\ RunStarts(Middle) # {}
    /\ LET p == FirstRun(Middle)
           n == RunLength(From(Middle, p), Inner)
       IN  /\ Write(<<StandardRecord(addr, SubSeq(Middle, 1, p)),
                      RleRecord(Past(addr, p), Middle[p + 1], n)>>, "middle")
           /\ addr' = Past(addr, p + n)
           /\ hunk' = From(hunk, p + n)
    /\ UNCHANGED <<data, from, safety, extra, finishing>>

\* The rest of the middle, and the run set aside.
LastOfHunk ==
    /\ phase = "middle"
    /\ RunStarts(Middle) = {}
    /\ Write((IF Middle = <<>> THEN <<>> ELSE <<StandardRecord(addr, Middle)>>) \o
             (IF finishing = 0 THEN <<>>
              ELSE <<RleRecord(Past(addr, Len(Middle)), Last(hunk), finishing)>>),
             "extra")
    /\ addr' = Past(addr, Len(hunk))
    /\ hunk' = <<>> /\ finishing' = 0
    /\ UNCHANGED <<data, from, safety, extra>>

ExtraByte ==
    /\ phase = "extra"
    /\ Write(IF extra = NoByte THEN <<>> ELSE <<StandardRecord(addr, <<extra>>)>>, "hunks")
    /\ extra' = NoByte
    /\ UNCHANGED <<data, from, addr, hunk, safety, finishing>>

\* The end-of-file mark.
EndOfPatch ==
    /\ phase = "hunks"
    /\ Remaining(data, from) = {}
    /\ phase' = "written"
    /\ UNCHANGED <<data, from, addr, hunk, safety, extra, finishing, out>>

\* Any write may fail; what was written before stays in the file.
WriteFails ==
    /\ phase \in {"hunks", "whole", "middle", "extra"}
    /\ phase' = "failed"
    /\ UNCHANGED <<data, from, addr, hunk, safety, extra, finishing, out>>

Done == phase \in Outcomes /\ UNCHANGED vars

Next ==
    \/ Start \/ PlainHunk \/ HunkBeforeUnsafe \/ HunkAtUnsafe
    \/ WholeHunk \/ SplitHunk \/ MiddleRun \/ LastOfHunk \/ ExtraByte
    \/ EndOfPatch \/ WriteFails \/ Done

Spec == Init /\ [][Next]_vars

-----------------------------------------------------------------------------
Records == [offset : Addresses, rle : {FALSE}, bytes : Seq(Bytes)] \cup
           [offset : Addresses, rle : {TRUE}, byte : Bytes, count : Nat]

(* The types of the variables; every record written has a length its two   *)
(* bytes hold, which is not 0, the mark of an RLE record.                  *)
TypeOK ==
    /\ IsPatchVec(data)
    /\ from \in 0..(Top + 1) /\ addr \in Addresses
    /\ hunk \in Seq(Bytes) /\ Len(hunk) <= MaxHunk
    /\ safety \in Bytes \cup {NoByte} /\ extra \in Bytes \cup {NoByte}
    /\ finishing \in 0..Len(hunk)
    /\ out \in Seq(Records)
    /\ \A i \in DOMAIN out : Good(out[i])
    /\ phase \in {"start", "hunks", "whole", "middle", "extra"} \cup Outcomes

(* The types; and at every moment, so also in a file a failed write cut    *)
(* short, what the file sets are bytes of the patch, each record after the *)
(* one before it and none setting a byte a second time.                    *)
EveryPrefixIsSound ==
    /\ TypeOK
    /\ \A i \in DOMAIN out : \A a \in Covered(out[i]) :
          a \in DOMAIN data /\ ByteAt(out[i], a) = data[a]
    /\ \A i \in 1..(Len(out) - 1) : out[i].offset + Size(out[i]) <= out[i + 1].offset

(* The byte given up before the unsafe offset is there when the next hunk  *)
(* asks for it, and no second one is kept meanwhile, because a patch with  *)
(* a hunk that starts at that offset was refused.                          *)
SafetyByteIsThere == phase # "bad safety byte"

RunOf(d, n, a) == \A k \in 0..(n - 1) : a + k \in DOMAIN d /\ d[a + k] = d[a]

\* A run worth a record of its own ends before a, or begins there, among other bytes.
RunMeetsOthersAt(d, a) ==
    /\ {a - 1, a} \subseteq DOMAIN d /\ d[a - 1] # d[a]
    /\ RunOf(d, Edge, a) \/ (a >= Edge /\ RunOf(d, Edge, a - Edge))

(* Only where a run meets other bytes can a record start at the unsafe     *)
(* offset, as the record of that run or the one behind it: cutting the     *)
(* patch into hunks of bounded size never makes one.                       *)
HunksAvoidUnsafe ==
    \A i \in DOMAIN out :
        out[i].offset = UnsafeOffset =>
            RunMeetsOthersAt(data, UnsafeOffset) /\ (out[i].rle \/ (i > 1 /\ out[i - 1].rle))

\* A reader takes a record that starts at UnsafeOffset for the end of the file.
Seen == {i \in DOMAIN out : \A j \in 1..i : out[j].offset # UnsafeOffset}

ReadBack == UNION {{<<a, ByteAt(out[i], a)>> : a \in Covered(out[i])} : i \in Seen}

(* Who reads a file that was written to its end sets every byte of the     *)
(* patch to its value and no other byte, however the patch was cut into    *)
(* records; but for a patch in which a run meets other bytes right at the  *)
(* unsafe offset: the record that starts there ends the file for a reader. *)
FileIsThePatch ==
    phase = "written" =>
        \/ ReadBack = {<<a, data[a]>> : a \in DOMAIN data}
        \/ RunMeetsOthersAt(data, UnsafeOffset)

(* A length that is not between 1 and IPS_MAX_HUNK_SIZE comes up only      *)
(* where one run of equal bytes directly follows another, and the piece    *)
(* between them is empty.                                                  *)
OnlyAdjoiningRunsStop ==
    phase = "bad length" =>
        \E a \in DOMAIN data :
            a >= Edge /\ RunOf(data, Edge, a - Edge) /\ RunOf(data, Inner, a) /\ data[a - 1] # data[a]

(* The assertions of the writer: those on safety_byte never stop it, and   *)
(* the one of encode_hunk_len stops it in one case only.                   *)
AssertionsHold == SafetyByteIsThere /\ OnlyAdjoiningRunsStop
=============================================================================
