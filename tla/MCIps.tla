------------------------------- MODULE MCIps -------------------------------
(* Every patch with gaps over a few addresses, and every patch without one *)
(* long enough for the hunk after the unsafe offset to be full too.        *)
EXTENDS Ips

CONSTANTS Gaps,      \* the last address of the patches with gaps
          Solid      \* the addresses of those without

SolidRange == 1..Solid

MCContents ==
    UNION {[D -> Bytes] : D \in SUBSET (0..Gaps)} \cup [SolidRange -> Bytes]
=============================================================================
