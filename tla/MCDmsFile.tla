----------------------------- MODULE MCDmsFile -----------------------------
(* Two agent threads on a file with room for a few segments.               *)
EXTENDS DmsFile, TLC

CONSTANTS a, b, c, huge,  \* documents
          t1, t2         \* threads

MCDocs == {a, b, c, huge}
MCThreads == {t1, t2}
\* With PageFree = 11: two documents that share a page and leave it two words;
\* one that fits this remainder bare but not with its header and slot, and that
\* fits in place of the first; and one that no page is large enough for.
MCSize == (a :> 2) @@ (b :> 1) @@ (c :> 1) @@ (huge :> 12)
=============================================================================
