----------------------------- MODULE MCAttachments -----------------------------
EXTENDS Attachments, TLC

CONSTANTS r1, r2, a, b, c, f, g

\* a and b are in one folder, c is in another
FolderOfObject == (a :> f) @@ (b :> f) @@ (c :> g)

RequestSymmetry == Permutations(Requests)
================================================================================
