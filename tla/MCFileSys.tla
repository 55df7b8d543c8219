----------------------------- MODULE MCFileSys -----------------------------
(* Instances of FileSys for TLC.                                           *)
EXTENDS FileSys, TLC

CONSTANTS n1, n2, h1, h2

\* Four sectors are left for files: two files of one sector each, or one of two
\* sectors, which leaves room for an inode without data only.
FormattedSectors == {0, 1}
FileSizes == {1, 3}
Written == {<<1, 1, 1>>}

\* The run checks safety only, and nothing picks a handle or a name or orders them.
Interchangeable == Permutations(Handles) \union Permutations(Names)
=============================================================================
