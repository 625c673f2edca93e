---------------------------- MODULE MCFileDownload ----------------------------
\* FileDownload for TLC: downloads of a kind are interchangeable.
EXTENDS FileDownload

Symmetry == Permutations(Standard) \cup Permutations(Inline)
===============================================================================
