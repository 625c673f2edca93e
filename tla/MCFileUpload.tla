----------------------------- MODULE MCFileUpload -----------------------------
\* FileUpload for TLC: transfers are interchangeable.
EXTENDS FileUpload

Symmetry == Permutations(Xfers)
===============================================================================
