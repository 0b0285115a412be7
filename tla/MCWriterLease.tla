---------------------------- MODULE MCWriterLease ----------------------------
\* Small instances of WriterLease for TLC.
EXTENDS WriterLease, TLC

Symmetry == Permutations(Procs) \cup Permutations(Tokens)
=============================================================================
