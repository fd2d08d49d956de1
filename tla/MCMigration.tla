---------------------------- MODULE MCMigration ----------------------------
\* Instances of Migration for TLC: processes are interchangeable, and so are keys.
EXTENDS Migration, TLC

Symmetry == Permutations(Procs) \cup Permutations(Names)
============================================================================
