---------------------------- MODULE MCFileManager ----------------------------
(* Model values and symmetry for the runs of FileManager.                  *)
EXTENDS FileManagerInv, TLC

CONSTANTS t1, t2, n1, n2

OneThread == {t1}
TwoThreads == {t1, t2}
OneName == {n1}
TwoNames == {n1, n2}

\* Threads and names are only compared.
Symmetry == Permutations(Threads) \union Permutations(Names)
=============================================================================
