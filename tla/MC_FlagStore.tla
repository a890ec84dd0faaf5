---------------------------- MODULE MC_FlagStore ----------------------------
EXTENDS FlagStore, TLC

CONSTANTS p1, p2, t1, t2, d1, d2

MCProcs   == {p1, p2}
MCTriples == {t1, t2}

\* the default flags directory and one an administrator may configure
MCDirs == {d1, d2}

\* each triple is raised and cleared by the code of one process (spec 5)
MCOwner == [t \in MCTriples |-> IF t = t1 THEN {p1} ELSE {p2}]

=============================================================================
