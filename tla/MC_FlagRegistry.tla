-------------------------- MODULE MC_FlagRegistry --------------------------
EXTENDS FlagRegistry, TLC

CONSTANTS p1, p2, r, t1, t2, d1

MCProcs   == {p1, p2, r}
MCTriples == {t1, t2}

\* each triple is raised and cleared by one writer process; r only reads
MCOwner == [t \in MCTriples |-> IF t = t1 THEN {p1} ELSE {p2}]

\* glob() returns the filenames sorted
MCGlobOrder == <<t1, t2>>

\* The state without the history variables raises, raisedAt, probed and
\* staleRead: no action reads them, so two states that differ only in them
\* have the same futures for every property that does not mention them.
RegistryView ==
    <<now, config, dirs, disk, pathCache, saving, result, overflow, conf,
      loading, files, next, loaded, outcome>>

=============================================================================
