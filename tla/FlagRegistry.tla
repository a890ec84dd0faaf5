---------------------------- MODULE FlagRegistry ----------------------------
(***************************************************************************)
(* flag::load_flags (flags.cpp lines 1077-1122) run by a Reader process    *)
(* while the other processes raise and clear flags (module FlagStore).     *)
(*                                                                         *)
(* The loop is one step per globbed filename: each iteration either stops  *)
(* at the FLAGS_LIMIT guard with the too-many-flags sentinel, or loads the *)
(* record with the flag(filename) constructor, which throws when the file *)
(* lacks unit, section, name or message; load_flags does not catch it.     *)
(***************************************************************************)
EXTENDS FlagStore, Sequences

CONSTANTS
    Reader,      \* the process calling load_flags
    FlagsLimit,  \* flag::FLAGS_LIMIT
    GlobOrder,   \* the triples in the order glob() sorts their filenames
    Sentinel     \* the triple (communicatord, flag, too-many-flags)

ASSUME Reader \in Procs /\ \A t \in Triples : Reader \notin Owner[t]
ASSUME GlobOrder \in Seq(Triples) /\ Len(GlobOrder) = Cardinality(Triples)
ASSUME Sentinel \notin Triples /\ FlagsLimit \in Nat \ {0}

VARIABLES
    loading,   \* load_flags is running in the Reader
    files,     \* the list glob_to_list read from "<dir>/*.flag"
    next,      \* index in files of the next iteration
    loaded,    \* the list load_flags is building (its result)
    outcome,   \* how the last call ended: "none", "returned", "threw"
    staleRead  \* history: a flag load_flags built differs from its file as it was then

regVars == <<loading, files, next, loaded, outcome, staleRead>>
vars == <<storeVars, regVars>>

TypeOK ==
    /\ StoreTypeOK
    /\ loading \in BOOLEAN
    /\ files \in Seq(Triples)
    /\ next \in 1..Cardinality(Triples) + 1
    /\ loaded \in Seq(Triples \cup {Sentinel})
    /\ outcome \in {"none", "returned", "threw"}
    /\ staleRead \in BOOLEAN

\* glob() of "<d>/*.flag": the present record files, sorted by name.
Glob(d) == SelectSeq(GlobOrder, LAMBDA t : disk[d][t] # NoRecord)

\* The guard at the top of the loop (line 1097).
AtLimitOffByOne(size) == size > FlagsLimit
AtLimit(size) == size >= FlagsLimit

\* flag(filename) on a globbed name (lines 282-371) builds the flag from
\* the conf_file get_conf_file gives the Reader (line 291): the object the
\* Reader already holds for that file, else the file read now.  It throws
\* invalid_parameter when the object lacks the mandatory fields, which is
\* what a file missing when it was read looks like, and std::stol throws
\* std::invalid_argument on a count that is not a number (line 364).
Loadable(c) == c.rec # NoRecord /\ c.rec.count # NotANumber

(***************************************************************************)
(* load_flags entry (lines 1079-1093): resolve the directory, return an    *)
(* empty list when it is not available, else glob the record files.        *)
(***************************************************************************)
LoadStart ==
    LET lookup == GetPathToFlagFiles(pathCache[Reader], 1) IN
    /\ ~loading
    /\ IF lookup.overflow
       THEN /\ Died(Reader)
            /\ overflow' = TRUE
            /\ UNCHANGED <<regVars>>
       ELSE /\ pathCache' = [pathCache EXCEPT ![Reader] = lookup.path]
            /\ NoteLookup(Reader, lookup.path)
            /\ loaded' = <<>>
            /\ next' = 1
            /\ IF lookup.path # NoPath
               THEN /\ files' = Glob(lookup.path)
                    /\ loading' = TRUE
                    /\ UNCHANGED outcome
               ELSE /\ files' = <<>>
                    /\ outcome' = "returned"
                    /\ UNCHANGED loading
            /\ UNCHANGED <<saving, result, overflow, conf, staleRead>>
    /\ UNCHANGED <<now, config, dirs, disk, raises, raisedAt>>

(***************************************************************************)
(* One iteration of the for loop (lines 1095-1119).  At the limit the      *)
(* sentinel made by COMMUNICATORD_FLAG_UP, set_priority(97) and the two    *)
(* add_tag calls is appended and the loop breaks; it is not saved.         *)
(***************************************************************************)
LoadNext ==
    LET d == pathCache[Reader]
        t == files[next]
        c == ConfFile(Reader, d, t)
    IN
    /\ loading
    /\ next <= Len(files)
    /\ CASE AtLimit(Len(loaded)) ->
              /\ loaded' = Append(loaded, Sentinel)
              /\ loading' = FALSE
              /\ outcome' = "returned"
              /\ UNCHANGED <<next, conf, staleRead>>
         [] Loadable(c) ->
              /\ conf' = [conf EXCEPT ![Reader][d][t] = c]
              /\ loaded' = Append(loaded, t)
              /\ next' = next + 1
              /\ staleRead' = (staleRead \/ c.rec # disk[d][t])
              /\ UNCHANGED <<loading, outcome>>
         [] OTHER ->
              /\ conf' = [conf EXCEPT ![Reader][d][t] = c]
              /\ loading' = FALSE
              /\ outcome' = "threw"
              /\ UNCHANGED <<loaded, next, staleRead>>
    /\ UNCHANGED <<now, config, dirs, disk, pathCache, saving, result,
                   overflow, raises, raisedAt, probed, files>>

\* The loop runs out of filenames: return result (line 1121).
LoadReturn ==
    /\ loading
    /\ next > Len(files)
    /\ loading' = FALSE
    /\ outcome' = "returned"
    /\ UNCHANGED <<storeVars, files, next, loaded, staleRead>>

\* The Reader process is killed, during a load or not.
ReaderCrash ==
    /\ Crash(Reader)
    /\ loading' = FALSE
    /\ outcome' = "none"
    /\ UNCHANGED <<files, next, loaded, staleRead>>

Init ==
    /\ StoreInit
    /\ loading = FALSE
    /\ files = <<>>
    /\ next = 1
    /\ loaded = <<>>
    /\ outcome = "none"
    /\ staleRead = FALSE

\* The writers' saves and crashes, the daemon creating the directory and
\* damaged records; the clock and the configured path stay fixed (one
\* flags directory, and what is checked depends only on which records
\* exist and what they hold).
Next ==
    \/ RecordSteps(Procs \ {Reader}) /\ UNCHANGED regVars
    \/ LoadStart
    \/ LoadNext
    \/ LoadReturn
    \/ ReaderCrash

Spec == Init /\ [][Next]_vars

(***************************************************************************)
(* Properties                                                              *)
(***************************************************************************)

MinOf(a, b) == IF a < b THEN a ELSE b

\* When load_flags returns, its list is the first FLAGS_LIMIT globbed
\* records in glob order, followed by the too-many-flags sentinel exactly
\* when more than FLAGS_LIMIT record files were globbed.
LoadResultMatchesGlob ==
    outcome = "returned" /\ ~loading =>
        loaded = SubSeq(files, 1, MinOf(Len(files), FlagsLimit))
                 \o (IF Len(files) > FlagsLimit THEN <<Sentinel>> ELSE <<>>)

\* Spec section 8: load_flags returns at most FLAGS_LIMIT entries, the
\* sentinel being the last of them.
ResultWithinLimit == Len(loaded) <= FlagsLimit

\* Spec sections 4.3 and 7: save() reports a failure by returning false and
\* never throws, and a record that cannot be loaded is skipped: it never
\* makes the whole load_flags call fail (a raised flag cleared while the
\* load runs, or a record whose count is not a number).
FlagCallsNeverThrow ==
    /\ outcome # "threw"
    /\ \A p \in Procs : result[p] # "threw"

\* Spec 4.2, 8 and 9: flag(filename) reconstructs the flag from its record
\* file, so every flag load_flags returns holds the date, modified and
\* count its file held when it was read, even in a process (the daemon)
\* that loads the same files again and again while writers update them.
LoadReadsCurrentRecord == ~staleRead

=============================================================================
