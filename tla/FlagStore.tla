------------------------------ MODULE FlagStore ------------------------------
(***************************************************************************)
(* The durable record protocol of communicatord flags (flags.cpp):         *)
(* get_path_to_flag_files, flag::get_filename and flag::save.              *)
(*                                                                         *)
(* The flags directory is the "path" of flags.conf (constant Dirs: the    *)
(* paths an administrator may configure); each process keeps the one it   *)
(* first found in the static g_path_to_flag_files.  Every flag of a        *)
(* triple maps to the record <dir>/<unit>_<section>_<name>.flag.  A        *)
(* save() with state UP reads the record (conf_file, line 911), then       *)
(* writes the merged record with save_configuration (line 960); the two    *)
(* are separate steps, so other processes and crashes can come between.   *)
(* advgetopt::conf_file::get_conf_file keeps, per process, the conf_file   *)
(* it created for a filename: a record is read from disk by the first      *)
(* get_conf_file of that file in the process, and every later one returns  *)
(* that object, with the parameters set_parameter put in it since.         *)
(* A save() with state DOWN unlinks the record.  Names are already         *)
(* validated (module FlagName), so a triple is a model value here; the     *)
(* fields save() copies from the object unchanged (message, priority,      *)
(* tags...) are left out: only date, modified and count are merged.       *)
(***************************************************************************)
EXTENDS Naturals, FiniteSets

CONSTANTS
    Procs,            \* processes using the flag library
    Triples,          \* (unit, section, name) identities
    Dirs,             \* flags directories flags.conf may name
    NoPath,           \* model value: g_path_to_flag_files is empty
    Owner,            \* Owner[t]: the processes whose code raises and clears t
    MaxTime,          \* last value of the clock
    MaxCount,         \* bound on the count field of a record
    LookupCallsSelf,  \* get_path_to_flag_files calls itself (as written)
    StackFrames,      \* nested calls before the stack overflows
    NoRecord,         \* model value: no record file
    NoSave,           \* model value: no UP save() in progress
    HandEdits,        \* the record files that may be left with a count that is not a number
    NotANumber,       \* model value: a count field std::stol rejects
    NotRead,          \* model value: no conf_file of that record in the process
    SaveRefreshesExists  \* save_configuration marks the conf_file as existing

ASSUME Owner \in [Triples -> SUBSET Procs]
ASSUME LookupCallsSelf \in BOOLEAN /\ StackFrames \in Nat \ {0}
ASSUME HandEdits \subseteq Triples /\ SaveRefreshesExists \in BOOLEAN

Record == [date : 0..MaxTime, modified : 0..MaxTime,
           count : 1..MaxCount \cup {NotANumber}]

VARIABLES
    now,        \* time(nullptr)
    config,     \* the path flags.conf names (or its default)
    dirs,       \* the flags directories that exist
    disk,       \* disk[d][t]: the record file of t in directory d, or NoRecord
    pathCache,  \* pathCache[p]: g_path_to_flag_files of process p, or NoPath
    saving,     \* saving[p]: the UP save() p has read the record for
    result,     \* result[p]: what the last save() of p returned
    overflow,   \* a process died of a stack overflow in the path lookup
    raises,     \* raises[d][t]: successful UP saves of t in d since its last clear
    raisedAt,   \* raisedAt[d][t]: time of the first of those saves
    conf,       \* conf[p][d][t]: the conf_file of process p for the record of t in d
    probed      \* probed[p]: a lookup of p since it started found no directory

storeVars == <<now, config, dirs, disk, pathCache, saving, result, overflow,
               raises, raisedAt, conf, probed>>

SaveState == [t : Triples, d : Dirs, exists : BOOLEAN, date : 0..MaxTime,
              count : 0..MaxCount \cup {NotANumber}, now : 0..MaxTime]

\* A conf_file object: whether the file existed when it was read, and its
\* date, modified and count parameters (NoRecord: none).
ConfFileState == [exists : BOOLEAN, rec : Record \cup {NoRecord}]

StoreTypeOK ==
    /\ now \in 0..MaxTime
    /\ config \in Dirs
    /\ dirs \subseteq Dirs
    /\ disk \in [Dirs -> [Triples -> Record \cup {NoRecord}]]
    /\ pathCache \in [Procs -> Dirs \cup {NoPath}]
    /\ saving \in [Procs -> SaveState \cup {NoSave}]
    /\ result \in [Procs -> {"none", "true", "false", "threw"}]
    /\ overflow \in BOOLEAN
    /\ raises \in [Dirs -> [Triples -> 0..MaxCount]]
    /\ raisedAt \in [Dirs -> [Triples -> 0..MaxTime]]
    /\ conf \in [Procs -> [Dirs -> [Triples -> ConfFileState \cup {NotRead}]]]
    /\ probed \in [Procs -> BOOLEAN]

(***************************************************************************)
(* get_path_to_flag_files (lines 157-193).  With the path not yet cached,  *)
(* the code as written calls itself instead of                              *)
(* get_path_to_flag_files_internal, with the same empty cache, so it never *)
(* returns; StackFrames nested calls later the stack overflows.  Else the  *)
(* path get_path_to_flag_files_internal reads from flags.conf is stat()ed  *)
(* and cached only if it is an existing directory.  A cached path is       *)
(* returned as it is, whatever flags.conf says now.                        *)
(***************************************************************************)
\* get_path_to_flag_files_internal (lines 195-210): "path" of flags.conf,
\* or the default /var/lib/communicatord/flags, one of Dirs.
GetPathToFlagFilesInternal == config

RECURSIVE GetPathToFlagFiles(_, _)
GetPathToFlagFiles(cached, depth) ==
    CASE cached # NoPath -> [path |-> cached, overflow |-> FALSE]
      [] depth > StackFrames -> [path |-> NoPath, overflow |-> TRUE]
      [] LookupCallsSelf -> GetPathToFlagFiles(cached, depth + 1)
      [] OTHER -> [path |-> IF GetPathToFlagFilesInternal \in dirs
                            THEN GetPathToFlagFilesInternal ELSE NoPath,
                   overflow |-> FALSE]

\* A process that dies (killed, or of the stack overflow) restarts with an
\* empty static cache, no conf_file objects and no save() in progress;
\* records stay on disk.
Died(p) ==
    /\ pathCache' = [pathCache EXCEPT ![p] = NoPath]
    /\ saving' = [saving EXCEPT ![p] = NoSave]
    /\ result' = [result EXCEPT ![p] = "none"]
    /\ conf' = [conf EXCEPT ![p] = [d \in Dirs |-> [t \in Triples |-> NotRead]]]
    /\ probed' = [probed EXCEPT ![p] = FALSE]

\* History: p's lookup returned the empty path.
NoteLookup(p, path) == probed' = [probed EXCEPT ![p] = @ \/ path = NoPath]

\* get_conf_file(setup) in process p for the record of t in d: the object
\* p already holds, else a new one read from the file as it is now.
ConfFile(p, d, t) ==
    IF conf[p][d][t] = NotRead
    THEN [exists |-> disk[d][t] # NoRecord, rec |-> disk[d][t]]
    ELSE conf[p][d][t]

\* has_date and has_count (lines 915-922): the file existed when the
\* conf_file was read and the object holds the parameters.
HasCount(c) == c.exists /\ c.rec # NoRecord

\* The count the UP save of t in d by p reads, 0 when has_count is false.
CountRead(p, d, t) ==
    LET c == ConfFile(p, d, t) IN IF HasCount(c) THEN c.rec.count ELSE 0

\* The merged record save() writes (lines 924-956): the date is kept when
\* the record existed, modified is always now, the count goes up by one
\* or starts at 1.
Merged(s) ==
    [date     |-> IF s.exists THEN s.date ELSE s.now,
     modified |-> s.now,
     count    |-> IF s.exists THEN s.count + 1 ELSE 1]

(***************************************************************************)
(* flag::save() with f_state == STATE_UP, first part (lines 898-924):      *)
(* get_filename (lines 661-672) resolves the directory, an empty filename  *)
(* returns false, else get_conf_file (line 911) gives the process's        *)
(* conf_file of the record, exists/has_date/has_count are read from it     *)
(* and now is taken.                                                       *)
(***************************************************************************)
SaveUpRead(p, t) ==
    LET lookup == GetPathToFlagFiles(pathCache[p], 1)
        d == lookup.path
    IN
    /\ p \in Owner[t]
    /\ saving[p] = NoSave
    /\ d # NoPath /\ CountRead(p, d, t) # NotANumber => CountRead(p, d, t) < MaxCount
    /\ IF lookup.overflow
       THEN /\ Died(p)
            /\ overflow' = TRUE
            /\ UNCHANGED <<disk>>
       ELSE /\ pathCache' = [pathCache EXCEPT ![p] = d]
            /\ NoteLookup(p, d)
            /\ IF d # NoPath
               THEN LET c == ConfFile(p, d, t) IN
                    /\ conf' = [conf EXCEPT ![p][d][t] = c]
                    /\ saving' = [saving EXCEPT ![p] =
                          [t |-> t, d |-> d, exists |-> HasCount(c),
                           date |-> IF HasCount(c) THEN c.rec.date ELSE 0,
                           count |-> CountRead(p, d, t),
                           now |-> now]]
                    /\ UNCHANGED result
               ELSE /\ result' = [result EXCEPT ![p] = "false"]
                    /\ UNCHANGED <<saving, conf>>
            /\ UNCHANGED <<disk, overflow>>
    /\ UNCHANGED <<now, config, dirs, raises, raisedAt>>

(***************************************************************************)
(* flag::save() with STATE_UP, second part (lines 926-960).  The          *)
(* set_parameter calls put the merged date, modified and count into the   *)
(* conf_file object; save_configuration(".bak", true) then either          *)
(* replaces the record with it or fails (returns false) and leaves the     *)
(* file as it was, the object keeping the merged parameters either way.    *)
(* When the count read is not a number, std::stol (line 951) throws        *)
(* std::invalid_argument out of save() after date and modified were set   *)
(* in the object and before anything is written.                           *)
(***************************************************************************)
SaveUpWrite(p) ==
    LET s == saving[p]
        c == conf[p][s.d][s.t]
    IN
    /\ s # NoSave
    /\ IF s.count = NotANumber
       THEN /\ result' = [result EXCEPT ![p] = "threw"]
            /\ conf' = [conf EXCEPT ![p][s.d][s.t].rec =
                           [date |-> s.date, modified |-> s.now, count |-> NotANumber]]
            /\ UNCHANGED <<disk, raises, raisedAt>>
       ELSE \/ /\ disk' = [disk EXCEPT ![s.d][s.t] = Merged(s)]
               /\ raises' = [raises EXCEPT ![s.d][s.t] = @ + 1]
               /\ raisedAt' = [raisedAt EXCEPT ![s.d][s.t] =
                                  IF raises[s.d][s.t] = 0 THEN s.now ELSE @]
               /\ result' = [result EXCEPT ![p] = "true"]
               /\ conf' = [conf EXCEPT ![p][s.d][s.t] =
                              [exists |-> c.exists \/ SaveRefreshesExists,
                               rec |-> Merged(s)]]
            \/ /\ result' = [result EXCEPT ![p] = "false"]
               /\ conf' = [conf EXCEPT ![p][s.d][s.t].rec = Merged(s)]
               /\ UNCHANGED <<disk, raises, raisedAt>>
    /\ saving' = [saving EXCEPT ![p] = NoSave]
    /\ UNCHANGED <<now, config, dirs, pathCache, overflow, probed>>

(***************************************************************************)
(* flag::save() with f_state == STATE_DOWN (lines 898-902, 962-975):       *)
(* unlink the record; ENOENT counts as success, any other errno (EACCES,   *)
(* EROFS) returns false.  The process's conf_file of the record, if any,   *)
(* is left as it is.                                                       *)
(***************************************************************************)
SaveDown(p, t) ==
    LET lookup == GetPathToFlagFiles(pathCache[p], 1)
        d == lookup.path
    IN
    /\ p \in Owner[t]
    /\ saving[p] = NoSave
    /\ IF lookup.overflow
       THEN /\ Died(p)
            /\ overflow' = TRUE
            /\ UNCHANGED <<disk, raises, raisedAt>>
       ELSE /\ pathCache' = [pathCache EXCEPT ![p] = d]
            /\ NoteLookup(p, d)
            /\ \/ /\ d # NoPath
                  /\ disk' = [disk EXCEPT ![d][t] = NoRecord]
                  /\ raises' = [raises EXCEPT ![d][t] = 0]
                  /\ raisedAt' = [raisedAt EXCEPT ![d][t] = 0]
                  /\ result' = [result EXCEPT ![p] = "true"]
               \/ /\ result' = [result EXCEPT ![p] = "false"]
                  /\ UNCHANGED <<disk, raises, raisedAt>>
            /\ UNCHANGED <<saving, overflow, conf>>
    /\ UNCHANGED <<now, config, dirs>>

(***************************************************************************)
(* The environment: the clock, the daemon creating the configured flags    *)
(* directory, an administrator changing the path of flags.conf, a record   *)
(* file damaged, and a process killed at any point and restarted.          *)
(***************************************************************************)
Tick ==
    /\ now < MaxTime
    /\ now' = now + 1
    /\ UNCHANGED <<config, dirs, disk, pathCache, saving, result, overflow,
                   raises, raisedAt, conf, probed>>

CreateFlagsDir ==
    /\ config \notin dirs
    /\ dirs' = dirs \cup {config}
    /\ UNCHANGED <<now, config, disk, pathCache, saving, result, overflow,
                   raises, raisedAt, conf, probed>>

Reconfigure ==
    /\ \E d \in Dirs \ {config} : config' = d
    /\ UNCHANGED <<now, dirs, disk, pathCache, saving, result, overflow,
                   raises, raisedAt, conf, probed>>

\* A record left with a count std::stol cannot parse: edited by hand (the
\* comment of save(), lines 883-885, says administrators should not), or
\* cut short by a crash in the middle of save_configuration.
HandEdit(d, t) ==
    /\ t \in HandEdits
    /\ disk[d][t] # NoRecord
    /\ disk[d][t].count # NotANumber
    /\ disk' = [disk EXCEPT ![d][t].count = NotANumber]
    /\ UNCHANGED <<now, config, dirs, pathCache, saving, result, overflow,
                   raises, raisedAt, conf, probed>>

Crash(p) ==
    /\ pathCache[p] # NoPath \/ saving[p] # NoSave \/ result[p] # "none"
    /\ Died(p)
    /\ UNCHANGED <<now, config, dirs, disk, overflow, raises, raisedAt>>

\* Any flags.conf path; any of the directories may exist already (the
\* daemon created them under an earlier configuration), none holds a record.
StoreInit ==
    /\ now = 0
    /\ config \in Dirs
    /\ dirs \in SUBSET Dirs
    /\ disk = [d \in Dirs |-> [t \in Triples |-> NoRecord]]
    /\ pathCache = [p \in Procs |-> NoPath]
    /\ saving = [p \in Procs |-> NoSave]
    /\ result = [p \in Procs |-> "none"]
    /\ overflow = FALSE
    /\ raises = [d \in Dirs |-> [t \in Triples |-> 0]]
    /\ raisedAt = [d \in Dirs |-> [t \in Triples |-> 0]]
    /\ conf = [p \in Procs |-> [d \in Dirs |-> [t \in Triples |-> NotRead]]]
    /\ probed = [p \in Procs |-> FALSE]

\* The saves and crashes of the processes in P, the daemon creating the
\* flags directory and the damaged records.
RecordSteps(P) ==
    \/ \E p \in P, t \in Triples : SaveUpRead(p, t) \/ SaveDown(p, t)
    \/ \E p \in P : SaveUpWrite(p) \/ Crash(p)
    \/ CreateFlagsDir
    \/ \E d \in Dirs, t \in HandEdits : HandEdit(d, t)

\* With the clock and changes of the configured path.
StoreSteps(P) ==
    \/ RecordSteps(P)
    \/ Tick
    \/ Reconfigure

StoreNext == StoreSteps(Procs)

StoreSpec == StoreInit /\ [][StoreNext]_storeVars

(***************************************************************************)
(* Properties                                                              *)
(***************************************************************************)

\* Merge on raise (spec 3, 4.3, 8: date kept from the first raise, count
\* incremented on every successful UP save, a DOWN save deletes the record),
\* in each flags directory: a record exists exactly while the triple has
\* been raised there since it was last cleared there; its date is the time
\* of the first of those raises and its count is the number of them.  The
\* has_date/has_count tests and the increment of save() read the process's
\* conf_file, which a clear or a failed write does not reset.
MergeMatchesHistory ==
    \A d \in Dirs, t \in Triples :
        /\ disk[d][t] = NoRecord <=> raises[d][t] = 0
        /\ disk[d][t] # NoRecord =>
              /\ disk[d][t].date = raisedAt[d][t]
              /\ disk[d][t].count = raises[d][t]
              /\ disk[d][t].date <= disk[d][t].modified

\* Spec 5 and 9 ("resolve once, never retry"): when the directory did not
\* exist at a process's lookup, its later saves keep failing without
\* probing again, and a directory created since is only seen after the
\* process restarts.
NeverReprobed == \A p \in Procs : probed[p] => pathCache[p] = NoPath

\* get_path_to_flag_files always returns: no process ever dies in the
\* path lookup.
LookupReturns == ~overflow

=============================================================================
