# TLA+ models of snapcommunicatord's flags and message cache

This directory holds TLA+ models of the code under `src/`. Each module is
translated from the source. The TLC runs listed in `PROJECT.json` check them.
`src/unnamed/part_000` holds three files of the repository, concatenated:

* a unit test of `base_connection`;
* `flags.cpp`, the flag registry (lines 1-1128);
* `cache.cpp`, the message cache (lines 1130-1329).

`src/snapcommunicator/exception.h` declares the exception classes of namespace
`sc` with libexcept macros.

## 1. Inventory

### Components, their state and operations

| Component | State | Operations (source lines) |
|---|---|---|
| Name validator | none (pure) | `flag::valid_name` (997-1062) |
| Flag value object | unit, section, name, message, priority, state, manual_down, date, modified, count, tags, hostname, version, cached `f_filename` | `flag(unit,section,name)` (248-259), `flag(filename)` (282-371), setters (386-552), `get_filename` (661-672), getters |
| Directory lookup | per-process static `g_path_to_flag_files` | `get_path_to_flag_files` (157-193), `..._internal` (196-212) |
| Flag store | one record file per (unit, section, name) in the flags directory | `flag::save` (896-976) |
| Flag registry | none of its own; reads the directory | `flag::load_flags` (1077-1122) |
| Message cache | `f_message_cache`, a list of (message, timeout) | `cache_message` (1200-1287), `remove_old_messages` (1290-1305), `process_messages` (1308-1324) |
| sc exceptions (`exception.h`) | none: ten class declarations | `DECLARE_LOGIC_ERROR`, `DECLARE_MAIN_EXCEPTION`, `DECLARE_EXCEPTION` (lines 38-49) |

### How they interact

* Detector code in many processes builds a flag and calls `save()`.
  * UP writes or merges the record.
  * DOWN unlinks it.
* A monitoring process calls `load_flags()`. It globs `*.flag`, rebuilds each
  flag with `flag(filename)`, and stops at `FLAGS_LIMIT` with a synthesized
  `too-many-flags` flag.
* All processes share the directory. There is no lock: spec section 5 assumes
  that each triple has one writer.
* Each process has its own lookup cache, and a restart clears it. The
  directory is the `path` of `/etc/communicatord/flags.conf`, read when the
  cache is empty; an administrator may change it while processes run.
* Both `save()` (line 911) and `flag(filename)` (line 291) open a record with
  `advgetopt::conf_file::get_conf_file`. advgetopt keeps, per process, the
  `conf_file` object it created for a filename and returns it on every later
  call, with the parameters `set_parameter` put in it. A record is read from
  disk only the first time a process opens it.
* The message cache is used by the daemon's single event loop. Its three
  operations never interleave with each other, but time passes between them.

### What is hard

* **Interleaving of processes on the directory.**
  * `save()` reads a record (line 911) and writes it later (line 960).
  * `load_flags` globs once (line 1089) and reads each file later (line 1118).
* **Crashes and I/O failures.** A process can die between the read and the
  write of a save, and `save_configuration` or `unlink` can fail.
* **Boundaries.**
  * The `FLAGS_LIMIT` guard.
  * The TTL range of the cache.
  * The `now > timeout` expiry test.
* **Self-reference.** The lookup calls itself.
* **Per-process copies of the records.** A later save or load in the same
  process works from the `conf_file` it read before, not from the file: a
  clear, a failed write or another process's write since is not seen.
* **Malformed records.** `std::stol` reads the count back without a `try`,
  in the constructor (line 364) and in `save()` (line 951).

### What makes each component correct

* **Validator:** it accepts exactly the grammar of spec 4.1, lowercases what it
  accepts, and no two identities share a filename.
* **Store:** a record exists exactly while its flag is raised. Its date is the
  first raise since the last clear, and its count is the number of raises since
  then. This must hold across crashes and failed writes, and for repeated
  saves in one process.
* **Lookup:** once a process has found its flags directory it keeps it, so
  all its saves until it restarts act on one directory, even if `flags.conf`
  changes; its clears then reach its raises.
* **Registry:** `load_flags` returns what was globbed, up to the limit, plus the
  sentinel when there were more files. One bad record does not abort the load,
  and each flag holds what its file held when it was read.
* **Cache:** a message leaves only when forwarded or past its timeout, and the
  TTL stays within 10..86400.
* **Record:** a flag loaded from the record of a save has the fields of the
  object that was saved (spec 8 round trip).
* **Exceptions:** `catch(sc::snapcommunicator_error const &)` takes every
  runtime exception of the header and not the logic error. No run checks it:
  nothing in `src/` throws or catches these classes, and the check would only
  restate the ten declarations.

The hazards behind these properties, each at the line where it bites, are listed
in `PROJECT.json` under `hazards`.

## 2. Modules

| Module | Models | State / actions ↔ code |
|---|---|---|
| `FlagName` | `valid_name`, `flag(unit,section,name)`, the filename | `ScanName` is the for loop, one CASE arm per `switch` case. `FoldCaseAt` is `name[idx] = c \| 0x20`. `ValidName` adds the empty and trailing-dash tests. `FlagFileName` is `u_s_n.flag`. |
| `MC_FlagName` | valid_name over all short strings; constructor + `get_filename` | A behaviour is one call: `Validate` (valid_name on one input, against a reference grammar written from the spec) or `Construct` (any constructor call) followed by `GetFileName`, the first `get_filename`. |
| `FlagStore` | lookup + `save()` | `disk[d][t]` is the record (date, modified, count) of `t` in directory `d`. `config` is the path of `flags.conf` (`GetPathToFlagFilesInternal`), `dirs` the directories that exist, `pathCache[p]` the static (a directory or `NoPath`). `conf[p][d][t]` is process `p`'s `conf_file` of that record (`NotRead` until `get_conf_file` first opens it; `ConfFile` reads the file then). `SaveUpRead` covers lines 898-924 and `SaveUpWrite` lines 926-961; `SaveDown` covers lines 962-975. `Crash`, `Tick`, `CreateFlagsDir` (the daemon creates the configured directory) and `Reconfigure` (an administrator edits the path) model the environment. `HandEdit` is the fault model: a record of a triple in the constant `HandEdits` is left with a count that is not a number (`NotANumber`), and `SaveUpWrite` throws on it as line 951 does. `raises`, `raisedAt` and `probed` (a lookup of the process found no directory) are history variables. |
| `FlagRegistry` | `load_flags`, extends `FlagStore` | `LoadStart` covers lines 1079-1093, `LoadNext` covers one loop iteration, and `LoadReturn` covers line 1121. The Reader process runs with the writers of `FlagStore` (`RecordSteps`: the clock and the path stay fixed). `LoadNext` opens the file through the Reader's `conf_file` (line 291); `Loadable` is the constructor's outcome: it throws on an object without the fields (a file missing when it was read) or whose count does not parse. `staleRead` is a history variable. |
| `FlagRecord` | setters, the record fields of `save()`, `flag(filename)` | `object` is the caller's flag; one action per setter; `Save` writes `Serialise(object)` (lines 929-945), `Load` builds `Parse(record)` (lines 282-371). `ToDecimal`/`Stol` are `std::to_string`/`std::stol`; `JoinStrings`/`TokenizeString` are the tag (de)serialisation with the comma split, blank trim and empty skip. |
| `MessageCache` | `scd::cache` | `CacheMessage`, `RemoveOldMessages`, `ProcessMessages` and `Tick`. The callback's answers are a nondeterministic subset of the cached messages. `time(nullptr) + ttl` wraps at the width `IntMax` (`WrapInt`). |
| `SnapCommunicatorException` | `exception.h` | `ScBases` is the ten declarations, each a `Declare...` operator giving the class its one direct base. `Subobjects(c, b)` counts the paths from `c` up to `b`; `Catches(h, c)` is C++ handler matching (an ambiguous base does not match). |

Abstractions:

* A triple is a model value once its names are validated. `FlagName` checks the
  grammar and injectivity separately.
* In `FlagStore`, the record keeps only date, modified and count. The fields
  `save()` copies unchanged from the object (message, priority, tags and the
  rest) are left out there; `FlagRecord` models them.
* Of a message, only its `cache` parameter is kept, as the token list
  `tokenize_string` produces.
* Time is an integer. In the cache model it starts at `Epoch` (1000) and
  moves in steps of 30 seconds.
* TLC integers are 32-bit, so the cache's `std::int64_t`/`time_t` width is
  scaled down to `IntMax = 2^20 - 1`. What matters for the overflow (a TTL up
  to the largest value `convert_string` accepts, added to a positive clock) is
  kept.
* In `FlagRecord`, the message, source file and function are written and
  read back unchanged, so each is a single string value. Tags and numbers are
  character sequences, because join/tokenize and to_string/stol act on them.
  The blank class `" "` stands for the trim set `" \n\r\t"`.
* advgetopt is not in `src/`. Its `conf_file` is modelled as the code uses
  it: `get_conf_file` returns the process's object for the filename, created
  and read on first use; `exists()` is whether the file existed when it was
  read; `set_parameter` changes the object; `save_configuration` writes it or
  fails. Whether a successful `save_configuration` makes `exists()` true is
  the constant `SaveRefreshesExists`; the runs use `TRUE`, and
  `MergeMatchesHistory` is violated under `FALSE` as well (every raise in the
  process that created the record then writes count 1).
* The libexcept macros and base classes are not in `src/`. The model takes
  them as libexcept defines them: each macro declares a class with one public
  non-virtual base, and `exception_base_t` has no base of its own.

**The lookup constant.** As written, `get_path_to_flag_files` calls itself
(line 165) and never returns. The `store_lookup_as_written` run shows this with
`LookupCallsSelf = TRUE`. All other runs set `LookupCallsSelf = FALSE`: the
lookup calls `get_path_to_flag_files_internal`, as the comment and the spec
intend. Otherwise no save of a new flag and no `load_flags` could ever complete.

## 3. Runs

| Run | Checks | Result |
|---|---|---|
| `names` | `AcceptsExactlyGrammar`, `NormalisedToLowerGrammar` on 781 strings (≤4 chars over `a Z 0 - _`); `FileNameInjective` on 9261 triples (≤2 chars over `a A 0 _`) | pass (10,553 states) |
| `store_merge` | `MergeMatchesHistory` (spec 3, 4.3, 8): 2 processes, 2 triples, 1 owner each, 2 flags directories, time 0..1, count ≤ 2, crashes, I/O failures, directories appearing late, the configured path changed at any time | **violation**: raise, clear, raise in one process writes count 2, because the second raise merges from the process's `conf_file`, which the unlink left as it was |
| `store_lookup_as_written` | `LookupReturns` with the self-call | **violation**: the first save overflows the stack |
| `store_lookup_retried` | `NeverReprobed` (spec 5, 9: resolve once, never retry) | **violation**: a save fails with no directory, the daemon creates it, and the same process's next save finds and caches it |
| `registry_load` | `LoadResultMatchesGlob`: 2 writers + reader, 2 triples, one flags directory, FLAGS_LIMIT = 1, the clock stopped at 0, the record of `t2` may be hand edited, the reader's `conf_file` objects kept across calls | pass (334,321 states under `VIEW RegistryView`) |
| `registry_limit` | `ResultWithinLimit` | **violation**: 2 records give 2 entries |
| `registry_throw` | `FlagCallsNeverThrow` (spec 4.3, 4.4, 7: `save()` returns false on failure, a bad record is skipped) | **violation**: a clear between glob and read aborts the load; a count that is not a number also makes `load_flags` (line 364) and every later raise of that flag (line 951) throw |
| `registry_stale` | `LoadReadsCurrentRecord` (spec 4.2, 8, 9: `flag(filename)` rebuilds the flag from its file) | **violation**: the reader loads `t1`, the next load globs it, the writer clears it, and the reader returns `t1` from the `conf_file` of the first load |
| `cache_ttl_range` | `TTLWithinRange` | **violation**: `ttl=5` is kept. With the same bug, a TTL of `IntMax` is also accepted and `now + ttl` wraps to a timeout in the past. |
| `record_round_trip` | `RoundTrip`: every setter, tags that are valid names (`flag`, `too-many`), priorities -5, 42, 250 | pass (76,328 states) |
| `record_tags_unvalidated` | `RoundTrip` with tags `"a,b"` and `" a"` | **violation**: `"a,b"` is saved and comes back as two tags `a` and `b` (and `" a"` as `"a"`) |

Why these bounds are enough:

* **`FLAGS_LIMIT = 1` with 2 triples** reaches the below-limit (no file),
  at-limit (one file) and over-limit (two files) cases.
* **Two writers** let clears and raises interleave with a load.
* **One hand-editable triple** in the registry runs reaches a malformed record
  before, after and during a load, read fresh or from a kept `conf_file`.
* **`VIEW RegistryView`** in `registry_load` leaves out the history variables
  (`raises`, `raisedAt`, `probed`, `staleRead`). No action reads them and
  `LoadResultMatchesGlob` does not mention them, so the view loses no
  behaviour of the other variables; without it the run takes eight times the
  states.
* **Time 0..1 and count ≤ 2** allow a raise, a re-raise at a later time
  (so date and modified differ), a clear, and a new raise. Larger bounds
  with two directories pass 9 million states without finishing.
* **Two directories** are enough for a process to keep the old one while
  `flags.conf` names the new one, and for a restarted process to take the
  new one. The registry runs keep one directory: the reader's directory is
  fixed during a call, and a second one multiplies their state space. They
  also stop the clock at 0: what they check depends only on which records
  exist, never on their dates.
* **Time steps of 30 seconds in the cache** reach `now = timeout` exactly (the
  60-second default), and also the expiry of TTLs 5 and 20.

Each property of a passing run has a mutant in `PROJECT.json`. The mutant is a
plausible bug in the mapped code, and TLC finds it:

* the dropped trailing-dash test;
* the folded letter not stored back;
* the underscore accepted;
* `>` for `>=` at the limit;
* `manual_down` written as `true`/`false` instead of `yes`/`no`.

The store's merge, the stale reads of the reader, the lookup and the cache's
TTL are checked by violation runs: the code as written breaks what the spec
says of them.

The `TypeOK` / `StoreTypeOK` definitions hold in every model. They are not part
of the runs.

**Fairness.** No fairness is assumed, and no liveness is checked. The reasons:

* Every flag operation is one synchronous, bounded call. `load_flags` is a
  range-for over a finite glob, and `save()` is a read then a write. "A load
  eventually returns" would therefore hold by the shape of the code.
* Raising and clearing happen when callers choose, so nothing obliges them.
* The cache's `remove_old_messages` and `process_messages` are called by the
  daemon's timer and connection code, which is not in `src/`. No fairness on
  them is justified by the code modelled here.

## 4. Not modelled

* **Malformed fields other than `count`.** The fault model (`HandEdit`)
  corrupts only the count, the one field both `save()` and the constructor
  parse; `line`, `priority`, `date` and `modified` only add more ways for the
  constructor to throw the same way. The store runs set `HandEdits = {}`:
  their merge history describes records written by `save()` alone.
* **`hostname`, `version` and the merged fields in `FlagRecord`.** These are
  refreshed on each save or merged, and `FlagStore` covers the merged fields.
* **`process_messages` forwarding an expired message.** The callback is
  called before the timeout test. Neither the code nor the spec says whether
  this is wanted, so no property claims either way.
* **advgetopt internals.** The per-process `conf_file` of each record is
  modelled (see Abstractions); the `.bak` write of `save_configuration` is
  not, and the write is assumed atomic. `flags.conf` is also read through
  advgetopt in `get_path_to_flag_files_internal`, but only while the path
  cache is empty; the model reads the current path there.
* **The catch clauses of `exception.h`.** `SnapCommunicatorException`
  translates the declarations and C++ handler matching, but no run checks
  them: nothing in `src/` throws or catches these classes, and the header has
  no state.
* **Removal conditions of the message cache.** `remove_old_messages` and
  `process_messages` are modelled, but a property that a message leaves only
  when forwarded or expired would restate their erase condition; only the TTL
  range is checked.
* **The `COMMUNICATORD_FLAG_UP` macro** (in `flags.h`, not in `src/`). It is
  taken as construct + set_message, without a save. Spec 4.4 says the sentinel
  is persisted, but `load_flags` never calls `save()` on it.
* **Removal of a flags directory.** A removal only makes writes fail, which
  the failure disjuncts already cover. A change of the configured path is
  modelled (`Reconfigure`).
* **A record orphaned by a restart under a new path.** A process that raised
  a flag in the old directory and restarted clears it in the new one, where
  the unlink finds nothing (ENOENT, success). The old record stays. Spec 5
  documents the per-process cache, so no property asserts against this.
* **Logging.**

## 5. Plan

Done:

1. `FlagStore`, `FlagRegistry`, `FlagName` and `MessageCache`.
2. `FlagRecord`: setters and the record round trip, with a violation for
   `add_tag`.
3. An abstract `FlagSet` and the refinement `FlagStore => FlagSet`, later
   removed: with the `conf_file` copies modelled, the store does not
   implement it (see `store_merge`).
4. The exception hierarchy of `exception.h`.
5. The 64-bit wrap of the cache timeout.
6. The configured flags path (`get_path_to_flag_files_internal`), several
   flags directories and an administrator changing `flags.conf`.
7. The spec 5 claim that a failed lookup is never retried
   (`store_lookup_retried`); the two FlagName checks merged into
   `MC_FlagName`.
8. The fault model of a malformed record (`HandEdit`), which turns
   `registry_throw` into `FlagCallsNeverThrow` over both `load_flags` and
   `save()`.
9. advgetopt's per-process `conf_file` objects, in `save()` and in
   `flag(filename)`: `store_merge` and `registry_stale` show the merge and the
   load working from stale copies.

Next:

1. **Two writers of one triple.** A run that shows the lost update spec 5
   accepts, and the clear undone by a stale write.
2. **A composition of `FlagRecord` with `FlagStore`.** This would check the
   round trip while other processes clear and raise the same record.
