# TLA+ models of the `shed` crates

This directory holds TLA+ models of the parts of `src/shed` that have state,
the TLC configurations that check them, and `PROJECT.json`, which records
four things: components, runs, mutants and findings. The map in
`PROJECT.json` gives, for every definition that models code, the source
lines it translates.

## The system and its parts

| Part | Source | State and operations | Modelled by |
|---|---|---|---|
| SortedVectorSet storage | `sorted_vector_map/src/set.rs` | A `Vec<T>` kept strictly ascending. `insert`, `replace`, `remove`, `take`, `retain`, `append`, `split_off`, `pop_last`, `clear`, `extend` | `SortedVectorSet`, `AbstractSet` |
| Set construction | `sorted_vector_map/src/set.rs` | `FromIterator`, `Arbitrary` (and `shrink`), `sorted_vector_set!`, `From<BTreeSet>`; getters `get`, `first`, `last`, `len`, `is_empty`, `iter` | `SortedVectorSet`, `AbstractSet` |
| Index resolver | same | `find_index` (binary search), `range_index_start/end`, `range`, `contains` | `SvsAlgorithms`, `SortedVectorSet` |
| Bulk merge/extend engine | same | `extend_with_vec`: a one-element path, a sorted-append path with dedup, and a `MergeIter` path. Uses `DedupIter` and `MergeIter` | `SvsAlgorithms` |
| Set-algebra iterators | same | `OperationInner` and the `Difference`, `SymmetricDifference`, `Intersection` and `Union` filters. Used by `is_disjoint`, `is_subset`, `is_superset` and the `& - ^ \|` operators | `SvsAlgorithms`, `SetOpIterators` |
| SQLite connection hand-off | `sql/common/sqlite.rs` | A global gate (`CONN_LOCK` + `CONN_CONDVAR`) and, per instance, a connection slot (`Mutex<Option<Connection>>` + `Condvar`). Operations: `acquire_sqlite_connection`, `commit`, and the guard's `Drop` | `SqliteConnection` |
| Stream error context | `failure_ext/src/context_streams.rs` | `context` / `with_context` adapters; `poll` maps an `Err` to `err.context(..)` and holds no state | not modelled |
| Log key/value collector | `slog_glog_fmt/src/collector_serializer.rs` | Formatting | not modelled |
| TLS setup | `secure_utils/src/lib.rs` | File and OpenSSL I/O | not modelled |
| Re-exports | `ods/src/lib.rs`, `sql/common/mysql/facebook.rs` | None | not modelled |

The modelled parts (the set and the SQLite hand-off) do not interact. The set is a plain value type: one
`&mut self` call runs to completion before the next, so the hard part is not
interleaving but long call sequences, in which the fast paths and tie rules of
`replace`, `extend_with_vec` and `MergeIter` must keep the vector sorted and
unique and keep the *later* of two equal values.

The SQLite guard is the concurrent part. Many async tasks call
`acquire_sqlite_connection`, each for one of several `SqliteMultithreaded`
instances. All of them pass one process-wide gate, and each then takes its
instance's single connection. `Drop` gives both back in four separate
statements, and another task can run between any two of them. The gate and
the slot are waited on with `std::sync::Condvar`, which blocks the executor
*thread*, while `query_start` and `after_transaction_commit` are `.await`s
that suspend the *task* and let another task run on that thread.

## Modules

1. **`SvsAlgorithms`** holds the pure algorithms of `set.rs` as operators over
   sequences of `[key, val]` records. `Ord` compares `key` only. `val` is a
   payload `Ord` cannot see, so a check can tell *which* of two equal
   elements was kept.
   - `find_index`, the range resolvers and `range` use 0-based indices, as in
     the Rust code.
   - `replace`, `take` and `split_off` are single operators.
   - `Vec::sort` is a stable insertion sort (`StableSort`).
   - Iterators are written one `next()` call at a time: an operator takes
     the cursors (the unconsumed rest of each `Peekable`) and returns the
     item (an Option as a sequence of length 0 or 1) and the new cursors.
     `DedupNext`, `MergeNext`, `InnerNext` (`OperationInner::next`) and
     `FilterNext` (the `by_ref()` loop shared by the four filters, with
     the arm of each filter as `DifferenceArm` and so on). `DedupIter`,
     `MergeIter` and `Collect` repeat `next()` until `None`.
   - `extend_with_vec` with its three paths, plus `append`.
   - `is_disjoint` and `is_subset` are written as in the code.
   - The operators whose names end in a bug description (`..._off_by_one`,
     `..._on_equal`, `..._on_tie`, `..._left_wins`) are the mutants. They are
     defined just before the operator they replace.
2. **`AbstractSet`** is what the set promises. Each set is a finite set of
   elements with distinct keys, and every mutating call has its mathematical
   effect, with "the later value wins" for equal keys. It has one action per
   method, and each action is selected by the call name recorded in `call`.
3. **`SortedVectorSet`** is the state machine: `sets` maps each set id to its
   backing `Vec`.
   - There is one action per public method. It takes its arguments from small
     sets and records `call` and `ret`.
   - Sets are also built from scratch: `collect` (`FromIterator`, which
     `Arbitrary` and each `shrink` candidate use), the macro (`insert` of
     each value) and `From<BTreeSet>`. The getters are query actions.
   - `Abs == INSTANCE AbstractSet WITH content <- ...` is the refinement
     mapping. It takes the contents of a set to be the set of its vector's
     elements.
4. **`MCSortedVectorSet`** has two sets, keys `1..3`, values `{x, y}` and
   batches of up to 3 elements.
   - A batch of 3 is needed to reach all paths of `extend_with_vec`: the
     duplicate split, a stable-sort tie, and a merge against held elements.
   - Two sets are needed for `append`, `split_off` and the binary operators.
   - `VIEW StateView == sets` keeps only the vectors. `call` and `ret` are
     read only by the action properties, and those properties are checked on
     every transition, including transitions into states already seen.
5. **`SetOpIterators`** steps one iterator (a filter over two sets, or
   `MergeIter` over the inputs `extend_with_vec` and `append` give it) one
   `next()` call per action, and evaluates `size_hint` in every state.
   `usize` is scaled to `0..MaxUsize` so that `checked_add` can overflow.
   `MCSetOpIterators` uses keys `1..4`, values `{x, y}`, batches of up to 3
   and `MaxUsize = 4`: two 3-element sets overflow the sum of upper bounds,
   a set can hold `usize::MAX` elements, and a short set against a longer
   one exercises the `saturating_sub`.
6. **`SqliteConnection`** has one program counter per task, following the
   statements of `acquire_sqlite_connection`, `SqliteConnectionGuard::new`,
   `commit` and `Drop`. `cont` holds the rest of the task's statement list,
   so the order of awaits and lock steps is one sequence per operation
   (`AcquireSteps`, `CommitSteps`, `DropSteps`).
   - Each task has a `Home` executor thread; `running` is the task that
     thread is currently polling. A task steps only when its thread is free
     or already its own (`Runs`). At an await point it may be suspended
     (`Suspend`), which frees the thread; a blocked Condvar wait keeps it.
   - Its state is the global `allowed` flag, one slot per instance, each
     thread's guard, and the waiter sets of the two condvars.
   - `notify_one` wakes an arbitrary waiter, which then re-checks its
     condition.
   - `query_start` may fail, which returns the thread to idle before it takes
     any lock.
   - A failed `COMMIT` keeps the guard. A successful one drops the guard
     and then awaits `after_transaction_commit`, but only for an instance
     that has callbacks; without them there is no await point.
7. **`ProcessLock`** is what `CONN_LOCK` promises: "only one connection is
   in use for writes at a time inside the process". It is an abstract lock
   whose one variable, `holder`, is the set of tasks holding it. A holder
   always unlocks (weak fairness), but a task that wants the lock has no
   promise of getting it. `SqliteConnection` maps `holder` to the tasks
   between passing the gate and reopening it (`LockHolders`) and checks
   `Abs!Spec`.
8. **`SqliteWorkload`** extends `SqliteConnection` with callers that make
   at most `MaxCalls` calls of `acquire_sqlite_connection` each (`calls`).
   `MCSqliteWorkload` has three tasks on their own threads and two calls
   each, so a task can pass the gate a second time while another waits.
   The program stops when every call is done, so the deadlock check is off.
9. **`MCSqliteConnection`** has three tasks, two instances, and one
   instance with callbacks. With three tasks, two can queue at the gate
   while a third holds it, and two tasks can contend for one instance. The
   run checks liveness, so no symmetry is used. `MCSqliteConnection.cfg`
   gives every task its own thread; `MCSqliteConnection_Shared.cfg` puts two
   tasks on one thread.

## Runs

| Run | Expect | What it shows |
|---|---|---|
| `svs_refinement` | pass | Every sequence of calls keeps each vector strictly ascending (`SortedUnique`) and refines `AbstractSet` (`Refinement`). `contains`, `is_disjoint` and `range` with in-order bounds answer correctly (`QueryAnswers`). About 730 distinct vector states, with every action taken from every one. |
| `svs_is_subset` | violation | `SubsetAsDocumented`: `is_subset` returns whether *other* is a subset of *self*, the converse of its doc comment, so `is_superset` is inverted too. The trace is `{1}.is_subset(&{})`, which returns true. |
| `svs_range_inverted` | violation | `RangePanicsOnInvertedBounds`: `range` with start after end panics only if an element lies between the bounds. Otherwise it silently returns an empty iterator. |
| `svs_iterators` | pass | `YieldsOperation`: after any number of `next()` calls, what was yielded is a prefix of the ascending reference result, which is computed from the two inputs alone (`Expected`), and once `next()` returns `None` it is all of it. `SizeHintSound`: `size_hint` never overstates the low bound or understates the high bound of what the reference result still has beyond what was yielded (spec section 4.3), including on `checked_add` overflow. About 198,000 states. |
| `sqlite_handoff` | pass | `LockRefinement`: the hand-off implements `ProcessLock`. A task takes the gate only when nobody holds it, only the holder gives it back (Drop's first statement), and every holder eventually does, also while it waits for a slot the previous holder has yet to refill, and after a failed COMMIT. `ConnectionConserved`: every connection is in its slot or in exactly one guard. `GateToken`: the gate flag is closed exactly when one thread is between the gate and its reopening. `NoLostWakeup`: a free gate or slot is always taken eventually while someone waits. |
| `sqlite_workload` | pass | `WaiterServed`: with a finite workload (two calls per task), every task waiting at the gate or at its slot eventually holds a guard. About 140,700 states. |
| `sqlite_executor` | pass | Two tasks on one thread. `GuardNotHeldAcrossAwait`: a task holding a guard is never suspended, because `acquire` awaits `query_start` before the gate and `commit` drops the guard before awaiting the callback. `GuardReleased`: every guard is eventually dropped, so the deadlock the doc comment of `acquire_sqlite_connection` warns of cannot arise from the library's own awaits. |

Each property of a passing run has a mutant in `PROJECT.json`: a plausible
bug in a mapped definition that TLC must catch under the same configuration.

## Fairness

- `WF` on each task's internal step (`Step`, which needs the task's thread). The OS scheduler eventually runs a
  runnable thread, and a woken condvar waiter is runnable.
- `WF` on `DropGuard`. The guard is an RAII value that leaves scope when the
  query finishes.
- No fairness on `Suspend`: a runtime need not switch tasks at an await that is ready.
- No fairness on `Acquire`, because nothing forces a caller to make a call.
- Per-task starvation freedom is claimed only for a finite workload
  (`WaiterServed`). `std::sync::Condvar` is not FIFO, and a newly arriving
  task can barge past a woken one. With endless calls, TLC finds a waiter
  whose `Gate` step is enabled only now and then and never taken. Only
  strong fairness would rule that out, and the code does not provide it.

## Not modelled

- **Callers' own awaits while holding a guard.** The model lets a task
  hold a guard only across the library's code; a caller that breaks the
  documented rule deadlocks, as the `AcquireSteps_query_start_last` mutant
  shows.
- **`hlc_ts_lower_bound` and the telemetry types.** They hold no shared state.
- **`into_inner` of the set.** It hands back the vector and ends the set;
  every other constructor and getter is an action of `SortedVectorSet`.
- **`CollectorSerializer`.** Each `emit_*` pushes `(key, format!(value))`
  unless the categorizer ignores the key. This is single-threaded
  filtering and formatting, and a model would restate the macro.
- **`Debug` of the set.** It formats the ascending iteration.
- **The stream error context adapters.** `poll` maps each `Err` to
  `err.context(..)` and forwards everything else; the adapters hold no
  state, so a model would only restate that match arm.
- **The non-modelled crates** in the table above. They are I/O, formatting
  or stateless adapters, with nothing for TLC to explore.
