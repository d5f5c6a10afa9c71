# TLA+ verification of HNC

HNC is a root module for Android phones that limits, delays and observes the
devices connected to the phone's hotspot. This directory holds TLA+ models of
its parts, translated from the source, the TLC configurations that check them on
small instances, and TLAPS proofs about them. `PROJECT.json` maps every
definition to the source lines it stands for.

Paths below are relative to the repository root.

## 1. The system

### 1.1 Parts, state and operations

| part | source | state | operations |
|---|---|---|---|
| Offload scheduler | `daemon/hotspotd/scheduler.c` | limited MACs, primary upstream, worker flags | init (rebuild from rules.json), notify, force disable/restore, request refresh, worker re-probe, shutdown |
| BPF adapter | `daemon/hotspotd/offload/` | table of disabled upstreams, the pinned kernel map `limit_map` | disable upstream, disable global, restore global, status |
| limit-map guard | `daemon/hotspotd/lsm/` | protected ifindex, ring buffer, kprobe | attach, report, counter-write, update ifindex, shutdown |
| Upstream and platform detection | `upstream.c`, `platform.c` | none | netlink/sysfs probes |
| Device monitor | `daemon/hotspotd/hotspotd.c`, `hnc_helpers.c` | device table, dirty mark, de-bounce times, devices.json | netlink events, ARP scan, naming, offline check, de-bounced write, signals, IPC |
| mDNS worker | `mdns_worker.c` (resolver: `mdns_resolve.c`) | two bounded queues, one thread | start, enqueue, query, drain, stop |
| Hostname cache | `hostname_cache.c` | 1024 entries, dirty mark, file | load, lookup, update, save |
| Rule scripts and IPC | `bin/apply_device_rule.sh`, `tools/hnc_ipc.c`, `hnc_httpd/action_v5.go` | rules.json, tc classes, iptables marks | set/clear limit, set/clear delay, notify hotspotd |
| Device locks and gate | `bin/hnc_lock.sh` | lock directories with pid files | mac_lock, mac_unlock, gate_lock, gate_unlock, stale reclaim |
| JSON store | `bin/json_set.sh`, `bin/hnc_json`, `bin/json_set_batch.sh`, `bin/json_guard.sh` | rules.json, the shared rules.tmp, two lock directories, backups | set, batch, validate, commit, stale-lock reclaim |
| Stale-rule cleanup | `bin/cleanup_stale_rules.sh` | rules of absent devices | clear and device_remove of a device not seen for weeks, under the gate |
| Traffic control | `bin/tc_manager.sh`, `bin/sqm_manager.sh`, `daemon/tc_netlink/` | qdiscs, classes, filters | init, set limit, set delay, restore |
| iptables and IPv6 | `bin/iptables_manager.sh`, `bin/v6_sync.sh` | chains, marks | mark, unmark, blacklist, sync |
| Watchdog | `bin/watchdog.sh` | per-service failure counters | probe, restart, back off |
| HTTP daemon | `daemon/hnc_httpd/` | tokens (memory and remote_tokens.json), pairing codes, rate-limit buckets, write lock | pair, authenticate, log out, save, prune, actions |
| Boot | `service.sh`, `post-fs-data.sh` | processes | start, recovery loop |
| Launcher | `src/launcher/hnc_launcher.c` | dpid_guard.pid, dpid.pid, dpid_crashflag, crash times, back-off | start, supervise, give up, observe, stop on a signal |
| DPI daemon and guard, statistics, web interface | `src/dpid`, `bin/hnc_dpid_guard.sh`, `bin/stats_*.sh`, `webroot/` | own files | sampling, display |

### 1.2 How they interact

hotspotd is one process: a main thread (the device monitor's loop, every IPC
command, scheduler init and shutdown), the scheduler's worker, the guard's
ring-buffer consumer and the mDNS worker. Scheduler state is guarded by
`sched.lock`, the adapter by `s_lock`, each mDNS queue by its own mutex; the
device table belongs to the main thread alone. The kernel's `limit_map` outlives
the process and is also written by Android's framework. WebUI actions run shell
scripts, one at a time under `stateMu` of hnc_httpd; a script first tells hotspotd
over the UNIX socket and then hnc_httpd or the script writes rules.json. The stale-rule
cleanup, started by service.sh and the watchdog, does both outside `stateMu`. The
client of the socket gives up after 3 s and nobody looks at its result. Scripts exclude each
other with lock directories. json_set.sh takes run/json.lock and may call hnc_json, which takes
run/hnc_json.lock; json_set_batch.sh calls hnc_json only. remote_tokens.json is written by hnc_httpd and by
json_set.sh with no lock in common: hnc_httpd looks at the mtime before each request and merges before
each save. At boot service.sh announces the limited devices to
hotspotd again.

### 1.3 What is hard, and what makes each part correct

* Scheduler: init, notify and the worker each probe the upstream, compare and
  re-trigger under `sched.lock`, and only the guard is told after the unlock; a bpf()
  write and its record are two steps; tables have fixed sizes; a crash, a lost
  command or the cleanup falls between a notification and the rules.json write. Correct: the limited set is
  what rules.json shapes; while it is not empty the believed upstream has been
  disabled; when it is empty nothing is left disabled; what status reports and
  what the map holds explain each other; limits are enforced eventually if nobody
  else writes the map and no write fails.
* Guard: a report is queued before the write it reports; the ring is bounded.
* Device monitor: lost and stale netlink messages, answers of the worker that
  race the table, de-bounced writes that can fail or starve, restarts. Correct:
  devices.json is the table whenever nothing is marked dirty; losses are
  repaired; silent leavers disappear; a device waits for a name only briefly;
  SIGTERM ends the process.
* Locks: a process may die between any two file operations; the reclaim of a
  stale lock is four steps. Correct: exclusion, no lock left by a live script,
  every call returns.

* JSON store: two locks, a temporary file all writers share, reclaims in several
  steps, scripts that are killed while their children go on, writes that are rolled
  back. Correct: each call changes the file at one moment, and what it reports is
  true, except to the caller of a write that was rolled back.
* Token store: two writers without a lock, contents and mtime read at different
  moments, a copy in memory, errors nobody looks at. Correct: a reported revocation is not undone, an
  issued token is not lost, a late request is refused.
* Launcher: signals between any two steps, pid files that name processes which
  are gone. Correct: one supervisor, a pid file that is right, exact crash
  counting, and an end on SIGTERM.
* Hostname cache: eviction at the limit, names whose escaped form is longer than
  the buffer, saves that fail, crashes. Correct: one entry per device, a clean
  table is what a restart brings back, the coldest entry goes.

The hazards, each at its line with the properties that address it, are listed in
`PROJECT.json`.

## 2. Modules

| module | extends | models |
|---|---|---|
| `BpfAdapter` | | adapter tables and kernel map; whole-map walks are one step, with every partial outcome when they may fail |
| `LimitMapGuard` | `BpfAdapter` | kprobe, ring buffer, consumer, and the framework's writes in two steps (entry and effect) |
| `OffloadScheduler` | `LimitMapGuard` | main thread and worker of the scheduler, IPC queue, actions, cleanup and rules.json, recovery loop, crash and restart |
| `HncLock` | | one action per file operation of `hnc_lock.sh`, any number of scripts, exits and kills |
| `MdnsWorker` | | the two queues and the worker thread |
| `DeviceMonitor` | `MdnsWorker` | the main loop, one action per stage, per ARP row or per netlink message; cache and devices.json |
| `AtomicStore` | | abstract: a file every call changes in one step and an answer that is true |
| `JsonStore` | instantiates `AtomicStore` | json_set.sh, hnc_json and json_set_batch.sh, one action per file operation |
| `Launcher` | | any number of launchers, their dpids, signals and time |
| `JsonText` | | `hnc_json_escape` and the reader of hnc_cache_load, as functions on sequences of byte classes |
| `HostnameCache` | `JsonText` | table, file, eviction, save, load, crash |
| `TokensStore` | | requests, reload, merge and save of hnc_httpd beside the revoking scripts |
| `MC*` | the above | model values and symmetry for TLC |
| `*Proofs` | the above, `TLAPS` | theorems |

### 2.1 Offload core

`mpc` follows the main thread through `hnc_scheduler_init` (guard calls, rebuild,
its trailing disable), the command handlers and shutdown; `wpc` the worker
through wait, probe, guard update and refresh. An action is a critical section
of `sched.lock` or `worker_lock`, or a call made between two. `wnow` is the value
the worker carries over an unlock. `limited` is the array of MACs as a set
(membership is all that the code uses), `disabled` likewise. `limit_map[i]` is
absent, "none" (U64_MAX) or "zero". An action of a user (`ActionNotify`,
`ActionWriteRules`, `ActionUnwritten`) sends its notification and owes its rules.json
write. The notification goes nowhere when hotspotd is down, and with
`NotifyMayFail` it may be lost while hotspotd is up, because hnc_ipc gives up;
the write follows all the same. `Cleanup*` are the steps of cleanup_stale_rules.sh for one
device (`sweep`): the clear up to its notification, its write, and device_remove,
which takes a delay with it that the clear has kept and announced to nobody.

`hold`, `excuse`, `overwritten`, `unrecorded` and `orphaned` are history: they
record that an exception the code admits has happened (an operator's command, a
table that was full, a failed write, a lost command, a cleanup that met an action
on the same device, a framework overwrite), so that properties
name their exceptions instead of excluding the runs where these occur.

Abstractions: detection returns `upstream`, an input that changes at any time;
rules.json is the set of limited and the set of delayed devices; a limit has a
positive rate; a clear for a device without a mark is a no-op; wording, logging
and the status text are left out. The size limit of the file the rebuild reads is
not modelled. Any device may be the cleanup's at any time; in the code it is one that was
not seen for weeks, and since limit and delay actions write last_seen_persist under the
gate, overlaps of a cleanup and an action are rarer than here. A lost command
never reaches hotspotd; one whose reply comes too late counts as sent.

### 2.2 Locks

`owner[l]` says whose mkdir made the directory that exists (no script can see
it), `pidfile[l]` what its pid file holds. `try .. critical .. release` are the
places of mac_lock and gate_lock; `cat, kill, rm, rmdir` those of
`_try_reclaim_stale`. `raced` is history: a reclaim removed part of a live
process's lock. Assumed: PIDs are not reused, and the gap between a mkdir and the
pid file is shorter than the age after which a directory without pid file counts
as abandoned (a killed script's directory is never in that gap).

### 2.3 Device monitor

Stages of an iteration: top, rows (ARP scan), pending (`process_pending_mdns`),
drain, offline check, flush, select, netlink. Times are ages in seconds, capped
where the code stops telling them apart. Time passes in select only; select
returns what is readable first, then a signal, then the timeout. ENOBUFS is
reported before the messages still in the socket, once per loss, as the kernel
does. A name is its source (manual, dhcp, mdns, cache, oui, mac, pending). The
cache has room for every device here; `HostnameCache` has its replacement policy.
`written` and the device field `asked` are history.

### 2.4 JSON store and its abstraction

A call is one run of a script and writes one field of its own, so the content of
rules.json is the set of calls whose field it holds. `pc` follows json_set.sh
through acquire_lock, the awk that opens, reads and prints rules.tmp,
guarded_commit and the exit trap; `hc` follows the hnc_json process it starts. A
read of a pid and the kill -0 on it are two steps, with `seen` in between.
`Device` stands for the commands with a writer of their own (device,
device_remove), `Top` for those that call hnc_json under json.lock and fall back
(top, bl_add, bl_del), `Batch` for json_set_batch.sh. A kill takes the script
alone: its awk (`orphan`) or hnc_json goes on. `exposed` is history: a lock was
removed under a call that has a process at work. `suspect` are the calls whose write
did not validate after its rename. `RollBack` copies the backup back, or finds none, and
reports success, because rc=$? (json_set.sh:230) is the status of an if without a
branch taken; `HelperRollBack` does the same for hnc_json and reports failure, after which
json_set.sh falls back to its own writer.

`AtomicStore` says what callers rely on: the field appears at one moment and
changes nothing else, success is told of a field that is there and failure of
one that is not, a caller that is cut off knows nothing. A suspect call may lose its own field
again and be told anything; no other call notices. The refinement mapping
takes `rules` for the store and `Told(c)` for the answer. The promise ends when
`exposed` becomes true, because the scripts have none after that.

Left out: the awk parsers (a candidate is whole or torn), the names and pruning of
backups, the creation of a missing file, reset, and the INT/TERM traps, which nothing in the
repository triggers. The `[ -d ]` and the cat of hnc_json's reclaim are one step,
and so is the cp of a rollback, whose partial file a reader could see.

### 2.5 Launcher

`lpc` is the place in main, run_supervise_loop, spawn_dpid and wait_dpid; fork,
the opening of dpid.pid, which empties it and may fail (`OpenPidFile`), its print with the
assignment of g_child_pid, the tests of g_shutdown and the blocking calls
are steps of their own, because a signal between them behaves differently. A
handler runs in one step and interrupts a blocking call (no SA_RESTART). Crash
times are ages; `seen` is history: the same crashes without the ring, those still
`InTime`. `missed`
marks a signal that came where the code cannot act on it, `sent` that the present
dpid got SIGTERM, `raced` that two launchers were in check_singleton at once.
hnc_dpid is its flock, its pid file and the three ways it ends. Assumed: PIDs
are not reused. Left out: a print or close that fails on a full disk, also of dpid's
own pid file (main.go:97, a warning); the moment in which dpid_guard.pid is
empty lies in the window that `raced` covers.

### 2.6 Hostname cache

A byte of a name is its class (plain, two-byte escape, six-byte escape, lead and
continuation bytes), which is all `hnc_json_escape` and the reader tell apart.
`Fill` is the loop with its bound, one `Put` a turn, `BackOff` the cut to whole
characters; `Unescape` is the reader's loop, one `ReadByte` a turn. Both are
recursive functions, so that they can be proved about. `Loaded` is what a restart
would read now: the `Kept` entries of the file, each in the slot that the number
of kept ones before it gives (`SlotOf`). `Boot` has that table or, when the file cannot be
opened, sized, allocated for or read, an empty one. Names are well-formed: hotspotd.c:1528 can cut
a long DHCP name inside a character, which is not modelled, nor is a read that returns
part of the file. `forgot` is history: a restart brought
back a time older than the device's last one, because refreshes do not mark the
table dirty.

### 2.7 Token store

Each stat, read and rename is a step, and so is each critical section of `mu`; a save holds
`mu` from merge to stat. An mtime is the number of the write, and a rename
carries the mtime of its temporary file, so a file can become older. The
script is token_revoke or token_revoke_all, one at a time under json.lock. A
token is absent, live or revoked; `old` says that its last_seen is past every
limit. Errors of stat, ReadFile and Unmarshal are modelled where they are swallowed: a
request whose SyncIfChanged fails goes on with memory as it is (`Swallow`,
`ReloadFails`), a save that cannot read the newer file writes without the merge
(`SaveMerge`), a start that cannot read it has no tokens (`Restart`). `revoked`, `issued` and
`late` are history. So are `blind`, the late requests whose SyncIfChanged failed, `skipped`,
a save without a merge it needed, and `overlapped`: the
two writers were inside each other's read-to-rename window, a script rolled its
write back, or a reload gave up and kept old contents under a new mtime. Assumed: writes have different mtimes.
Left out: the secret in the cookie, the creation of a missing file by the script.

## 3. Runs

| run | constants that matter | checks | shows |
|---|---|---|---|
| `sched_rules` | two devices and room for one, all four actions, cleanup, two queued commands, lost commands, recovery loop, failing rules.json writes, crashes | `RulesAgree` | whatever is lost, late or repeated, with nothing in flight the set is that of rules.json unless a named exception occurred |
| `sched_framework` | one upstream, two devices and a limited table of one, framework writes, guard, failing bpf() calls and walks | `TypeOK`, `NoStrayDisable`, `PrimaryCovered`, `TablesBounded`, `StatusHonest`, `StatusComplete` | full tables, partial failures, foreign writes and counter-writes leave adapter, map and set explainable; the ring stays bounded |
| `sched_live` | two upstreams and a disabled table of one, operator commands, fair threads; no framework writes, no failing bpf() calls | `PrimaryCovered`, `LimitEnforced`, `ShutdownCompletes` | upstream switches between any two steps and cold starts are caught; the entry of a stable upstream becomes 0 for good *as long as nobody else writes the map and no write fails* (hypotheses of `LimitEnforced`: the framework does rewrite the entry, and a failed disable is not tried again); shutdown gets through |
| `lock_crash` | three scripts, one device, gate, exits and kills | `TypeOK`, `ExclusionUnlessRaced`, `NothingLeftBehind`, `CallsReturn` | exclusion up to the reclaim race; no deadlock between gate and device locks |
| `mon_table` | two devices, a DHCP name, cached names, renames, failing writes | `JsonCurrent`, `PendingIsShort` | no path changes the table without marking it; picking the longest-waiting device starves none (its wait counts from pending_since, which a re-resolve restarts) |
| `mon_live` | two devices, one slot, a known vendor, clients and signals, fair threads | `LossRepaired`, `GoneIsCleared`, `FlushedEventually` | the rescan, the offline check and the forced write do their work |
| `mon_stop` | worker started or not, SIGTERM anywhere, crashes and restarts | `WorkerJoined`, `TypeOK`, `JsonCurrent` | the stop flag is seen in every state of the worker; queues within size |
| `store` | one device writer, two top writers, kills, stalls, failures, rollbacks | `TypeOK`, `QuietMeansFree`, `ImplementsAtomicStore` | under the nested locks every call is atomic and its answer true, and a rolled-back write misleads its own caller only; returned calls leave no lock |
| `launcher` | two launchers, limit of two crashes, signals and kills anywhere, failing forks and pid files | `TypeOK`, `SingleUnlessRaced`, `PidFileNamesDpid`, `OutlivedOnlyIfTold`, `CrashLoopExact`, `TermHonoured` | the ring counts exactly; outside the named windows a signal ends the launcher and its dpid has been told |
| `cache` | three devices for two places, buffers of 6 and 10 bytes, failing saves and loads | `TypeOK`, `OneEntryPerMac`, `CleanSurvivesCrash`, `EvictsColdest` | no save and no cut damages an entry; the right one is evicted |
| `tokens` | two tokens, one request beside both loops and a script, two reload rounds, three writes, swallowed errors | `TypeOK`, `RevocationHolds`, `IssuedStays`, `LateRefused` | the merge, the double stat and the dirty set do what they are for; of the swallowed errors only a skipped merge and the request's own failed sync break a promise |
| `find_two_locks` | one device and one batch writer, nothing fails | `AcknowledgedStays` violated | section 6 |

Why the bounds are enough. Two upstreams give a switch, a return and a table that
is full; a third adds no new relation between `primary`, `upstream`, `wnow` and
`protected`, which hold one index each. Two devices for one place give the drop.
Two queued commands are a command overtaken by another or by a crash. Three scripts are a holder, a reclaimer and a newcomer, the
parties of the race. Capacities and ages are 1 or 2 so that each limit is reached and
passed. `mon_table` has a re-resolve time of one turn per device, since with a
shorter one the wait starts anew (hnc_helpers.c:19). In `store` two top writers
meet at both locks and the device writer at the outer one and at rules.tmp; the
reclaim is looked for in the first round, so that breakers, kills and a new owner
fit into few rounds. In `launcher` a limit of two crashes within one second makes
the ring wrap and crashes fall out of the window; two launchers are a survivor's
and a newcomer's. In `cache` the names are chosen at the buffer's edge: filled to
the last byte, one byte too long, cut inside a character; the proofs cover every
name and every buffer that holds one escape. In `tokens` three
writes are a script's between two of httpd's, or the reverse; one handler
suffices to meet both loops, and the proofs cover any number.

What the configurations cut off. `sched_rules` has no interface, since the limited set does not
depend on the upstream, and `FewAtOnce` follows a behaviour while at most one
exception stands (a restart may forget it) and, with one, at most one command waits.
`tokens` reaches the states behind a skipped merge or an overlap and does not
continue them (`Undisturbed`): every property but the type invariant is excused
there. `mon_table` has cached names with one device and no rename only
(`CachedAlone`). The view of `store` forgets who was suspect once the promise has ended.
The proofs have none of these cuts.

`CHECK_DEADLOCK FALSE` appears where everything may have ended: every script of
`lock_crash`, `store` and `find_two_locks`, every launcher of `launcher`.

## 4. Fairness

`OffloadScheduler!FairSpec`: weak fairness of main thread, worker and consumer,
which are threads that wait on conditions or descriptors; none for clients, the
framework, routing or crashes. `HncLock!FairSpec`: a live script that has called
goes on; its loops are counted. `DeviceMonitor!FairSpec`: weak fairness of the main thread and the
worker, strong fairness of `Tick` because time passes in select however often it is
woken. `Launcher!FairSpec`: launchers are scheduled, time passes, a forked dpid boots, and a
dpid that got SIGTERM ends (its main cancels its context on the signal); none for signals, crashes or
an unasked end. The monitor's liveness is stated under `BurstsEnd`: nl_process reads until EAGAIN and has no
bound of its own, so a stream of messages that never pauses would hold the loop.

## 5. Proofs

Every safety property of the passing runs is a theorem, for every number of
devices, interfaces, scripts, calls, tokens and launchers and for every capacity.
The assumptions are the named `ASSUME`s of the modules (capacities positive, sets
finite, switches Boolean, `EscLen > 6`: the buffer for an escaped name holds one
escape and the NUL, as the code's 128 bytes do). Two theorems of `JsonStoreProofs`
have a hypothesis, given below.

`OffloadSchedulerProofs`: `TypeCorrect`; `NoStrayDisableAlways` and
`PrimaryCoveredAlways` from `SafetyInv`, which adds `LimitedByPhase`: where the main
thread is says whether the limited set is empty, and a null or freshly reset
adapter has nothing recorded. Without it the rebuild's trailing disable and the
adapter call of a forced restore, which follow an unlock, could meet any set.
`StatusHonestAlways` and
`StatusCompleteAlways` from `StatusInv`, the two halves together, because
restore uses the table to decide what it may forget.
`TablesBoundedAlways` rests on `AddBounded`, a fact about finite sets.
`RulesAgreeAlways` from `RulesInv`. `RulesAgree` speaks only of quiet states, so
the invariant has to say what is true while commands wait and a script or the cleanup still
owes its writes: `ShapedSoon` is what rules.json will say then, the *last* command
waiting for a device says the same of it (`CommandsTell`), and a device with no
command waiting is in the set exactly if it is in `ShapedSoon` (`SetTells`). The
earlier commands of a device may say anything: this is why repeated and reordered
writes of one device do no harm. At most one device is swept (`OneSweep`), and
its limit counts as cleared from the cleanup's notification on (`Swept`). The exceptions
that can leave a waiting command out of date are `Misleading`; the rebuild of a
restart, which forgets the others, keeps them while there is something to mislead.

`HncLockProofs`: `TypeCorrect`, `ExclusionAlways`, `NothingLeftBehindAlways` from
`LockInv`: until a race, a live script that believes it holds a lock made the
directory that is there (`HoldersOwn`), a directory a live script made is the lock
it is holding (`OwnersHold`), and a directory its owner is about to remove is
empty (`EmptyBeforeRmdir`). `TargetsOwnLock` says that only the gate's second phase
looks at a lock other than the one wanted; `RoundsLeft` bounds the counters for
the type invariant.

`DeviceMonitorProofs`: `TypeCorrect`, `JsonCurrentAlways` from `JsonInv`: a scan
that has changed the table and not yet written is under way only in boot or
rows, and otherwise a clean table is the file. The strengthening is needed
because a scan changes the table without the dirty mark and writes at its end.
`PendingIsShortAlways` from `WaitInv`, a counting argument: a device that has waited
longer than a breath was passed over for one that had waited at least as long, and
that one is behind it from then on, so its wait since pending_since is at most `Breathing - 1`, plus a
select time-out for each device that is `Behind` it, plus the time `Since` the last
turn. No device overtakes another, so at most all of them get behind it.

`LauncherProofs`: `Singleton`, `Outlived` and `PidFile` from one inductive
invariant: until a race, the launcher past its write is the one dpid_guard.pid
names; where a launcher is says what its dpid can be and whether g_child_pid is
set; at most one dpid holds the lock. `GivesUpExactly` from `HistoryInv`: the ring
`Tracks` the history, that is, counted from the youngest crash they are the same,
what the ring has beyond the history is too old to count, and it has fewer only
when it is full. Ages fall along the history, so what leaves the window is a prefix
of it (`PastIsPrefix`), and `Tracks` survives a crash that is recorded, one that is
overwritten and a second that passes.
`TypeCorrect` adds the bounds of back-off and waits.

`JsonStoreProofs`: `Acknowledged` and `Refinement`, for stores without batch
calls (`Batch = {}`; with them a write that was acknowledged can be lost, section 6). Until a lock was
removed under a call at work: the call that is between
its mkdir and its rmdir made the directory that is there; what it has read is
still the content of the file; rules.tmp is its own once printed; what a rollback puts
back differs from the file in the call's own field at most; a call that
returned success is in the file and one that was refused is not, unless it is suspect. Every step then
maps to Apply, TakeBack, Tell, Expose or a stutter. `TypeCorrect` and `QuietFree` hold with batch
calls too; the second from `QuietInv`: somebody is yet to remove each lock that is
there, and a pid in json.lock is that of a script that has yet to erase it
(`PidWritten`). A script whose rmdir fails on that pid leaves the directory to its
writer, so one does not hold without the other.

`TokensStoreProofs`: `RevocationKept`, `IssuedKept`, `LateIsRefused` from
`TokensInv`, the shape of the state (`Types`, `Places`) and, until an overlap or a skipped merge, a
set of claims: mtimes are ordered, a script's candidate is fresh, what a reload
has read under an mtime is what the file had then, memory as of `lastRead` knows
every revocation of that file, and what a save is about to write has met the
newest file; a request that is neither `blind` nor refused has seen every revocation it came
after. The three properties lean on each other: without `IssuedStays` the
merge could drop a token and a later one could not tell revoked from absent.
`TypeCorrect` adds the `Bounds` of the counters.

`JsonTextProofs` holds no theorem of a specification but what those of the cache
need: `EscapeReads`, that of any well-formed name hnc_cache_load reads back a
prefix in whole characters of what hnc_json_escape wrote, not empty, and all of
it if the buffer was not full. The loop puts out the `Pieces` of the first K bytes
and stops (`Fitted`); the reader takes them back one by one (`ReadBack`), since each
escape shows its length at its start; the cut goes back to the last head of the
name (`BackedOff`), where a character before it is complete (`CutAt`).

`HostnameCacheProofs`: `OneEntry` and `ColdestGoes` from `CacheInv`, which speaks of
table and file, because a restart brings the file back without looking for
doubles; `SlotsFilled` says that the kept entries fill the slots from the first on.
`Survives` and `TypeCorrect` from `TextInv`: every text on disk is the escape
of a well-formed name, hence is not skipped, and a clean table `Matches` the file entry
by entry or is empty, as a load that failed leaves it. An entry matches if its name is what the text reads as, or if the
text is what its name was escaped to: the first is what a load leaves, the second
what a save leaves, and neither implies the other for a name that was cut.

Induction. A library theorem that takes a predicate cannot be used here, so the
inductions, over the turns of a loop or the slots of a table, are stated with sets
of numbers: a set that is not empty has a least element (`LeastNat`, from the
well-foundedness of <), hence a set that contains a and with k also k + 1
contains a..n (`UpTo`). `TurnsExist` and `ReadsExist` show in the same way that the
recursive functions are what their definitions say.

Only model-checked: liveness (`LimitEnforced`, `ShutdownCompletes`, `CallsReturn`,
`LossRepaired`, `GoneIsCleared`, `FlushedEventually`, `WorkerJoined`, `TermHonoured`),
because fairness and ENABLED are outside the prover, and the violation.

## 6. Where code and comments disagree

* `find_two_locks`: json_set.sh:55 describes its lock as the guard against
  concurrent writers; json_set_batch.sh writes rules.json through hnc_json under
  another lock. A device write (for instance cleanup_stale_rules.sh's
  device_remove) and a batch write (a limit set meanwhile, written after
  apply_device_rule.sh has left its lock) can each rename a copy that lacks the other's
  field. Actions of hnc_httpd alone do not meet, since stateMu serialises them.

Three more, contained in the models and recorded with the hazards:

* scheduler.c:532 says the guard is told when the index changes; only the worker
  tells it, so an upstream first found by notify or by the end of init is never
  announced.
* hnc_lock.sh:136 calls the reclaim safe; between the read of the pid and the rm the
  lock may have been released and taken by another script (`raced`).
* hotspotd.c:680 says the worker's answer is written back in the next tick;
  process_pending_mdns comes first and turns the device to "mac", after which the
  answer is skipped.

Behaviours the models contain as the code has them, recorded as notes of the
hazards: a delay-only device is forgotten by a restart; the recovery loop announces a limit
cleared meanwhile; the guard counter-writes with no device limited and may do so
before the write it answers; an entry added while no upstream is detected is not
rescanned; a dead gate is reclaimed by gate_lock only; an answer for a former stay of a
device is taken; a full result queue drops; a restart with nobody connected leaves the old
devices.json; a name found by a scan is cached in memory only until the next event; a message older than a rescan can
undo it; a directory json.lock without a pid is waited for and never removed;
hnc_json takes a lock whose time stamp is not written for 30 s old; a write that was rolled
back is reported as a success (json_set.sh:230); a command lost to a busy hotspotd is not sent
again; a cleanup removes a delay without telling the scheduler; a token file that cannot be
read is overwritten without a merge, and a request meanwhile is checked against old memory; a logout is
acknowledged although its save failed; a pruned token comes back when the merge
finds it in the file; a survivor of a killed launcher keeps the lock, so that the next launcher's dpids
crash until it gives up; the back-off of the launcher is never reset.

Outside the models, noted while reading: rules.json of 16384 bytes or more ends the
scheduler's rebuild with an empty set (scheduler.c:220); a disable that failed is
not tried again while the upstream stays the same (scheduler.c:517); with more than
about 60 pending devices the re-resolve time of 60 s restarts their waits
(hnc_helpers.c:19); hotspotd's PID file is empty between its creation and its write,
and a second instance takes it for stale (hotspotd.c:1169); cleanup_stale_rules.sh:39
runs a clear while it holds the gate, and the iptables unmark in it needs a device
lock: it gives up (iptables_manager.sh:630), and the record of the mark is removed all the
same; the INT/TERM trap of json_set.sh:96 and
hnc_json:97 removes the lock without ending the script; reset and the first creation
write rules.json in place (json_set.sh:178); two writes of the token file within the
granularity of its mtime look like one (tokens.go:164); the reader of
device_names.json looks for `"mac":"` while the writers put a space after the colon
(hnc_helpers.c:111).

## 7. Not modelled, and the plan

Out of scope: packet formats (mDNS, netlink, TLS), OUI tables, web pages,
installation, statistics, wording of status output, generated and vendored
headers (vmlinux.h alone is nine tenths of the repository's C), and tools that
run one request and exit (mdns_resolve, hnc_tc_ingress, platform and upstream
probes).

Left for later, in order of what would be learnt:

1. The PID file of hotspotd (two starters and a file that is created empty).
2. The rule scripts as a composition of `HncLock` and `JsonStore`: mark
   allocation, the order tc, iptables, notify, write; the gate around the cleanup, whose
   clear is killed or gives up in the middle.
3. hnc_httpd: pairing codes, write limiter, sliding windows.
4. Watchdog: restart counters. tc_manager: restore after interface changes.

Proofs to add: that a device is pending for the worker at most once; that what
`overlapped`, `skipped`, `raced` and `exposed` excuse is no more than the steps they name.
