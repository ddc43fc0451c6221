# Session Warrant: TLA+ models of the measuring and bring-up code

Session Warrant wants to tie an SSH session to a *warrant*: the kernel (eBPF LSM
hooks) recognises what a session's processes do by a tag on their cgroup and
on the tasks themselves, in audit mode only. The repository is at the stage where
it finds out whether that can work: four measuring harnesses ("spikes" S1 to S4),
a smoke test of the tool chain (S0), scripts that prepare a node, and a console
that shows mock audit records. The control server is a skeleton whose
methods throw, the agent and the PAM module are READMEs.

The harnesses decide whether the product is built, so the models ask above all:
*is what a harness reports what happened?* They are small concurrent programs:
BPF programs on every CPU, loaders with signal handlers, shell scripts with traps
and background processes, PAM modules in processes of their own, reports over files
that another program wrote.

Paths are relative to the repository (`src/` here). Line numbers such as
`run.sh:97` are of the file of the component at hand.

## 1. Inventory

### 1.1 Tag propagation probe (S2, `bench/bypass`)

- **Programs.** `tagprobe.bpf.c` (fork and exec hooks), `tagprobe.c` (loader,
  `tag`, `query`, `dump`), `helpers.bash` and `tag_propagation.bats` (the tests).
- **State.** Three BPF maps: tag of a cgroup (`wb_cg_tag`), tag of a task
  (`wb_task_tag`, task storage), last exec record of a pid (`wb_pid_tag`, 8192 entries,
  never deleted); the pins; which programs are attached.
- **Operations.** The daemon creates and pins the maps, tags the session's cgroup,
  attaches `wb_fork`, then `wb_exec`, and sleeps until a signal; fork copies the effective
  tag of the parent (task tag, else cgroup tag) to the child; exec writes a record.
- **Interaction.** The kernel moves processes between cgroups (`systemd-run --scope`)
  at any time; the tests read records by pid.
- **Hard.** Forks between two steps of the loader; storage or map full; a
  loader that dies without removing its pins; a record that is older than a move.
- **Correct if** every descendant of the session's shell keeps the tag whatever the
  forks, moves and execs; what a daemon outside starts never gets it; the table of the
  tests is what a query answers; a record stays true for what it says.

### 1.2 Overhead gate (S1, `bench/overhead/gate.c`, `gate.bpf.c`)

- **State.** Per-CPU counters of decisions, histogram of latencies (log2), device table,
  tag and warrant maps; `stop`, set by the signal handler.
- **Operations.** Fill the maps, attach, `READY`, sleep; on SIGINT sum every cell over
  the CPUs and write JSON. The hook decides (`oh_decide`), then counts in
  four separate increments.
- **Hard.** Every CPU counts while `dump()` reads thousands of cells; the warrant expires
  between two decisions; a signal between the test of `stop` and `pause()`.
- **Correct if** the numbers of one report belong together, a tagged write is never
  measured on the miss path, expiry is final, and SIGINT ends the loader with a report.

### 1.3 Overhead run and report (S1, `run.sh`, `report.py`)

- **State.** The pass, the tier, the workload; `GATE_PID`; one log and one statistics
  file a round; the times; and the table that is printed.
- **Interaction.** `run.sh` forks a gate per round, waits for `READY` in its log, runs
  workloads, sends SIGINT and waits; a trap and `set -e` end it anywhere. `report.py`
  reads the files, whichever of them there are.
- **Hard.** A gate outliving its round; an old `READY`; Ctrl-C between `fork` and
  `GATE_PID=$!`; three judgements of one row by three formulas; a latency known by its
  power of two only.
- **Correct if** a workload runs under exactly its own gate, no gate is left behind, a
  printed quantile holds the true one, the judgements agree, and "the hook cannot have
  caused this" is said only when it did not.

### 1.4 PAM stack patch and session probe (S3, `bench/pamtiming`)

- **State.** `/etc/pam.d/{sshd,su}`, their backups and `.new` files; the log; per login the
  locals of the module and logind's session, scope and session number.
- **Operations.** `make enable-*` (`_patch`) and `make disable`, recipe line by recipe
  line; the module's account/open/close records (one `stat` now, then polls); `make collect` (copy, then
  empty); the verdict of `report.py`.
- **Hard.** A recipe that ends anywhere, a `cp` that fails half way, edits by others, a
  second enable; logind making the scope while the module looks; session numbers that
  come back; a log emptied while logins append.
- **Correct if** the PAM stack is never damaged and the probe comes out again; a pass
  means every login found its *own* scope at once, and no gap is reported that was none; rows are lost only
  where the recipe says.

### 1.5 Inode watch (S4, `bench/inode`)

- **State.** The laboratory directory and the inode at each path; fanotify marks and
  queue; the buffer of one read; the log; the rows; `iw_stop`; the traps.
- **Operations.** `cases.sh` starts `inowatch`, polls for `READY`, and for each case notes
  the length of the log, runs one operation, sleeps 0.3 s and counts new lines.
- **Hard.** Counting by the length of a log another process appends to; an operation that fails half way; traps replaced in the
  middle; a signal that finds the reader asleep.
- **Correct if** a row that says "not seen" is right, no case is charged another's
  events, the replacement of a denied directory is seen, and everything is cleaned up.

### 1.6 Boot parameters, node check, smoke (S0, `deploy/`, `bpf/`)

- **State.** `/etc/default/grub` and its backups, the generated boot configuration, the
  running `lsm=` list, packages, the products of `bpf/Makefile`.
- **Operations.** `enable-bpf-lsm.sh` step by step, `bootstrap.sh [--install]`, `make`,
  `make clean`, reboots, edits and package upgrades in between.
- **Hard.** Two files and a reboot between a decision and its effect; a script that reads
  the running kernel and edits the file; interruption inside the rewrite; recipes that
  leave a half-written product that `make` trusts.
- **Correct if** the administrator's parameters are never lost, "done" means the next boot
  has `bpf` and the modules it had, and following the advice ends at a smoke that runs.

### 1.7 Audit console (`web/src`, `web/dashboard`)

Two programs, React (`web/src`) and plain JavaScript (`web/dashboard`), each over mock data it makes itself when the page is loaded.

- **State.** React: the view, the filters, the chosen record, warrant and session.
  `app.js`: one object `state`, the controls it must keep in step by hand, one timer. Mock data
  (`data.ts`, `data.js`): a log that scripts append to, one stream of random numbers, a sequence number per node, a pid.
- **Operations.** Every press of the user; the delayed search box of `app.js`. The generators: a loop
  of turns for each of four warrants, the aggregates of allowed writes, the sessions without a warrant, the sort.
- **Interaction.** Both programs answer the same presses. The scripts of the generator share the stream, so one number
  drawn more by one of them changes whatever comes later.
- **Hard.** Two programs written to be the same; rendering that writes state; a timer
  that fires in another view; five computations of the same numbers; fields of a session set by hand beside the
  records they sum up; what is searched and what is shown are two lists.
- **Correct if** the same presses show the same rows, filters hold in every view, a
  record opened elsewhere is listed, what is found is shown, and the numbers of the overview agree with the rows;
  a log is one the system could have written, both programs have the same records under a warrant, and what is said of a session is true of its records.

### 1.8 Not modelled

| Part | Why |
|---|---|
| `server/` | A skeleton: every method that would change state throws `UnsupportedOperationException`; rules stand in comments, and comments are not behaviour. |
| `proto/` | Message types that no program sends or applies yet. |
| `agent/`, `pam/` | READMEs only. |
| `bench/overhead` workloads and fixture | Commands that make load; a step that can fail in `OverheadRun`. |
| `bench/bypass` known holes | Tests skipped with a reason. |
| `web` widgets (`components/ui/*`, `chart.tsx`, `pills.tsx`) | Generated components and drawing; none keeps a state a view depends on. What the chart draws, its columns and hatching, is in `Console`. |

Left out inside modelled parts: wording, layout and colours; what the mock data draws and the views only print
(arguments, inodes, parents, start times; what of them is searched is a constant of `Console`), the lineage of a warrant; options and checks that only refuse to start (root, securityfs, console,
package); `tagprobe dump`; the counters of `smoke.bpf.c`; the E/D comparison and the share of writes in
`report.py` of S1 (the same formula as what is modelled); the bind mount, copy and hard-link
cases 163-200 of `cases.sh`, which compare two `stat` results once; a login killed inside the PAM module.

## 2. Modules

| Module | Models | Composes |
|---|---|---|
| `TagProbe`, `MCTagProbe` | 1.1 | |
| `TagProbe_proofs` | its theorems | `TagProbe` |
| `GateLife` | abstract: what a script may expect of a gate | |
| `Gate`, `MCGate` | 1.2 in detail | implements `GateLife` |
| `Gate_proofs` | its theorems | `Gate` |
| `OverheadPlan` | the tiers and passes that script and report go through alike | |
| `OverheadRun` | `run.sh` and the gates it starts | `OverheadPlan`; a gate of it lives as `GateLife` says |
| `OverheadRun_proofs` | the theorems of the script and of its report | `OverheadRun`, `OverheadReport` |
| `OverheadReport`, `MCOverheadReport` | histogram and report | `OverheadPlan` |
| `PamPatch` | `_patch`, `disable` | |
| `PamPatch_proofs` | its theorems | `PamPatch` |
| `SessionProbe`, `MCSessionProbe` | probe, logind, collect, verdict | |
| `SessionProbe_proofs` | its theorems | `SessionProbe` |
| `InodeWatch` | `cases.sh` with `inowatch` and `report.py` | |
| `InodeWatch_proofs` | its theorems | `InodeWatch` |
| `BringUp` | 1.6 | |
| `BringUp_proofs` | its theorems | `BringUp` |
| `MockData` | the mock data of 1.7, an operator from a seed to a log | |
| `Console`, `MCConsole` | the two programs of 1.7 | `MockData` |
| `Console_proofs` | its theorems | `Console` |

Variables and operators have the names of the source where there is one (`wb_cg_tag`,
`oh_decide`, `GATE_PID`, `present_t0`, `iw_stop`, `renderTimeline`). One action is one step after
which another process can intervene: a system call, a map update, a shell
command, a handler. What a handler does in one go on one thread of a browser is
one action.

### 2.1 How state and actions correspond to the code

- **TagProbe.** `Fork`, `Exec` are the BPF programs together with the kernel event they
  hang on; `Migrate`, `Exit` are the kernel's. `Load`, `TagSession`, `AttachFork`,
  `AttachExec`, `Quit`, `Crash` are the stretches of `cmd_daemon` between two effects. A
  failing `bpf_task_storage_get` and a full record map are choices in `Fork` and `Exec`. `origin` and `lastExec` are
  history.
- **Gate.** `loader` is the place in `main()`; the wait is `Check`, `Pause` because the
  defect is between them. `Open` is one call of the hook up to the decision; `Record`, `BumpTotal`, `BumpCode`, `BumpDev`
  its increments in the order of the code; `ReadCell` is one CPU's value of one cell, in
  the order of `dump()`. The cells of all maps are one function with keys `OH_*`,
  `LatKey`, `DevKey`.
- **GateLife / OverheadRun.** A gate is `none`, forked, listening for SIGINT, ready, or gone; it has been asked or not, and
  has reported or not. `OverheadRun` has a gate per round, whose report is two steps: `Dump` opens the file or is refused
  (`gate.c:207-211`, and gone with status 1), `Close` ends a file that was half written until then (`out`). It adds the script: `Pick` a round, `GateStart`, `NotePid`, `Poll`, the
  workload, `SigInt`, `Wait`, `Stop`; `Interrupt` is Ctrl-C, which reaches script and gate.
- **OverheadReport.** `MacroRound` and `MicroRound` leave files, `main` is all of `main()` of
  `report.py`. `lat` keeps the true latencies beside their histogram.
- **PamPatch.** Each command of the recipes is an action: `CopyOpen`, `CopyWrite`,
  `Awk`, `CheckNew`, `Move`, `Disable`, `Restore`, with `CopyFails`, `Interrupt`, `Edit`.
- **SessionProbe.** `Acct`, `ReadProc`, `Stat`, `Poll`, `Emit` are `wp_record` read by read;
  `Copy`, `CopyFails`, `Empty` are `make collect`; the rest is logind, pam_systemd and logins (external).
- **InodeWatch.** `Cases` is the catalogue of `cases.sh` as a table; `Begin`, `Operate`,
  `Skip`, `Count` are `run_case`; `Poll` finds the `READY` of this run; `Mark`, `Check`, `Read`, `PrintLine`, `OnSig` are `inowatch`.
- **BringUp.** `Enable`, `Answer`, `Backup`, `Truncate`, `Write`, `Update`, `Abort` are the
  script; `MakeVmlinux`, `MakeObj`, `MakeSkel`, `MakeLoader` the rules, each of which can leave a partial product.
- **Console.** `app` is the React program, `dash` and `box` the other one. Every press is one
  action on both. `TableOf`/`dashTable` are the rows each shows; `ChartRows`, `HookBars`,
  `Tiles`, `Badges`, `Band`, `TipGaps`, `Status` the numbers, `Row` and `EventDetail` the texts, `hay` those that are searched.
  `Comm`, `Ino`, `Argv` are texts of a record that the mock data forgets, `fmtN` how a number is written in a row: constants, of which nothing is assumed. `Logs` is what each program imported:
  a log served to both, or the one its generator makes of a seed (constant `Imported`, which an assumption ties to `Mock`).
- **MockData.** `rng` is mulberry32 on words of 32 bits kept as two halves, so it yields the numbers the
  browser yields; `R`, `between`, `pick` are its uses. `base`, `execEv`, `writeEv`, `connectEv` append one record and say how many numbers they draw;
  the four scripts are tables of turns (`kimTurns` and so on) that `Round` goes through; `aggs`, `session`, `data` are the
  stretches of the module after them. `Draws` is where the programs differ.

## 3. Runs

"Why enough" says which interesting cases the bounds let happen.

| Run | Question | Bounds, and why they are enough |
|---|---|---|
| `tag_probe` | Do tags follow the table, through start, crash and restart of the loader? | Pid 1, the shell and two more pids, which are used again; two cgroups; a record map of one entry, so it fills. Two generations after a move are enough for a lost tag to show; the proofs need no bound. |
| `gate` | Are the reports consistent; what may a step never do; does `Gate` implement `GateLife`; does a SIGINT that finds it asleep end it? | Two CPUs, two cgroups, tier D, `Ttl` 0 and one tick so the warrant can expire in between, two opens, one bucket. Two opens put a CPU between any two increments while another has finished. |
| `gate_lost_signal` | The same loader, one CPU: does *every* SIGINT end it? | **Violated**: finding 1. |
| `overhead_run` | Does every workload run under its own gate and no other, and has each gate answered when the report is made? | Four tiers, one workload, two passes (so a tier comes twice and in another order), two polls, a new output directory; any file of statistics can be refused. |
| `overhead_report` | Quantiles, three judgements, the flag | Tiers a, b, d, one run a pass, two passes; times 150000, 150003, 150007, 150028 (noise, below and above the floor, faster than a, within the cost of the hook and beyond it); latencies 1, 3, 16, 31 (16 and 31 in one bucket, a factor above 2.8 between others, and 1 and 3 so short that 0.001 % of a workload is more than they cost); two calls. A run broken off anywhere leaves every subset of files. |
| `pam_patch` | Is the stack whole, does the probe come out? | Three enables, two edits, one torn copy, interruptions anywhere: enable after enable after an interrupted one. |
| `pam_patch_twice` | Does *one* disable remove it? | **Violated**: finding 2. |
| `session_probe` | Is the verdict right? | Two logins of any service and caller, two session numbers that come back, one poll, two collects. Two logins suffice for one to meet the other's scope or number. |
| `inode_watch` | Are the rows and the verdict right, is everything cleaned up? | The whole catalogue with the package case, one mishap (a failing operation, Ctrl-C), one poll, both kinds of `/usr` and of inode reuse. |
| `inode_stuck` | Is the laboratory always removed? | **Violated**: finding 3. |
| `bring_up` | Nothing lost, "done" is true, the advice converges | Modules yama, apparmor, bpf; one edit, one mishap (the invariants were checked with two mishaps as well, 843 165 states). All three kinds of system. |
| `console` | The same screens; filters and numbers hold; the mock data is a log, in both programs the same where it claims to be | Three seeds of the generators: the real one; 7; and 95, one of the one or two in a hundred of those tried for which a connection is attempted in the grace of a warrant (the real one never gets there). Besides a small log served to both: node a with four warrants (valid, in grace, over, past its grace), node b with two sessions: a node choice empties either view; six records: one at NOW (last column), one after it, one aggregate, two blocked with a table of one. The search controls are used on that log, with a text that is the note of an exec and of a connection, a comm, an inode and an argument, each of another record. Two periods (1 h, 6 h), two choices for each control, records and sessions of every log pressed. |

`CHECK_DEADLOCK FALSE` is set where a program ends (`Gate`, `OverheadRun`,
`OverheadReport`, `SessionProbe`, `InodeWatch`); `TagProbe`, `PamPatch`, `BringUp` and `Console`
can always go on and are checked for deadlock.
Symmetry is used for pids (`TagProbe`) and logins and numbers (`SessionProbe`), in runs
without liveness; nothing in those modules orders them.

Every property of a passing run has a mutant: a definition replaced by a plausible wrong form (a dropped guard, a missing reset, a
swapped order) that makes TLC report the violation. The wrong forms stand before the definitions they replace, marked `Mutant:`.

### 3.1 The properties, in words

- `SessionKeepsTag`, `DelegatedHasNone`, `RecordSound` (TagProbe): inventory 1.1. `BatsTable`: both columns of the table for a process that
  executed while `wb_exec` was attached: "yes yes" in the session's cgroup, "no yes" in one without a tag, "no no" if delegated; and
  "unknown", never an earlier owner's record, when the full map took none. To all of them a child that got no storage slot, or that was forked
  while the probe was not ready (also after a crash), is nobody's descendant: what the failures of `tagprobe.bpf.c:92` cost is not stated.
- `ReportTallies`: no report has more classified opens than opens, and its devices are short of the total by at most one open a
  CPU, although nothing stops the counters while they are read. `LatencyCoversTotal`: likewise the histogram. `TaggedNeverMisses`,
  `ExpiryIsFinal`, `SleeperDumps` as in 1.2. `KeepsPromise`: `Gate` implements `GateLife`.
- `WorkUnderRightGate`, `NoGateLeft`: see 1.3. `AllReported`: when the report is made every gate that was started has closed its file, or was refused
  it and said so by a status that `run.sh:88` drops; none is half written. `StopIsHeard`: the script waits only for a gate that it has asked,
  but for a trap that comes before the handler is set, when the polls were used up or at a Ctrl-C.
- The gates of `OverheadRun` are written out step by step. That these steps are steps of `GateLife`, which `Gate` keeps (`KeepsPromise`), is
  checked as a lemma (`StepsOfGateLife`); it holds by how they are written and is listed neither as a property nor as a theorem.
- `QuantileRight`, `FlagsAgree`, `FlagSoundWhenDear`: see 1.3. The last holds only when a
  call costs at least 2.8 times that of tier b, and not of a hook that took less than 0.003 % of the workload (see 6).
- `StackIsWhole`, `TwoDisablesClean`; `PassRight`, `NoFalseGap`, `RowsKept`: see 1.4. The last also says where a log of
  closed sessions only, on which `report.py` fails, comes from: a collect in the middle of a session.
- `VerdictSound`, `DenyReplacementSeen`, `NoWatcherLeft`, `RemovedUnlessAsleep`: see 1.5.
- `OriginalKept`, `AdviceConverges`: see 1.6. `DoneHolds`: the script prints "done" whether or not its `sed` has changed the line; until somebody else
  edits the file the next boot has what was promised exactly if the line is one that `sed` can change.
- `SameScreen`, `FiltersHold`, `OpenedIsListed`: see 1.7. The last clause of `FiltersHold` is about tile and buttons of warrants until the grace is over; then they disagree (see 6).
  `FoundIsShown`: a record found by a text has it in
  its row, but for the comm (in the panel only), the digits of an inode (shown with separators) and the note of an exec (nowhere). `LogSound`: no two records of a node have one sequence number, no two one pid, nothing is recorded under a warrant before it is issued or
  after it is over, the verdict is one of the warrant's mode (with the exception in 6), an allowed write has no record of its own and each interval of
  allowed writes is counted once. `TwinsAgree`: both generators make the same records under warrants and the same
  logins. `SessionsTold`: the count and last activity of a session are those of its records, and a session with a record in the period is listed.

The type invariants of `OverheadRun`, `OverheadReport`, `PamPatch` and `SessionProbe` stand in the modules for the reader
(those of the first three are proved) and are in no run; those of `TagProbe`, `Gate`, `InodeWatch` and `BringUp` are checked.

### 3.2 Fairness

Safety needs none and `TagProbe`, `OverheadRun`, `OverheadReport`, `PamPatch`, `SessionProbe`
and `Console` state none. The others:

- `Gate`: weak fairness of `main()` and of the delivery of a pending signal: the scheduler runs a
  runnable process and the kernel delivers signals. The hooks and SIGINT itself are not fair; somebody may never open a file or type Ctrl-C.
- `InodeWatch`: weak fairness of the script, of `inowatch` and of the delivery of a signal. A `read` with an empty queue is not enabled, so a reader may sleep for ever.
- `BringUp`: weak fairness of the running script and of `make`; strong fairness of what a user does who keeps following the
  advice (run the script, answer yes, reboot, check, install, smoke), because edits and mishaps disable these steps now and then. `AdviceConverges` names its other conditions.

## 4. Findings

1. **A lost SIGINT** (`gate_lost_signal`, `gate.c:201`). `while (!stop) pause();`: a signal
   handled after the test and before `pause()` wakes nobody. No report is written, although
   `gate.c:1` promises it on SIGINT, and `run.sh` waits for the process without a limit. The same loop is at `tagprobe.c:185`.
2. **One `make disable` after two enables leaves the probe** (`pam_patch_twice`,
   `Makefile:112`). `exit 0` ends the shell of that recipe line only; the next line saves
   the patched file as the original. `Makefile:9` promises the removal of every line. `TwoDisablesClean` shows that a second `disable` helps.
3. **The laboratory is not removed** (`inode_stuck`, `inowatch.c:78`). `signal()` of glibc
   restarts system calls, so SIGINT does not end a sleeping `read()`; `EINTR` of line 126 never
   comes. `cases.sh` waits before it removes the directory that its README (line 102) says is removed.

## 5. Proofs

TLAPS checks the following for every value of the constants that satisfies their
named assumptions (`PidAssumption`, `TierAssumption`, `LsmAssumption` and so on), which bound nothing: any number of processes, CPUs, opens,
logins, passes, polls, edits, mishaps, lines and records. The theorems of `OverheadRun` and `VerdictSoundAlways` have a condition more, and
those of `Console` rest on what a log is; both are named below.

**TagProbe_proofs.** `TypeCorrect`, `SessionKeepsTagAlways`, `DelegatedHasNoneAlways`,
`BatsTableAlways`, `RecordSoundAlways`. None of these is inductive: that a child is tagged needs
what its parent has, that the parent has it needs the order of the loader, and that a record
is right needs the tags it was copied from. `IInv` adds `LoaderOrder` (the session is tagged before anything is attached;
ready only with both programs), `ShellAtHome`, `SessionTagged`, `DelegatedUntagged`, `RecordFaithful` and `DroppedHasNone` (a pid whose exec found
the map full has no record, not even an old one: a record that is there is overwritten). One lemma per
action shows that it is kept.

**Gate_proofs.** `TypeCorrect`, `TaggedNeverMissesAlways`, `ReportTalliesAlways`, `LatencyCoversTotalAlways`,
`ExpiryIsFinalAlways`, and the refinement `PromiseKept` (`Gate` implements `GateLife`).
`ReportTallies` speaks of copies made at different moments; the invariant relates them through what is
still in the map: `Counted` (total and classes differ by a CPU that is between two increments) and
`Snapshot` (a copied cell is not more than the cell is now, and a copied total is not more than what the later cells
have now, nor, once these are copied, more than the copies plus one). It rests on the order of
increments in the hook and of reads in `dump()`. `LatencyCoversTotal` is about a sum over all buckets, some copied and
some still counting. `Histogram` looks at what the report will have if nothing is counted any more (`Seen`): the buckets of a CPU sum up to
its total, and one more between the two increments, and a copied total is not more than the sum of `Seen`, which only grows.
`PromiseStep` maps each step of `Gate` to a step of `GateLife` or a stutter, under `DumpOrder`.

**OverheadRun_proofs.** `RightGateAlways`, `AllReportedAlways`, `StopIsHeardAlways`, `NoGateLeftAlways`, for a new output
directory (`FreshOut`). That a workload runs under its own gate needs that `READY` in a log was written by that
gate and that no earlier one is left. `IInv` therefore has `Order` (a round comes once), `GateTrue` (what a log says of its gate), `Held` (at each place of the
script, which gates can be alive and what `GATE_PID` holds; Ctrl-C between the fork and the assignment is the one way to lose one) and `Behind`
(a gate gone through has closed its file or was refused it).

The same module proves the report of that run: `QuantileRightAlways`, `FlagsAgreeAlways`, `FlagSoundAlways` and
`ReportTypeCorrect`, of any tiers, runs, passes, times and number of calls. The two modules have no name in common but those of
`OverheadPlan`, so the proofs extend both. What the constants of the report are is `ReportAssumption`: the second stage begins with b and has no a,
a workload takes some time, and a call of the hook from 1 to 2^30 ns (a second), which is what `Shift` is written for.

- *The invariant* is `FilesInv`: how far the run is (`Progress`), how many times and latencies each tier has by then, all of them in
  order (`Macros`, `Micros`), and what was printed is what `report.py` makes of these files (`Shown`), because nothing is written
  after the report. So each property is a statement about lists of numbers. That `sorted` yields the list in order needs that there is such an
  order (`SortsExist`).
- *Sums.* `Total` is that of a family of numbers, in whatever order the library goes through it; with it a sum of a list, of the buckets
  of a histogram, and of the calls bucket by bucket are the same thing (`SumIs`, `CallsIs`, `ByBucket`).
- *Powers of two.* The provers know nothing of 2^n. `Powers` has the thirty or so values as ground facts, `PowMonotone` and
  `PowSum` follow, `Log2Is` says that the search over shifts finds the b with 2^b <= v < 2^(b+1), and `Log2Order` that it keeps the order.
- *The quantile.* As many calls are in the buckets up to b as there are latencies below 2^(b+1) (`CallsCount`); so the first bucket that reaches the
  share is the one of the latency at that place (`QuantileIs`).
- *The judgements.* A variance is no negative number (`DevIsNat`): an error of two means is not below that of one of them (`InvalidIsLoud`).
- *The flag.* What the histogram says of the time in the hook is from 3/4 of it to 3/2 (`HookBounds`). Three times what it says of the net cost
  is then at least the real one where a call costs 14/5 of that of b (`CostBound`, `FlagSound`). The proof failed for the tiers
  that `report.py:258` gives an infinite ratio; TLC found the counterexample once a workload was long enough, and the property says so now (`Negligible`).

**PamPatch_proofs.** `TypeCorrect`, `StackIsWholeAlways`, `TwoDisablesCleanAlways`, for files of any length. First what the programs in the
recipes compute, of every file: `awk` adds a mark and a probe below an anchor and changes nothing else (`WithProbeIs`, `StripWith`);
where marks and probes come in pairs `sed` deletes these and no other line (`WithoutIsStrip`, `StripClean`), and leaves a file without
any as it is (`CleanIsStrip`). Then `Sound`: each of the three files of a service is `Planted` (each mark is above its probe and below an anchor), and
while no copy was torn it is one that somebody wrote, give or take the probe. It is stated of the backup and of the `.new` file as
well, since `mv` puts them in place later; and `disable` leaves no backup, so after its second visit the file is `Clean`.

**SessionProbe_proofs.** `PassRightAlways`, `NoFalseGapAlways`, `RowsKeptAlways`. `Numbers` says that logind gives no
session number to a login while another uses it; with it `OwnScope` shows that the `stat` of a session that opens
finds its own scope or nothing. `Stages` and `Found` follow a login through `wp_record`, `Rows` says that a row stays true and that a login writes one
row of each phase, `Places` where each row is: in the log, in one directory, or among the lost.

**InodeWatch_proofs.** `TypeCorrect`, `VerdictSoundAlways` (if 0.3 s are enough for `inowatch` to print, `Prompt`),
`DenyReplacementSeenAlways`, `NoWatcherLeftAlways`. `ChangeRaises` shows that any change of what a name stands for raises an event at
its directory; `Delivery` follows events from the queue through the buffer to the log window of the case that raised them,
`Truthful` says what rows may claim of them, `Denied` that the parent of a denied directory is marked, `Gone` that the trap has waited.

**BringUp_proofs.** `TypeCorrect`, `OriginalKeptAlways`, `DoneHoldsAlways`. `Backed`: from the copy to the end of the rewriting a
backup has what the administrator left. `Kept`: the boot configuration has what was promised and, where it is made of the file, so
has the file, or while it is empty the line the script holds; otherwise an upgrade that runs `update-grub` would undo it. Where the line cannot be
edited the same holds the other way round: no configuration made of it names `bpf`, however often the script says done.

**Console_proofs.** `Inductive`, `SameScreenAlways`, `FiltersHoldAlways`, `OpenedIsListedAlways`, `FoundIsShownAlways`: of every log
served, every choice of periods, filters and texts, any length of the table of the overview, and any sequence of presses and timers.

- *What a log is* is assumed, as `data.ts:14-39` types it. `LogAssumption`: ids of records and warrants and cgroups of
  sessions are unique in it, the warrant a record names is there and of its node, the fields of a hook are there for
  no other, and gaps are not in the future. `TwinAssumption`: where each program has data of its own, nodes, warrants, gaps and blocked
  records are the same. TLC evaluates both of the log that is served and of the mock data of each seed, the shipped one among them; so they
  are met by what the repository has, and the API is asked for no more than the programs use.
- *The invariant.* `Both`: the two states agree in every setting but the text, and each item of `dash` is that of `app`
  or the first of a node (what `app.js` writes over it). `Rendered`: the item of the view `app.js` shows is of its node, or there is none, which
  makes the lists of the two programs the same although one looks it up in the list of the node and the other in all.
  `Boxed`: the controls show the state, but for a text that waits. `Reset`: after a record was opened no filter, box
  or waiting text can leave it out; `OpenedIsListed` alone says nothing of the box, which the timer reads.
- *The counts.* `SumOfParts` (a finite set counted by parts has as many elements as the parts together) ties chart, bars, tiles and
  list; `SlotIs` and `BandIs` are the arithmetic of the columns: `NOW` in the last one, a gap that began before the period in the first.

The same module proves `TwinsAgreeAlways` and `SessionsToldAlways`, of the mock data of every seed (`SeedAssumption`: a seed is a natural number). Of the
stream it needs no more than that `R() * n` is a number below `n` (`RIs`); everything else is how the two generators use it.

- *A log that is being made* is a `Draft`: the numbers of a node rise with the pids, every record is one that its owner can have. Every operator that
  appends keeps that and the records already there (`Adds`): `BaseIs` for one, `DoIs` for a turn, `RoundsAre` for a loop, then one lemma for each stretch
  of the module.
- *Two that are made alike* are a `Twin`: they differ in the name of the program only. A record under a warrant takes two numbers in both programs,
  so twins stay twins through four scripts and the aggregates (`ScriptsRun`). From the first session on they part; what is left is that a
  session adds its login before it has drawn, and nothing under a warrant (`SessionIs`).
- *What is said of a session.* `Timely`: the clock of its loop is at its last record, or past NOW (`RoundTimely`: a turn is one call at the time of the clock, and
  time only grows). So a row of the list of sessions is true when it is made, and stays true because no later session has that cgroup (`Accounted`, `SessionTells`).
- *The sort* puts every record in one place, as pids differ (`Permuted`). That warrants have names, so that no session is taken for one, is in `LogAssumption`.

`IInv` of `OverheadRun`, `SessionProbe`, `InodeWatch`, `BringUp`, `PamPatch` and `Console`, `Histogram` and `FilesInv`, were model-checked on instances
of section 3 as well.

Sums and folds are recursions that the library defines by `CHOOSE`, and its induction theorems take an operator the installed provers cannot instantiate.
Where a proof needs induction over them it goes by a *set* of the numbers (or subsets) for which the claim
holds, and the least element outside it (`NatLeast`, `UpTo`, `SetInduction`); that the recursion has a solution is proved from the same, or
from a solution that is named (`SumOfParts`). For the folds of the generators `FoldExists` does it once for every step that stays in a set, and
`FoldSteps` takes the fold apart into states from one element to the next.

**Only model-checked.**

- All liveness (`SleeperDumps`, `RemovedUnlessAsleep`, `AdviceConverges`), which is out of the prover's reach.
- `LogSound`: a fact about the numbers that certain seeds yield, found by computing them. It is no theorem about the generators: the loop of
  W-4821 has no test of its end, so numbers large enough record after it is over.
- `SessionsTold` of a served log: nothing in the repository binds the API to it. `SessionsToldAlways` is about the mock data.

## 6. Noticed while modelling

Not stated as a finding, because no document says otherwise, because the properties name it as a
condition, or because it is of a part left out:

- **S1.** `report.py:260` says a factor of 3 covers the error of the buckets. Not when two
  tiers share one: calls of 16 in b and 31 in d, and a true slowdown is flagged as impossible;
  `FlagSoundWhenDear` has the condition. A Delta of a hook that is expected to cost 0.001 % or less is always flagged (`report.py:258`), and by the error of
  the buckets that hook can have taken 0.003 %, which would explain it (`Negligible`). A tier *faster* than a can be called explained (the sign is dropped).
  After a run broken off early `report.py:271` takes the `max` of nothing. With `--out` of an earlier run an old `READY` can be taken
  for the new one (`FreshOut = FALSE` makes TLC show it). A gate that cannot open `--out` exits 1, which `run.sh:88` drops (`wait || true`): the report is
  made without that round. `gate.c:168` ignores that
  `/proc/uptime` could not be read.
- **S2.** `assert_tag no no` also succeeds for a pid that has no record (`helpers.bash:69`); a pid used again still has the
  record of its last owner, contrary to the remark at `tagprobe.c:78`.
- **S3.** A backup torn by a full disk is trusted by `disable` (`Makefile:125`). A log of `close_session` rows only makes `report.py:66` read
  the first element of an empty list; `RowsKept` says when such a log comes about.
- **S4.** Events of directories the script has just made fall into the next case's window
  (`cases.sh:79`). With `--out` of an earlier run its `READY` can be read before the child's redirection has emptied the log (`cases.sh:60`); the
  model begins with an empty log. Where `/usr` is no mount point the package case sees nothing (`inowatch.c:105`).
- **Bring-up.** A line in single quotes, or with a trailing comment, is not changed and the
  script says done all the same (`enable-bpf-lsm.sh:40,66-72`; `DoneHolds` says exactly when). When the file names `lsm=` already the running list is not
  used, contrary to the head comment. A second run before the reboot appends `bpf` again (harmless). Where `/etc/default/grub` exists without `update-grub` the
  `grubby` branch is not reached and the script ends with the file edited. A failing `bpftool` leaves an empty `vmlinux.h` that `make`
  trusts and `make clean` keeps (`bpf/Makefile:47,74`). What `bootstrap.sh --install` prints last is from before installing.
- **Console.** `web/README.md:20` says gaps are shown explicitly, but the view of sessions without a warrant passes
  none, and the timeline drops a gap that began before the warrant was issued. `app.js` overwrites the chosen warrant or session when the node
  changes and React does not (`Overwritten` in `SameScreen`). Text typed less than 120 ms before leaving the view is lost in `app.js`. `agg` is not
  among the filters that opening a record resets. A warrant whose grace is over is still called
  "in grace" by its button (`warrant-timeline.tsx:20`) while the overview no longer counts it as active (`overview.tsx:33`); the mock data has none, the log that is served
  has, and `FiltersHold` names it. The comm of a record and the digits of an inode are searched but in no row (`filters.ts:34`, `FoundIsShown`). Sessions are told apart by cgroup number alone, across nodes. The chart's heading names exec and connect as what is
  allowed while records of `self` count as well. The notes of execs (`data.ts:281,311`) are searched and shown nowhere.
- **Mock data.** `data.js` draws `uid` and `euid` of a record without a warrant one by one, `data.ts` once, so the two differ in
  those sessions (counts 15, 12, 6 and 13, 12, 6) though one is called a form of the other; `TwinsAgree` states what they
  share. The last activity of a session is where the clock of its loop stopped, which can be after NOW. The refused
  connection in grace (`data.ts:260`) is not reached with the real seed. `data.ts:318` says a gap is seen by skipped sequence numbers,
  but its gaps lie outside all numbers recorded and those have no hole, so no gap of the mock data could have been seen that way. Numbers are not in the order of time. The loop of W-4821 has no test of its end.
  W-4830-A1 only observes and still has records of a write it would deny (`data.ts:242` against `data.ts:74`; `LogSound` names it); the lineage of W-4830 does not add up.

## 7. State and what could follow

Done, in this order: `TagProbe` and its proofs; `GateLife`, `Gate` and its proofs; `OverheadRun` over
`GateLife`; `OverheadReport`; `PamPatch`; `SessionProbe`; `InodeWatch`; `Console`; `BringUp`; `MockData` under `Console`, with what
is found, told and shared; the proofs of `OverheadRun`, `InodeWatch`, `BringUp` and `SessionProbe`; those of `PamPatch` and `Console`, the histogram of `Gate`, and the types; those of `OverheadReport`, and of the mock data.

What could follow, models:

1. Pins of `tagprobe` as files with two loaders, and `pid_of` racing the move into a scope
   (`TagDaemon`, composed with `TagProbe`).
2. `OverheadReport`: the comparison of E and D and the warnings about hits.
3. The counters of the smoke test with its sample, which several CPUs write field by field.
4. `SessionProbe`: a login killed inside the module, reads of `/proc` that fail.
5. The rest of the inode catalogue (bind mounts, copies, hard links).
6. The control server, the agent and the messages between them, once they are written.

Proofs: that the order of the records of the mock data
matters to nothing but what is displayed first.

New work displaces shallow properties where the two compete: the project keeps one run a question.
