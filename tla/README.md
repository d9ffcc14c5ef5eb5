# DA-HOLY-VM: a verification project

DA-HOLY-VM creates and boots Windows guests under QEMU/KVM: a library
(`crates/daholyvm-core`) and a command line (`crates/daholyvm-cli`) with the commands
`doctor`, `create`, `list` and `run`. It keeps no daemon and no database: its state is a
directory per VM, and while a VM runs, the processes it has started. This directory holds
TLA+ models of that state and of the steps that change it, TLC runs that check the models
on small instances, and TLAPS proofs for instances of any size. Paths below are relative to
`src/`; `core/` stands for `crates/daholyvm-core/src/`, `cli/` for `crates/daholyvm-cli/src/`.

1. [The system](#1-the-system)
2. [The modules](#2-the-modules)
3. [The runs](#3-the-runs)
4. [The proofs](#4-the-proofs)
5. [Where code and documentation disagree](#5-where-code-and-documentation-disagree)
6. [The plan](#6-the-plan)
7. [What is not modelled](#7-what-is-not-modelled)

## 1. The system

### Components

| Component | State | Operations | What makes it correct |
| --- | --- | --- | --- |
| `core/vm.rs`: create, load, save | `vms/<name>/`: the directory, `disk.qcow2`, `config.toml` | `Vm::create`, `load`, `save` | a VM that loads has its disk and is what was asked for; a guest's disk is never overwritten; nothing half made is left by an ordinary refusal |
| `core/vm.rs`: launch | `OVMF_VARS.fd`, `tpm/`, the socket file | `Vm::launch`, `start_tpm`, `provision_vars` | the variable store is whole, private and made once; QEMU starts after its TPM; a failure leaves nothing running |
| `core/qemu/runtime.rs` | `Running`: QEMU's `Child`, the adopted helpers | `spawn`, `adopt`, `wait`, `kill`, `Drop` | a helper ends when its guest does, however that happens |
| `core/tpm.rs` | swtpm's process and socket | `start`, `wait_for_socket`, `socket_args` | the wait ends, and ends early only for a socket |
| `core/disk.rs` | the image | `create`, `run` | an image is never truncated; a failing `qemu-img` is noticed |
| `core/config.rs` | none | `VmName::new`, `validate`, `to_toml`, `from_toml` | what is accepted can be saved and is read back the same |
| `core/paths.rs` | none (environment, the directory listing) | `from_env`, `vm`, `list` | every VM stays under `vms/`; every VM is listed |
| `core/preflight/*` | none: a report taken of the host | `HostReport::detect`, `requirements`, `can_launch`, `Firmware::best`, the text parsers | the verdict asks for what making and booting a VM takes; the best firmware is found; no text panics a parser |
| `core/qemu/args.rs` | none | `build`, `escaped` | each value reaches QEMU as one argument, commas and all |
| `core/error.rs` | none | the error kinds | one kind per way to fail |
| `cli/main.rs`, `cli/render.rs` | none | the commands; printing | exit codes follow the outcome |

### Interactions

- `create` (CLI) takes a `HostReport` and calls `Vm::create`, which calls `disk::create`,
  which runs `qemu-img` and waits for it, and then `save`.
- `list` asks `Paths::list` for names and calls `Vm::load` on each, dropping the errors.
- `run` takes a `HostReport`, loads the VM, calls `launch` and then `Running::wait`. `launch`
  starts swtpm, polls for its socket file, starts QEMU and hands swtpm to the `Running`.
- Nothing locks a VM's directory: program runs share it with each other, with a `qemu-img`,
  a swtpm and a QEMU that outlive them, and with the user, who may edit, copy and delete it.

### What is hard to test here

The program has no threads; all of its concurrency is between processes. The hazards, each
at its line, are in `PROJECT.json`; the groups are:

- *Check, then act.* The directory test and `create_dir_all`; the image test and `qemu-img`;
  the test for a variable store and `fs::copy`; the socket test and QEMU's own connection.
- *A sequence that stops half way.* Four file-system effects in `create`, five in `launch`:
  any of them may fail, and the program may be killed between any two. Rust's destructors
  run on the first and not on the second, and dropping a `Child` ends no process.
- *State that outlives the process that made it.* A socket file after SIGKILL, a cut copy, an
  empty `config.toml`, a swtpm nobody has adopted.
- *A verdict over many probes*, taken once and trusted by the steps after it.
- *Optional fields* that are left out on writing and restored by defaults on reading.

## 2. The modules

| Module | Extends | Models |
| --- | --- | --- |
| `VmConfig` | | `core/config.rs`: the configuration, `validate`, the TOML round trip |
| `VmStore` | `VmConfig` | create, load, save, list as steps of overlapping program runs |
| `VmRegistry` | | the abstract store: creates that begin, claim, publish or give up; removals |
| `VmStoreRegistry` | `VmStore` | the refinement mapping from `VmStore` to `VmRegistry` |
| `Preflight` | | statuses, verdict, firmware table |
| `HostSetup` | `Preflight` | a host whose packages and devices change |
| `Launch` | `Preflight` | launch, `Running`, swtpm, QEMU |
| `GuestSession` | | the abstract session: what a launch and its `Running` promise |
| `LaunchSession` | `Launch` | the refinement mapping from `Launch` to `GuestSession` |
| `Lifecycle` | `Launch` (and an instance of `VmRegistry`) | VMs created, removed and created anew while they are launched |
| `Layout` | | `VmName::new`, `Paths::from_env`, where a VM's files go |
| `Args` | `Preflight`, `Layout` | the argument vectors for QEMU, swtpm and `qemu-img`, and what their readers make of them |
| `Parsers` | | how preflight reads `/proc`, `/etc`, `--version` and `PATH` |
| `Texts` | `Args`, `Parsers` | the texts themselves, while they are edited and grow |
| `VmStoreProofs` | `VmStoreRegistry`, TLAPS | theorems about the store, and that it is a registry of VMs |
| `HostSetupProofs` | `HostSetup`, TLAPS | theorems about the verdict and the firmware table |
| `LaunchProofs` | `LaunchSession`, TLAPS | theorems about launch, and that it keeps the contract |
| `GuestSessionProofs` | `GuestSession`, TLAPS | what the contract is good for |
| `LifecycleProofs` | `Lifecycle`, `LaunchProofs` | theorems about launch beside create and removal |
| `ParsersProofs` | `Texts`, TLAPS | induction, folds and sequences; theorems about the parsers |
| `ArgsProofs` | `ParsersProofs` | theorems about option lists, paths and names |
| `BuildProofs` | `ArgsProofs` | theorems about whole command lines |
| `MCVmStore`, `MCHostSetup`, `MCLaunch`, `MCLifecycle`, `MCTexts` | the above | constants for TLC |

A definition whose comment begins with `mutant:` is a plausible mistake in the definition
below it. The models do not use them; `PROJECT.json` pairs each with the property that
catches it.

### VmConfig and VmStore

A configuration is a record and a TOML document the same record with fields left out:
`ToToml` drops `iso` when there is none, `Parsed` fills in the defaults of `config.rs`. Names
are numbers in their sort order, an ISO path is only known by whether it is UTF-8, and the
widths that matter are kept by `TomlIntMax`, the largest integer the TOML writer accepts
(`i64::MAX`; the instances scale it down, since only the comparison matters).

`dir`, `disk` and `config` are the file system. A *client* is one run of the program; `pc[c]`
names the call it makes next, `target[c]` and `want[c]` are the locals of that call. One
action stands for one call, with a failing twin where the code has an error path:

| Code | Actions |
| --- | --- |
| `Vm::create`, its checks (`vm.rs` 32-47) | `RefuseCreate`, `AdmitCreate` |
| `create_dir_all` | `MakeDir`, `MakeDirFails` |
| `disk::create`, the test for the image | `FindDisk`, `FindNoDisk` |
| `disk::run`: spawn, truncate, exit status | `SpawnQemuImgFails`, `QemuImgTruncates`, `QemuImgExits`, `QemuImgFails` |
| `Vm::save`: `to_toml`, open with truncation, write | `SaveRefused`, `SaveTruncates`, `SaveWrites`, `SaveFails` |
| `Vm::load` | `NoSuchVm`, `BeginLoad`, `ReadConfig` |
| `Paths::list` and the loop of `list` | `BeginList`, `ListLoads`, `EndList` |
| outside | `Crash`, `GuestRuns`, `EditConfig`, `RemoveVm`, `CopyVm` |

The checks of `create` are one step because only one of them, the directory test, reads
something others can change. A `qemu-img` whose parent is killed lives on; its possible
progress is chosen at the moment of the crash. `RemoveVm` and `CopyVm` only happen to a VM
that no create is at work on. The constant `Overlapping` says whether anything else may
write to a VM that is being created: the code does not prevent it, and the properties that
need it `FALSE` say so.

`created`, `faulted` and `owed` are ghosts: what the last successful create promised, whether
something has failed on the VM, and what a listing owes its reader.

### VmRegistry and VmStoreRegistry

`VmRegistry` has two variables: in `vms` a name is free, claimed by a directory that holds no
VM, or stands for a whole configuration; `creating` says whether a create of it is going on. A
create begins under a free name (`Begin`), claims it (`Claim`) and then publishes the
configuration (`Publish`), or it gives up wherever it has come to, by an error or a kill
(`Abandon`), and then a claim stays. A VM is removed by its user (`Remove`). The mapping reads
`vms` off the files: no directory is free, a file that loads is the configuration it loads as,
anything else is a claim; and `creating` off the clients that are past the checks of `create`.
Every step of `VmStore` is then one of these five or a stutter.

### Preflight and HostSetup

`Preflight` is pure: a host is a record of what the probes find, `Requirements` the seven
statuses, `CanLaunch` the verdict, `Best` the first row of `CANDIDATES` whose two files are
there. The rows have the order and the sharing of files of the table in `firmware.rs`.
`HostSetup` lets packages, devices and the `PATH` change in any order; its steps are the
owner's, outside the program.

### Launch

A *run* is one `daholyvm run`; its number also names its swtpm and its QEMU. `pc` walks through
`launch`, then `wait`, `kill` or `Drop`; `vars` and `sock` are the files it shares with other
runs; `swtpm`, `qemu` and `link` are the processes and QEMU's connection; `helper` is
`Running::helpers`.

| Code | Actions |
| --- | --- |
| the report and the checks (`vm.rs` 98-121) | `BeginLaunch` |
| `provision_vars`: test, open, copy | `KeepVars`, `NeedVars`, `OpenVars`, `CopyVars`, `CopyVarsFails` |
| `start_tpm` | `TpmNotWanted`, `TpmRefused`, `SpawnSwtpm`, `SpawnSwtpmFails` |
| `wait_for_socket` | `SocketAppears`, `SocketTimeout` |
| `args::build`, `spawn`, `adopt` | `SpawnQemu`, `SpawnQemuFails` |
| `Running` | `WaitReturns`, `Kill`, `Drop`, `StopHelpers` |
| outside | `Crash`, `SwtpmListens`, `SwtpmDies`, `QemuBoots`, `GuestWritesVars`, `QemuExits` |

`SocketTimeout` may happen at any look, also when the file is there: the loop looks at the
clock first. swtpm takes over the path of a socket file that is there; when it ends, it may
remove the file or leave it, as it must under SIGKILL. QEMU waits for the lock on its disk
image and connects to whoever listens. `Failing` allows kills and copies that are cut short;
`Overlapping` allows a VM to be run while it is running.

### GuestSession and LaunchSession

`GuestSession` is what `launch` and `Running` promise a caller, without files and sockets: a
session is new, launching, up, and then over, refused, dropped or lost; a guest only starts at
the moment its launch succeeds, and one that is to have a TPM only after an emulator was started
for it (which may have ended since); a session that is over has ended with its guest and has
stopped its emulator; one that is dropped stops the emulator and leaves the guest, as `Drop`
does; one that is killed leaves what there is. Refusing may leave an emulator: that is the defect
of section 5, and the contract would be false of the code without it. `LaunchSession` reads the
phase off `pc` and `outcome`, the two processes off `qemu` and `swtpm`, and whether a TPM is
wanted off `HasTpm`. A `Running` that is stopping its helpers still counts as up, since the
caller has not got the status yet.

### Lifecycle

`Launch` takes its VMs as given. In `Lifecycle` they come from an instance of `VmRegistry`, the
specification that `VmStore` implements when creates of one VM do not overlap and nobody edits
its files: `BeginCreate`, `MakeVmDir`, `Created`, `CreateFails` and `RemoveVm` are the registry's
actions, so that what the two halves share, the directory, is there without every call of create.
A create may fail or be killed after any of its steps, and leaves what it made: `disk::create`
and `save` return early at `vm.rs` 52 and 58 and take nothing back. The ghost `failed` remembers
that, until the directory is removed. A run loads its VM once (`LoadAndBegin`), and from then on
works on the directory by name; `loaded` remembers how often the VM had been removed by then.
What launch does to a directory that may be gone is added to its steps: the copy needs one
(`OpenVarsThere`), a copy in progress may lose its file (`CopyVarsUnlinked`), `start_tpm` makes
one with `create_dir_all` (`SpawnSwtpmAndDir`, `SpawnSwtpmFailsWithDir`), QEMU boots only when
the files are there. Two things are narrower than what a user could do: a VM is not removed while
a guest of it runs or a create is at work on it, and creates of one VM do not overlap. A removal
takes the socket file with it or leaves it, since the file lies in the VM's directory or in the
runtime directory. The directory that `start_tpm` makes is a claim without a create: it is no
step of the registry, which is why `TakenNamesExplained` has something to say.

### Layout, Args, Parsers and Texts

These are the parts of the program that turn text into text. A text is a sequence of *pieces*:
each character the code looks at is a piece, and a run of ordinary letters between two of them
is one piece, of a length that `ByteLen` gives where bytes are counted.

- `Layout`: `ValidName` is `VmName::new`; `DataDir`, `RuntimeDir` and `VmPaths` are
  `Paths::from_env` and `Paths::vm`, with `Join` as `Path::join` does it (an absolute path
  replaces what it is joined to, an empty one adds nothing).
- `Args`: `Build` pushes the flags in the order of `qemu/args.rs`; an option list ends in at
  most one path, whose commas `Escaped` doubles. `SocketArgs` and `CreateArgs` are those of
  `tpm.rs` and `disk.rs`. `QemuReads` and `SwtpmReads` are the other side: QEMU splits at
  single commas and reads two as one that belongs to the value, swtpm splits at each.
- `Parsers`: one operator per parser. A line comes already taken apart at the separator its
  parser splits at. Numbers are read digit by digit up to `NumMax`, which stands for `u32::MAX`.
- `Texts` lets the texts come about: `Edit` changes a VM's settings and its host one at a time,
  `Type` adds a piece to a name, `Grow` a line to a file, `Assign` an assignment to
  `/etc/os-release` in any quotes, remembering what the distribution meant by it. Its
  invariants compare what the program makes of each text with what was meant. The texts are
  built by steps so that properties can speak of two of them: `MediumOnlyAdds` relates a VM
  with a medium to the same VM without, `AnswersStick` a file to all its beginnings.

## 3. The runs

| Run | Checks | Instance |
| --- | --- | --- |
| `store_serial` | `TypeOK`, `ReadyHasDisk`, `LoadsAsCreated`, `ListMissesNone`, `DiskNeverOverwritten` | 2 clients, 2 VMs, 4 requests (one invalid, one that cannot be saved), 2 edits, copies, crashes; creates of one VM do not overlap |
| `store_overlap` | `HalfCreatedNeedsFault` | 3 clients on 1 VM, everything overlaps |
| `store_registry` | `ImplementsRegistry`, `CallsReturn` | 2 clients, 2 VMs, no edits and copies; weak fairness |
| `store_unsavable` | `HalfCreatedNeedsFault`: violated | requests that validate and cannot be saved |
| `host_setup` | `VerdictFitsUse`, `BestOfItsPackage`, `InstallingNeverBlocks` | 3 QEMU versions, 4 firmware rows, any order |
| `firmware_order` | `SecureBootFirst`: violated | the same |
| `launch_serial` | `TypeOK`, `OwnTpm`, `CutOnlyIfFailed`, `VarsMadeOnce` | 3 runs of 1 VM, one after another, each with one firmware pair and a TPM or with another pair and none, killed anywhere |
| `launch_overlap` | `StrayOnlyIfLaunchFailed`, `LaunchDecides`, `EmulatorFollowsGuest`, `ImplementsSession` | 2 runs over 2 VMs, everything overlaps; weak fairness |
| `launch_stray` | `NothingLeftRunning`: violated | 1 VM with a TPM, nothing killed |
| `launch_stale_socket` | `ListeningBeforeQemu`: violated | the same |
| `texts` | the 13 invariants of `Texts` | names of up to 4 pieces, files of up to 4 lines, 3 VM names, 3 media, 5 sets of firmware files, 24 environments |
| `lifecycle` | `ChecksSuffice`, `TakenNamesExplained`, `OwnTpmOrStray` | 2 runs over 2 VMs (one with a TPM, one with a medium), creates that fail or die anywhere, each VM removed at most once, 4 hosts |

**What they show, of the store.** `ReadyHasDisk`, `DiskNeverOverwritten`: the order disk first,
configuration last is enough for a VM that loads never to be half made, and the test before
`qemu-img` for a guest's disk to be kept. `LoadsAsCreated`: leaving fields out and filling in
defaults is the identity on every configuration that is created. `ListMissesNone`: dropping
what does not load drops nothing that was finished. `HalfCreatedNeedsFault`: with no limit on
overlap, the only ways to a directory that can be neither created nor loaded are failures,
kills and edits.

**Of the host.** `VerdictFitsUse`: a host is only called ready with what making a VM without a
TPM and booting it takes (`qemu-img`, the emulator, a whole firmware pair), and with these and
CPU extensions it is called ready. It does not promise a VM with a TPM its launch, which
refuses without swtpm where the verdict warns, and is silent about a host without CPU
extensions (section 5). `ChecksSuffice`: past launch's first checks no step finds QEMU or the
firmware missing in the same report. `InstallingNeverBlocks`: the advice is safe to follow.
`BestOfItsPackage`: inside one distribution the table does prefer Secure Boot; across
distributions it does not (`firmware_order`).

**Of launch.** `OwnTpm`: a guest's TPM is its own run's or one that a failed or killed launch of
the VM has left, and when nothing is left from before, waiting for the file orders swtpm and
QEMU. A run that meets a stale socket file is not ordered (`launch_stale_socket`).
`StrayOnlyIfLaunchFailed`, `EmulatorFollowsGuest`: once adopted, an emulator ends with its guest.
`LaunchDecides`: the wait ends whatever swtpm does. `VarsMadeOnce`, `CutOnlyIfFailed`: the store
is made once, and QEMU gets a cut one only after a copy that failed or was killed.
`ImplementsSession`: all of this together is the contract of `GuestSession`, liveness included.
`TakenNamesExplained`, `OwnTpmOrStray`: removing a VM and making it anew while an old launch is
still at work does one kind of harm, a directory that holds no VM and that create refuses, and
not another, a new guest on the TPM of a run that ended as it should. The other ways to such a
directory are a create at work in it and one that failed or was killed there; a launch of a VM
that is there is none.

**Of the texts.** `PathsReadBack`, `SameSocket`: every path reaches its program whole, but for
commas on swtpm's side. `Wired`, `MediumOnlyAdds`, `SecureBootAgrees`: each device finds its
backend, a medium moves no other device, and three flags set in two functions agree.
`NamesStayInside`, `NoSharedWrites`, `SocketsFitRuntimeDir`: a name is one component of a path
whatever it is made of, no two VMs share a file a guest can write (also when a copied directory
carries the name of the first), and a name that can be created fits into a socket path.
`CpuFound`, `GroupFound`, `VersionReadBack`, `OsReadBack`, `AnswersStick`: each parser finds what
is there past what it does not understand, and what it has found stays found as a file grows.
`CpuFound` is silent about an extension that only a later processor block lists (section 5).

**Bounds.** Two clients give every pair of overlapping calls; the third in `store_overlap` allows
a create that gives up between two that go on, the case the invariant of section 4 turns on. Two
VMs are enough for list's order and for a copy; no action touches more. Three runs one after
another allow a stray or a cut copy from the first, a second that meets it, and a third that
meets the second's; the two hosts differ in the firmware pair and in swtpm, so that a store made
of one pair meets the other. A run number is used once, so the number of runs is the bound on
time; this is why the launch runs and `lifecycle` have `CHECK_DEADLOCK FALSE`: in the end every
run is over. One removal of each VM (`MaxRemovals`) lets a run of the old VM meet the new one,
and the second run be the new one's. Runs are interchangeable in `launch_serial` and `lifecycle`,
which have no liveness property, so these use them as a symmetry set. `lifecycle` has `Failing =
FALSE`: kills and cut copies are `launch_serial`'s subject, and the strays it needs come from
launches that time out. In `host_setup` versions lie below, at and above the minimum, and the
rows are two that share a `VARS` file and two of different distributions.

In `texts` the pieces are every separator the code looks at (`-`, `.`, `/`, `,`), a letter, a
run of 62 letters so that the limits of 64 and 107 bytes are met exactly, missed and exceeded
within 4 pieces, and a letter of two bytes. Commas come alone, doubled and last. Four lines
allow the three that matter to a parser (a decoy, the one it wants, a second one like it) with
noise among them. `NumMax` is 99, so that a number of three digits is out of range. The run has
`CHECK_DEADLOCK FALSE`: a text that has reached its length stays.

**Fairness.** `VmStore` assumes weak fairness of a client's own steps: system calls return
and a `qemu-img` ends, with or without success. `Launch` assumes it of a run's own steps: a
program that is not killed goes on, and its clock reaches the deadline of the wait, whose
timeout is enabled all along. Nothing is assumed of swtpm, QEMU, the guest, the user or the
killer, which is what makes `LaunchDecides` mean something. `GuestSession` asks for no more than
that: a launch decides, and a session whose guest has ended comes to its end.

## 4. The proofs

All are checked by `tlapm` for any values of the constants that meet the named `ASSUME`s. These
only say what the constants are:

| Assumption | Says |
| --- | --- |
| `TomlIntMaxAssumption`, `StoreAssumption`, `ClaimedAssumption` | requests are configurations under known names; the marks for "none" and "claimed" are no configurations |
| `SetupAssumption` | firmware that is installed is in the table |
| `LaunchAssumption`, `NoFileAssumption`, `LifecycleAssumption` | the kinds of the constants; "none" is no run, no VM and no file |
| `ByteLenAssumption`, `OrdinaryAssumption` | every piece of a text has a length; an ordinary letter is none of the marks the code or QEMU looks at |
| `NamesAssumption`, `PathsAssumption`, `PiecesAssumption`, `RunAssumption` | the names of VMs are valid; paths are texts; what is typed has a length, and so have the parts of `/run/user/<uid>` |
| `CpuLinesAssumption`, `PlainWordsAssumption`, `VersionsAssumption`, `OsAssignmentsAssumption` | a line has words; what is printed before a version is no version; its parts are numbers below 100; the names in an os-release are words without blanks and quotes |

Some theorems have a hypothesis besides, which the code does not guarantee. `~Overlapping`: runs
that write to one VM come one after another (section 5 tells what happens otherwise).
`LeftAlone`: in addition nobody edits or copies a VM's directory by hand; what is edited in is
nothing anybody asked `create` for. `Savable`: see half-created VMs below. `MediaApart`: the
medium of a VM is not a VM's own disk or variable store, which the code does not look at;
`MCTexts` assumes it of its instance, so TLC confirms that it is met there.

| Theorem | Says |
| --- | --- |
| `VmStoreProofs!TypeCorrect` | `Spec => []TypeOK` |
| `VmStoreProofs!LoadedVmHasDisk` | `~Overlapping => (Spec => []ReadyHasDisk)` |
| `VmStoreProofs!GuestDiskKept` | `~Overlapping => (Spec => DiskNeverOverwritten)` |
| `VmStoreProofs!RoundTrip` | `Parsed(ToToml(cf)) = cf` for every configuration |
| `VmStoreProofs!PromiseKept` | `~Overlapping => (Spec => []LoadsAsCreated)` |
| `VmStoreProofs!ListComplete` | `~Overlapping => (Spec => []ListMissesNone)` |
| `VmStoreProofs!OnlyFaultsLeaveHalf` | `Savable => (Spec => []HalfCreatedNeedsFault)` |
| `VmStoreProofs!StoreImplementsRegistry` | `LeftAlone => (Spec => ImplementsRegistry)` |
| `HostSetupProofs!VerdictRight` | `Spec => []VerdictFitsUse` |
| `HostSetupProofs!AdviceNeverBlocks` | `Spec => InstallingNeverBlocks` |
| `HostSetupProofs!PackageServedBest` | `Spec => []BestOfItsPackage` |
| `LaunchProofs!TypeCorrect` | `Spec => []TypeOK` |
| `LaunchProofs!NoOtherStray` | `Spec => []StrayOnlyIfLaunchFailed` |
| `LaunchProofs!FirstChecksSuffice` | `Spec => []ChecksSuffice` |
| `LaunchProofs!StoreMadeOnce` | `~Overlapping => (Spec => VarsMadeOnce)` |
| `LaunchProofs!CutOnlyAfterFailure` | `Spec => []CutOnlyIfFailed` |
| `LaunchProofs!GuestGetsOwnTpm` | `~Overlapping => (Spec => []OwnTpm)` |
| `LaunchProofs!LaunchKeepsContract` | `Spec => Session!SafeSpec` |
| `GuestSessionProofs!OverIsOver` | `SafeSpec => []OverLeavesNothing` |
| `LifecycleProofs!FirstChecksStillSuffice` | `LifeSpec => []ChecksSuffice` |
| `LifecycleProofs!NamesTakenForAReason` | `LifeSpec => []TakenNamesExplained` |
| `LifecycleProofs!NoTpmOfAFinishedRun` | `~Overlapping => (LifeSpec => []OwnTpmOrStray)` |
| `ParsersProofs!TextsTyped` | `Spec => []InputOK` |
| `ParsersProofs!CpuIsFound` | `Spec => []CpuFound` |
| `ParsersProofs!GroupIsFound` | `Spec => []GroupFound` |
| `ParsersProofs!WhatIsFoundStays` | `Spec => []AnswersStick` |
| `ParsersProofs!VersionIsRead` | `Spec => []VersionReadBack` |
| `ParsersProofs!OsIsRead` | `Spec => []OsReadBack` |
| `ArgsProofs!EscapedReadsBack` | `QemuReads(Escaped(options, path))` is the options and the path, for every list and path |
| `ArgsProofs!SocketsFit` | `Spec => []SocketsFitRuntimeDir` |
| `ArgsProofs!NamesAreApart` | `Spec => []NamesStayInside` |
| `BuildProofs!NothingShared` | `MediaApart => (Spec => []NoSharedWrites)` |
| `BuildProofs!PathsArrive` | `MediaApart => (Spec => []PathsReadBack)` |
| `BuildProofs!FlagsAgree` | `Spec => []SecureBootAgrees` |
| `BuildProofs!SocketShared` | `Spec => []SameSocket` |
| `BuildProofs!MediumIsAllThatChanges` | `Spec => []MediumOnlyAdds` |
| `BuildProofs!AllIsWired` | `Spec => []Wired` |

**The disk.** `ReadyHasDisk` is not inductive: nothing in it says what a create between two of
its steps has done. `DiskInv` adds that creates of different clients work on different VMs
(`Alone`), that each stage of a create finds the disk the stage before left (`Stage`), and that
a configuration file, also an empty one, is only there beside a finished disk (`DiskFirst`).
`Alone` is where `~Overlapping` is used; without it the theorems are false (section 5).
For the disk of a guest, `Housed` adds that images only exist in directories.

**Promises.** `Promise` says that what was promised of a VM is in a directory, was valid and is
in the file as create wrote it, and that the VM a create is at work on is promised to nobody,
because its directory was not there when the create checked. `RoundTrip` (what is written is
read back the same) turns the file into the configuration. `Owed` then follows a list: what it
still owes is promised, so it loads, so the list does not drop it.

**Half-created VMs.** With overlap, the create that gives up because it finds an image must
not be the last one at work. `HalfInv` therefore has two ownership parts: a directory is
ready, faulted, or has a create past its mkdir (`DirOwned`), and an image belongs to a ready
or faulted VM or to a create past its `qemu-img` (`DiskOwned`). `RoundTrip` gives that a save
ends in a VM that loads. The condition `Savable`, that whatever validates can be saved, is false
of the code: see section 5.

**The registry.** `RegInv` adds to the disk's invariant what a file can be: it lies in a
directory (`FilesHoused`); it is whole and was asked for under that name, or is missing or empty,
as a create that was cut off leaves it (`Whole`); and while a create is at work on a VM there is
no whole file of it yet (`AtWork`). Then the step past the checks is a begin, the one that makes
the directory a claim, the write of the file a publication, each failure and crash of a create
one that is given up, the removal a removal, and every other step leaves the registry alone.

**The verdict.** `WhatBlocks` shows that on Linux only the two binaries and the firmware can be
missing. That a whole pair among the files is a row somebody installed needs the table: no two
rows have the same code image (`CodeOfOneRow`), although two share a variable template, so
files of different packages never add up to a pair (`InstalledRows`).
`PackageServedBest` needs no step of the host: `Best` is the first installed row
(`FirstInstalled`), and the rows of a package are in the right order (`SecureBootListedFirst`).

**Launch.** `LaunchInv` says that past the checks the report is one that can launch, and that a
live swtpm belongs to a run before its spawn of QEMU, to a `Running` that has adopted it, or to
a run that failed in between. `VarsInv` adds, for `~Overlapping`, that the run that found no
store is alone with its VM, no QEMU included, until it has copied one. `Cut` says who answers
for a store that is cut short, a run that is still copying or one whose copy failed, and
`Unstarted` that no run has a QEMU before its spawn, so that the run copying is not the run
booting. For `OwnTpm` the invariant is in parts: one run at a time (`Alone`), a run has
none of its processes before their turn (`Early`), a socket file was bound by the run it names
(`Bound`), a run that found nothing left from before has only its own
file to meet (`Fresh`), and past the wait its swtpm has listened (`Waited`); `StrayInv` says of
which other runs an emulator may be met.

**The contract.** The simulation of `GuestSession` is by cases on `Next`: each action of
`Launch` either begins, refuses, starts, ends, leaves or loses exactly one session, or changes
nothing the contract sees. The invariant it needs, `SessionInv`, ties the processes to `pc`
(`Turns`): no QEMU before its spawn, no swtpm before its own, and a session ended as over only
once QEMU has exited.
`OverIsOver` then says on the abstract level what the contract is for.

**Lifecycle.** A step of `LifeSpec` is a step of `Launch`, or a removal that takes files away, or
a copy into an unlinked file; the lemmas about `Launch` are cited for the first and redone for
the other two. `NamesTakenForAReason` rests on `NamesInv`: a run whose VM has not been removed
since it loaded it finds the VM there, whole, so that its `start_tpm` makes no VM directory, and a
create is only at work where no VM is. `NoTpmOfAFinishedRun` rests on `StrayInv`, as
`GuestGetsOwnTpm` does: with runs of one VM one after another, an emulator that listens is the
present run's or a stray one's, since a run that ends as it should stops its own first.

**Induction.** The provers cannot instantiate the library's induction theorems, which take a
formula as a parameter. They can use a set instead: `NatHasLeast` says that a nonempty set of
numbers has a least element, and `UpTo` that a set with 0 and the successor of each of its
elements holds them all. `FoldExists` and `FlatExists` derive from these that the recursive
functions inside `FoldLeft` and `FlattenSeq` are there, and the lemmas after them what these do
step by step. No theorem about texts has a bound on the length of a text.

**Parsers.** For a file read line by line, an invariant in the number of lines read says what the
parser knows by then (`CpuFound`: one of the extensions listed so far, if there are any, and how
many processor lines there were; as it stays, the first block's is the answer). Where the first
fitting line decides, the same line is the first in every longer file, which is all
`AnswersStick` asks. `VersionReadBack` follows a printed version through `SplitAt` (`Cuts`
relates the state before a text to the state after it, and composes) and through its digits.
`OsReadBack` is not inductive as it stands: `Meant` adds that every line is one a distribution
writes, and `JoinedReadBack` is what one more of them needs: joining names by blanks and
splitting at blanks gives the names.

**Option lists and paths.** Reading a list is a machine that takes one piece at a time. `Reads`
relates its state before a text to its state after, and composes: a text without a comma goes to
the option being read, a comma and what follows begin a new one, a doubled path arrives as it
was. `EscapedReadsBack` is the sum. For paths, a file name put below a path can be read off its
end, so files with different last names are different, and files with the same one lie in
directories that differ by the VM's name; a walk along a path that ends in a valid name goes
through the path and then down by one.

**Command lines.** `BuildProofs` takes the command line apart into the parts `build` pushes and
shows for each what it gives to the flags that a property reads, so that the whole is the union
of the parts. `PathsReadBack`, `NoSharedWrites` and `SecureBootAgrees` then go by the list of
drives, `MediumOnlyAdds` by what is left of each part without the medium, `Wired` by a table of
what each device refers to, what each backend is called and which port each part uses.

**Model-checked only.** Liveness: `CallsReturn`, `LaunchDecides`, `EmulatorFollowsGuest`, and the
fairness of `GuestSession` in `ImplementsSession`. It is out of the prover's reach, as is
`ENABLED`. Every invariant, every safety property of steps and the steps of the two
refinements that the runs check on small instances are theorems.

## 5. Where code and documentation disagree

Four disagreements are runs that TLC ends with a counterexample; `PROJECT.json` quotes the
lines.

- `store_unsavable`: `validate` has no upper limit on memory and no opinion on the ISO path;
  `to_toml` has both, and is called last. A create refused there leaves a directory behind.
- `launch_stray`: a launch that fails after starting swtpm leaves it running. The comment on
  `Drop` claims this path, but no `Running` exists on it yet.
- `launch_stale_socket`: the file that a killed swtpm left ends the wait at once.
- `firmware_order`: the comment on the table says Secure Boot pairs come before plain ones; the
  table goes by distribution, so that with two distributions' packages a plain pair can win.

Others were met on the way and are not runs of their own:

- Two creates of one VM that overlap: the later `qemu-img` truncates the earlier one's disk
  (`README.md` 271, "never an overwrite"). `DiskNeverOverwritten` fails when `store_serial`
  is given `Overlapping = TRUE`.
- Two first runs of one VM that overlap: the later copies the template over the earlier one's
  store (`vm.rs` 195, "made once"). `VarsMadeOnce` fails when `launch_serial` is given
  `Overlapping = TRUE`.
- `fs::copy` writes the variable store in place (`vm.rs` 211), and a store that exists is taken
  as it is (203): a copy that is cut short is what every later boot gets. `CutOnlyIfFailed`
  says that this is the only way.
- When the host's firmware changes, a VM gets the new code image beside its old store
  (`vm.rs` 203); neither the sizes nor the Secure Boot keys of the two need match.
- CPU extensions: the table of checks calls them blocking (`README.md` 181), the code warns
  (`core/preflight/cpu.rs` 53), as QEMU falls back to TCG. `VerdictFitsUse` leaves it open.
- swtpm does not block (`README.md` 186) and a VM has a TPM by default (`core/config.rs` 140),
  so that a host that is called ready refuses to launch a VM made with the defaults (`vm.rs`
  160). `VerdictFitsUse` only speaks of what a VM without a TPM takes.
- The comment at `core/preflight/cpu.rs` 65 says only the first processor block is used for the
  model and the flags; the code goes on to later blocks until it has found both. `CpuFound` is
  silent on a file where that matters.
- A comma in the data directory: `qemu/args.rs` doubles it for QEMU, `tpm.rs` 37 passes it to
  swtpm as it is, which splits its options there. `SameSocket` excludes such directories.
- An empty `HOME` or a relative `XDG_DATA_HOME` counts as set, and makes the store relative to
  the directory the program is started in. The XDG specification has relative paths ignored.
- A run that outlives the removal of its VM makes the directory again (`vm.rs` 181), after which
  `create` refuses the name. `TakenNamesExplained` says that nothing else leaves
  such a directory, but for a create that failed or was killed in it (`store_unsavable` shows one
  that failed on nothing but its configuration).
- A copied VM directory keeps the name inside `config.toml` (`README.md` 515, "always have the
  same name"). `NoSharedWrites` says that it does no harm: files go by the directory.
- `docs/architecture.md` 138-141 says names are sanitised and that only QEMU's two programs are
  run; names are validated (as `README.md` 600 says), and swtpm is run too. `README.md` 176
  counts six checks above a table of seven.

## 6. The plan

Done, in this order: `VmConfig`, `VmStore`, `VmRegistry` with the refinement; `Preflight`,
`HostSetup`; `Launch`; `GuestSession` and `LaunchSession`; `Layout`, `Args`, `Parsers` and
`Texts`; `Lifecycle`; the proofs about the store, launch, the contract, the life of a VM and the
verdict; those of the registry and the firmware table; those about the texts, from the parsers
to the command lines. To come:

1. What survives of `PathsArrive` and `NothingShared` without `MediaApart`.
2. What the store promises when its files are edited: a registry in which a VM's configuration
   may be replaced, so that `LeftAlone` becomes `~Overlapping`.
3. Sharing between the three proofs about texts: their lemmas about sequences could be fewer.

## 7. What is not modelled

- The wording of errors, remedies and the report; rendering (`cli/render.rs`); the package names
  and sentences of `install_hint` (`distro.rs`), of which only the choice of the package manager
  is modelled; `format_kib`, which words a size. They keep no state and decide nothing.
- `sysroot.rs`, a path prefix for tests, but for its rule that a file that cannot be read counts
  as empty.
- The TOML syntax itself, which is the `toml` crate's; how `clap` reads the command line.
- What swtpm, QEMU and the guest do beyond what the program can see of them. Their actions in
  the models are taken from how the code uses them, and marked external.
- Errors of `wait` and `kill` themselves (`runtime.rs` 75, 90), which the operating system gives
  only for a child that is no longer there.
