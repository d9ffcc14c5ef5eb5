-------------------------------- MODULE Args --------------------------------
(***************************************************************************)
(* The command lines handed to the three programs DA-HOLY-VM runs:         *)
(* qemu/args.rs, socket_args of tpm.rs and create_args of disk.rs, and     *)
(* what QEMU and swtpm make of them.  Pure: no variables.                  *)
(*                                                                         *)
(* A flag's value is a sequence of pieces, as a path is in Layout; of an   *)
(* option the key with its `=` is one piece.  Options nobody refers to and *)
(* no property tells apart are one piece with their value.                 *)
(***************************************************************************)
EXTENDS Preflight, Layout

(* Vm::load: the files are found by the name the VM was asked for under,   *)
(* whatever name its config.toml carries.                                  *)
LoadedPathsByConfig(env, directory, config) ==   \* mutant: by the configured name
  VmPaths(env, config.name)

LoadedPaths(env, directory, config) == VmPaths(env, directory)

-----------------------------------------------------------------------------
(* An option is a sequence of pieces; a list of them is joined by commas.  *)
Listed(options) == Tail(FlattenSeq([i \in DOMAIN options |-> <<",">> \o options[i]]))

(* `escaped`: an option list ending in a path, whose commas are doubled.   *)
EscapedNot(options, path) == Listed(options) \o path   \* mutant: pushed as it is

Doubled(path) ==
  FlattenSeq([i \in DOMAIN path |-> IF path[i] = "," THEN <<",", ",">> ELSE <<path[i]>>])

Escaped(options, path) == Listed(options) \o Doubled(path)

Flag(name, value) == <<[flag |-> name, value |-> value]>>

-----------------------------------------------------------------------------
(* build, in the order its parts are pushed; pair is Firmware::best.       *)
Machine(pair) ==
  Flag("-machine", Listed(<< <<"q35">>, <<"smm=", IF pair.secure_boot THEN "on" ELSE "off">> >>))
  \o Flag("-global", <<"ICH9-LPC.disable_s3=1">>)
  \o Flag("-rtc", <<"base=localtime">>)

Processor(config, host) ==
  (IF host.kvm = "ready" THEN Flag("-accel", <<"kvm">>) \o Flag("-cpu", <<"host">>)
   ELSE Flag("-accel", <<"tcg">>) \o Flag("-cpu", <<"qemu64">>))
  \o Flag("-smp", <<config.cpus>>)

Pflash(unit) == << <<"if=", "pflash">>, <<"format=", "raw">>, <<"unit=", unit>> >>
ReadOnly == << <<"readonly=", "on">> >>
File == << <<"file=">> >>

FirmwareFlashOpen(pair, paths) ==   \* mutant: the store is never protected
  Flag("-drive", Escaped(Pflash("0") \o ReadOnly \o File, <<pair.code>>))
  \o Flag("-drive", Escaped(Pflash("1") \o File, paths.vars))

FirmwareFlash(pair, paths) ==
  (IF pair.secure_boot
   THEN Flag("-global", <<"driver=cfi.pflash01,property=secure,value=on">>) ELSE <<>>)
  \o Flag("-drive", Escaped(Pflash("0") \o ReadOnly \o File, <<pair.code>>))
  \o Flag("-drive", Escaped(Pflash("1") \o File, paths.vars))

Backend(id, format) == << <<"id=", id>>, <<"if=", "none">>, <<"format=", format>> >>

HardDisk(paths, port) ==
  Flag("-drive", Escaped(Backend("hd", "qcow2") \o File, paths.disk))
  \o Flag("-device", Listed(<< <<"ide-hd">>, <<"drive=", "hd">>, <<"bus=", "sata", port>> >>))

Cdrom(iso) ==
  Flag("-drive", Escaped(Backend("cd", "raw") \o << <<"media=", "cdrom">> >> \o ReadOnly \o File,
                         iso))
  \o Flag("-device", Listed(<< <<"ide-cd">>, <<"drive=", "cd">>, <<"bus=", "sata", ".1">> >>))
  \o Flag("-boot", <<"order=", "dc">>)

NoIso == <<"none">>

Ahci == Flag("-device", Listed(<< <<"ich9-ahci">>, <<"id=", "sata">> >>))

StorageMoved(config, paths) ==   \* mutant: the medium displaces the disk
  Ahci \o (IF config.iso = NoIso
           THEN HardDisk(paths, ".0") \o Flag("-boot", <<"order=", "c">>)
           ELSE HardDisk(paths, ".2") \o Cdrom(config.iso))

StorageSamePort(config, paths) ==   \* mutant: both on one port
  Ahci \o HardDisk(paths, ".1")
       \o (IF config.iso = NoIso THEN Flag("-boot", <<"order=", "c">>) ELSE Cdrom(config.iso))

Storage(config, paths) ==
  Ahci \o HardDisk(paths, ".0")
       \o (IF config.iso = NoIso THEN Flag("-boot", <<"order=", "c">>) ELSE Cdrom(config.iso))

Tpm(paths) ==
  Flag("-chardev", Escaped(<< <<"socket">>, <<"id=", "chrtpm">>, <<"path=">> >>, paths.tpm_socket))
  \o Flag("-tpmdev", Listed(<< <<"emulator">>, <<"id=", "tpm0">>, <<"chardev=", "chrtpm">> >>))
  \o Flag("-device", Listed(<< <<"tpm-tis">>, <<"tpmdev=", "tpm0">> >>))

Peripherals ==
  Flag("-netdev", Listed(<< <<"user">>, <<"id=", "net0">> >>))
  \o Flag("-device", Listed(<< <<"e1000e">>, <<"netdev=", "net0">> >>))
  \o Flag("-device", Listed(<< <<"qemu-xhci">>, <<"id=", "usb">> >>))
  \o Flag("-device", Listed(<< <<"usb-tablet">>, <<"bus=", "usb", ".0">> >>))
  \o Flag("-vga", <<"std">>)

(* Defined when there is firmware; HostNotReady otherwise.                 *)
Build(config, host, paths) ==
  Flag("-name", config.name)
  \o Machine(Best(host.files))
  \o Processor(config, host)
  \o Flag("-m", <<config.memory_mib>>)
  \o FirmwareFlash(Best(host.files), paths)
  \o Storage(config, paths)
  \o (IF config.tpm THEN Tpm(paths) ELSE <<>>)
  \o Peripherals

-----------------------------------------------------------------------------
(* tpm::socket_args and disk::create_args.                                 *)
SocketArgsSwapped(state_dir, socket) ==   \* mutant: the two paths change places
  Flag("--tpmstate", <<"dir=">> \o socket)
  \o Flag("--ctrl", Listed(<< <<"type=unixio">>, <<"path=">> >>) \o state_dir)

SocketArgs(state_dir, socket) ==
  Flag("--tpmstate", <<"dir=">> \o state_dir)
  \o Flag("--ctrl", Listed(<< <<"type=unixio">>, <<"path=">> >>) \o socket)

CreateArgs(image) == Flag("-f", <<"qcow2">>) \o Flag("image", image)

-----------------------------------------------------------------------------
(* Reading a value back.  QEMU splits it at every single comma and takes   *)
(* two together for one that belongs to the value; swtpm splits at each.   *)
Take(acc, piece, doubled) ==
  IF acc.comma
  THEN IF piece = ","
       THEN [acc EXCEPT !.option = Append(@, ","), !.comma = FALSE]
       ELSE [done |-> Append(acc.done, acc.option), option |-> <<piece>>, comma |-> FALSE]
  ELSE IF piece = "," /\ doubled THEN [acc EXCEPT !.comma = TRUE]
  ELSE IF piece = ","
  THEN [acc EXCEPT !.done = Append(@, acc.option), !.option = <<>>]
  ELSE [acc EXCEPT !.option = Append(@, piece)]

Split(text, doubled) ==
  LET end == FoldLeft(LAMBDA acc, piece : Take(acc, piece, doubled),
                      [done |-> <<>>, option |-> <<>>, comma |-> FALSE], text)
  IN ToSet(Append(end.done, end.option))

QemuReads(value)  == Split(value, TRUE)
SwtpmReads(value) == Split(value, FALSE)

(* The values of a flag, and what is given for a key, in one set each.     *)
Values(argv, flag) == {argv[i].value : i \in {j \in DOMAIN argv : argv[j].flag = flag}}
Valued(options, key) == {Tail(o) : o \in {p \in options : p # <<>> /\ p[1] = key}}
=============================================================================
