------------------------------ MODULE MCTexts ------------------------------
(***************************************************************************)
(* Small instances of Texts for TLC: every separator the code looks at,    *)
(* and letters in between.                                                 *)
(***************************************************************************)
EXTENDS Texts

Fixed == [daholyvm |-> 8, vms |-> 3, tpm |-> 3, share |-> 5, run |-> 3, user |-> 4]
           @@ (".local" :> 6) @@ ("swtpm.sock" :> 10) @@ ("-swtpm.sock" :> 11)
           @@ ("disk.qcow2" :> 10) @@ ("OVMF_VARS.fd" :> 12) @@ ("4294967295" :> 10)

\* a run of 62 letters; an e with an accent is two bytes
SomeByteLen == Fixed @@ ("a" :> 1) @@ ("b" :> 1) @@ ("a62" :> 62) @@ ("é" :> 2)
                 @@ ("-" :> 1) @@ ("." :> 1) @@ ("/" :> 1) @@ ("," :> 1)
SomeOrdinary == {"a", "b", "a62"}
SomePieces == {"a", "a62", "é", "-", ".", "/", ","}

SomeNames == {<<"a">>, <<"b">>, <<"a", "-", ".">>}

\* commas apart, together, and at the end
SomeIsos == {NoIso, <<"/", "a", ",", "b">>, <<"/", "a", ",", ",", "b", ",">>}
SomeKvms == {"ready", "device_missing"}

Files(rows) == UNION {{CANDIDATES[i].code, CANDIDATES[i].vars} : i \in rows}
SomeFirmware == {{}, Files({5}), Files({4}), Files({4, 5}), Files({1, 2})}

SomeDataHomes == {Unset, <<>>, <<"/", "a">>, <<"/", "a", ",", "b">>}
SomeHomes == {Unset, <<"/", "b">>}
SomeRuntimeDirs == {Unset, <<"/", "run", "/", "user", "/", "4294967295">>}

\* the hypothesis of two theorems about the command line holds of these
ASSUME SomeMediaApart == MediaApart

Line(key, words) == [key |-> key, words |-> words]
SomeCpuLines == {Line("processor", <<"0">>), Line("model name", <<"A">>), Line("model name", <<"B">>),
                 Line("flags", <<"fpu">>), Line("flags", <<"fpu", "vmx">>),
                 Line("Features", <<"svm">>), Noise}

\* name, password and gid; cut short, not a number, and out of range
SomeGroupLines == {<< <<"kvm">>, <<>>, <<"3", "6">> >>, << <<"other">>, <<>>, <<"3", "6">> >>,
                   << <<"disk">>, <<"x">>, <<"6">> >>, << <<"kvm">> >>,
                   << <<"kvm">>, <<>>, <<"k">> >>, << <<"big">>, <<>>, <<"1", "0", "0">> >>}

SomeMemLines == {Line("MemTotal", << <<"1", "6">>, <<"kB">> >>), Line("MemTotal", << <<"x">> >>),
                 Line("MemAvailable", << <<"8">> >>), Line("MemAvailable", <<>>), Noise}

Assignment(key, ids) == [key |-> key, ids |-> ids]
SomeAssignments == {Assignment("ID", << <<"arch">> >>), Assignment("ID", << <<"own">> >>),
                    Assignment("ID_LIKE", << <<"own">>, <<"fedora">> >>), Assignment("ID_LIKE", <<>>),
                    Assignment("NAME", << <<"debian">> >>)}

SomeVersions == {<<6, 0, 0>>, <<9, 1, 0>>, <<10, 0, 2>>, <<9, 10, 99>>}

\* none of these is a version: no dot, or no digit to start with
SomePlainWords == {<<"QEMU">>, <<"9">>, <<"(", "v", "2", ".", "1">>, <<".", "5">>, <<"qemu", "8", ".", "2">>}

Entry(dir, kind, executable) == [dir |-> dir, kind |-> kind, executable |-> executable]
SomeEntries == {Entry("", "file", TRUE), Entry("sbin", "none", FALSE), Entry("opt", "directory", TRUE),
                Entry("home", "file", FALSE), Entry("usr", "file", TRUE), Entry("local", "file", TRUE)}
=============================================================================
