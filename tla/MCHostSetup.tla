---------------------------- MODULE MCHostSetup ----------------------------
(***************************************************************************)
(* Small instances of HostSetup for TLC.                                   *)
(***************************************************************************)
EXTENDS HostSetup

\* below, at and above the minimum, one of them only by its minor number
SomeVersions == {<<5, 2, 0>>, <<6, 0, 0>>, <<9, 1, 0>>}

\* Arch's two rows share a VARS file; Debian's plain pair precedes Fedora's
\* Secure Boot one in the table
SomeRows == {1, 2, 4, 5}
=============================================================================
