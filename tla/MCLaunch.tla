------------------------------ MODULE MCLaunch ------------------------------
(***************************************************************************)
(* Small instances of Launch for TLC.                                      *)
(***************************************************************************)
EXTENDS LaunchSession, TLC

RowFiles(i) == {CANDIDATES[i].code, CANDIDATES[i].vars}

\* A host with everything, on the firmware of row i of the table
Whole(i) == [is_linux |-> TRUE, x86_64 |-> TRUE, virt |-> TRUE, kvm |-> "ready",
             system |-> Found(<<9, 1, 0>>), img |-> Found(<<9, 1, 0>>),
             files |-> RowFiles(i), swtpm |-> TRUE]

NoSwtpm    == [Whole(5) EXCEPT !.swtpm = FALSE]
NoSystem   == [Whole(5) EXCEPT !.system = NotFound]
NoFirmware == [Whole(5) EXCEPT !.files = {}]

OneHost == {Whole(5)}

\* a TPM and Fedora's firmware at one run, Debian's and no TPM at another
TwoHosts == {Whole(5), [Whole(4) EXCEPT !.swtpm = FALSE]}

\* Runs are interchangeable: no action or property tells one from another
Symmetry == Permutations(Runs)
=============================================================================
