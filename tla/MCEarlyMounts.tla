--------------------------- MODULE MCEarlyMounts ----------------------------
(* EarlyMounts for TLC: the machines that are checked. *)
EXTENDS EarlyMounts, TLC

MCFstabRoot == {NoEntry, <<"defaults">>, <<"noatime", "noexec", "ro", "rw", "exec">>, <<"rw", "nosuid", "ro", "errors">>}
MCRootOpts == {<<"ro", "rshared">>, <<"rw", "nodev", "lazytime">>, <<"rw", "shared">>}
MCRootFlags == {{"ro", "relatime"}, {"nosuid", "noatime"}}
MCInitramfs == {<<>>, "/proc" :> {"nosuid", "relatime"},
                [t \in {"/sys", "/dev", "/dev/pts", "/run"} |-> {"relatime"}]}
=============================================================================
