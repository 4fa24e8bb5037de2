----------------------------- MODULE MCOneshots -----------------------------
(* Small sets for checking Oneshots with TLC. *)
EXTENDS Oneshots

\* Two files, the second named like the global one
MCNames == <<"10-a.conf", "sysctl.conf">>

\* net/eth.1 and net/lo; both names can be written with either separator first
MCSysctls == {<<"net", "/", "eth", ".", "1">>, <<"net", "/", "lo">>}
MCWritten == {<<"net", ".", "eth", "/", "1">>, <<"net", "/", "eth", ".", "1">>,
              <<"net", ".", "*">>, <<"net", "/", "lo">>, <<"no">>, <<>>, <<".", "x">>}

\* An alias of two modules, the name of one, and a name for which there is none
MCLookup == [alias |-> {"m1", "m2"}, m1 |-> {"m1"}, nothing |-> {}]
MCTokens == {[key |-> "modules_load", list |-> <<"alias", "m1">>],
             [key |-> "module_blacklist", list |-> <<"m1">>],
             [key |-> "quiet", list |-> <<>>]}

=============================================================================
