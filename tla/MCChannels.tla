----------------------------- MODULE MCChannels -----------------------------
(* Two remote processes; a list of both and a list of one; three channels   *)
(* created in all, in two blocks, of two data types.                        *)
EXTENDS Channels, TLC
CONSTANTS r1, r2, d1, d2, both, one, a1, a2

MCRemote  == {r1, r2}
MCDtype   == {d1, d2}
MCPlist   == {both, one}
MCBlock   == {a1, a2}
MCMembers == [p \in MCPlist |-> IF p = both THEN MCRemote ELSE {r1}]
Symmetry  == Permutations(MCDtype) \cup Permutations(MCBlock)
=============================================================================
