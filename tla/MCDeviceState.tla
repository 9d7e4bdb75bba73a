---------------------------- MODULE MCDeviceState ----------------------------
(* DeviceState for TLC: keys, values, commands and polls are interchangeable, *)
(* for the type names a value of none of the keys.  A command asks for one      *)
(* property; readings has commands that ask for several.                      *)
EXTENDS DeviceState, TLC

MCDefaults == [k \in Keys |-> None]

OneProperty ==
    \A c \in Cmds : \A j, k \in Keys : params'[c][j] # None /\ params'[c][k] # None => j = k

MCSpec == Init /\ [][Next /\ OneProperty]_vars

MCSymmetry ==
    Permutations(Keys) \cup Permutations(Values) \cup Permutations(Cmds) \cup Permutations(Polls)
=============================================================================
