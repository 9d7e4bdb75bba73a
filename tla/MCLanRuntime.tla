---------------------------- MODULE MCLanRuntime ----------------------------
(***************************************************************************)
(* LanRuntime for TLC, over the behaviours in which connections may be reset  *)
(* and those in which they only end: the latter, of which more is asked, with *)
(* two commands at a time instead of one.                                    *)
(***************************************************************************)
EXTENDS LanRuntime, TLC

First == CHOOSE m \in Cmds : TRUE

NextRuntime ==
    /\ Next
    /\ resets => \A m \in Cmds \ {First} : cmd'[m] = "idle"
    /\ UNCHANGED resets

SpecRuntime ==
    Init /\ [][NextRuntime]_<<vars, resets>> /\ TaskFairness /\ NetworkFairness

MCSymmetry ==
    Permutations(Socks) \cup Permutations(Loops) \cup Permutations(Recs) \cup Permutations(Cmds)

(* Resets may always happen, and there is no fairness: for the run that shows    *)
(* what a reset does.                                                        *)
SpecResets == Init /\ resets = TRUE /\ [][NextRuntime]_<<vars, resets>>
=============================================================================
