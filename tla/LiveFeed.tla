------------------------------ MODULE LiveFeed ------------------------------
(***************************************************************************)
(* What a live-update transport promises to its owner, PushManager: the    *)
(* contract behind the protocol class PushTransport of push_manager.py.    *)
(* The owner starts the feed once and stops it once (again, if the stop    *)
(* raised).  In between the link goes down and up again by itself; payloads *)
(* are handed over one at a time, only over a link that is up, and never   *)
(* once the stop has returned.                                             *)
(***************************************************************************)
VARIABLES
    phase,  \* of the owner's calls
    link    \* "down", "up", or "busy" while the callback holds a payload

vars == <<phase, link>>

TypeOK ==
    /\ phase \in {"off", "starting", "on", "failed", "stopping", "raised", "stopped"}
    /\ link \in {"down", "up", "busy"}

Init == phase = "off" /\ link = "down"

Start == phase = "off" /\ phase' = "starting" /\ UNCHANGED link

(* async_start returns, with or without a connection. *)
Started == phase = "starting" /\ phase' = "on" /\ link' \in {"down", "up"}

(* async_start raises. *)
Rejected == phase = "starting" /\ link = "down" /\ phase' = "failed" /\ UNCHANGED link

Up == phase = "on" /\ link = "down" /\ link' = "up" /\ UNCHANGED phase

Deliver   == link = "up" /\ link' = "busy" /\ UNCHANGED phase
Delivered == link = "busy" /\ link' = "up" /\ UNCHANGED phase

Down == link # "down" /\ link' = "down" /\ UNCHANGED phase

(* async_stop: the link may outlive the call's first steps. *)
Stop ==
    /\ phase \in {"on", "raised"}
    /\ \/ phase' = "stopping" /\ link' \in {link, "down"}
       \/ phase' = "stopped" /\ link' = "down"

Stopped ==
    /\ phase = "stopping"
    /\ phase' \in {"stopped", "raised"}
    /\ link' = "down"

Next == Start \/ Started \/ Rejected \/ Up \/ Deliver \/ Delivered \/ Down \/ Stop \/ Stopped

Spec == Init /\ [][Next]_vars

(* A feed that stays on gets its link back, and a stop ends. *)
FairSpec == Spec /\ WF_vars(Up) /\ WF_vars(Stopped)
=============================================================================
