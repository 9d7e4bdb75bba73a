---------------------------- MODULE EventRouting ----------------------------
(***************************************************************************)
(* Events of push frames on their way to Home Assistant's bus                *)
(* (async_handle_push_payload, core/coordinator_runtime.py): the node is     *)
(* resolved against the loaded topology, repeats are filtered out            *)
(* (RuntimeEventDeduper, core/runtime_bridge.py), the rest is fired.  The    *)
(* cloud delivers a message again after a reconnect.  A step handles one     *)
(* event; nothing else runs until the frame is through.                      *)
(***************************************************************************)
EXTENDS Integers, Sequences, SequencesExt, FiniteSets

CONSTANTS
    Messages,      \* events with a message id
    Aliased,       \* those that name their node by several ids
    Invalid,       \* those whose event type cannot be normalized
    MaxKeys,       \* MAX_RUNTIME_EVENT_DEDUPE_KEYS, 256
    MaxFrame       \* bounds the events of a frame

ASSUME KeysBoundAssumption == MaxKeys \in Nat \ {0}

VARIABLES
    loadedTopology,  \* the coordinator holds the node that an alias stands for
    arrived,         \* events of the frame that filter_new_payloads has yet to see
    fresh,           \* those it has let through, not yet fired
    seenKeys,        \* _seen, the oldest key first
    fired,           \* keys of events fired on the bus
    swept,           \* history: keys not fired since an event of the frame raised
    deliveries       \* history: all keys by their last delivery

eventVars == <<loadedTopology, arrived, fresh, seenKeys, fired, swept, deliveries>>

RouteKeys == Messages \X BOOLEAN
Frames    == UNION {[1 .. n -> Messages] : n \in 1 .. MaxFrame}

RouteTypeOK ==
    /\ loadedTopology \in BOOLEAN
    /\ arrived \in Seq(Messages) /\ fresh \in Seq(Messages)
    /\ seenKeys \in Seq(RouteKeys) /\ Len(seenKeys) <= MaxKeys
    /\ deliveries \in Seq(RouteKeys) /\ IsInjective(deliveries)
    /\ fired \subseteq RouteKeys /\ swept \subseteq RouteKeys

InitRoute ==
    /\ loadedTopology = FALSE
    /\ arrived = <<>> /\ fresh = <<>>
    /\ seenKeys = <<>> /\ deliveries = <<>>
    /\ fired = {} /\ swept = {}

-----------------------------------------------------------------------------
(* runtime_event_dedupe_key of the resolved payload: it holds the node the event   *)
(* is resolved to, which for an alias depends on what is loaded.             *)
DedupeKey(m) == <<m, m \in Aliased /\ loadedTopology>>

MoveToEnd(seq, k) == Append(RemoveFirst(seq, k), k)
Newest(seq, n)    == SubSeq(seq, IF Len(seq) > n THEN Len(seq) - n + 1 ELSE 1, Len(seq))

(* Mutant: a repeat does not renew its key. *)
MutSeenAfter(seq, k) ==
    IF k \in Range(seq) THEN seq ELSE Newest(Append(seq, k), MaxKeys)

(* is_duplicate: what it remembers after the key. *)
SeenAfter(seq, k) ==
    IF k \in Range(seq) THEN MoveToEnd(seq, k) ELSE Newest(Append(seq, k), MaxKeys)

FrameArrives(frame) ==
    /\ arrived = <<>> /\ fresh = <<>>
    /\ arrived' = frame
    /\ UNCHANGED <<loadedTopology, fresh, seenKeys, fired, swept, deliveries>>

(* filter_new_payloads goes through the whole frame before anything is fired. *)
Filter ==
    /\ arrived # <<>>
    /\ LET m == Head(arrived)
           k == DedupeKey(m) IN
       /\ seenKeys' = SeenAfter(seenKeys, k)
       /\ fresh' = IF k \in Range(seenKeys) THEN fresh ELSE Append(fresh, m)
       /\ deliveries' = MoveToEnd(deliveries, k)
    /\ arrived' = Tail(arrived)
    /\ UNCHANGED <<loadedTopology, fired, swept>>

(* dispatch_event_payloads raises at the first event it cannot normalize: the rest  *)
(* of the frame is not fired.                                                *)
Fire ==
    /\ arrived = <<>> /\ fresh # <<>>
    /\ IF Head(fresh) \in Invalid
       THEN /\ swept' = (swept \cup {DedupeKey(fresh[i]) : i \in DOMAIN fresh}) \ fired
            /\ fresh' = <<>> /\ fired' = fired
       ELSE /\ fired' = fired \cup {DedupeKey(Head(fresh))}
            /\ swept' = swept \ fired' /\ fresh' = Tail(fresh)
    /\ UNCHANGED <<loadedTopology, arrived, seenKeys, deliveries>>

(* A poll, or a report of the gateway's topology. *)
TopologyChanges ==
    /\ arrived = <<>> /\ fresh = <<>>
    /\ loadedTopology' = ~loadedTopology
    /\ UNCHANGED <<arrived, fresh, seenKeys, fired, swept, deliveries>>

NextRoute ==
    \/ \E frame \in Frames : FrameArrives(frame)
    \/ Filter \/ Fire \/ TopologyChanges

SpecRoute == InitRoute /\ [][NextRoute]_eventVars

-----------------------------------------------------------------------------
(* What is remembered are the MaxKeys keys delivered last, repeats included: an     *)
(* event that keeps coming again is fired once, however many others come between *)
(* its first delivery and the next.                                          *)
RemembersRecent == seenKeys = Newest(deliveries, MaxKeys)

(* What is suppressed as a repeat has been fired, except after an event of its     *)
(* frame raised: then the rest of the frame is remembered, and never fired.  *)
NoEventLost ==
    Range(seenKeys) \subseteq
        fired \cup swept \cup {DedupeKey(fresh[i]) : i \in DOMAIN fresh}

(* Each event is fired once, whatever is delivered again, and in what order.        *)
EventsSound == RemembersRecent /\ NoEventLost
=============================================================================
