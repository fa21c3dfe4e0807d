---------------------------- MODULE QoS1Delivery ----------------------------
(***************************************************************************)
(* What the QoS 1 publishing path promises, without threads, packet        *)
(* identifiers or connections.  A message is accepted once, reaches the    *)
(* broker any number of times, and is given up only after it has arrived.  *)
(***************************************************************************)
CONSTANT Messages

VARIABLES
  accepted,   \* messages the client has taken responsibility for
  pending,    \* those it still keeps for resending
  delivered   \* messages the broker has received

Init == accepted = {} /\ pending = {} /\ delivered = {}

Accept(m) ==
  /\ m \notin accepted
  /\ accepted' = accepted \cup {m}
  /\ pending' = pending \cup {m}
  /\ UNCHANGED delivered

Deliver(m) ==
  /\ m \in accepted
  /\ delivered' = delivered \cup {m}
  /\ UNCHANGED <<accepted, pending>>

Complete(m) ==
  /\ m \in pending \cap delivered
  /\ pending' = pending \ {m}
  /\ UNCHANGED <<accepted, delivered>>

Next == \E m \in Messages : Accept(m) \/ Deliver(m) \/ Complete(m)

Spec == Init /\ [][Next]_<<accepted, pending, delivered>>
=============================================================================
