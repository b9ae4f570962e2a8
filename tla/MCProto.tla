------------------------------- MODULE MCProto -------------------------------
(* Values for model checking ProtoSystem.                                  *)
EXTENDS ProtoSystem

CONSTANTS r1, r2

OneRequest == {r1}
TwoRequests == {r1, r2}

\* Which events happen in one behaviour, and how often at most: those named,
\* and no others.
Budget(limits) == [e \in Events |-> IF e \in DOMAIN limits THEN limits[e] ELSE 0]

\* the calls of the user, together
LifecycleBudgets == {Budget([pause |-> 1, cancel |-> 1])}

\* one kind of trouble at a time
PacketBudgets == {Budget([close |-> 1]), Budget([packet |-> 1]), Budget([violation |-> 1])}

\* Connections that close, alone twice, or once beside salts that lapse; these or
\* a packet nobody asked for with clocks that go back and locks that expire.
FaultBudgets ==
    {Budget([close |-> 2]),
     Budget([close |-> 1, lapse |-> 1]),
     Budget([lapse |-> 1, violation |-> 1, expiry |-> 1]),
     Budget([packet |-> 1, violation |-> 1, expiry |-> 1])}

\* a connection that closes and salts that lapse
LostPingBudgets == {Budget([close |-> 1, lapse |-> 1])}
=============================================================================
