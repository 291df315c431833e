---------------------------- MODULE MessageQueue -----------------------------
(***************************************************************************)
(* The message queue of every zone (MessageQueue.cpp) and the tick         *)
(* thread's use of it: ZoneManager::TickUpdate visits the zones in order,  *)
(* and Zone::Update empties the zone's queue into a local vector and runs  *)
(* the closures of that vector one by one.  Worker threads push meanwhile. *)
(***************************************************************************)
EXTENDS Integers, Sequences

CONSTANT NumZones           \* ZoneIDEnum::CNT

Zones == 0 .. NumZones - 1

ASSUME NumZonesAssumption == NumZones \in Nat \ {0}

VARIABLES
    messageQueue,           \* per zone, the closures pushed and not yet flushed
    messageVector,          \* the local vector of the Zone::Update under way
    tickZone                \* the zone whose Update is under way

queueVars == <<messageQueue, messageVector, tickZone>>

QueueInit ==
    /\ messageQueue = [z \in Zones |-> <<>>]
    /\ messageVector = <<>>
    /\ tickZone = NumZones - 1

Push(z, m) ==
    /\ messageQueue' = [messageQueue EXCEPT ![z] = Append(@, m)]
    /\ UNCHANGED <<messageVector, tickZone>>

(* Faults: FlushAll copies the queue without popping; only the first zone  *)
(* is ever updated.                                                        *)
FlushNextKeepsQueue ==
    LET next == (tickZone + 1) % NumZones
    IN  /\ messageVector = <<>>
        /\ tickZone' = next
        /\ messageVector' = messageQueue[next]
        /\ UNCHANGED messageQueue

FlushFirstOnly ==
    /\ messageVector = <<>>
    /\ tickZone' = 0
    /\ messageVector' = messageQueue[0]
    /\ messageQueue' = [messageQueue EXCEPT ![0] = <<>>]

(* Zone::Update of the next zone begins: FlushAll into an empty vector.    *)
FlushNext ==
    LET next == (tickZone + 1) % NumZones
    IN  /\ messageVector = <<>>
        /\ tickZone' = next
        /\ messageVector' = messageQueue[next]
        /\ messageQueue' = [messageQueue EXCEPT ![next] = <<>>]

(* The loop of Zone::Update calls its next closure, m. *)
Call(m) ==
    /\ messageVector # <<>>
    /\ m = Head(messageVector)
    /\ messageVector' = Tail(messageVector)
    /\ UNCHANGED <<messageQueue, tickZone>>

(* What has been pushed to each zone and not yet called, oldest first. *)
Mail ==
    [z \in Zones |-> IF z = tickZone THEN messageVector \o messageQueue[z]
                                     ELSE messageQueue[z]]
=============================================================================
