------------------------------ MODULE MCMonster ------------------------------
(* Small instances of Monster and NpcServer, checked together: a monster    *)
(* and a player on every map, the game server being gone, and both servers  *)
(* on a map that is a corridor.                                             *)
EXTENDS NpcServer

CONSTANT Corridor

VARIABLE alone

MCCorridor == {<<0, 0>>, <<0, 1>>, <<0, 2>>}
MCSpawn == <<0, 0>>

InitHalf ==
    /\ alone \in BOOLEAN
    /\ IF alone
       THEN /\ Init
            /\ spawning = "alive" /\ whereabouts = "gone"
            /\ playerPos = Spawn /\ monsterPos = Spawn
            /\ ObjectBuf = [c \in Cells |-> "nobody"]
            /\ announced = <<>> /\ notices = <<>>
            /\ crashed = TRUE
       ELSE InitNpc /\ walls = Cells \ Corridor

Step ==
    /\ UNCHANGED alone
    /\ \/ alone /\ Next /\ UNCHANGED <<gameVars, linkVars>>
       \/ ~alone /\ NextNpc

MonsterSpec ==
    /\ InitHalf
    /\ [][Step]_<<alone, npcVars>>
    /\ \/ alone /\ WF_vars(Update)
       \/ ~alone /\ NpcFairness
=============================================================================
