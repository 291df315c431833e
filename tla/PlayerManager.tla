---------------------------- MODULE PlayerManager ----------------------------
(***************************************************************************)
(* PlayerManager: the pool of Player objects that logins draw from and     *)
(* departures return to (PlayerManager.cpp).  Every operation runs under   *)
(* playerLock, so each is one step.                                        *)
(*                                                                         *)
(* A Player object is named by the playerId that Initialize gives it; its  *)
(* identity as an object and that number never part, so one name serves    *)
(* for both.  AllPlayerInfo, the roster, is the set of its <<key, player>> *)
(* entries.                                                                *)
(***************************************************************************)
EXTENDS Integers, Sequences

CONSTANTS
    MaxPlayers,     \* MAX_PLAYER: how many Player objects Initialize makes
    NoPlayer        \* the null PlayerPtr

Players == 0 .. MaxPlayers - 1

ASSUME MaxPlayersAssumption == MaxPlayers \in Nat \ {0}
ASSUME NoPlayerAssumption == NoPlayer \notin Players

VARIABLES
    playerPool,     \* std::queue<PlayerPtr>
    AllPlayerInfo,  \* the roster, filed under playerIdx
    playerIdx,      \* how many players NewPlayer has handed out
    numOfPlayers    \* a uint64 in the code: a negative value is a wrapped one

managerVars == <<playerPool, AllPlayerInfo, playerIdx, numOfPlayers>>

ManagerTypeOK ==
    /\ playerPool \in Seq(Players)
    /\ AllPlayerInfo \subseteq Nat \X Players
    /\ playerIdx \in Nat
    /\ numOfPlayers \in Int

(* Fault: the ids count from one. *)
ManagerInitFromOne ==
    /\ playerPool = [i \in 1 .. MaxPlayers |-> i]
    /\ AllPlayerInfo = {}
    /\ playerIdx = 0
    /\ numOfPlayers = 0

ManagerInit ==
    /\ playerPool = [i \in 1 .. MaxPlayers |-> i - 1]
    /\ AllPlayerInfo = {}
    /\ playerIdx = 0
    /\ numOfPlayers = 0

Pooled == {playerPool[i] : i \in DOMAIN playerPool}

(* Fault: IncreasePlayerIdx comes before AddPlayer. *)
AddPlayerAfterIncrease(p) ==
    /\ AllPlayerInfo' = AllPlayerInfo \cup {<<playerIdx + 1, p>>}
    /\ numOfPlayers' = numOfPlayers + 1

(* unordered_map::insert keeps an entry that is already there. *)
AddPlayer(p) ==
    /\ AllPlayerInfo' = IF \E q \in Players : <<playerIdx, q>> \in AllPlayerInfo
                        THEN AllPlayerInfo
                        ELSE AllPlayerInfo \cup {<<playerIdx, p>>}
    /\ numOfPlayers' = numOfPlayers + 1

(* Fault: front() without pop(). *)
NewPlayerNotPopped(p) ==
    /\ playerPool # <<>>
    /\ p = Head(playerPool)
    /\ AddPlayer(p)
    /\ playerIdx' = playerIdx + 1
    /\ UNCHANGED playerPool

(* p is the player handed out.  The code does not test for an empty pool;  *)
(* what front() then does is the caller's concern (GameWorld!LoginSuccess).*)
NewPlayer(p) ==
    /\ playerPool # <<>>
    /\ p = Head(playerPool)
    /\ playerPool' = Tail(playerPool)
    /\ AddPlayer(p)
    /\ playerIdx' = playerIdx + 1

(* The entry erased is the one filed under the player's id, which is the   *)
(* key it was filed under only as long as the two agree.                   *)
DeletePlayer(p) ==
    /\ AllPlayerInfo' = {e \in AllPlayerInfo : e[1] # p}
    /\ playerPool' = Append(playerPool, p)
    /\ numOfPlayers' = numOfPlayers - 1
    /\ UNCHANGED playerIdx
=============================================================================
