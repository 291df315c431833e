------------------------------ MODULE SightProofs ------------------------------
(***************************************************************************)
(* OnlyMisledAddTwice, ShowsOnlyTheViewport and ShowsTheViewport, for any  *)
(* number of players, clients, monsters, zones and portals gone through,   *)
(* any map and any limit on the actors of an update; and OnlyGhostsMislead.*)
(*                                                                         *)
(* The first three need each other: a client that is told only its own is  *)
(* not told to add what it has, because what it shows is in its viewport;  *)
(* that is so because its viewport is made when it shows nothing yet but   *)
(* its own player, and because an id is new when a login gives it out.     *)
(***************************************************************************)
EXTENDS Sight, TLAPS

(* The viewport not asked for yet; the own player not shown yet.           *)
Unset == {"offered", "pushed", "raced"}
Unshown == {"offered", "pushed", "waiting", "asked", "leaving", "arriving"}

(* The actors that have an id. *)
Issued == {a \in Actors : Id(a) \in Clients \union Monsters}

PlaceTypes ==
    /\ stage \in [Clients -> Stages]
    /\ player \in [Clients -> Players \union {Nobody}]
    /\ to \in [Clients -> Zones]
    /\ {owner, viewer} \subseteq [Players -> Clients \union {Nobody}]
    /\ zoneID \in [Actors -> Zones]
    /\ pos \in [Actors -> Cells]
    /\ listed \in [Zones -> [Sections -> SUBSET Actors]]

(* A client that has logged in has a player, whose owner it was, if it is  *)
(* not so any more; nobody is the owner of two.  Only a client that has    *)
(* asked for it has made a viewport.                                       *)
LoggedIn ==
    /\ \A c \in Clients : stage[c] # "new" =>
           player[c] \in Players /\ owner[player[c]] \in Clients
    /\ \A p \in Players : owner[p] \in Clients =>
           stage[owner[p]] # "new" /\ player[owner[p]] = p
    /\ \A p \in Players : viewer[p] \in Clients =>
           stage[viewer[p]] \notin Unset \union {"new"}
    /\ \A c \in Clients, z \in Zones : <<c, z>> \in stragglers => stage[c] # "new"

(* Nobody comes into a section without an id. *)
ListedIssued == \A z \in Zones, k \in Sections : listed[z][k] \subseteq Issued

PlaceInv == PlaceTypes /\ LoggedIn /\ ListedIssued

ViewTypes ==
    /\ prevActors \in [Players -> SUBSET Actors]
    /\ objects \in [Clients -> SUBSET (Clients \union Monsters)]
    /\ excused \in [Players -> SUBSET Actors]
    /\ misled \subseteq Clients

(* No id is known that has not been given out yet. *)
KnownIssued ==
    /\ \A v \in Players : prevActors[v] \subseteq Issued
    /\ \A c \in Clients : stage[c] = "new" => objects[c] = {}
    /\ \A c, d \in Clients : d \in objects[c] => stage[d] # "new"

(* A client that is told only its own shows nothing but its player before  *)
(* the viewport is made, and that only when it has entered; ...            *)
ShownBefore(c) ==
    /\ stage[c] \in Unset => objects[c] \subseteq {c}
    /\ stage[c] \in Unshown => c \notin objects[c]

(* ... and after it, no actor that is not in the viewport. *)
ShowsOnly(c) ==
    \A a \in Actors : Id(a) \in objects[c] => a \in prevActors[player[c]] \union {player[c]}

ViewInv ==
    /\ ViewTypes
    /\ KnownIssued
    /\ OnlyMisledAddTwice
    /\ \A c \in Owning \ misled : ShownBefore(c)
    /\ \A c \in Served \ misled : ShowsOnly(c)
    /\ ShowsTheViewport

SightInv == PlaceInv /\ ViewInv

(* A step in which nobody logs in or makes a viewport, ... *)
Steady ==
    /\ UNCHANGED <<player, owner, viewer>>
    /\ \A c \in Clients :
           /\ stage'[c] = "new" <=> stage[c] = "new"
           /\ stage'[c] \in Unset => stage[c] \in Unset

(* ... comes back, or forgets its player. *)
Onward ==
    /\ Steady
    /\ \A c \in Clients :
           /\ c \in Online' => c \in Online
           /\ stage'[c] \in Unshown => stage[c] \in Unshown
-----------------------------------------------------------------------------
(* Two actors with ids have different ones. *)
LEMMA IdsDiffer ==
  ASSUME PlaceInv
  PROVE  /\ \A a \in Issued, b \in Actors : Id(a) = Id(b) => a = b
         /\ \A p \in Players : Id(p) = owner[p] /\ p \in Actors
         /\ \A m \in Monsters : Id(m) = m /\ m \in Issued
         /\ \A c \in Owning : player[c] \in Issued /\ Id(player[c]) = c
<1>1. \A p \in Players : Id(p) = owner[p] /\ p \in Actors
  BY DEF Id, Actors
<1>2. \A m \in Monsters : Id(m) = m /\ m \in Issued
  BY SightAssumption DEF Id, Issued, Actors
<1>3. \A c \in Owning : player[c] \in Issued /\ Id(player[c]) = c
  BY <1>1 DEF Owning, Online, Issued
<1>4. ASSUME NEW a \in Issued, NEW b \in Actors, Id(a) = Id(b)
      PROVE  a = b
  <2>1. CASE a \in Players /\ b \in Players
    <3>1. owner[a] \in Clients \union Monsters /\ owner[b] = owner[a]
      BY <1>1, <1>4, <2>1 DEF Issued
    <3>2. owner[a] \in Clients
      BY <2>1, <3>1, SightAssumption DEF PlaceInv, PlaceTypes, Actors
    <3>3. QED BY <2>1, <3>1, <3>2 DEF PlaceInv, LoggedIn
  <2>2. CASE a \notin Players /\ b \notin Players
    BY <1>4, <2>2 DEF Id
  <2>3. CASE a \in Players /\ b \notin Players
    <3>1. Id(b) \in Monsters /\ Id(a) \in Clients \union {Nobody}
      BY <1>1, <2>3 DEF Id, Actors, PlaceInv, PlaceTypes
    <3>2. QED BY <1>4, <3>1, SightAssumption DEF Actors
  <2>4. CASE a \notin Players /\ b \in Players
    <3>1. Id(a) \in Monsters /\ Id(b) \in Clients \union {Nobody}
      BY <1>1, <2>4 DEF Id, Actors, Issued, PlaceInv, PlaceTypes
    <3>2. QED BY <1>4, <3>1, SightAssumption DEF Actors
  <2>5. QED BY <2>1, <2>2, <2>3, <2>4
<1>5. QED BY <1>1, <1>2, <1>3, <1>4

(* Whoever is owner or viewer after such a step has been it before. *)
LEMMA OnwardKeeps ==
  ASSUME Onward
  PROVE  /\ Owning' \subseteq Owning /\ Served' \subseteq Served
         /\ \A a : Id(a)' = Id(a)
         /\ Issued' = Issued
<1>1. \A a : Id(a)' = Id(a)
  BY DEF Id, Onward, Steady
<1>2. Online' \subseteq Online
  BY DEF Onward, Online
<1>3. QED BY <1>1, <1>2 DEF Onward, Steady, Owning, Served, Issued

(* What is known of who has logged in stays so. *)
LEMMA SteadyKeeps ==
  ASSUME PlaceInv, Steady, \A c \in Clients, z \in Zones :
             <<c, z>> \in stragglers' => stage[c] # "new"
  PROVE  LoggedIn'
BY DEF Steady, PlaceInv, PlaceTypes, LoggedIn

(* Where nothing is sent, nothing else is shown. *)
LEMMA NothingShown ==
  ASSUME ViewInv, Onward, UNCHANGED viewVars
  PROVE  ViewInv'
<1> USE DEF ViewInv, viewVars
<1>1. /\ Owning' \subseteq Owning /\ Served' \subseteq Served
      /\ \A a : Id(a)' = Id(a)
      /\ Issued' = Issued
  BY OnwardKeeps
<1>2. ViewTypes' /\ OnlyMisledAddTwice'
  BY DEF ViewTypes, OnlyMisledAddTwice
<1>3. KnownIssued'
  BY <1>1 DEF KnownIssued, Onward, Steady
<1>4. \A c \in Owning' \ misled' : ShownBefore(c)'
  BY <1>1 DEF ShownBefore, Onward, Steady, Owning, Online
<1>5. \A c \in Served' \ misled' : ShowsOnly(c)'
  BY <1>1 DEF ShowsOnly, Onward, Steady
<1>6. ShowsTheViewport'
  BY <1>1 DEF ShowsTheViewport, Onward, Steady
<1>7. QED BY <1>2, <1>3, <1>4, <1>5, <1>6

(* Update keeps what the clients are shown, whichever players are due, if  *)
(* what it sends to those that did not ask is counted as misleading.       *)
LEMMA UpdateShows ==
  ASSUME PlaceInv, PlaceInv', ViewInv, Onward,
         NEW due \in SUBSET Players, NEW greeted \in SUBSET Owning,
         Update(due, greeted),
         misled \union Misled(due) \subseteq misled', misled' \subseteq Clients,
         \A c \in greeted \ misled' : c \notin objects[c] /\ stage'[c] \notin Unshown
  PROVE  ViewInv'
<1> DEFINE updated == {c \in Owning : player[c] \in due}
           own(c) == objects[c] \union (greeted \intersect {c})
<1> USE DEF ViewInv
<1>1. /\ Owning' \subseteq Owning /\ Served' \subseteq Served
      /\ \A a : Id(a)' = Id(a)
      /\ Issued' = Issued
      /\ Owning \subseteq Clients /\ Served \subseteq Owning
      /\ \A c \in Owning : player[c] \in Players
  BY OnwardKeeps DEF Owning, Online, Served
<1>2. /\ prevActors' \in [Players -> SUBSET Actors]
      /\ \A v \in Players : prevActors'[v] \subseteq Issued
      /\ \A v \in Players \ due : prevActors'[v] = prevActors[v]
  <2>1. ASSUME NEW v \in Players
        PROVE  GatherActors(v, pos', listed'[zoneID'[v]]) \subseteq Issued
    <3>1. zoneID'[v] \in Zones /\ pos'[v] \in Cells
      BY DEF PlaceInv, PlaceTypes, Actors
    <3>2. \A k \in Sections : listed'[zoneID'[v]][k] \subseteq Issued
      BY <1>1, <3>1 DEF PlaceInv, ListedIssued
    <3>3. Adjacent[pos'[v]] \subseteq Sections
      BY <3>1, SightAssumption
    <3>4. QED BY <3>2, <3>3 DEF GatherActors, SectionsAround
  <2>2. prevActors' = [v \in Players |->
                 IF v \in due THEN GatherActors(v, pos', listed'[zoneID'[v]])
                 ELSE prevActors[v]]
    BY DEF Update, PrevActors
  <2>3. Issued \subseteq Actors
    BY DEF Issued
  <2>4. QED BY <2>1, <2>2, <2>3 DEF KnownIssued
<1>3. ASSUME NEW v \in Players
      PROVE  /\ Added(v) \subseteq prevActors'[v] \ (prevActors[v] \union {v})
             /\ Removed(v) = prevActors[v] \ (prevActors'[v] \union {v})
             /\ Added(v) \subseteq Issued /\ Removed(v) \subseteq Issued
  <2>1. Considered(prevActors'[v]) \subseteq prevActors'[v]
    BY DEF Considered
  <2>2. QED BY <1>2, <2>1 DEF Added, Removed, KnownIssued
<1>4. /\ duplicates' = duplicates
             \union {c \in greeted : c \in objects[c]}
             \union {c \in updated : IdsOf(Added(player[c])) \intersect objects[c] # {}}
      /\ objects' = [c \in Clients |->
             IF c \in duplicates' THEN {}
             ELSE IF c \in updated THEN Shown(own(c), player[c]) ELSE own(c)]
      /\ excused' = [v \in Players |->
             IF v \in due
             THEN prevActors'[v] \ ((prevActors[v] \union Added(v)) \ excused[v])
             ELSE excused[v]]
  BY DEF Update
<1>5. \A v \in Players, a \in Actors :
          /\ Id(a) \in IdsOf(Added(v)) <=> a \in Added(v)
          /\ Id(a) \in IdsOf(Removed(v)) <=> a \in Removed(v)
  BY <1>3, IdsDiffer DEF IdsOf
<1>6. \A v \in Players : IdsOf(Added(v)) \subseteq Clients \union Monsters
  BY <1>3 DEF IdsOf, Issued
<1>7. \A c \in Clients \ duplicates' :
          objects'[c] = IF c \in updated
                        THEN (own(c) \union IdsOf(Added(player[c]))) \ IdsOf(Removed(player[c]))
                        ELSE own(c)
  BY <1>4 DEF Shown
<1>8. \A c \in duplicates' \intersect Clients : objects'[c] = {}
  BY <1>4
<1>9. \A c \in updated \ Served : c \notin misled' => Added(player[c]) = {}
  BY DEF Misled
<1> HIDE DEF updated, own
<1>10. /\ updated \subseteq Owning
       /\ \A c : /\ objects[c] \subseteq own(c) /\ own(c) \subseteq objects[c] \union {c}
                 /\ c \notin greeted => own(c) = objects[c]
  BY DEF updated, own
<1>11. OnlyMisledAddTwice'
  <2>1. duplicates \subseteq misled'
    BY DEF OnlyMisledAddTwice
  <2>2. \A c \in greeted : c \in objects[c] => c \in misled'
    OBVIOUS
  <2>3. ASSUME NEW c \in updated, c \notin misled',
               IdsOf(Added(player[c])) \intersect objects[c] # {}
        PROVE  FALSE
    <3>1. c \in Served /\ c \notin misled
      BY <1>9, <1>10, <2>3 DEF IdsOf
    <3>2. PICK a \in Added(player[c]) : Id(a) \in objects[c]
      BY <2>3 DEF IdsOf
    <3>3. a \in Actors /\ a \notin prevActors[player[c]] \union {player[c]}
      BY <1>1, <1>3, <1>10, <3>2 DEF Issued
    <3>4. QED BY <3>1, <3>2, <3>3 DEF ShowsOnly
  <2>4. QED BY <1>4, <2>1, <2>2, <2>3 DEF OnlyMisledAddTwice
<1>12. /\ ViewTypes' /\ KnownIssued'
  <2>1. \A c \in Clients : objects[c] \subseteq Clients \union Monsters
    BY DEF ViewTypes
  <2>2. ASSUME NEW c \in Clients
        PROVE  objects'[c] \subseteq Clients \union Monsters
    <3>1. own(c) \subseteq Clients \union Monsters
      BY <1>10, <2>1
    <3>2. c \in updated => IdsOf(Added(player[c])) \subseteq Clients \union Monsters
      BY <1>1, <1>6, <1>10
    <3>3. QED BY <1>7, <1>8, <3>1, <3>2
  <2>3. objects' \in [Clients -> SUBSET (Clients \union Monsters)]
    BY <1>4, <2>2
  <2>4. excused' \in [Players -> SUBSET Actors]
    BY <1>2, <1>4 DEF ViewTypes
  <2>5. ASSUME NEW c \in Clients, NEW d \in Clients, d \in objects'[c]
        PROVE  stage'[d] # "new"
    <3>1. \A e \in Owning : stage[e] # "new"
      BY DEF Owning, Online
    <3>2. c \notin duplicates'
      BY <1>8, <2>5
    <3>3. CASE d \in objects[c]
      BY <3>3 DEF KnownIssued, Onward, Steady
    <3>4. CASE d \notin objects[c] /\ d = c /\ c \in greeted
      BY <3>1, <3>4 DEF Onward, Steady
    <3>5. CASE c \in updated /\ d \in IdsOf(Added(player[c]))
      <4>1. PICK a \in Issued : d = Id(a)
        BY <1>1, <1>3, <1>10, <3>5 DEF IdsOf
      <4>2. a \in Players
        BY <4>1, SightAssumption DEF Id, Issued, Actors
      <4>3. owner[a] = d
        BY <4>1, <4>2 DEF Id
      <4>4. stage[d] # "new"
        BY <4>2, <4>3 DEF PlaceInv, LoggedIn
      <4>5. QED BY <1>1, <1>10, <3>1, <3>5, <4>4 DEF Onward, Steady
    <3>6. d \in own(c) \/ (c \in updated /\ d \in IdsOf(Added(player[c])))
      <4>1. c \in Clients \ duplicates'
        BY <3>2
      <4>2. CASE c \in updated
        BY <1>7, <2>5, <4>1, <4>2
      <4>3. CASE c \notin updated
        BY <1>7, <2>5, <4>1, <4>3
      <4>4. QED BY <4>2, <4>3
    <3>7. d \in own(c) => d \in objects[c] \/ (d = c /\ c \in greeted)
      BY DEF own
    <3>8. QED BY <3>3, <3>4, <3>5, <3>6, <3>7
  <2>6. ASSUME NEW c \in Clients, stage'[c] = "new"
        PROVE  objects'[c] = {}
    <3>1. c \notin Owning /\ objects[c] = {}
      BY <2>6 DEF Owning, Online, KnownIssued, Onward, Steady
    <3>2. own(c) = {} /\ c \notin updated
      BY <1>10, <3>1
    <3>3. QED BY <1>7, <1>8, <3>2
  <2>7. KnownIssued'
    BY <1>1, <1>2, <2>5, <2>6 DEF KnownIssued
  <2>8. QED BY <1>2, <2>3, <2>4, <2>7 DEF ViewTypes
<1>13. ASSUME NEW c \in Owning', c \notin misled'
       PROVE  ShownBefore(c)'
  <2>1. c \in Owning /\ c \notin misled /\ c \in Clients /\ player[c] \in Players
    BY <1>1, <1>13
  <2>2. ShownBefore(c) /\ own(c) \subseteq objects[c] \union {c}
    BY <1>10, <2>1
  <2>3. stage'[c] \in Unset => objects'[c] \subseteq {c}
    <3>1. SUFFICES ASSUME stage'[c] \in Unset PROVE objects'[c] \subseteq {c}
      OBVIOUS
    <3>2. stage[c] \in Unset /\ objects[c] \subseteq {c}
      BY <2>1, <2>2, <3>1 DEF ShownBefore, Onward, Steady
    <3>3. c \notin Served
      BY <2>1, <3>2 DEF Served, PlaceInv, LoggedIn
    <3>4. c \in updated => IdsOf(Added(player[c])) = {}
      BY <1>9, <1>13, <3>3 DEF IdsOf
    <3>5. QED BY <1>7, <1>8, <2>1, <2>2, <3>2, <3>4
  <2>4. stage'[c] \in Unshown => c \notin objects'[c]
    <3>1. SUFFICES ASSUME stage'[c] \in Unshown PROVE c \notin objects'[c]
      OBVIOUS
    <3>2. c \notin greeted /\ c \notin objects[c] /\ own(c) = objects[c]
      BY <1>10, <1>13, <2>1, <2>2, <3>1 DEF ShownBefore, Onward, Steady
    <3>3. c \notin IdsOf(Added(player[c]))
      <4>1. Id(player[c]) = c /\ player[c] \in Actors
        BY <2>1, IdsDiffer DEF Issued
      <4>2. player[c] \notin Added(player[c])
        BY <1>3, <2>1
      <4>3. QED BY <1>5, <2>1, <4>1, <4>2
    <3>4. QED BY <1>7, <1>8, <2>1, <3>2, <3>3
  <2>5. QED BY <2>3, <2>4 DEF ShownBefore
<1>14. ASSUME NEW c \in Served', c \notin misled', NEW a \in Actors, Id(a) \in objects'[c]
       PROVE  a \in prevActors'[player[c]] \union {player[c]}
  <2>1. /\ c \in Served /\ c \in Owning /\ c \notin misled /\ c \in Clients
        /\ player[c] \in Players /\ ShowsOnly(c)
    BY <1>1, <1>14
  <2>2. c \notin duplicates' /\ (c \in updated <=> player[c] \in due)
    BY <1>8, <1>14, <2>1 DEF updated
  <2>3. Id(a) = c => a = player[c]
    BY <2>1, IdsDiffer
  <2>4. Id(a) \in own(c) => a \in prevActors[player[c]] \union {player[c]}
    BY <1>10, <2>1, <2>3 DEF ShowsOnly
  <2>5. CASE player[c] \notin due
    BY <1>2, <1>7, <1>14, <2>1, <2>2, <2>4, <2>5
  <2>6. CASE player[c] \in due
    <3>1. (Id(a) \in own(c) \/ a \in Added(player[c])) /\ a \notin Removed(player[c])
      BY <1>5, <1>7, <1>14, <2>1, <2>2, <2>6
    <3>2. QED BY <1>3, <2>1, <2>4, <3>1
  <2>7. QED BY <2>5, <2>6
<1>15. ASSUME NEW c \in Served', c \notin duplicates',
              NEW a \in prevActors'[player[c]] \ {player[c]}
       PROVE  a \in excused'[player[c]] \/ Id(a) \in objects'[c]
  <2>1. /\ c \in Served /\ c \in Owning /\ c \in Clients /\ player[c] \in Players
        /\ c \notin duplicates /\ a \in Actors
    BY <1>1, <1>2, <1>4, <1>15
  <2>2. a \in prevActors[player[c]] => a \in excused[player[c]] \/ Id(a) \in own(c)
    BY <1>10, <1>15, <2>1 DEF ShowsTheViewport
  <2>3. c \in updated <=> player[c] \in due
    BY <2>1 DEF updated
  <2>4. CASE player[c] \notin due
    BY <1>2, <1>4, <1>7, <1>15, <2>1, <2>2, <2>3, <2>4
  <2>5. CASE player[c] \in due
    <3>1. Id(a) \in objects'[c] <=>
              (Id(a) \in own(c) \/ a \in Added(player[c])) /\ a \notin Removed(player[c])
      BY <1>5, <1>7, <1>15, <2>1, <2>3, <2>5
    <3>2. a \notin Removed(player[c])
      BY <1>3, <1>15, <2>1
    <3>3. excused'[player[c]] = prevActors'[player[c]] \
              ((prevActors[player[c]] \union Added(player[c])) \ excused[player[c]])
      BY <1>4, <2>1, <2>5
    <3>4. QED BY <1>15, <2>2, <3>1, <3>2, <3>3
  <2>6. QED BY <2>4, <2>5
<1>16. player' = player
  BY DEF Onward, Steady
<1>17. \A c \in Served' \ misled' : ShowsOnly(c)'
  BY <1>1, <1>14, <1>16 DEF ShowsOnly
<1>18. ShowsTheViewport'
  BY <1>1, <1>15, <1>16 DEF ShowsTheViewport
<1>19. QED BY <1>11, <1>12, <1>13, <1>17, <1>18

(* So does a despawn, which excuses those that have the actor in view. *)
LEMMA DespawnShows ==
  ASSUME PlaceInv, ViewInv, Onward, NEW a \in Actors, NEW z, BroadCastDespawn(a, z)
  PROVE  ViewInv'
<1> DEFINE audience == {v \in Players \intersect SectionsAround(pos'[a], listed'[z]) :
                           pos'[v] \in InView[pos'[a]]}
<1> USE DEF ViewInv
<1>1. /\ Owning' \subseteq Owning /\ Served' \subseteq Served
      /\ \A b : Id(b)' = Id(b)
      /\ Issued' = Issued
      /\ Owning \subseteq Clients /\ Served \subseteq Owning
      /\ \A c \in Owning : player[c] \in Players
      /\ player' = player
  BY OnwardKeeps DEF Owning, Online, Served, Onward, Steady
<1>2. /\ objects' = [c \in Clients |->
             IF c \in Owning /\ player[c] \in audience THEN objects[c] \ {Id(a)}
             ELSE objects[c]]
      /\ excused' = [v \in Players |->
             IF v \in audience THEN excused[v] \union (prevActors[v] \intersect {a})
             ELSE excused[v]]
      /\ UNCHANGED <<prevActors, duplicates, misled>>
  BY DEF BroadCastDespawn
<1> HIDE DEF audience
<1>3. /\ \A c \in Clients : objects'[c] \subseteq objects[c]
      /\ \A v \in Players : excused[v] \subseteq excused'[v]
  BY <1>2
<1>4. ViewTypes' /\ OnlyMisledAddTwice'
  BY <1>2 DEF ViewTypes, OnlyMisledAddTwice
<1>5. KnownIssued'
  BY <1>1, <1>2, <1>3 DEF KnownIssued, Onward, Steady
<1>6. \A c \in Owning' \ misled' : ShownBefore(c)'
  BY <1>1, <1>2, <1>3 DEF ShownBefore, Onward, Steady
<1>7. \A c \in Served' \ misled' : ShowsOnly(c)'
  BY <1>1, <1>2, <1>3 DEF ShowsOnly
<1>8. ASSUME NEW c \in Served', c \notin duplicates',
             NEW b \in prevActors'[player[c]] \ {player[c]}
      PROVE  b \in excused'[player[c]] \/ Id(b) \in objects'[c]
  <2>1. /\ c \in Served /\ c \in Owning /\ c \in Clients /\ player[c] \in Players
        /\ b \in prevActors[player[c]] /\ b \in Issued
        /\ b \in excused[player[c]] \/ Id(b) \in objects[c]
    BY <1>1, <1>2, <1>8 DEF ShowsTheViewport, KnownIssued
  <2>2. Id(b) = Id(a) => b = a
    BY <2>1, IdsDiffer
  <2>3. QED BY <1>2, <1>3, <2>1, <2>2
<1>9. ShowsTheViewport'
  BY <1>1, <1>8 DEF ShowsTheViewport
<1>10. QED BY <1>4, <1>5, <1>6, <1>7, <1>9
-----------------------------------------------------------------------------
(* A step that lists only actors with ids and shows nothing keeps it all, ... *)
LEMMA PlaceKept ==
  ASSUME PlaceInv, Steady, PlaceTypes',
         \A c \in Clients, z \in Zones : <<c, z>> \in stragglers' => stage[c] # "new",
         \A z \in Zones, k \in Sections : listed'[z][k] \subseteq Issued
  PROVE  PlaceInv'
<1>1. Issued' = Issued
  BY DEF Issued, Id, Steady
<1>2. ListedIssued'
  BY <1>1 DEF ListedIssued
<1>3. QED BY <1>2, SteadyKeeps DEF PlaceInv

(* ... and so does one that refreshes the viewports of a section after it. *)
LEMMA SectionShows ==
  ASSUME PlaceInv, PlaceInv', ViewInv, Onward, NEW z \in Zones, NEW k \in Sections,
         PlayerViewportUpdate(z, k)
  PROVE  ViewInv'
<1>1. PICK due \in SUBSET (Players \intersect listed'[z][k]) :
          Update(due, {}) /\ misled' = misled \union Misled(due)
  BY DEF PlayerViewportUpdate
<1>2. Misled(due) \subseteq Clients
  BY DEF Misled, Owning, Online
<1>3. misled \union Misled(due) \subseteq misled' /\ misled' \subseteq Clients
  BY <1>1, <1>2 DEF ViewInv, ViewTypes
<1>4. QED BY <1>1, <1>3, UpdateShows

(* The list of a section with one more, and with one less. *)
LEMMA ListedStep ==
  ASSUME listed \in [Zones -> [Sections -> SUBSET Actors]],
         NEW z \in Zones, NEW a \in Actors, NEW j \in Sections, NEW k \in Sections,
         \/ listed' = [listed EXCEPT ![z][k] = @ \union {a}]
         \/ listed' = [listed EXCEPT ![z][j] = @ \ {a}]
         \/ listed' = [listed EXCEPT ![z][j] = @ \ {a}, ![z][k] = @ \union {a}]
         \/ listed' = listed
  PROVE  /\ listed' \in [Zones -> [Sections -> SUBSET Actors]]
         /\ \A y \in Zones, i \in Sections : listed'[y][i] \subseteq listed[y][i] \union {a}
<1>1. CASE listed' = [listed EXCEPT ![z][k] = @ \union {a}]
  BY <1>1
<1>2. CASE listed' = [listed EXCEPT ![z][j] = @ \ {a}]
  BY <1>2
<1>3. CASE listed' = [listed EXCEPT ![z][j] = @ \ {a}, ![z][k] = @ \union {a}]
  BY <1>3
<1>4. CASE listed' = listed
  BY <1>4
<1>5. QED BY <1>1, <1>2, <1>3, <1>4

(* A player that leaves a zone, or has left it already. *)
LEMMA LeavingShows ==
  ASSUME PlaceInv, ViewInv, Onward, NEW p \in Players, NEW z, LeavesZone(p, z),
         UNCHANGED <<zoneID, pos, to>>, stragglers' \subseteq stragglers,
         stage' \in [Clients -> Stages]
  PROVE  PlaceInv' /\ ViewInv'
<1>1. p \in Actors /\ zoneID[p] \in Zones /\ SectionOf[pos[p]] \in Sections
  BY SightAssumption DEF Actors, PlaceInv, PlaceTypes
<1>2. listed' = [listed EXCEPT ![zoneID[p]][SectionOf[pos[p]]] = @ \ {p}]
          \/ listed' = listed
  BY DEF LeavesZone, Unlisted
<1>3. /\ listed' \in [Zones -> [Sections -> SUBSET Actors]]
      /\ \A y \in Zones, k \in Sections : listed'[y][k] \subseteq listed[y][k]
  <2>1. listed \in [Zones -> [Sections -> SUBSET Actors]]
    BY DEF PlaceInv, PlaceTypes
  <2>2. CASE listed' = [listed EXCEPT ![zoneID[p]][SectionOf[pos[p]]] = @ \ {p}]
    BY <1>1, <2>1, <2>2
  <2>3. QED BY <1>2, <2>1, <2>2
<1>4. PlaceTypes'
  BY <1>3 DEF PlaceInv, PlaceTypes, Onward, Steady
<1>5. PlaceInv'
  BY <1>3, <1>4, PlaceKept DEF Onward, PlaceInv, LoggedIn, ListedIssued
<1>6. ViewInv'
  BY <1>1, NothingShown, DespawnShows DEF LeavesZone
<1>7. QED BY <1>5, <1>6

(* An actor with an id that moves, as far as sections and sight go. *)
LEMMA MovingShows ==
  ASSUME SightInv, NEW a \in Issued, NEW z \in Zones, NEW dest \in Cells,
         HandleMove(a, z, dest)
  PROVE  SightInv'
<1> USE DEF SightInv
<1>1. /\ UNCHANGED <<stage, player, to, stragglers, owner, viewer, zoneID>>
      /\ pos' = [pos EXCEPT ![a] = dest]
      /\ a \in Actors /\ zoneID[a] \in Zones
      /\ SectionOf[pos[a]] \in Sections /\ SectionOf[dest] \in Sections
  BY SightAssumption DEF HandleMove, wayVars, playerVars, Issued, PlaceInv, PlaceTypes
<1>2. /\ listed' \in [Zones -> [Sections -> SUBSET Actors]]
      /\ \A y \in Zones, k \in Sections : listed'[y][k] \subseteq listed[y][k] \union {a}
  <2>1. listed' = [listed EXCEPT ![zoneID[a]][SectionOf[pos[a]]] = @ \ {a},
                                 ![zoneID[a]][SectionOf[dest]] = @ \union {a}]
            \/ listed' = listed
    BY DEF HandleMove
  <2> DEFINE y == zoneID[a]
             j == SectionOf[pos[a]]
             i == SectionOf[dest]
  <2>2. listed \in [Zones -> [Sections -> SUBSET Actors]]
    BY DEF PlaceInv, PlaceTypes
  <2>3. /\ y \in Zones /\ a \in Actors /\ j \in Sections /\ i \in Sections
        /\ \/ listed' = [listed EXCEPT ![y][j] = @ \ {a}, ![y][i] = @ \union {a}]
           \/ listed' = listed
    BY <1>1, <2>1
  <2> HIDE DEF y, j, i
  <2>4. QED BY ONLY <2>2, <2>3, ListedStep
<1>3. Onward /\ Steady
  BY <1>1 DEF Onward, Steady, Online
<1>4. PlaceTypes'
  BY <1>1, <1>2 DEF PlaceInv, PlaceTypes
<1>5. PlaceInv'
  BY <1>1, <1>2, <1>3, <1>4, PlaceKept DEF PlaceInv, LoggedIn, ListedIssued
<1>6. PlayerViewportUpdate(z, SectionOf[dest])
  BY DEF HandleMove
<1>7. QED BY <1>1, <1>3, <1>5, <1>6, SectionShows
-----------------------------------------------------------------------------
(* A login gives out an id that nobody knows, and a player that whoever    *)
(* had it before is not shown by any more.                                 *)
LEMMA LoginShows ==
  ASSUME SightInv, NEW c \in Clients, NEW p \in Players, Login(c, p)
  PROVE  SightInv'
<1> USE DEF SightInv
<1>1. /\ stage[c] = "new" /\ stage' = [stage EXCEPT ![c] = "offered"]
      /\ player' = [player EXCEPT ![c] = p]
      /\ owner' = [owner EXCEPT ![p] = c]
      /\ pos' = [pos EXCEPT ![p] = Spawn]
      /\ zoneID' = [zoneID EXCEPT ![p] = EntryZone]
      /\ excused' = [v \in Players |-> excused[v] \union (prevActors[v] \intersect {p})]
      /\ UNCHANGED <<to, viewer, listed, prevActors, objects, duplicates, misled>>
      /\ EntryZone \in Zones /\ p \in Actors
  BY SightAssumption DEF Login, MovesTo, Actors
<1>2. \A d \in Clients : stage'[d] = IF d = c THEN "offered" ELSE stage[d]
  BY <1>1 DEF PlaceInv, PlaceTypes
<1>3. \A d \in Clients : player'[d] = IF d = c THEN p ELSE player[d]
  BY <1>1 DEF PlaceInv, PlaceTypes
<1>4. \A q \in Players : owner'[q] = IF q = p THEN c ELSE owner[q]
  BY <1>1 DEF PlaceInv, PlaceTypes
<1>5. \A e \in Players : owner[e] # c /\ viewer[e] # c
  BY <1>1 DEF PlaceInv, LoggedIn
<1>6. \A d \in Clients, z \in Zones : <<d, z>> \in stragglers' => stage'[d] # "new"
  <2>1. stragglers' \subseteq stragglers \union
            {<<d, zoneID[p]>> : d \in {e \in Clients : stage[e] \in {"in", "asked"}}}
    BY DEF Login, MovesTo
  <2>2. QED BY <1>2, <2>1 DEF PlaceInv, LoggedIn
<1>7. PlaceTypes'
  BY <1>1, SightAssumption DEF PlaceInv, PlaceTypes, Stages
<1>8. LoggedIn'
  <2>1. \A d \in Clients : stage'[d] # "new" =>
            player'[d] \in Players /\ owner'[player'[d]] \in Clients
    BY <1>2, <1>3, <1>4 DEF PlaceInv, LoggedIn
  <2>2. ASSUME NEW q \in Players, owner'[q] \in Clients
        PROVE  stage'[owner'[q]] # "new" /\ player'[owner'[q]] = q
    BY <1>2, <1>3, <1>4, <1>5, <2>2 DEF PlaceInv, LoggedIn
  <2>3. \A q \in Players : viewer'[q] \in Clients =>
            stage'[viewer'[q]] \notin Unset \union {"new"}
    BY <1>1, <1>2, <1>5 DEF PlaceInv, LoggedIn
  <2>4. QED BY <1>6, <2>1, <2>2, <2>3 DEF LoggedIn
<1>9. /\ \A a \in Actors \ {p} : Id(a)' = Id(a)
      /\ Id(p)' = c
      /\ Issued \subseteq Issued'
  <2>1. \A a \in Actors \ {p} : Id(a)' = Id(a)
    BY <1>4 DEF Id
  <2>2. Id(p)' = c
    BY <1>4 DEF Id
  <2>3. QED BY <2>1, <2>2 DEF Issued
<1>10. PlaceInv'
  BY <1>1, <1>7, <1>8, <1>9 DEF PlaceInv, ListedIssued
<1>11. /\ ViewTypes' /\ KnownIssued' /\ OnlyMisledAddTwice'
  BY <1>1, <1>2, <1>9 DEF ViewInv, ViewTypes, KnownIssued, OnlyMisledAddTwice
<1>12. /\ \A d \in Owning' : d = c \/ (d \in Owning /\ player[d] # p)
       /\ \A d \in Served' : d \in Served /\ d # c /\ player[d] # p
       /\ \A d \in Owning : d \in Clients /\ player[d] \in Players
       /\ Served \subseteq Owning
  <2>1. \A d \in Owning' : d = c \/ (d \in Owning /\ player[d] # p)
    BY <1>2, <1>3, <1>4 DEF Owning, Online
  <2>2. \A d \in Served' : d # c
    BY <1>1, <1>3, <1>5 DEF Served, Owning
  <2>3. \A d \in Served' : d \in Served /\ player[d] # p
    BY <1>1, <1>3, <2>1, <2>2 DEF Served
  <2>4. QED BY <2>1, <2>2, <2>3 DEF Owning, Online, Served
<1>13. ASSUME NEW d \in Owning' \ misled'
       PROVE  ShownBefore(d)'
  <2>1. CASE d = c
    BY <1>1, <2>1 DEF ViewInv, KnownIssued, ShownBefore
  <2>2. CASE d # c
    BY <1>1, <1>2, <1>12, <1>13, <2>2 DEF ViewInv, ShownBefore
  <2>3. QED BY <2>1, <2>2
<1>14. \A d \in Clients : c \notin objects[d]
  BY <1>1 DEF ViewInv, KnownIssued
<1>15. ASSUME NEW d \in Served' \ misled'
       PROVE  ShowsOnly(d)'
  BY <1>1, <1>3, <1>9, <1>12, <1>14, <1>15 DEF ViewInv, ShowsOnly
<1>16. ShowsTheViewport'
  <2>1. ASSUME NEW d \in Served' \ duplicates',
               NEW a \in prevActors'[player'[d]] \ {player'[d]}
        PROVE  a \in excused'[player'[d]] \/ Id(a)' \in objects'[d]
    <3>1. /\ d \in Served /\ player'[d] = player[d] /\ player[d] \in Players
          /\ a \in Actors /\ d \notin duplicates
          /\ a \in prevActors[player[d]] \ {player[d]}
      BY <1>1, <1>3, <1>12, <2>1 DEF ViewInv, ViewTypes
    <3>2. a \in excused[player[d]] \/ Id(a) \in objects[d]
      BY <3>1 DEF ViewInv, ShowsTheViewport
    <3>3. QED BY <1>1, <1>9, <3>1, <3>2
  <2>2. QED BY <2>1 DEF ShowsTheViewport
<1>17. QED BY <1>10, <1>11, <1>13, <1>15, <1>16 DEF ViewInv

(* A new viewport is empty, and so is what its client shows, but for its   *)
(* own player.                                                             *)
LEMMA ViewportShows ==
  ASSUME SightInv, NEW c \in Clients, SetViewport(c)
  PROVE  SightInv'
<1> DEFINE p == player[c]
<1> USE DEF SightInv
<1>1. /\ stage[c] \in {"pushed", "raced"}
      /\ stage' = [stage EXCEPT ![c] = IF stage[c] = "raced" THEN "in" ELSE "waiting"]
      /\ viewer' = [viewer EXCEPT ![p] = c]
      /\ prevActors' = [prevActors EXCEPT ![p] = {}]
      /\ excused' = [excused EXCEPT ![p] = {}]
      /\ zoneID' = [zoneID EXCEPT ![p] = EntryZone]
      /\ UNCHANGED <<player, to, owner, pos, listed, objects, duplicates, misled>>
      /\ EntryZone \in Zones /\ p \in Players
  BY SightAssumption DEF SetViewport, MovesTo, PlaceInv, LoggedIn
<1>2. \A d \in Clients : stage'[d] = IF d = c
          THEN IF stage[c] = "raced" THEN "in" ELSE "waiting" ELSE stage[d]
  BY <1>1 DEF PlaceInv, PlaceTypes
<1>3. \A q \in Players : viewer'[q] = IF q = p THEN c ELSE viewer[q]
  BY <1>1 DEF PlaceInv, PlaceTypes
<1>4. \A q \in Players : prevActors'[q] = IF q = p THEN {} ELSE prevActors[q]
  BY <1>1 DEF ViewInv, ViewTypes
<1>5. \A q \in Players \ {p} : excused'[q] = excused[q]
  BY <1>1 DEF ViewInv, ViewTypes
<1> HIDE DEF p
<1>6. \A d \in Clients, z \in Zones : <<d, z>> \in stragglers' => stage'[d] # "new"
  <2>1. stragglers' \subseteq stragglers \union
            {<<d, zoneID[p]>> : d \in {e \in Clients : stage[e] \in {"in", "asked"}}}
    BY DEF SetViewport, MovesTo, p
  <2>2. QED BY <1>2, <2>1 DEF PlaceInv, LoggedIn
<1>7. /\ \A a : Id(a)' = Id(a)
      /\ Issued' = Issued
      /\ Owning' = Owning
      /\ \A d \in Owning : d \in Clients /\ player[d] \in Players
      /\ Served \subseteq Owning
  <2>1. Online' = Online
    BY <1>1, <1>2 DEF Online
  <2>2. QED BY <1>1, <2>1 DEF Id, Issued, Owning, Online, Served
<1>8. PlaceTypes'
  <2>1. stage' \in [Clients -> Stages]
    BY <1>1 DEF PlaceInv, PlaceTypes, Stages
  <2>2. viewer' \in [Players -> Clients \union {Nobody}]
    BY <1>1 DEF PlaceInv, PlaceTypes
  <2>3. zoneID' \in [Actors -> Zones]
    BY <1>1 DEF PlaceInv, PlaceTypes
  <2>4. QED BY <1>1, <2>1, <2>2, <2>3 DEF PlaceInv, PlaceTypes
<1>9. PlaceInv'
  <2>1. \A q \in Players : viewer'[q] \in Clients =>
            stage'[viewer'[q]] \notin Unset \union {"new"}
    BY <1>2, <1>3 DEF PlaceInv, LoggedIn, Unset
  <2>2. LoggedIn'
    BY <1>1, <1>2, <1>6, <2>1 DEF PlaceInv, LoggedIn
  <2>3. QED BY <1>1, <1>7, <1>8, <2>2 DEF PlaceInv, ListedIssued
<1>10. ViewTypes' /\ KnownIssued' /\ OnlyMisledAddTwice'
  <2>1. prevActors' \in [Players -> SUBSET Actors]
    BY <1>1 DEF ViewInv, ViewTypes
  <2>2. excused' \in [Players -> SUBSET Actors]
    BY <1>1 DEF ViewInv, ViewTypes
  <2>3. KnownIssued'
    BY <1>1, <1>2, <1>4, <1>7 DEF ViewInv, KnownIssued
  <2>4. QED BY <1>1, <2>1, <2>2, <2>3 DEF ViewInv, ViewTypes, OnlyMisledAddTwice
<1>11. ASSUME NEW d \in Owning' \ misled'
       PROVE  ShownBefore(d)'
  <2>1. d \in Owning \ misled /\ d \in Clients /\ ShownBefore(d)
    BY <1>1, <1>7, <1>11 DEF ViewInv
  <2>2. /\ stage'[d] \in Unset => stage[d] \in Unset
        /\ stage'[d] \in Unshown => stage[d] \in Unshown
    BY <1>1, <1>2, <2>1 DEF Unset, Unshown
  <2>3. QED BY <1>1, <2>1, <2>2 DEF ShownBefore
<1>12. \A d \in Served' : /\ d \in Owning
                          /\ \/ d = c /\ player[d] = p
                             \/ d \in Served /\ player[d] # p
  BY <1>1, <1>3, <1>7 DEF Served, p
<1>13. ASSUME NEW d \in Served' \ misled'
       PROVE  ShowsOnly(d)'
  <2>1. CASE d = c /\ player[d] = p
    <3>1. c \in Owning /\ ShownBefore(c) /\ stage[c] \in Unset
      BY <1>1, <1>12, <1>13, <2>1 DEF ViewInv, Unset
    <3>2. objects'[c] \subseteq {c}
      BY <1>1, <3>1 DEF ShownBefore
    <3>3. \A a \in Actors : Id(a) = c => a = p
      BY <2>1, <3>1, IdsDiffer
    <3>4. QED BY <1>1, <1>7, <2>1, <3>2, <3>3 DEF ShowsOnly
  <2>2. CASE d \in Served /\ player[d] # p
    <3>1. prevActors'[player[d]] = prevActors[player[d]] /\ ShowsOnly(d)
      BY <1>1, <1>4, <1>7, <1>13, <2>2 DEF ViewInv
    <3>2. QED BY <1>1, <1>7, <3>1 DEF ShowsOnly
  <2>3. QED BY <1>12, <1>13, <2>1, <2>2
<1>14. ShowsTheViewport'
  <2>1. ASSUME NEW d \in Served' \ duplicates',
               NEW a \in prevActors'[player[d]] \ {player[d]}
        PROVE  a \in excused'[player[d]] \/ Id(a) \in objects'[d]
    <3>1. player[d] \in Players /\ player[d] # p /\ d \in Served
      BY <1>4, <1>7, <1>12, <2>1
    <3>2. QED BY <1>1, <1>4, <1>5, <2>1, <3>1 DEF ViewInv, ShowsTheViewport
  <2>2. QED BY <1>1, <1>7, <2>1 DEF ShowsTheViewport
<1>15. QED BY <1>9, <1>10, <1>11, <1>13, <1>14 DEF ViewInv

(* Whoever enters is shown its own player: for the first time, if the      *)
(* EnterGame is its own.                                                   *)
LEMMA EnterShows ==
  ASSUME SightInv, NEW c \in Clients, EnterGame(c)
  PROVE  SightInv'
<1> DEFINE p == player[c]
           k == SectionOf[pos[p]]
           greeted == Owning \intersect {owner[p]}
<1> USE DEF SightInv
<1>1. /\ stage[c] \in {"pushed", "waiting", "arriving"}
      /\ stage' = [stage EXCEPT ![c] = IF stage[c] = "pushed" THEN "raced" ELSE "in"]
      /\ to' = [to EXCEPT ![c] = EntryZone]
      /\ stragglers' \subseteq stragglers
      /\ UNCHANGED <<player, owner, viewer, zoneID, pos>>
  BY DEF EnterGame, playerVars
<1>2. /\ p \in Players /\ p \in Actors /\ p \in Issued /\ to[c] \in Zones
      /\ k \in Sections /\ EntryZone \in Zones
  <2>1. p \in Players /\ owner[p] \in Clients
    BY <1>1 DEF PlaceInv, LoggedIn
  <2>2. p \in Actors /\ Id(p) = owner[p]
    BY <2>1 DEF Id, Actors
  <2>3. QED BY <2>1, <2>2, SightAssumption DEF Issued, PlaceInv, PlaceTypes
<1>3. Onward /\ Steady
  BY <1>1 DEF PlaceInv, PlaceTypes, Onward, Steady, Online, Unset, Unshown
<1>4. /\ stage' \in [Clients -> Stages] /\ to' \in [Clients -> Zones]
      /\ stage'[c] \notin Unshown
  BY <1>1, <1>2 DEF PlaceInv, PlaceTypes, Stages, Unshown
<1>5. CASE p \in actorVector[to[c]]
  <2>1. UNCHANGED <<listed, viewVars>>
    BY <1>5 DEF EnterGame, p
  <2>2. PlaceTypes'
    BY <1>1, <1>4, <2>1 DEF PlaceInv, PlaceTypes
  <2>3. PlaceInv'
    BY <1>1, <1>3, <2>1, <2>2, PlaceKept DEF PlaceInv, LoggedIn, ListedIssued
  <2>4. QED BY <1>3, <2>1, <2>3, NothingShown
<1>6. CASE p \notin actorVector[to[c]]
  <2>1. /\ listed' = [listed EXCEPT ![to[c]][k] = @ \union {p}]
        /\ \E due \in SUBSET (Players \intersect listed'[to[c]][k]) :
               /\ Update(due, greeted)
               /\ misled' = misled \union Misled(due) \union (greeted \ {c})
    BY <1>6 DEF EnterGame, EntersZone
  <2>2. /\ listed' \in [Zones -> [Sections -> SUBSET Actors]]
        /\ \A y \in Zones, i \in Sections : listed'[y][i] \subseteq listed[y][i] \union {p}
    BY <1>2, <2>1, ListedStep DEF PlaceInv, PlaceTypes
  <2>3. PlaceTypes'
    BY <1>1, <1>4, <2>2 DEF PlaceInv, PlaceTypes
  <2>4. PlaceInv'
    BY <1>1, <1>2, <1>3, <2>2, <2>3, PlaceKept DEF PlaceInv, LoggedIn, ListedIssued
  <2>5. PICK due \in SUBSET Players :
            /\ Update(due, greeted)
            /\ misled' = misled \union Misled(due) \union (greeted \ {c})
    BY <2>1
  <2>6. /\ Misled(due) \subseteq Clients /\ greeted \subseteq Clients
        /\ greeted \in SUBSET Owning
    BY DEF Misled, Owning, Online
  <2>7. misled \union Misled(due) \subseteq misled' /\ misled' \subseteq Clients
    BY <2>5, <2>6 DEF ViewInv, ViewTypes
  <2>8. ASSUME NEW d \in greeted \ misled'
        PROVE  d \notin objects[d] /\ stage'[d] \notin Unshown
    <3>1. d = c /\ d \in Owning \ misled
      BY <2>5, <2>6, <2>8
    <3>2. QED BY <1>1, <1>4, <3>1 DEF ViewInv, ShownBefore, Unshown
  <2> HIDE DEF greeted
  <2>9. QED BY <1>3, <2>4, <2>5, <2>6, <2>7, <2>8, UpdateShows
<1>7. QED BY <1>5, <1>6

(* A client that goes leaves nothing behind. *)
LEMMA DisconnectShows ==
  ASSUME SightInv, NEW c \in Clients, Disconnect(c)
  PROVE  SightInv'
<1> USE DEF SightInv
<1>1. /\ stage[c] \in {"offered", "in", "asked"}
      /\ stage' = [stage EXCEPT ![c] = "closing"]
      /\ to' = [to EXCEPT ![c] = EntryZone]
      /\ stragglers' \subseteq stragglers \union {<<c, zoneID[player[c]]>>}
      /\ objects' = [objects EXCEPT ![c] = {}]
      /\ duplicates' = duplicates \ {c} /\ misled' = misled \ {c}
      /\ UNCHANGED <<player, owner, viewer, zoneID, pos, listed, prevActors, excused>>
      /\ EntryZone \in Zones
  BY SightAssumption DEF Disconnect, playerVars, placeVars
<1>2. \A d \in Clients : /\ stage'[d] = IF d = c THEN "closing" ELSE stage[d]
                         /\ objects'[d] = IF d = c THEN {} ELSE objects[d]
  BY <1>1 DEF PlaceInv, PlaceTypes, ViewInv, ViewTypes
<1>3. Steady
  BY <1>1, <1>2 DEF Steady, Unset
<1>4. PlaceTypes'
  BY <1>1 DEF PlaceInv, PlaceTypes, Stages
<1>5. PlaceInv'
  BY <1>1, <1>3, <1>4, PlaceKept DEF PlaceInv, LoggedIn, ListedIssued
<1>6. /\ \A a : Id(a)' = Id(a)
      /\ Issued' = Issued
      /\ \A d \in Owning' : d \in Owning /\ d # c
      /\ \A d \in Served' : d \in Served /\ d # c
      /\ Owning \subseteq Clients /\ Served \subseteq Clients
  <2>1. \A d \in Online' : d \in Online /\ d # c
    BY <1>2 DEF Online
  <2>2. QED BY <1>1, <2>1 DEF Id, Issued, Owning, Online, Served
<1>7. ViewTypes' /\ KnownIssued' /\ OnlyMisledAddTwice'
  <2>1. objects' \in [Clients -> SUBSET (Clients \union Monsters)]
    BY <1>1 DEF ViewInv, ViewTypes
  <2>2. ViewTypes'
    BY <1>1, <2>1 DEF ViewInv, ViewTypes
  <2>3. QED BY <1>1, <1>2, <1>6, <2>2 DEF ViewInv, KnownIssued, OnlyMisledAddTwice
<1>8. \A d \in Owning' \ misled' : ShownBefore(d)'
  BY <1>1, <1>2, <1>6 DEF ViewInv, ShownBefore
<1>9. \A d \in Served' \ misled' : ShowsOnly(d)'
  BY <1>1, <1>2, <1>6 DEF ViewInv, ShowsOnly
<1>10. ShowsTheViewport'
  BY <1>1, <1>2, <1>6 DEF ViewInv, ShowsTheViewport
<1>11. QED BY <1>5, <1>7, <1>8, <1>9, <1>10 DEF ViewInv

(* A client that goes through a portal forgets what its viewport knows.    *)
LEMMA PortalShows ==
  ASSUME SightInv, NEW c \in Clients, NEW z \in Portals, EnterPortal(c, z)
  PROVE  SightInv'
<1> USE DEF SightInv
<1>1. /\ stage[c] = "in" /\ stage' = [stage EXCEPT ![c] = "asked"]
      /\ to' = [to EXCEPT ![c] = z]
      /\ objects' = [objects EXCEPT ![c] = {}]
      /\ excused' = [v \in Players |->
             IF v = player[c] /\ c \in Owning THEN prevActors[v] ELSE excused[v]]
      /\ UNCHANGED <<player, stragglers, owner, viewer, zoneID, pos, listed,
                     prevActors, duplicates, misled>>
      /\ z \in Zones
  BY SightAssumption DEF EnterPortal, playerVars, placeVars
<1>2. \A d \in Clients : /\ stage'[d] = IF d = c THEN "asked" ELSE stage[d]
                         /\ objects'[d] = IF d = c THEN {} ELSE objects[d]
  BY <1>1 DEF PlaceInv, PlaceTypes, ViewInv, ViewTypes
<1>3. Steady
  BY <1>1, <1>2 DEF Steady, Unset
<1>4. PlaceTypes'
  BY <1>1 DEF PlaceInv, PlaceTypes, Stages
<1>5. PlaceInv'
  BY <1>1, <1>3, <1>4, PlaceKept DEF PlaceInv, LoggedIn, ListedIssued
<1>6. /\ \A a : Id(a)' = Id(a)
      /\ Issued' = Issued
      /\ Owning' = Owning /\ Served' = Served
      /\ Owning \subseteq Clients /\ Served \subseteq Owning
      /\ \A d \in Owning : player[d] \in Players /\ owner[player[d]] = d
  <2>1. Online' = Online
    BY <1>1, <1>2 DEF Online
  <2>2. QED BY <1>1, <2>1 DEF Id, Issued, Owning, Online, Served
<1>7. ViewTypes' /\ KnownIssued' /\ OnlyMisledAddTwice'
  <2>1. objects' \in [Clients -> SUBSET (Clients \union Monsters)]
    BY <1>1 DEF ViewInv, ViewTypes
  <2>2. excused' \in [Players -> SUBSET Actors]
    BY <1>1 DEF ViewInv, ViewTypes
  <2>3. ViewTypes'
    BY <1>1, <2>1, <2>2 DEF ViewInv, ViewTypes
  <2>4. QED BY <1>1, <1>2, <1>6, <2>3 DEF ViewInv, KnownIssued, OnlyMisledAddTwice
<1>8. \A d \in Owning' \ misled' : ShownBefore(d)'
  BY <1>1, <1>2, <1>6 DEF ViewInv, ShownBefore
<1>9. \A d \in Served' \ misled' : ShowsOnly(d)'
  BY <1>1, <1>2, <1>6 DEF ViewInv, ShowsOnly
<1>10. ShowsTheViewport'
  <2>1. ASSUME NEW d \in Served \ duplicates, NEW a \in prevActors[player[d]] \ {player[d]}
        PROVE  a \in excused'[player[d]] \/ Id(a) \in objects'[d]
    <3>1. CASE d = c
      BY <1>1, <1>6, <2>1, <3>1
    <3>2. CASE d # c
      <4>1. ~(player[d] = player[c] /\ c \in Owning)
        BY <1>6, <2>1, <3>2
      <4>2. excused'[player[d]] = excused[player[d]] /\ objects'[d] = objects[d]
        BY <1>1, <1>2, <1>6, <2>1, <3>2, <4>1
      <4>3. QED BY <2>1, <4>2 DEF ViewInv, ShowsTheViewport
    <3>3. QED BY <3>1, <3>2
  <2>2. QED BY <1>1, <1>6, <2>1 DEF ShowsTheViewport
<1>11. QED BY <1>5, <1>7, <1>8, <1>9, <1>10 DEF ViewInv

(* A request, or a part of one, that sends nothing. *)
LEMMA RequestShows ==
  ASSUME SightInv, NEW c \in Clients, RequestEnterGame(c) \/ RequestTeleport(c)
  PROVE  SightInv'
<1> USE DEF SightInv
<1>1. CASE RequestEnterGame(c)
  <2>1. /\ stage[c] = "offered" /\ stage' = [stage EXCEPT ![c] = "pushed"]
        /\ UNCHANGED <<player, to, stragglers, owner, viewer, zoneID, pos, listed>>
        /\ UNCHANGED viewVars
    BY <1>1 DEF RequestEnterGame, playerVars, placeVars
  <2>2. Onward /\ Steady
    BY <2>1 DEF PlaceInv, PlaceTypes, Onward, Steady, Online, Unset, Unshown
  <2>3. PlaceTypes'
    BY <2>1 DEF PlaceInv, PlaceTypes, Stages
  <2>4. PlaceInv'
    BY <2>1, <2>2, <2>3, PlaceKept DEF PlaceInv, LoggedIn, ListedIssued
  <2>5. QED BY <2>1, <2>2, <2>4, NothingShown
<1>2. CASE RequestTeleport(c)
  <2>1. /\ stage[c] = "asked" /\ stage' = [stage EXCEPT ![c] = "leaving"]
        /\ zoneID' = [zoneID EXCEPT ![player[c]] = to[c]]
        /\ pos' = [pos EXCEPT ![player[c]] = Spawn]
        /\ stragglers' = stragglers \union
               {<<d, zoneID[player[c]]>> : d \in {e \in Clients :
                   player[e] = player[c] /\ stage[e] \in {"in", "asked"}}}
        /\ UNCHANGED <<player, to, owner, viewer, listed>>
        /\ UNCHANGED viewVars
    BY <1>2 DEF RequestTeleport, playerVars
  <2>2. Onward /\ Steady
    BY <2>1 DEF PlaceInv, PlaceTypes, Onward, Steady, Online, Unset, Unshown
  <2>3. PlaceTypes'
    BY <2>1, SightAssumption DEF PlaceInv, PlaceTypes, Stages
  <2>4. \A d \in Clients, z \in Zones : <<d, z>> \in stragglers' => stage[d] # "new"
    BY <2>1 DEF PlaceInv, LoggedIn
  <2>5. PlaceInv'
    BY <2>1, <2>2, <2>3, <2>4, PlaceKept DEF PlaceInv, ListedIssued
  <2>6. QED BY <2>1, <2>2, <2>5, NothingShown
<1>3. QED BY <1>1, <1>2

(* What is left: leaving, moving, asking, and what monsters do. *)
LEMMA QuietKeeps ==
  ASSUME PlaceInv, UNCHANGED <<wayVars, playerVars, zoneID, listed>>,
         pos' \in [Actors -> Cells]
  PROVE  PlaceInv' /\ Onward
<1>1. Onward /\ Steady
  BY DEF wayVars, playerVars, Onward, Steady, Online
<1>2. PlaceTypes'
  BY DEF wayVars, playerVars, PlaceInv, PlaceTypes
<1>3. QED BY <1>1, <1>2, PlaceKept DEF wayVars, PlaceInv, LoggedIn, ListedIssued

LEMMA QueuedIsIssued ==
  ASSUME PlaceInv, NEW c \in Clients, NEW z \in Zones, Queued(c, z)
  PROVE  player[c] \in Players /\ player[c] \in Issued
<1>1. stage[c] # "new"
  BY DEF Queued, PlaceInv, LoggedIn
<1>2. player[c] \in Players /\ owner[player[c]] \in Clients
  BY <1>1 DEF PlaceInv, LoggedIn
<1>3. QED BY <1>2 DEF Issued, Id, Actors

(* A despawn of a monster that has died. *)
LEMMA DeathShows ==
  ASSUME SightInv, NEW m \in Monsters, OnDead(m)
  PROVE  SightInv'
<1> USE DEF SightInv
<1>1. UNCHANGED <<wayVars, playerVars, zoneID, listed, pos>> /\ m \in Actors
  BY DEF OnDead, Actors
<1>2. PlaceInv' /\ Onward
  BY <1>1, QuietKeeps DEF PlaceInv, PlaceTypes
<1>3. QED BY <1>1, <1>2, DespawnShows DEF OnDead

LEMMA SightInvariant == Spec => []SightInv
<1>1. Init => SightInv
  <2> SUFFICES ASSUME Init PROVE SightInv
    OBVIOUS
  <2>1. /\ \A c \in Clients : stage[c] = "new" /\ objects[c] = {}
        /\ \A p \in Players : owner[p] = Nobody /\ viewer[p] = Nobody
        /\ \A v \in Players : prevActors[v] = {}
        /\ \A z \in Zones, k \in Sections : listed[z][k] = {}
        /\ stragglers = {} /\ duplicates = {} /\ Nobody \notin Clients
    BY SightAssumption DEF Init
  <2>2. PlaceTypes
    BY SightAssumption DEF Init, PlaceTypes, Stages, Actors
  <2>3. LoggedIn /\ ListedIssued
    BY <2>1 DEF LoggedIn, ListedIssued
  <2>4. Owning = {} /\ Served = {}
    BY <2>1 DEF Owning, Online, Served
  <2>5. ViewTypes
    BY DEF Init, ViewTypes
  <2>6. KnownIssued /\ OnlyMisledAddTwice /\ ShowsTheViewport
    BY <2>1, <2>4 DEF KnownIssued, OnlyMisledAddTwice, ShowsTheViewport
  <2>7. QED BY <2>2, <2>3, <2>4, <2>5, <2>6 DEF SightInv, PlaceInv, ViewInv
<1>2. SightInv /\ [Next]_vars => SightInv'
  <2> SUFFICES ASSUME SightInv, [Next]_vars PROVE SightInv'
    OBVIOUS
  <2> USE DEF SightInv
  <2>1. CASE \E c \in Clients :
                \/ \E p \in Players : Login(c, p)
                \/ RequestEnterGame(c) \/ SetViewport(c) \/ EnterGame(c)
                \/ Disconnect(c) \/ \E z \in Portals : EnterPortal(c, z)
                \/ RequestTeleport(c)
    BY <2>1, LoginShows, RequestShows, ViewportShows, EnterShows, DisconnectShows,
       PortalShows
  <2>2. ASSUME NEW c \in Clients, LeaveGame(c) \/ TeleportLeaves(c)
        PROVE  SightInv'
    <3>1. /\ \/ stage[c] = "closing" /\ stage' = [stage EXCEPT ![c] = "gone"]
             \/ stage[c] = "leaving" /\ stage' = [stage EXCEPT ![c] = "arriving"]
          /\ stragglers' \subseteq stragglers
          /\ UNCHANGED <<player, to, owner, viewer, zoneID, pos>>
          /\ LeavesZone(player[c], from[c])
      BY <2>2 DEF LeaveGame, TeleportLeaves
    <3>2. Onward
      BY <3>1 DEF PlaceInv, PlaceTypes, Onward, Steady, Online, Unset, Unshown
    <3>3. stage' \in [Clients -> Stages]
      BY <3>1 DEF PlaceInv, PlaceTypes, Stages
    <3>4. player[c] \in Players
      BY <3>1 DEF PlaceInv, LoggedIn
    <3>5. QED BY <3>1, <3>2, <3>3, <3>4, LeavingShows
  <2>3. ASSUME NEW c \in Clients, NEW z \in Zones, NEW dest \in Cells, PlayerMove(c, z, dest)
        PROVE  SightInv'
    BY <2>3, QueuedIsIssued, MovingShows DEF PlayerMove
  <2>4. ASSUME NEW m \in Monsters, NEW dest \in Cells, MonsterMove(m, dest)
        PROVE  SightInv'
    BY <2>4, IdsDiffer, MovingShows, SightAssumption DEF MonsterMove
  <2>5. ASSUME NEW c \in Clients, ViewportUpdate(c)
        PROVE  SightInv'
    <3>1. /\ UNCHANGED <<wayVars, playerVars, zoneID, listed, pos>>
          /\ Update({player[c]}, {})
          /\ misled' = misled \union Misled({player[c]})
          /\ player[c] \in Players
      BY <2>5, QueuedIsIssued DEF ViewportUpdate, placeVars
    <3>2. PlaceInv' /\ Onward
      BY <3>1, QuietKeeps DEF PlaceInv, PlaceTypes
    <3>3. misled \union Misled({player[c]}) \subseteq misled' /\ misled' \subseteq Clients
      BY <3>1 DEF Misled, Owning, Online, ViewInv, ViewTypes
    <3>4. QED BY <3>1, <3>2, <3>3, UpdateShows
  <2>6. ASSUME NEW c \in Clients, NEW m \in Monsters, HandleSkill(c, m)
        PROVE  SightInv'
    BY <2>6, DeathShows DEF HandleSkill
  <2>7. ASSUME NEW m \in Monsters, NpcSpawn(m) \/ NpcMove(m)
        PROVE  SightInv'
    <3>1. UNCHANGED <<wayVars, playerVars, zoneID, listed, pos>> /\ UNCHANGED viewVars
      BY <2>7 DEF NpcSpawn, NpcMove
    <3>2. PlaceInv' /\ Onward
      BY <3>1, QuietKeeps DEF PlaceInv, PlaceTypes
    <3>3. QED BY <3>1, <3>2, NothingShown
  <2>8. ASSUME NEW k \in Sections, NpcMoveNotice(k)
        PROVE  SightInv'
    <3>1. /\ UNCHANGED <<wayVars, playerVars, zoneID, listed, pos>>
          /\ PlayerViewportUpdate(MonsterZone, k)
          /\ MonsterZone \in Zones
      BY <2>8, SightAssumption DEF NpcMoveNotice, placeVars
    <3>2. PlaceInv' /\ Onward
      BY <3>1, QuietKeeps DEF PlaceInv, PlaceTypes
    <3>3. QED BY <3>1, <3>2, SectionShows
  <2>9. CASE UNCHANGED vars
    <3>1. UNCHANGED <<wayVars, playerVars, zoneID, listed, pos>> /\ UNCHANGED viewVars
      BY <2>9 DEF vars, placeVars
    <3>2. PlaceInv' /\ Onward
      BY <3>1, QuietKeeps DEF PlaceInv, PlaceTypes
    <3>3. QED BY <3>1, <3>2, NothingShown
  <2>10. QED BY <2>1, <2>2, <2>3, <2>4, <2>5, <2>6, <2>7, <2>8, <2>9 DEF Next
<1>3. QED BY <1>1, <1>2, PTL DEF Spec

(* OnlyMisledAddTwice: no client is told to add an object that it has,     *)
(* which ObjectManager.Add would answer with an exception, unless it was   *)
(* sent what was another's.                                                *)
THEOREM OnlyTheMisledAddTwice == Spec => []OnlyMisledAddTwice
<1>1. SightInv => OnlyMisledAddTwice
  BY DEF SightInv, ViewInv
<1>2. QED BY <1>1, SightInvariant, PTL

(* ShowsOnlyTheViewport: whoever has the id of an object that such a       *)
(* client shows is in its viewport, or its own player, so that the client  *)
(* will be told when it goes.                                              *)
THEOREM ShownIsInTheViewport == Spec => []ShowsOnlyTheViewport
<1>1. SightInv => ShowsOnlyTheViewport
  BY DEF SightInv, ViewInv, ShowsOnly, ShowsOnlyTheViewport, IdsOf
<1>2. QED BY <1>1, SightInvariant, PTL

(* ShowsTheViewport: whoever is in a client's viewport is shown to it, but *)
(* for those it was not told of, or told have gone, or has forgotten in a  *)
(* portal, or whose Player object is another login's now.                  *)
THEOREM ViewportIsShown == Spec => []ShowsTheViewport
<1>1. SightInv => ShowsTheViewport
  BY DEF SightInv, ViewInv
<1>2. QED BY <1>1, SightInvariant, PTL
-----------------------------------------------------------------------------
(* As long as nobody goes through a portal, and no EnterGame is called     *)
(* before the viewport is made, a player is one client's, from the login   *)
(* to the LeaveGame, ...                                                   *)
OrderlyClients ==
    \A c \in Clients :
        /\ stage[c] \in {"new", "offered", "pushed", "waiting", "in", "closing", "gone"}
        /\ stage[c] \notin {"new", "gone"} => owner[player[c]] = c /\ pool[player[c]] = 0
        /\ stage[c] \in {"waiting", "in"} => viewer[player[c]] = c
        /\ stage[c] = "in" => player[c] \in actorVector[EntryZone]
        /\ stage[c] = "closing" => from[c] = EntryZone
        /\ to[c] = EntryZone
        /\ \A z \in Zones : <<c, z>> \in stragglers =>
               stage[c] = "closing" /\ z = EntryZone /\ player[c] \in actorVector[EntryZone]

(* ... and listed nowhere but where it stands, and not before it is in the *)
(* game.                                                                   *)
OrderlyPlayers ==
    \A p \in Players :
        /\ pool[p] \in {0, 1}
        /\ zoneID[p] = EntryZone
        /\ \A z \in Zones, k \in Sections : p \in listed[z][k] =>
               /\ z = EntryZone /\ k = SectionOf[pos[p]]
               /\ p \in actorVector[EntryZone]
               /\ stage[owner[p]] \in {"in", "closing"}

OrderlyTypes ==
    /\ actorVector \in [Zones -> SUBSET Actors]
    /\ pool \in [Players -> Nat]
    /\ from \in [Clients -> Zones]

Orderly == OrderlyTypes /\ OrderlyClients /\ OrderlyPlayers

OrderInv ==
    /\ teleports \in Nat
    /\ teleports = 0 /\ ~raced => Orderly /\ misled = {}

(* Then whoever is listed is told its own. *)
LEMMA NobodyMisled ==
  ASSUME PlaceInv', Orderly', UNCHANGED <<owner, viewer, player>>,
         \A c \in Online : stage'[c] # "closing",
         NEW z \in Zones, NEW k \in Sections,
         NEW due \in SUBSET (Players \intersect listed'[z][k])
  PROVE  Misled(due) = {}
<1>1. ASSUME NEW c \in Owning \ Served, player[c] \in due
      PROVE  FALSE
  <2>1. /\ c \in Clients /\ player[c] \in Players /\ owner[player[c]] = c
        /\ player[c] \in listed'[z][k] /\ stage'[c] # "closing"
    BY <1>1 DEF Owning, Online
  <2>2. stage'[c] = "in"
    BY <2>1 DEF Orderly, OrderlyPlayers
  <2>3. viewer[player[c]] = c
    BY <2>1, <2>2 DEF Orderly, OrderlyClients
  <2>4. QED BY <1>1, <2>3 DEF Served
<1>2. QED BY <1>1 DEF Misled

(* Whoever is listed has been given to a client. *)
LEMMA ListedOwner ==
  ASSUME PlaceInv, NEW p \in Players, NEW z \in Zones, NEW k \in Sections,
         p \in listed[z][k]
  PROVE  owner[p] \in Clients /\ player[owner[p]] = p
<1>1. p \in Issued
  BY DEF PlaceInv, ListedIssued
<1>2. owner[p] \in Clients \union {Nobody} /\ owner[p] \in Clients \union Monsters
  BY <1>1 DEF Issued, Id, PlaceInv, PlaceTypes
<1>3. owner[p] \in Clients
  BY <1>2, SightAssumption DEF Actors
<1>4. QED BY <1>3 DEF PlaceInv, LoggedIn

(* A section refreshed in such a state. *)
LEMMA SectionTellsOwn ==
  ASSUME PlaceInv', Orderly', misled = {}, UNCHANGED <<owner, viewer, player, stage>>,
         NEW z \in Zones, NEW k \in Sections, PlayerViewportUpdate(z, k)
  PROVE  misled' = {}
<1>1. PICK due \in SUBSET (Players \intersect listed'[z][k]) :
          misled' = misled \union Misled(due)
  BY DEF PlayerViewportUpdate
<1>2. QED BY <1>1, NobodyMisled DEF Online

LEMMA LoginOrderly ==
  ASSUME SightInv, Orderly, NEW c \in Clients, NEW p \in Players, Login(c, p)
  PROVE  Orderly'
<1> USE DEF SightInv, Orderly
<1>1. /\ stage[c] = "new" /\ pool[p] > 0
      /\ pool' = [pool EXCEPT ![p] = pool[p] - 1]
      /\ stage' = [stage EXCEPT ![c] = "offered"]
      /\ player' = [player EXCEPT ![c] = p]
      /\ owner' = [owner EXCEPT ![p] = c]
      /\ zoneID' = [zoneID EXCEPT ![p] = EntryZone]
      /\ pos' = [pos EXCEPT ![p] = Spawn]
      /\ UNCHANGED <<to, from, viewer, actorVector, listed>>
  BY DEF Login, MovesTo
<1>2. zoneID[p] = EntryZone /\ stragglers' = stragglers
  BY DEF Login, MovesTo, OrderlyPlayers
<1>3. pool[p] = 1 /\ pool' \in [Players -> Nat] /\ pool'[p] = 0
  BY <1>1 DEF OrderlyPlayers, OrderlyTypes
<1>4. \A d \in Clients : stage[d] \notin {"new", "gone"} => player[d] # p /\ d # c
  BY <1>1 DEF OrderlyClients
<1>5. ASSUME NEW z \in Zones, NEW k \in Sections, p \in listed[z][k]
      PROVE  FALSE
  <2>1. owner[p] \in Clients /\ player[owner[p]] = p
    BY <1>5, ListedOwner
  <2>2. stage[owner[p]] \in {"in", "closing"}
    BY <1>5 DEF OrderlyPlayers
  <2>3. QED BY <1>4, <2>1, <2>2
<1>6. \A d \in Clients : /\ stage'[d] = IF d = c THEN "offered" ELSE stage[d]
                         /\ player'[d] = IF d = c THEN p ELSE player[d]
  BY <1>1 DEF PlaceInv, PlaceTypes
<1>7. \A q \in Players : /\ owner'[q] = IF q = p THEN c ELSE owner[q]
                         /\ q # p => pool'[q] = pool[q] /\ pos'[q] = pos[q]
                         /\ zoneID'[q] = EntryZone
  BY <1>1, <1>2 DEF OrderlyPlayers, OrderlyTypes, PlaceInv, PlaceTypes, Actors
<1>8. OrderlyClients'
  <2>1. ASSUME NEW d \in Clients, d # c
        PROVE  stage'[d] \notin {"new", "gone"} =>
                   owner'[player'[d]] = d /\ pool'[player'[d]] = 0
    BY <1>4, <1>6, <1>7, <2>1 DEF OrderlyClients, PlaceInv, LoggedIn
  <2>2. QED BY <1>1, <1>2, <1>3, <1>6, <1>7, <2>1 DEF OrderlyClients
<1>9. OrderlyPlayers'
  <2>1. ASSUME NEW q \in Players, q # p, NEW z \in Zones, NEW k \in Sections, q \in listed[z][k]
        PROVE  /\ z = EntryZone /\ k = SectionOf[pos'[q]]
               /\ q \in actorVector[EntryZone] /\ stage'[owner'[q]] \in {"in", "closing"}
    <3>1. /\ z = EntryZone /\ k = SectionOf[pos[q]]
          /\ q \in actorVector[EntryZone] /\ stage[owner[q]] \in {"in", "closing"}
      BY <2>1 DEF OrderlyPlayers
    <3>2. owner[q] # c /\ owner[q] \in Clients
      BY <1>1, <2>1, <3>1, ListedOwner
    <3>3. stage'[owner[q]] = stage[owner[q]]
      BY <1>6, <3>2
    <3>4. QED BY <1>7, <2>1, <3>1, <3>3
  <2>2. QED BY <1>1, <1>3, <1>5, <1>7, <2>1 DEF OrderlyPlayers
<1>10. QED BY <1>1, <1>3, <1>8, <1>9 DEF OrderlyTypes

(* The handler of RequestEnterGame, and a disconnect. *)
LEMMA ClientOrderly ==
  ASSUME SightInv, Orderly, NEW c \in Clients,
         RequestEnterGame(c) \/ SetViewport(c) \/ Disconnect(c)
  PROVE  Orderly'
<1> USE DEF SightInv, Orderly
<1>1. /\ stage[c] \notin {"new", "gone"} /\ player[c] \in Players /\ owner[player[c]] = c
      /\ zoneID[player[c]] = EntryZone /\ EntryZone \in Zones /\ stage[c] # "raced"
  <2>1. stage[c] \notin {"new", "gone"} /\ stage[c] # "raced"
    BY DEF RequestEnterGame, SetViewport, Disconnect, OrderlyClients
  <2>2. player[c] \in Players
    BY <2>1 DEF PlaceInv, LoggedIn
  <2>3. QED BY <2>1, <2>2, SightAssumption DEF OrderlyClients, OrderlyPlayers
<1>2. /\ UNCHANGED <<player, owner, pool, pos, actorVector, listed>>
      /\ to' = to \/ to' = [to EXCEPT ![c] = EntryZone]
      /\ from' = from \/ from' = [from EXCEPT ![c] = EntryZone]
      /\ zoneID' = zoneID \/ zoneID' = [zoneID EXCEPT ![player[c]] = EntryZone]
      /\ viewer' = viewer \/ viewer' = [viewer EXCEPT ![player[c]] = c]
  BY <1>1 DEF RequestEnterGame, SetViewport, Disconnect, MovesTo, playerVars, placeVars
<1>3. \/ /\ stage[c] = "offered" /\ stage' = [stage EXCEPT ![c] = "pushed"]
         /\ UNCHANGED <<stragglers, viewer>>
      \/ /\ stage[c] = "pushed" /\ stage' = [stage EXCEPT ![c] = "waiting"]
         /\ stragglers' = stragglers /\ viewer' = [viewer EXCEPT ![player[c]] = c]
      \/ /\ stage[c] \in {"offered", "in"} /\ stage' = [stage EXCEPT ![c] = "closing"]
         /\ stragglers' = IF stage[c] = "offered" THEN stragglers
                          ELSE stragglers \union {<<c, EntryZone>>}
         /\ from' = [from EXCEPT ![c] = EntryZone] /\ viewer' = viewer
  <2>1. CASE RequestEnterGame(c)
    BY <2>1 DEF RequestEnterGame, playerVars
  <2>2. CASE SetViewport(c)
    BY <1>1, <2>2 DEF SetViewport, MovesTo
  <2>3. CASE Disconnect(c)
    <3>1. stage[c] # "asked"
      BY DEF OrderlyClients
    <3>2. QED BY <1>1, <2>3, <3>1 DEF Disconnect, playerVars
  <2>4. QED BY <2>1, <2>2, <2>3
<1>4. /\ from' \in [Clients -> Zones]
      /\ \A d \in Clients \ {c} : stage'[d] = stage[d] /\ from'[d] = from[d]
      /\ \A d \in Clients : to'[d] = EntryZone
  <2>1. from' \in [Clients -> Zones]
    BY <1>1, <1>2 DEF OrderlyTypes
  <2>2. ASSUME NEW d \in Clients \ {c}
        PROVE  stage'[d] = stage[d] /\ from'[d] = from[d]
    BY <1>2, <1>3 DEF OrderlyTypes, PlaceInv, PlaceTypes
  <2>3. \A d \in Clients : to'[d] = EntryZone
    BY <1>2 DEF OrderlyClients, PlaceInv, PlaceTypes
  <2>4. QED BY <2>1, <2>2, <2>3
<1>5. ASSUME NEW d \in Clients, stage'[d] \in {"waiting", "in"}
      PROVE  viewer'[player[d]] = d
  <2>1. CASE d = c
    BY <1>1, <1>3, <1>5, <2>1 DEF PlaceInv, PlaceTypes
  <2>2. CASE d # c
    <3>1. stage[d] \in {"waiting", "in"}
      BY <1>4, <1>5, <2>2
    <3>2. owner[player[d]] = d /\ viewer[player[d]] = d /\ player[d] \in Players
      BY <3>1 DEF OrderlyClients, PlaceInv, LoggedIn
    <3>3. player[d] # player[c]
      BY <1>1, <2>2, <3>2
    <3>4. viewer \in [Players -> Clients \union {Nobody}]
      BY DEF PlaceInv, PlaceTypes
    <3>5. QED BY <1>2, <3>2, <3>3, <3>4
  <2>3. QED BY <2>1, <2>2
<1>6. ASSUME NEW d \in Clients, NEW z \in Zones, <<d, z>> \in stragglers'
      PROVE  stage'[d] = "closing" /\ z = EntryZone /\ player[d] \in actorVector[EntryZone]
  <2>1. CASE <<d, z>> \in stragglers
    BY <1>3, <1>4, <1>6, <2>1 DEF OrderlyClients
  <2>2. CASE <<d, z>> \notin stragglers
    <3>1. stage[c] = "in" /\ stage' = [stage EXCEPT ![c] = "closing"] /\ d = c /\ z = EntryZone
      BY <1>3, <1>6, <2>2
    <3>2. QED BY <3>1 DEF OrderlyClients, PlaceInv, PlaceTypes
  <2>3. QED BY <2>1, <2>2
<1>7. /\ stage'[c] \in {"pushed", "waiting", "closing"}
      /\ stage'[c] = "closing" => from'[c] = EntryZone
      /\ stage[c] \in {"in", "closing"} => stage'[c] = "closing"
  BY <1>3 DEF PlaceInv, PlaceTypes, OrderlyTypes
<1>8. OrderlyClients'
  <2>1. \A d \in Clients : stage'[d] \notin {"new", "gone"} => stage[d] \notin {"new", "gone"}
    BY <1>1, <1>4
  <2>2. QED BY <1>2, <1>4, <1>5, <1>6, <1>7, <2>1 DEF OrderlyClients
<1>9. OrderlyPlayers'
  <2>1. \A p \in Players : zoneID'[p] = EntryZone
    BY <1>2 DEF OrderlyPlayers, PlaceInv, PlaceTypes, Actors
  <2>2. \A d \in Clients : stage[d] \in {"in", "closing"} => stage'[d] \in {"in", "closing"}
    BY <1>4, <1>7
  <2>3. \A p \in Players, z \in Zones, k \in Sections :
            p \in listed[z][k] => owner[p] \in Clients
    BY ListedOwner
  <2>4. QED BY <1>2, <2>1, <2>2, <2>3 DEF OrderlyPlayers
<1>10. QED BY <1>2, <1>4, <1>8, <1>9 DEF OrderlyTypes

(* EnterGame lists the player where it stands, and greets its client. *)
LEMMA EnterOrderly ==
  ASSUME SightInv, PlaceInv', Orderly, misled = {}, NEW c \in Clients, EnterGame(c),
         stage[c] # "pushed"
  PROVE  Orderly' /\ misled' = {}
<1> DEFINE p == player[c]
           k == SectionOf[pos[p]]
<1> USE DEF SightInv
<1>1. /\ stage[c] = "waiting" /\ to[c] = EntryZone /\ EntryZone \in Zones
      /\ p \in Players /\ owner[p] = c /\ viewer[p] = c
      /\ p \in Actors /\ zoneID[p] = EntryZone /\ k \in Sections
  <2>1. stage[c] = "waiting" /\ to[c] = EntryZone
    BY DEF EnterGame, Orderly, OrderlyClients
  <2>2. p \in Players
    BY <2>1 DEF PlaceInv, LoggedIn
  <2>3. owner[p] = c /\ viewer[p] = c
    BY <2>1 DEF Orderly, OrderlyClients
  <2>4. zoneID[p] = EntryZone /\ p \in Actors
    BY <2>2 DEF Orderly, OrderlyPlayers, Actors
  <2>5. k \in Sections /\ EntryZone \in Zones
    BY <2>4, SightAssumption DEF PlaceInv, PlaceTypes
  <2>6. QED BY <2>5, <2>1, <2>2, <2>3, <2>4
<1>2. /\ stage' = [stage EXCEPT ![c] = "in"]
      /\ to' = [to EXCEPT ![c] = EntryZone]
      /\ stragglers' \subseteq stragglers
      /\ UNCHANGED <<player, from, owner, viewer, pool, zoneID, pos>>
  BY <1>1 DEF EnterGame, playerVars
<1>3. \/ /\ p \in actorVector[EntryZone]
         /\ UNCHANGED <<actorVector, listed, misled>>
      \/ /\ actorVector' = [actorVector EXCEPT ![EntryZone] = @ \union {p}]
         /\ listed' = [listed EXCEPT ![EntryZone][k] = @ \union {p}]
         /\ \E due \in SUBSET (Players \intersect listed'[EntryZone][k]) :
                misled' = misled \union Misled(due) \union ((Owning \intersect {owner[p]}) \ {c})
  BY <1>1 DEF EnterGame, EntersZone, viewVars
<1>4. /\ actorVector' \in [Zones -> SUBSET Actors]
      /\ p \in actorVector'[EntryZone]
      /\ actorVector[EntryZone] \subseteq actorVector'[EntryZone]
  BY <1>1, <1>3 DEF Orderly, OrderlyTypes
<1>5. /\ stage'[c] = "in" /\ to'[c] = EntryZone
      /\ \A d \in Clients : d # c => stage'[d] = stage[d]
      /\ \A d \in Clients : to'[d] = EntryZone
  BY <1>2 DEF PlaceInv, PlaceTypes, Orderly, OrderlyClients
<1>6. OrderlyClients'
  BY <1>1, <1>2, <1>4, <1>5 DEF Orderly, OrderlyClients
<1>7. ASSUME NEW q \in Players, NEW z \in Zones, NEW j \in Sections, q \in listed'[z][j]
      PROVE  /\ z = EntryZone /\ j = SectionOf[pos[q]]
             /\ q \in actorVector'[EntryZone] /\ stage'[owner[q]] \in {"in", "closing"}
  <2>1. q \in listed[z][j] \/ (q = p /\ z = EntryZone /\ j = k)
    BY <1>1, <1>3, <1>7 DEF PlaceInv, PlaceTypes
  <2>2. CASE q \in listed[z][j]
    BY <1>4, <1>5, <2>2, ListedOwner DEF Orderly, OrderlyPlayers
  <2>3. CASE q = p /\ z = EntryZone /\ j = k
    BY <1>1, <1>4, <1>5, <2>3
  <2>4. QED BY <2>1, <2>2, <2>3
<1>8. Orderly'
  <2>1. OrderlyPlayers'
    BY <1>2, <1>7 DEF Orderly, OrderlyPlayers
  <2>2. QED BY <1>2, <1>4, <1>6, <2>1 DEF Orderly, OrderlyTypes
<1>9. misled' = {}
  <2>1. \A d \in Online : stage'[d] # "closing"
    BY <1>5 DEF Online
  <2>2. ASSUME NEW due \in SUBSET (Players \intersect listed'[EntryZone][k])
        PROVE  Misled(due) = {}
    BY <1>1, <1>2, <1>8, <2>1, NobodyMisled
  <2> HIDE DEF k, p
  <2>3. QED BY <1>1, <1>3, <2>2
<1>10. QED BY <1>8, <1>9

(* A player that moves is in the game, or its client has just gone. *)
LEMMA MoveOrderly ==
  ASSUME SightInv, PlaceInv', Orderly, misled = {}, NEW a \in Actors, NEW z \in Zones,
         NEW dest \in Cells, HandleMove(a, z, dest),
         a \in Players => /\ owner[a] \in Clients
                          /\ stage[owner[a]] \in {"in", "closing"}
                          /\ a \in actorVector[EntryZone]
  PROVE  Orderly' /\ misled' = {}
<1> USE DEF SightInv
<1>1. /\ UNCHANGED <<stage, player, from, to, stragglers, owner, viewer, pool,
                     zoneID, actorVector>>
      /\ pos' = [pos EXCEPT ![a] = dest]
      /\ SectionOf[dest] \in Sections
  BY SightAssumption DEF HandleMove, wayVars, playerVars
<1>2. pos'[a] = dest /\ \A b \in Actors \ {a} : pos'[b] = pos[b]
  BY <1>1 DEF PlaceInv, PlaceTypes
<1>3. ASSUME NEW q \in Players, NEW y \in Zones, NEW j \in Sections, q \in listed'[y][j]
      PROVE  /\ y = EntryZone /\ j = SectionOf[pos'[q]]
             /\ q \in actorVector[EntryZone] /\ stage[owner[q]] \in {"in", "closing"}
  <2> DEFINE x == zoneID[a]
             h == SectionOf[pos[a]]
             i == SectionOf[dest]
  <2>1. x \in Zones /\ h \in Sections /\ i \in Sections
    BY <1>1, SightAssumption DEF PlaceInv, PlaceTypes
  <2>2. IF i = h THEN listed' = listed
        ELSE listed' = [listed EXCEPT ![x][h] = @ \ {a}, ![x][i] = @ \union {a}]
    BY DEF HandleMove
  <2>3. q \in Players => q \in Actors
    BY DEF Actors
  <2>4. q = a => x = EntryZone
    BY DEF Orderly, OrderlyPlayers
  <2>5. q \in listed[y][j] =>
            /\ y = EntryZone /\ j = SectionOf[pos[q]]
            /\ q \in actorVector[EntryZone] /\ stage[owner[q]] \in {"in", "closing"}
    BY DEF Orderly, OrderlyPlayers
  <2>6. listed \in [Zones -> [Sections -> SUBSET Actors]]
    BY DEF PlaceInv, PlaceTypes
  <2>7. CASE q # a
    <3>1. q \in listed[y][j]
      <4> HIDE DEF x, h, i
      <4>1. QED BY ONLY <1>3, <2>1, <2>2, <2>6, <2>7
    <3>2. QED BY <1>2, <2>3, <2>5, <2>7, <3>1
  <2>8. CASE q = a
    <3>1. \/ q \in listed[y][j] /\ (i = h \/ y # x \/ j # h)
          \/ y = x /\ j = i
      <4> HIDE DEF x, h, i
      <4>1. QED BY ONLY <1>3, <2>1, <2>2, <2>6, <2>8
    <3>2. y = EntryZone /\ j = i
      BY <2>4, <2>5, <2>8, <3>1
    <3>3. QED BY <1>2, <2>8, <3>2
  <2>9. QED BY <2>7, <2>8
<1>4. Orderly'
  <2>1. OrderlyClients'
    BY <1>1 DEF Orderly, OrderlyClients
  <2>2. OrderlyPlayers'
    BY <1>1, <1>3 DEF Orderly, OrderlyPlayers
  <2>3. QED BY <1>1, <2>1, <2>2 DEF Orderly, OrderlyTypes
<1>5. PlayerViewportUpdate(z, SectionOf[dest])
  BY DEF HandleMove
<1>6. QED BY <1>1, <1>4, <1>5, SectionTellsOwn

(* LeaveGame leaves the player listed nowhere, and nothing of its client   *)
(* waiting.                                                                *)
LEMMA LeaveOrderly ==
  ASSUME SightInv, Orderly, misled = {}, NEW c \in Clients, LeaveGame(c)
  PROVE  Orderly' /\ misled' = {}
<1> DEFINE p == player[c]
           k == SectionOf[pos[p]]
<1> USE DEF SightInv
<1>1. /\ stage[c] = "closing" /\ from[c] = EntryZone /\ EntryZone \in Zones
      /\ p \in Players /\ owner[p] = c /\ pool[p] = 0 /\ zoneID[p] = EntryZone
      /\ p \in Actors /\ k \in Sections
  <2>1. stage[c] = "closing"
    BY DEF LeaveGame
  <2>2. p \in Players
    BY <2>1 DEF PlaceInv, LoggedIn
  <2>3. owner[p] = c /\ pool[p] = 0 /\ from[c] = EntryZone
    BY <2>1 DEF Orderly, OrderlyClients
  <2>4. zoneID[p] = EntryZone /\ p \in Actors
    BY <2>2 DEF Orderly, OrderlyPlayers, Actors
  <2>5. k \in Sections /\ EntryZone \in Zones
    BY <2>4, SightAssumption DEF PlaceInv, PlaceTypes
  <2>6. QED BY <2>5, <2>1, <2>2, <2>3, <2>4
<1>2. /\ stage' = [stage EXCEPT ![c] = "gone"]
      /\ from' = [from EXCEPT ![c] = EntryZone]
      /\ stragglers' = stragglers \ {<<c, EntryZone>>}
      /\ UNCHANGED <<player, to, owner, viewer, zoneID, pos>>
  BY <1>1 DEF LeaveGame
<1>3. /\ UNCHANGED misled
      /\ \/ /\ p \notin actorVector[EntryZone]
            /\ UNCHANGED <<actorVector, pool, listed>>
         \/ /\ actorVector' = [actorVector EXCEPT ![EntryZone] = @ \ {p}]
            /\ pool' = [pool EXCEPT ![p] = pool[p] + 1]
            /\ listed' = [listed EXCEPT ![EntryZone][k] = @ \ {p}]
  BY <1>1 DEF LeaveGame, LeavesZone, Unlisted, BroadCastDespawn, viewVars
<1> HIDE DEF p, k
<1>4. /\ actorVector' \in [Zones -> SUBSET Actors]
      /\ pool' \in [Players -> Nat] /\ pool'[p] \in {0, 1}
      /\ \A q \in Players \ {p} : /\ pool'[q] = pool[q]
                                  /\ q \in actorVector[EntryZone] => q \in actorVector'[EntryZone]
      /\ from' \in [Clients -> Zones]
  <2>1. actorVector' \in [Zones -> SUBSET Actors] /\ from' \in [Clients -> Zones]
    BY <1>1, <1>2, <1>3 DEF Orderly, OrderlyTypes
  <2>2. pool' \in [Players -> Nat] /\ pool'[p] \in {0, 1}
    BY <1>1, <1>3 DEF Orderly, OrderlyTypes
  <2>3. \A q \in Players \ {p} : /\ pool'[q] = pool[q]
                                 /\ q \in actorVector[EntryZone] => q \in actorVector'[EntryZone]
    BY <1>1, <1>3 DEF Orderly, OrderlyTypes
  <2>4. QED BY <2>1, <2>2, <2>3
<1>5. /\ stage'[c] = "gone"
      /\ \A d \in Clients : d # c => stage'[d] = stage[d] /\ from'[d] = from[d]
  BY <1>2 DEF PlaceInv, PlaceTypes, Orderly, OrderlyTypes
<1>6. \A d \in Clients : d # c /\ stage[d] \notin {"new", "gone"} =>
          player[d] \in Players \ {p}
  BY <1>1 DEF Orderly, OrderlyClients, PlaceInv, LoggedIn
<1>7. OrderlyClients'
  <2>1. ASSUME NEW d \in Clients, NEW z \in Zones, <<d, z>> \in stragglers'
        PROVE  /\ stage'[d] = "closing" /\ z = EntryZone
               /\ player[d] \in actorVector'[EntryZone]
    <3>1. /\ stage[d] = "closing" /\ z = EntryZone
          /\ player[d] \in actorVector[EntryZone] /\ d # c
      BY <1>2, <2>1 DEF Orderly, OrderlyClients
    <3>2. QED BY <1>4, <1>5, <1>6, <3>1
  <2>2. QED BY <1>2, <1>4, <1>5, <1>6, <2>1 DEF Orderly, OrderlyClients
<1>8. ASSUME NEW q \in Players, NEW z \in Zones, NEW j \in Sections, q \in listed'[z][j]
      PROVE  /\ z = EntryZone /\ j = SectionOf[pos[q]]
             /\ q \in actorVector'[EntryZone] /\ stage'[owner[q]] \in {"in", "closing"}
  <2>1. q \in listed[z][j] /\ (q = p => z # EntryZone \/ j # k \/ p \notin actorVector[EntryZone])
    BY <1>1, <1>3, <1>8 DEF PlaceInv, PlaceTypes
  <2>2. /\ z = EntryZone /\ j = SectionOf[pos[q]]
        /\ q \in actorVector[EntryZone] /\ stage[owner[q]] \in {"in", "closing"}
    BY <2>1 DEF Orderly, OrderlyPlayers
  <2>3. q # p
    BY <2>1, <2>2 DEF k
  <2>4. owner[q] \in Clients /\ owner[q] # c
    BY <1>1, <2>1, <2>3, ListedOwner DEF p
  <2>5. QED BY <1>4, <1>5, <2>2, <2>3, <2>4
<1>9. OrderlyPlayers'
  BY <1>2, <1>4, <1>8 DEF Orderly, OrderlyPlayers
<1>10. QED BY <1>3, <1>4, <1>7, <1>9 DEF Orderly, OrderlyTypes

(* Requests wait only of clients in the game, or that have just gone. *)
LEMMA QueuedIsOrderly ==
  ASSUME SightInv, Orderly, NEW c \in Clients, NEW z \in Zones, Queued(c, z)
  PROVE  /\ player[c] \in Players /\ owner[player[c]] = c
         /\ stage[c] \in {"in", "closing"}
         /\ player[c] \in actorVector[EntryZone]
<1>1. stage[c] \in {"in", "closing"} /\ player[c] \in actorVector[EntryZone]
  BY DEF Queued, Orderly, OrderlyClients
<1>2. player[c] \in Players
  BY <1>1 DEF SightInv, PlaceInv, LoggedIn
<1>3. QED BY <1>1, <1>2 DEF Orderly, OrderlyClients

LEMMA QuietOrderly ==
  ASSUME Orderly, UNCHANGED <<wayVars, playerVars, zoneID, pos, actorVector, listed>>
  PROVE  Orderly'
BY DEF wayVars, playerVars, Orderly, OrderlyTypes, OrderlyClients, OrderlyPlayers

(* Portals are counted one by one, and raced changes with an EnterGame.    *)
LEMMA CountsGrow ==
  ASSUME [Next]_vars
  PROVE  /\ teleports' = teleports \/ teleports' = teleports + 1
         /\ raced' = raced \/ \E c \in Clients : EnterGame(c)
<1>1. ASSUME NEW c \in Clients,
             \/ \E p \in Players : Login(c, p)
             \/ RequestEnterGame(c) \/ SetViewport(c)
             \/ Disconnect(c) \/ LeaveGame(c)
      PROVE  UNCHANGED <<teleports, raced>>
  BY <1>1 DEF Login, RequestEnterGame, SetViewport, Disconnect, LeaveGame
<1>2. ASSUME NEW c \in Clients, EnterGame(c)
      PROVE  UNCHANGED teleports
  BY <1>2 DEF EnterGame
<1>3. ASSUME NEW c \in Clients, NEW z \in Portals, EnterPortal(c, z)
      PROVE  teleports' = teleports + 1 /\ raced' = raced
  BY <1>3 DEF EnterPortal
<1>4. ASSUME NEW c \in Clients, RequestTeleport(c) \/ TeleportLeaves(c)
      PROVE  UNCHANGED <<teleports, raced>>
  BY <1>4 DEF RequestTeleport, TeleportLeaves
<1>5. ASSUME \/ \E c \in Clients, z \in Zones, dest \in Cells : PlayerMove(c, z, dest)
             \/ \E m \in Monsters, dest \in Cells : MonsterMove(m, dest)
      PROVE  UNCHANGED <<teleports, raced>>
  BY <1>5 DEF PlayerMove, MonsterMove, HandleMove, wayVars
<1>6. ASSUME \/ \E c \in Clients : ViewportUpdate(c)
             \/ \E c \in Clients, m \in Monsters : HandleSkill(c, m)
      PROVE  UNCHANGED <<teleports, raced>>
  BY <1>6 DEF ViewportUpdate, HandleSkill, OnDead, wayVars
<1>7. ASSUME \/ \E m \in Monsters : NpcSpawn(m) \/ NpcMove(m)
             \/ \E k \in Sections : NpcMoveNotice(k)
      PROVE  UNCHANGED <<teleports, raced>>
  BY <1>7 DEF NpcSpawn, NpcMove, NpcMoveNotice, wayVars
<1>8. CASE UNCHANGED vars
  BY <1>8 DEF vars, wayVars
<1>9. QED BY <1>1, <1>2, <1>3, <1>4, <1>5, <1>6, <1>7, <1>8 DEF Next

LEMMA OrderInvariant == Spec => []OrderInv
<1>1. Init => OrderInv
  <2> SUFFICES ASSUME Init PROVE OrderInv
    OBVIOUS
  <2>1. teleports = 0 /\ misled = {}
    BY DEF Init
  <2>2. OrderlyTypes
    BY SightAssumption DEF Init, OrderlyTypes
  <2>3. OrderlyClients
    BY DEF Init, OrderlyClients
  <2>4. OrderlyPlayers
    BY SightAssumption DEF Init, OrderlyPlayers, Actors
  <2>5. QED BY <2>1, <2>2, <2>3, <2>4 DEF OrderInv, Orderly
(* Without portals and early closures, a step keeps the order. *)
<1>step. ASSUME SightInv, PlaceInv', Orderly, misled = {}, [Next]_vars,
                teleports' = 0 \/ teleports' = teleports, teleports = 0,
                \A c \in Clients : EnterGame(c) => stage[c] # "pushed"
         PROVE  Orderly' /\ misled' = {}
  <2> USE <1>step
  <2>1. ASSUME NEW c \in Clients, NEW p \in Players, Login(c, p)
        PROVE  Orderly' /\ misled' = {}
    BY <2>1, LoginOrderly DEF Login
  <2>2. ASSUME NEW c \in Clients, RequestEnterGame(c) \/ SetViewport(c) \/ Disconnect(c)
        PROVE  Orderly' /\ misled' = {}
    <3>1. misled' \subseteq misled
      BY <2>2 DEF RequestEnterGame, SetViewport, Disconnect, viewVars
    <3>2. QED BY <2>2, <3>1, ClientOrderly
  <2>3. ASSUME NEW c \in Clients, EnterGame(c)
        PROVE  Orderly' /\ misled' = {}
    BY <2>3, EnterOrderly
  <2>4. ASSUME NEW c \in Clients, NEW z \in Zones, NEW dest \in Cells, PlayerMove(c, z, dest)
        PROVE  Orderly' /\ misled' = {}
    BY <2>4, QueuedIsOrderly, MoveOrderly DEF PlayerMove, Actors
  <2>5. ASSUME NEW m \in Monsters, NEW dest \in Cells, MonsterMove(m, dest)
        PROVE  Orderly' /\ misled' = {}
    BY <2>5, MoveOrderly, SightAssumption DEF MonsterMove, Actors
  <2>6. ASSUME NEW c \in Clients, ViewportUpdate(c)
        PROVE  Orderly' /\ misled' = {}
    <3>1. Orderly' /\ misled' = misled \union Misled({player[c]})
      BY <2>6, QuietOrderly DEF ViewportUpdate, placeVars
    <3>2. PICK z \in Zones : Queued(c, z)
      BY <2>6 DEF ViewportUpdate
    <3>3. ASSUME NEW d \in Owning \ Served, player[d] = player[c]
          PROVE  FALSE
      <4>1. d = c /\ d \in Clients /\ stage[d] # "closing"
        BY <3>2, <3>3, QueuedIsOrderly DEF Owning, Online
      <4>2. stage[d] = "in"
        BY <3>2, <4>1, QueuedIsOrderly
      <4>3. QED BY <3>3, <4>1, <4>2 DEF Orderly, OrderlyClients, Served
    <3>4. QED BY <3>1, <3>3 DEF Misled
  <2>7. ASSUME NEW c \in Clients, LeaveGame(c)
        PROVE  Orderly' /\ misled' = {}
    BY <2>7, LeaveOrderly
  <2>8. ASSUME NEW c \in Clients, NEW z \in Portals, EnterPortal(c, z)
        PROVE  FALSE
    BY <2>8 DEF EnterPortal
  <2>9. ASSUME NEW c \in Clients, RequestTeleport(c) \/ TeleportLeaves(c)
        PROVE  FALSE
    BY <2>9 DEF RequestTeleport, TeleportLeaves, Orderly, OrderlyClients
  <2>10. ASSUME NEW c \in Clients, NEW m \in Monsters, HandleSkill(c, m)
         PROVE  Orderly' /\ misled' = {}
    BY <2>10, QuietOrderly DEF HandleSkill, OnDead, BroadCastDespawn
  <2>11. ASSUME NEW m \in Monsters, NpcSpawn(m)
         PROVE  Orderly' /\ misled' = {}
    <3>1. /\ actorVector' = [actorVector EXCEPT ![MonsterZone] = @ \union {m}]
          /\ UNCHANGED <<wayVars, playerVars, zoneID, pos, listed, misled>>
          /\ m \in Actors /\ MonsterZone \in Zones
      BY <2>11, SightAssumption DEF NpcSpawn, viewVars, Actors
    <3>2. /\ actorVector' \in [Zones -> SUBSET Actors]
          /\ actorVector[EntryZone] \subseteq actorVector'[EntryZone]
      BY <3>1, SightAssumption DEF Orderly, OrderlyTypes
    <3>3. QED BY <3>1, <3>2 DEF wayVars, playerVars, Orderly, OrderlyTypes,
              OrderlyClients, OrderlyPlayers
  <2>12. ASSUME NEW m \in Monsters, NpcMove(m)
         PROVE  Orderly' /\ misled' = {}
    BY <2>12, QuietOrderly DEF NpcMove, viewVars
  <2>13. ASSUME NEW k \in Sections, NpcMoveNotice(k)
         PROVE  Orderly' /\ misled' = {}
    <3>1. Orderly' /\ UNCHANGED <<owner, viewer, player, stage>>
      BY <2>13, QuietOrderly DEF NpcMoveNotice, placeVars, playerVars, wayVars
    <3>2. PlayerViewportUpdate(MonsterZone, k) /\ MonsterZone \in Zones
      BY <2>13, SightAssumption DEF NpcMoveNotice
    <3>3. QED BY <3>1, <3>2, SectionTellsOwn
  <2>14. CASE UNCHANGED vars
    BY <2>14, QuietOrderly DEF vars, placeVars, viewVars
  <2>15. QED BY <2>1, <2>2, <2>3, <2>4, <2>5, <2>6, <2>7, <2>8, <2>9, <2>10, <2>11,
            <2>12, <2>13, <2>14 DEF Next
<1>2. SightInv /\ SightInv' /\ OrderInv /\ [Next]_vars => OrderInv'
  <2> SUFFICES ASSUME SightInv, SightInv', OrderInv, [Next]_vars
               PROVE  OrderInv'
    OBVIOUS
  <2>1. teleports' = teleports \/ teleports' = teleports + 1
    BY CountsGrow
  <2>2. teleports' \in Nat /\ (teleports' = 0 => teleports = 0)
    BY <2>1 DEF OrderInv
  <2>3. ASSUME ~raced'
        PROVE  ~raced /\ \A c \in Clients : EnterGame(c) => stage[c] # "pushed"
    <3>1. raced' = raced \/ \E c \in Clients : EnterGame(c)
      BY CountsGrow
    <3>2. ASSUME NEW c \in Clients, EnterGame(c)
          PROVE  ~raced /\ stage[c] # "pushed"
      <4>1. raced' = (raced \/ stage[c] = "pushed")
        BY <3>2 DEF EnterGame
      <4>2. QED BY <2>3, <4>1
    <3>3. QED BY <2>3, <3>1, <3>2
  <2>4. QED BY <2>2, <2>3, <1>step DEF OrderInv, SightInv
<1>3. QED BY <1>1, <1>2, SightInvariant, PTL DEF Spec

(* OnlyGhostsMislead: without portals, and without an EnterGame called     *)
(* before the viewport is made, nobody is sent what is another's: so       *)
(* nobody is told to add twice, and ShowsOnlyTheViewport is of everybody.  *)
THEOREM MisledByGhostsOnly == Spec => []OnlyGhostsMislead
<1>1. OrderInv => MisledNeedsGhost
  BY DEF OrderInv, MisledNeedsGhost
<1>2. SightInv /\ OrderInv => OnlyGhostsMislead
  BY <1>1 DEF SightInv, ViewInv, OnlyGhostsMislead
<1>3. QED BY <1>2, SightInvariant, OrderInvariant, PTL
=============================================================================
