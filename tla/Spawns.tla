------------------------------- MODULE Spawns -------------------------------
(***************************************************************************)
(* One spawn of monsters: class SpawnMonster                               *)
(* (creatures/monsters/spawns/spawn_monster.cpp), which fills its blocks   *)
(* when the server starts and fills them again by a check that is pending  *)
(* while there is something to fill, with what starts that check when a    *)
(* monster goes (creatures/monsters/monster.cpp) and the variants of zones *)
(* (game/zones/zone.cpp).  All of it runs on the dispatcher, one call a    *)
(* step.  Left out: which of its kinds a block chooses, spawns that scripts *)
(* make, and the end of the server.                                        *)
(***************************************************************************)
EXTENDS Integers, FiniteSets

CONSTANTS
    Blocks,     \* spawnMonsterMap
    Blockable,  \* those whose monsters a player nearby keeps away (isBlockable)
    MaxChains,  \* bound of the delayed appearances of one block at a time: with
                \* 2, a spawn is checked every 2.1 seconds at most
    MaxStrays   \* up to which strays are counted

ASSUME SpawnsAssumption ==
    /\ IsFiniteSet(Blocks) /\ Blockable \subseteq Blocks
    /\ MaxChains \in Nat \ {0} /\ MaxStrays \in Nat

\* What may be in the way at a block: nothing, the hour or a player, which the
\* check asks about; a tile that takes no creature; a script, run when the monster
\* has appeared, that removes it.
Obstacles == {"none", "unsafe", "occupied", "script"}

VARIABLES
    spawned,   \* spawnedMonsterMap: none, a monster, one that has been removed
    alive,     \* how many monsters that a block has made are in the world
    due,       \* blocks whose interval has passed since lastSpawn
    chains,    \* pending chains of scheduleSpawn
    typed,     \* blocks that still have a kind of monster
    obstacle,  \* what is in the way
    checkEvent, \* whether the event that checkSpawnMonsterEvent names is pending
    strayChecks, \* how many other calls of checkSpawnMonster are pending
    startedUp, \* SpawnsMonster::started
    overlooked \* empty blocks of which no check has been told

spawnVars == <<spawned, alive, due, chains, typed, obstacle, checkEvent, strayChecks,
               startedUp, overlooked>>

SpawnsInit ==
    /\ spawned = [b \in Blocks |-> "none"] /\ alive = [b \in Blocks |-> 0]
    /\ due = Blocks /\ chains = [b \in Blocks |-> 0] /\ typed = Blocks
    /\ obstacle \in [Blocks -> Obstacles]
    /\ checkEvent = FALSE /\ strayChecks = 0 /\ startedUp = FALSE /\ overlooked = {}

-----------------------------------------------------------------------------
(* Filling                                                                  *)

Put_Again(map, S) == {b \in S : obstacle[b] # "occupied"}

\* Those of the blocks S that spawnMonster fills.
Put(map, S) == {b \in S : map[b] = "none" /\ obstacle[b] # "occupied"}
Vanishing(S) == {b \in S : obstacle[b] = "script"}

\* The monster is placed and noted in the map; then its script runs.
spawnMonster(map, S) ==
    /\ spawned' = [b \in Blocks |->
          IF b \notin Put(map, S) THEN map[b]
          ELSE IF b \in Vanishing(S) THEN "removed" ELSE "monster"]
    /\ alive' = [b \in Blocks |->
          IF b \in Put(map, S) \ Vanishing(S) THEN alive[b] + 1 ELSE alive[b]]

\* A removed monster has a check started, unless one is pending.
startSpawnMonsterCheck(told, forgotten) ==
    /\ checkEvent' = (checkEvent \/ told)
    /\ overlooked' = IF checkEvent' THEN {} ELSE overlooked \cup forgotten

\* What cannot be placed now is tried again only when something else has a
\* check started.
startup ==
    /\ ~startedUp /\ startedUp' = TRUE
    /\ spawnMonster(spawned, Blocks)
    /\ due' = Blocks \ Put(spawned, Blocks)
    /\ startSpawnMonsterCheck(Vanishing(Put(spawned, Blocks)) # {},
                              Blocks \ Put(spawned, Blocks))
    /\ UNCHANGED <<chains, typed, obstacle, strayChecks>>

\* The blocks whose removed monsters cleanup() erases from the map.
cleanup == {b \in Blocks : spawned[b] = "removed"}
Cleaned == [b \in Blocks |-> IF b \in cleanup THEN "none" ELSE spawned[b]]

\* Blocks that the check finds empty: where it must not or may fill them.
Unsafe == {b \in typed : Cleaned[b] = "none" /\ obstacle[b] = "unsafe"}
Ready_OnlyBlockable ==
    {b \in typed \cap due \cap Blockable :
        Cleaned[b] = "none" /\ obstacle[b] # "unsafe" /\ b \notin cleanup}
Ready ==
    {b \in typed \cap due :
        Cleaned[b] = "none" /\ obstacle[b] # "unsafe" /\ b \notin cleanup}

\* The event that checkSpawnMonsterEvent names runs out, or another one while
\* that is pending, which is the same, for the named one then is the other.  At
\* the end the check goes on while a block is not in the map, also if a monster
\* that its script removed has just started one.
checkSpawnMonster ==
    LET put   == Put(Cleaned, Ready \cap Blockable)
        again == \E b \in Blocks \ put : Cleaned[b] = "none"
    IN  /\ checkEvent
        /\ \A b \in Ready \ Blockable : chains[b] < MaxChains
        /\ spawnMonster(Cleaned, Ready \cap Blockable)
        /\ due' = due \ (cleanup \cup put \cup Unsafe)
        /\ chains' = [b \in Blocks |->
                          IF b \in Ready \ Blockable THEN chains[b] + 1 ELSE chains[b]]
        /\ checkEvent' = (again \/ Vanishing(put) # {})
        /\ strayChecks' = IF again /\ Vanishing(put) # {} /\ strayChecks < MaxStrays
                     THEN strayChecks + 1 ELSE strayChecks
        /\ UNCHANGED <<typed, obstacle, startedUp, overlooked>>

\* An event that no longer has a name runs out and finds that none has.
StrayCheck ==
    /\ strayChecks > 0 /\ ~checkEvent /\ strayChecks' = strayChecks - 1
    /\ UNCHANGED <<spawned, alive, due, chains, typed, obstacle, checkEvent, startedUp,
                   overlooked>>

\* A monster appears at the end of its chain, whatever has come in the way since
\* but a full tile or another monster of the block.
scheduleSpawn(b) ==
    /\ chains[b] > 0 /\ chains' = [chains EXCEPT ![b] = @ - 1]
    /\ spawnMonster(spawned, {b})
    /\ due' = due \ Put(spawned, {b})
    /\ checkEvent' = (checkEvent \/ Vanishing(Put(spawned, {b})) # {})
    /\ overlooked' = IF checkEvent' THEN {} ELSE overlooked \ Put(spawned, {b})
    /\ UNCHANGED <<typed, obstacle, strayChecks, startedUp>>

-----------------------------------------------------------------------------
(* Removing                                                                 *)

Cleared(S) ==
    /\ alive' = [b \in Blocks |-> IF b \in S THEN 0 ELSE alive[b]]
    /\ spawned' = [b \in Blocks |-> IF b \in S THEN "removed" ELSE spawned[b]]

\* A monster goes; `told' is FALSE when its own script onDisappear returns true,
\* for then onRemoveCreature does not reach the spawn.
onRemoveCreature(b, told) ==
    /\ alive[b] > 0 /\ Cleared({b})
    /\ startSpawnMonsterCheck(told, {b})
    /\ UNCHANGED <<due, chains, typed, obstacle, strayChecks, startedUp>>

\* Only the blocks `known' have a kind of which there is the variant; the others
\* lose theirs for good.  The monsters inside the zone are removed.
setMonsterVariant(known, inside, told) ==
    /\ startedUp /\ typed' = known
    /\ Cleared(inside)
    /\ startSpawnMonsterCheck(told, inside)
    /\ UNCHANGED <<due, chains, obstacle, strayChecks, startedUp>>

\* The interval of a block passes; what is in its way comes or goes.
IntervalPasses(b) ==
    /\ b \notin due /\ due' = due \cup {b}
    /\ UNCHANGED <<spawned, alive, chains, typed, obstacle, checkEvent, strayChecks,
                   startedUp, overlooked>>

Obstruct(b, o) ==
    /\ (o = "none") # (obstacle[b] = "none")
    /\ obstacle' = [obstacle EXCEPT ![b] = o]
    /\ UNCHANGED <<spawned, alive, due, chains, typed, checkEvent, strayChecks,
                   startedUp, overlooked>>

SpawnsNext ==
    \/ startup \/ checkSpawnMonster \/ StrayCheck
    \/ \E b \in Blocks :
          \/ scheduleSpawn(b) \/ IntervalPasses(b)
          \/ \E told \in BOOLEAN : onRemoveCreature(b, told)
          \/ \E o \in Obstacles : Obstruct(b, o)
    \/ \E known \in SUBSET typed, inside \in SUBSET {b \in Blocks : alive[b] > 0} :
          \E told \in {FALSE, inside # {}} : setMonsterVariant(known, inside, told)

\* The dispatcher runs what was scheduled, and time passes.
SpawnsFairness ==
    /\ WF_spawnVars(checkSpawnMonster)
    /\ \A b \in Blocks : WF_spawnVars(scheduleSpawn(b)) /\ WF_spawnVars(IntervalPasses(b))

SpawnsSpec == SpawnsInit /\ [][SpawnsNext]_spawnVars

-----------------------------------------------------------------------------
(* Properties *)

SpawnsTypeOK ==
    /\ spawned \in [Blocks -> {"none", "monster", "removed"}]
    /\ alive \in [Blocks -> Nat] /\ chains \in [Blocks -> Nat]
    /\ due \subseteq Blocks /\ typed \subseteq Blocks /\ overlooked \subseteq Blocks
    /\ obstacle \in [Blocks -> Obstacles]
    /\ checkEvent \in BOOLEAN /\ strayChecks \in Nat /\ startedUp \in BOOLEAN

\* A block never has more than its one monster, though several chains may be on
\* their way to it, and while there is a block without, a check is pending, or
\* nothing has told the spawn of it: the monster could not be placed when the
\* server started, or its script returned true.
SpawnsWatched ==
    /\ SpawnsTypeOK
    /\ \A b \in Blocks : alive[b] = IF spawned[b] = "monster" THEN 1 ELSE 0
    /\ startedUp /\ ~checkEvent =>
          \A b \in Blocks : spawned[b] = "monster" \/ b \in overlooked

\* A block is filled again and again, if nothing stays in its way, it has a kind
\* of monster left, and the spawn is told.
EmptyIsRefilled ==
    \A b \in Blocks :
        []<>(\/ ~startedUp \/ alive[b] > 0
             \/ b \in overlooked \/ b \notin typed \/ obstacle[b] # "none")
=============================================================================
