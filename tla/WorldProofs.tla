----------------------------- MODULE WorldProofs -----------------------------
(***************************************************************************)
(* Spawns, Raids, WaitingList, Party and Decay, for any blocks, any raids  *)
(* of any lengths, any players, parties and items: no block is doubled and *)
(* none is forgotten (SpawnsWatched), there is one raid at a time however  *)
(* often the raids are loaded (RaidsKept), every reference of the waiting  *)
(* list has its one entry (ReferencesMatch) and every login its turn       *)
(* (LoginsInOrder), players and parties name each other (PartiesMatch), a  *)
(* party ends only when it should (EndsWhenLeftAlone), and what decays is  *)
(* listed and looked at in time (DecaysInTime).                            *)
(***************************************************************************)
EXTENDS Spawns, Raids, WaitingList, Party, Decay, ListsProofs, TLAPS

(* Spawns.                                                                 *)

Entries == {"none", "monster", "removed"}
Single(map, living) == \A b \in Blocks : living[b] = IF map[b] = "monster" THEN 1 ELSE 0

\* What is placed is noted and single, whatever was erased from the map before.
LEMMA Placing ==
    ASSUME NEW map \in [Blocks -> Entries], NEW S \in SUBSET Blocks,
           alive \in [Blocks -> Nat], Single(map, alive), spawnMonster(map, S)
    PROVE  /\ spawned' \in [Blocks -> Entries] /\ alive' \in [Blocks -> Nat]
           /\ Single(spawned', alive')
           /\ \A b \in Blocks : spawned'[b] = "monster" <=>
                 map[b] = "monster" \/ b \in Put(map, S) \ Vanishing(Put(map, S))
BY DEF Entries, Single, spawnMonster, Put, Vanishing

LEMMA Erasing ==
    ASSUME SpawnsWatched
    PROVE  /\ Cleaned \in [Blocks -> Entries] /\ Single(Cleaned, alive)
           /\ \A b \in Blocks : Cleaned[b] # "none" => spawned[b] = "monster" /\ Cleaned[b] = "monster"
BY DEF SpawnsWatched, SpawnsTypeOK, Entries, Cleaned, cleanup, Single

LEMMA SpawnsInitially == SpawnsInit => SpawnsWatched
<1> SUFFICES ASSUME SpawnsInit PROVE SpawnsWatched
    OBVIOUS
<1>1. SpawnsTypeOK
  BY DEF SpawnsInit, SpawnsTypeOK
<1> QED
  BY <1>1 DEF SpawnsInit, SpawnsWatched

LEMMA StartsUp ==
    ASSUME SpawnsWatched, startup
    PROVE  SpawnsWatched'
<1> USE DEF SpawnsWatched, SpawnsTypeOK
<1> DEFINE put == Put(spawned, Blocks)
<1>1. spawned \in [Blocks -> Entries] /\ Single(spawned, alive) /\ Blocks \in SUBSET Blocks
  BY DEF Entries, Single
<1>2. /\ spawned' \in [Blocks -> Entries] /\ alive' \in [Blocks -> Nat]
      /\ Single(spawned', alive')
      /\ \A b \in put \ Vanishing(put) : b \in Blocks /\ spawned'[b] = "monster"
  BY <1>1, Placing DEF startup, Put
<1>3. put \subseteq Blocks
  BY DEF Put
<1>4. checkEvent' \in BOOLEAN /\ overlooked' \subseteq Blocks /\ due' \subseteq Blocks
  BY <1>3 DEF startup, startSpawnMonsterCheck
<1>5. ~checkEvent' => Vanishing(put) = {} /\ Blocks \ put \subseteq overlooked'
  BY DEF startup, startSpawnMonsterCheck
<1>6. UNCHANGED <<chains, typed, obstacle, strayChecks>> /\ startedUp'
  BY DEF startup
<1> QED
  BY <1>2, <1>4, <1>5, <1>6 DEF Entries, Single

LEMMA Checks ==
    ASSUME SpawnsWatched, checkSpawnMonster
    PROVE  SpawnsWatched'
<1> USE DEF SpawnsWatched, SpawnsTypeOK
<1> DEFINE put == Put(Cleaned, Ready \cap Blockable)
<1>1. Ready \cap Blockable \in SUBSET Blocks
  BY DEF Ready
<1>2. /\ spawned' \in [Blocks -> Entries] /\ alive' \in [Blocks -> Nat]
      /\ Single(spawned', alive')
      /\ \A b \in Blocks : spawned'[b] = "monster" <=>
            Cleaned[b] = "monster" \/ b \in put \ Vanishing(put)
  BY <1>1, Erasing, Placing DEF checkSpawnMonster
<1>3. /\ checkEvent' = ((\E b \in Blocks \ put : Cleaned[b] = "none") \/ Vanishing(put) # {})
      /\ chains' = [b \in Blocks |-> IF b \in Ready \ Blockable THEN chains[b] + 1 ELSE chains[b]]
      /\ strayChecks' \in {strayChecks, strayChecks + 1}
      /\ UNCHANGED <<typed, obstacle, startedUp, overlooked>> /\ due' \subseteq due
  BY DEF checkSpawnMonster
<1>4. chains' \in [Blocks -> Nat]
  BY <1>3
<1>5. ASSUME ~checkEvent', NEW b \in Blocks PROVE spawned'[b] = "monster"
  BY <1>2, <1>3, <1>5, Erasing
<1>6. checkEvent' \in BOOLEAN /\ strayChecks' \in Nat /\ startedUp' \in BOOLEAN
  BY <1>3
<1>7. SpawnsTypeOK'
  BY <1>2, <1>3, <1>4, <1>6 DEF Entries
<1> HIDE DEF SpawnsTypeOK
<1> QED
  BY <1>2, <1>5, <1>7 DEF Single

LEMMA Appears ==
    ASSUME SpawnsWatched, NEW b \in Blocks, scheduleSpawn(b)
    PROVE  SpawnsWatched'
<1> USE DEF SpawnsWatched, SpawnsTypeOK
<1> DEFINE put == Put(spawned, {b})
<1>1. spawned \in [Blocks -> Entries] /\ Single(spawned, alive) /\ {b} \in SUBSET Blocks
  BY DEF Entries, Single
<1>2. /\ spawned' \in [Blocks -> Entries] /\ alive' \in [Blocks -> Nat]
      /\ Single(spawned', alive')
      /\ \A c \in Blocks : spawned'[c] = "monster" <=>
            spawned[c] = "monster" \/ c \in put \ Vanishing(put)
  BY <1>1, Placing DEF scheduleSpawn
<1>3. /\ checkEvent' = (checkEvent \/ Vanishing(put) # {})
      /\ overlooked' = IF checkEvent' THEN {} ELSE overlooked \ put
      /\ UNCHANGED <<typed, obstacle, strayChecks, startedUp>> /\ due' \subseteq due
  BY DEF scheduleSpawn
<1>4. chains' \in [Blocks -> Nat]
  BY DEF scheduleSpawn
<1> QED
  BY <1>2, <1>3, <1>4 DEF Entries, Single

\* Monsters of S go, and the spawn is told or not.
LEMMA Goes ==
    ASSUME SpawnsWatched, NEW S \in SUBSET Blocks, NEW told \in BOOLEAN,
           Cleared(S), startSpawnMonsterCheck(told, S),
           UNCHANGED <<due, chains, obstacle, strayChecks, startedUp>>, typed' \subseteq typed
    PROVE  SpawnsWatched'
<1> USE DEF SpawnsWatched, SpawnsTypeOK
<1>1. /\ spawned' \in [Blocks -> {"none", "monster", "removed"}] /\ alive' \in [Blocks -> Nat]
      /\ \A b \in Blocks : alive'[b] = IF spawned'[b] = "monster" THEN 1 ELSE 0
      /\ \A b \in Blocks : spawned'[b] = "monster" <=> spawned[b] = "monster" /\ b \notin S
  BY DEF Cleared
<1>2. /\ checkEvent' \in BOOLEAN /\ overlooked' \subseteq Blocks
      /\ ~checkEvent' => ~checkEvent /\ overlooked' = overlooked \cup S
  BY DEF startSpawnMonsterCheck
<1> QED
  BY <1>1, <1>2

\* SpawnsWatched, for any blocks.
THEOREM SpawnsAlwaysWatched == SpawnsSpec => []SpawnsWatched
<1>1. SpawnsWatched /\ [SpawnsNext]_spawnVars => SpawnsWatched'
  <2> SUFFICES ASSUME SpawnsWatched, [SpawnsNext]_spawnVars PROVE SpawnsWatched'
      OBVIOUS
  <2>1. CASE startup
    BY <2>1, StartsUp
  <2>2. CASE checkSpawnMonster
    BY <2>2, Checks
  <2>3. CASE StrayCheck
    BY <2>3 DEF StrayCheck, SpawnsWatched, SpawnsTypeOK
  <2>4. ASSUME NEW b \in Blocks, scheduleSpawn(b) PROVE SpawnsWatched'
    BY <2>4, Appears
  <2>5. ASSUME NEW b \in Blocks, IntervalPasses(b) PROVE SpawnsWatched'
    BY <2>5 DEF IntervalPasses, SpawnsWatched, SpawnsTypeOK
  <2>6. ASSUME NEW b \in Blocks, NEW told \in BOOLEAN, onRemoveCreature(b, told)
        PROVE  SpawnsWatched'
    <3>1. {b} \in SUBSET Blocks /\ typed' \subseteq typed
      BY <2>6 DEF onRemoveCreature
    <3> QED
      BY <2>6, <3>1, Goes DEF onRemoveCreature
  <2>7. ASSUME NEW b \in Blocks, NEW o \in Obstacles, Obstruct(b, o) PROVE SpawnsWatched'
    BY <2>7 DEF Obstruct, SpawnsWatched, SpawnsTypeOK
  <2>8. ASSUME NEW known \in SUBSET typed, NEW inside \in SUBSET {b \in Blocks : alive[b] > 0},
               NEW told \in {FALSE, inside # {}}, setMonsterVariant(known, inside, told)
        PROVE  SpawnsWatched'
    <3>1. inside \in SUBSET Blocks /\ told \in BOOLEAN /\ typed' \subseteq typed
      BY <2>8 DEF setMonsterVariant
    <3> QED
      BY <2>8, <3>1, Goes DEF setMonsterVariant
  <2>9. CASE UNCHANGED spawnVars
    BY <2>9 DEF spawnVars, SpawnsWatched, SpawnsTypeOK
  <2> QED
    BY <2>1, <2>2, <2>3, <2>4, <2>5, <2>6, <2>7, <2>8, <2>9 DEF SpawnsNext
<1> QED
  BY SpawnsInitially, <1>1, PTL DEF SpawnsSpec

-----------------------------------------------------------------------------
(* Raids.                                                                  *)

\* A raid whose event is pending is in the list, where clear() will find it,
\* unless it runs once.
FoundByClear == \A e \in Pending : e.raid \in raidList \/ e.raid \notin Repeatable

RaidsInv == RaidsKept /\ FoundByClear

LEMMA RaidsInitially == RaidsInit => RaidsInv
<1> SUFFICES ASSUME RaidsInit PROVE RaidsInv
    OBVIOUS
<1>1. RaidsTypeOK
  BY DEF RaidsInit, RaidsTypeOK
<1>2. otherChecks = 0 /\ (raidsCheck => raidsStarted) /\ scheduled = {} /\ running = NoRaid
      /\ nextEvent = [r \in Names |-> 0]
  BY DEF RaidsInit
<1>3. OneRaidAtATime /\ FoundByClear
  BY <1>2 DEF OneRaidAtATime, FoundByClear, Pending
<1> QED
  BY <1>1, <1>2, <1>3 DEF RaidsInv, RaidsKept

\* A raid of the list starts while none is running; the rest of the step is the
\* clock's or the script's.
LEMMA RaidStarts ==
    ASSUME RaidsInv, RaidsTypeOK', NEW r \in raidList, running = NoRaid, startRaid(r),
           raidList' = raidList \/ (r \notin Repeatable /\ raidList' = raidList \ {r}),
           otherChecks' = 0, raidsCheck' => raidsStarted', UNCHANGED astray
    PROVE  RaidsInv'
<1> USE DEF RaidsInv, RaidsKept
<1>0. r \in Names /\ r # NoRaid /\ nextEvent[r] \in Nat
  BY RaidsAssumption DEF RaidsTypeOK
<1>1. /\ \A e \in scheduled' : e \in scheduled \/ e = Event(r, nextEvent[r], FALSE)
      /\ scheduled \subseteq scheduled'
  BY DEF startRaid
<1>2. \A e \in scheduled' : e.dead => e.raid \notin Repeatable
  BY <1>1 DEF Event
<1>3. FoundByClear'
  BY <1>1 DEF FoundByClear, Pending, Event
<1>4. ASSUME ~astray PROVE OneRaidAtATime'
  <2>1. Pending = {} /\ \A q \in Names : nextEvent[q] = 0
    BY <1>4, RaidsAssumption DEF OneRaidAtATime, Pending, RaidsTypeOK
  <2>2. CASE nextEvent[r] < Length[r]
    BY <2>1, <2>2, <1>0 DEF startRaid, OneRaidAtATime, Pending, Event
  <2>3. CASE ~(nextEvent[r] < Length[r])
    BY <2>1, <2>3, <1>0 DEF startRaid, resetRaid, OneRaidAtATime, Pending, RaidsTypeOK
  <2> QED
    BY <2>2, <2>3
<1> QED
  BY <1>2, <1>3, <1>4

\* What does not start, end or load a raid.
LEMMA RaidsRest ==
    ASSUME RaidsInv, RaidsTypeOK', otherChecks' = 0, raidsCheck' => raidsStarted',
           UNCHANGED <<raidList, running, nextEvent, scheduled, astray>>
    PROVE  RaidsInv'
BY DEF RaidsInv, RaidsKept, FoundByClear, OneRaidAtATime, Pending

LEMMA RaidsTyped ==
    ASSUME RaidsInv, [RaidsNext]_raidVars
    PROVE  RaidsTypeOK'
<1> USE DEF RaidsInv, RaidsKept, RaidsTypeOK
<1> DEFINE Calls == [raid : Names, number : Nat, dead : BOOLEAN]
<1>0. ASSUME NEW r \in Names, NEW n \in Nat, NEW dead \in BOOLEAN
      PROVE  Event(r, n, dead) \in Calls
  BY <1>0 DEF Event
<1>1. ASSUME NEW r \in Names, startRaid(r)
      PROVE  /\ running' \in Names \cup {NoRaid} /\ nextEvent' \in [Names -> Nat]
             /\ rested' \subseteq Names
             /\ scheduled' \subseteq [raid : Names, number : Nat, dead : BOOLEAN]
  <2>1. nextEvent[r] \in Nat /\ Event(r, nextEvent[r], FALSE) \in Calls
    BY <1>0
  <2> QED
    BY <1>1, <2>1 DEF startRaid, resetRaid
<1>2. CASE checkRaids
  <2>1. raidsCheck' \in BOOLEAN /\ otherChecks' \in Nat
    BY <1>2 DEF checkRaids
  <2> QED
    BY <1>1, <1>2, <2>1 DEF checkRaids
<1>3. CASE Configure
  BY <1>3 DEF Configure
<1>4. ASSUME NEW found \in BOOLEAN, NEW readable \in SUBSET Names, reload(found, readable)
      PROVE  RaidsTypeOK'
  <2>1. Orphans \subseteq [raid : Names, number : Nat, dead : BOOLEAN]
    BY DEF Orphans
  <2> QED
    BY <1>4, <2>1 DEF reload
<1>5. ASSUME NEW r \in Names, luaGameStartRaid(r) PROVE RaidsTypeOK'
  BY <1>1, <1>5 DEF luaGameStartRaid
<1>6. ASSUME NEW r \in Names, MarginEnds(r) PROVE RaidsTypeOK'
  BY <1>6 DEF MarginEnds
<1>7. ASSUME NEW e \in scheduled, NEW succeeds \in BOOLEAN, executeRaidEvent(e, succeeds)
      PROVE  RaidsTypeOK'
  <2>1. e.raid \in Names /\ nextEvent[e.raid] + 1 \in Nat
    OBVIOUS
  <2>2. Event(e.raid, nextEvent[e.raid] + 1, FALSE) \in Calls
    BY <1>0, <2>1
  <2> QED
    BY <1>7, <2>1, <2>2 DEF executeRaidEvent, resetRaid
<1>8. ASSUME NEW e \in scheduled, NEW succeeds \in BOOLEAN, executeOnDestroyed(e, succeeds)
      PROVE  RaidsTypeOK'
  <2>1. e.raid \in Names /\ e.number + 1 \in Nat
    OBVIOUS
  <2>2. Event(e.raid, e.number + 1, TRUE) \in Calls
    BY <1>0, <2>1
  <2> QED
    BY <1>8, <2>1, <2>2 DEF executeOnDestroyed
<1>9. CASE UNCHANGED raidVars
  BY <1>9 DEF raidVars
<1> QED
  BY <1>2, <1>3, <1>4, <1>5, <1>6, <1>7, <1>8, <1>9 DEF RaidsNext

LEMMA RaidEvents ==
    ASSUME RaidsInv, RaidsTypeOK', NEW e \in scheduled, NEW succeeds \in BOOLEAN,
           executeRaidEvent(e, succeeds)
    PROVE  RaidsInv'
<1> USE DEF RaidsInv, RaidsKept
<1>0. e \in Pending /\ e.raid \in Names /\ e.raid # NoRaid /\ nextEvent[e.raid] \in Nat
  BY RaidsAssumption DEF executeRaidEvent, Pending, RaidsTypeOK
<1> DEFINE next == Event(e.raid, nextEvent[e.raid] + 1, FALSE)
<1>1. \A x \in scheduled' : x \in scheduled \/ x = next
  BY DEF executeRaidEvent
<1>2. \A x \in scheduled' : x.dead => x.raid \notin Repeatable
  BY <1>1 DEF Event
<1>3. FoundByClear'
  BY <1>0, <1>1 DEF FoundByClear, Pending, Event, executeRaidEvent
<1>4. otherChecks' = 0 /\ (raidsCheck' => raidsStarted') /\ astray' = astray
  BY DEF executeRaidEvent
<1>5. ASSUME ~astray PROVE OneRaidAtATime'
  <2>1. /\ running = e.raid /\ e = Event(running, nextEvent[running], FALSE)
        /\ Pending = {e}
    <3>1. \A x \in Pending : x = Event(running, nextEvent[running], FALSE)
      BY <1>5 DEF OneRaidAtATime, Pending, RaidsTypeOK, Event
    <3> QED
      BY <3>1, <1>0, <1>5 DEF OneRaidAtATime
  <2>2. \A r \in Names \ {e.raid} : nextEvent[r] = 0
    BY <2>1, <1>5 DEF OneRaidAtATime
  <2>3. CASE succeeds /\ nextEvent[e.raid] + 1 < Length[e.raid]
    BY <2>1, <2>2, <2>3, <1>0 DEF executeRaidEvent, OneRaidAtATime, Pending, Event, RaidsTypeOK
  <2>4. CASE ~(succeeds /\ nextEvent[e.raid] + 1 < Length[e.raid])
    BY <2>1, <2>2, <2>4, <1>0 DEF executeRaidEvent, resetRaid, OneRaidAtATime, Pending, RaidsTypeOK
  <2> QED
    BY <2>3, <2>4
<1> QED
  BY <1>2, <1>3, <1>4, <1>5

LEMMA RaidsLoaded ==
    ASSUME RaidsInv, RaidsTypeOK', NEW found \in BOOLEAN, NEW readable \in SUBSET Names,
           reload(found, readable)
    PROVE  RaidsInv'
<1> USE DEF RaidsInv, RaidsKept
<1>1. \A x \in scheduled' : x.dead /\ x.raid \notin Repeatable
  <2>1. ASSUME NEW y \in scheduled, y.raid \notin raidList
        PROVE  y.raid \notin Repeatable
    BY <2>1 DEF FoundByClear, Pending
  <2>2. \A y \in scheduled : [y EXCEPT !.dead = TRUE].dead /\ [y EXCEPT !.dead = TRUE].raid = y.raid
    BY DEF RaidsTypeOK
  <2> QED
    BY <2>1, <2>2 DEF reload, Orphans
<1>2. running' = NoRaid /\ \A r \in Names : nextEvent'[r] = 0
  BY DEF reload
<1>3. FoundByClear' /\ OneRaidAtATime'
  BY <1>1, <1>2 DEF FoundByClear, OneRaidAtATime, Pending
<1>4. otherChecks' = 0 /\ (raidsCheck' => raidsStarted')
  BY DEF reload
<1> QED
  BY <1>1, <1>3, <1>4

LEMMA RaidAstray ==
    ASSUME RaidsInv, RaidsTypeOK', NEW e \in scheduled, NEW succeeds \in BOOLEAN,
           executeOnDestroyed(e, succeeds)
    PROVE  RaidsInv'
<1> USE DEF RaidsInv, RaidsKept
<1>1. \A x \in scheduled' : x \in scheduled \/ (x.dead /\ x.raid = e.raid)
  BY DEF executeOnDestroyed, Event
<1>2. e.raid \notin Repeatable
  BY DEF executeOnDestroyed
<1>3. \A x \in scheduled' : x.dead => x.raid \notin Repeatable
  BY <1>1, <1>2
<1>4. FoundByClear'
  BY <1>1 DEF FoundByClear, Pending, executeOnDestroyed
<1> QED
  BY <1>3, <1>4 DEF executeOnDestroyed

\* One raid at a time, one check at a time, and only raids that run once are
\* left behind when the raids are loaded again.
THEOREM RaidsInvariance == RaidsSpec => []RaidsInv
<1>1. RaidsInv /\ [RaidsNext]_raidVars => RaidsInv'
  <2> SUFFICES ASSUME RaidsInv, [RaidsNext]_raidVars PROVE RaidsInv'
      OBVIOUS
  <2>0. RaidsTypeOK'
    BY RaidsTyped
  <2>1. CASE checkRaids
    <3>1. otherChecks' = 0 /\ (raidsCheck' => raidsStarted')
      BY <2>1 DEF checkRaids, RaidsInv, RaidsKept
    <3>2. ASSUME NEW r \in raidList \cap rested, running = NoRaid, startRaid(r),
                 raidList' = IF r \in Repeatable THEN raidList ELSE raidList \ {r}
          PROVE  RaidsInv'
      BY <2>0, <2>1, <3>1, <3>2, RaidStarts DEF checkRaids
    <3>3. CASE UNCHANGED <<raidList, running, nextEvent, scheduled, rested>>
      BY <2>0, <2>1, <3>1, <3>3, RaidsRest DEF checkRaids
    <3> QED
      BY <2>1, <3>2, <3>3 DEF checkRaids
  <2>2. CASE Configure
    BY <2>0, <2>2, RaidsRest DEF Configure, RaidsInv, RaidsKept
  <2>3. ASSUME NEW found \in BOOLEAN, NEW readable \in SUBSET Names, reload(found, readable)
        PROVE  RaidsInv'
    BY <2>0, <2>3, RaidsLoaded
  <2>4. ASSUME NEW r \in Names, luaGameStartRaid(r) PROVE RaidsInv'
    <3>1. otherChecks' = 0 /\ (raidsCheck' => raidsStarted')
      BY <2>4 DEF luaGameStartRaid, RaidsInv, RaidsKept
    <3> QED
      BY <2>0, <2>4, <3>1, RaidStarts DEF luaGameStartRaid
  <2>5. ASSUME NEW r \in Names, MarginEnds(r) PROVE RaidsInv'
    BY <2>0, <2>5, RaidsRest DEF MarginEnds, RaidsInv, RaidsKept
  <2>6. ASSUME NEW e \in scheduled, NEW succeeds \in BOOLEAN,
               executeRaidEvent(e, succeeds) \/ executeOnDestroyed(e, succeeds)
        PROVE  RaidsInv'
    BY <2>0, <2>6, RaidEvents, RaidAstray
  <2>7. CASE UNCHANGED raidVars
    BY <2>0, <2>7, RaidsRest DEF raidVars, RaidsInv, RaidsKept
  <2> QED
    BY <2>1, <2>2, <2>3, <2>4, <2>5, <2>6, <2>7 DEF RaidsNext
<1> QED
  BY RaidsInitially, <1>1, PTL DEF RaidsSpec

\* RaidsKept, for any raids.
THEOREM RaidsAlwaysKept == RaidsSpec => []RaidsKept
<1>1. RaidsInv => RaidsKept
  BY DEF RaidsInv
<1> QED
  BY RaidsInvariance, <1>1, PTL
-----------------------------------------------------------------------------
(***************************************************************************)
(* The waiting list.  A guid occurs once in a list iff the list repeats no *)
(* entry and two of its entries differ in their guids; filtering keeps     *)
(* both.                                                                   *)
(***************************************************************************)
Orderly(list) ==
    /\ list \in Seq(Entry) /\ IsInjective(list)
    /\ \A e, f \in ToSet(list) : e.guid = f.guid => e = f

LEMMA OrderlyMeans ==
    ASSUME NEW list \in Seq(Entry)
    PROVE  Orderly(list) <=> IsInjective([i \in DOMAIN list |-> list[i].guid])
<1> DEFINE g == [i \in DOMAIN list |-> list[i].guid]
<1>1. ASSUME Orderly(list), NEW i \in DOMAIN g, NEW j \in DOMAIN g, g[i] = g[j] PROVE i = j
  BY <1>1 DEF Orderly, IsInjective, ToSet
<1>2. ASSUME IsInjective(g) PROVE Orderly(list)
  <2>1. ASSUME NEW i \in DOMAIN list, NEW j \in DOMAIN list, list[i].guid = list[j].guid
        PROVE  i = j
    <3>1. i \in DOMAIN g /\ j \in DOMAIN g /\ g[i] = g[j]
      BY <2>1
    <3> QED BY <1>2, <3>1 DEF IsInjective
  <2>2. IsInjective(list)
    BY <2>1 DEF IsInjective
  <2> QED BY <2>1, <2>2 DEF Orderly, ToSet
<1> QED BY <1>1, <1>2 DEF IsInjective

LEMMA GuidsOf == ASSUME NEW list PROVE Guids(list) = {e.guid : e \in ToSet(list)}
BY DEF Guids, ToSet

LEMMA Filtered ==
    ASSUME NEW list, Orderly(list), NEW S
    PROVE  Orderly(Only(list, S)) /\ Guids(Only(list, S)) = {e.guid : e \in ToSet(list) \cap S}
<1>1. /\ Only(list, S) \in Seq(Entry) /\ IsInjective(Only(list, S))
      /\ ToSet(Only(list, S)) = ToSet(list) \cap S
  BY OnlyProperties DEF Orderly
<1> QED BY <1>1, GuidsOf DEF Orderly

LEMMA EntriesOf == ASSUME NEW list, Orderly(list) PROVE ToSet(list) \subseteq Entry
BY DEF Orderly, ToSet

LEMMA CleanedUp ==
    ASSUME NEW list, Orderly(list)
    PROVE  /\ Orderly(cleanupList(list)) /\ Guids(cleanupList(list)) \subseteq Guids(list)
           /\ Guids(cleanupList(list)) = {e.guid : e \in {e \in ToSet(list) : ~HasExpired(e)}}
BY Filtered, GuidsOf, EntriesOf DEF cleanupList

LEMMA LeftOut ==
    ASSUME NEW list, Orderly(list), NEW x
    PROVE  Orderly(Without(list, x)) /\ Guids(Without(list, x)) = Guids(list) \ {x}
BY Filtered, GuidsOf, EntriesOf DEF Without

\* Who joins is last, unless known.
LEMMA Joining ==
    ASSUME NEW list, Orderly(list), NEW x \in Players
    PROVE  /\ Orderly(Joined(list, x)) /\ Guids(Joined(list, x)) = Guids(list) \cup {x}
           /\ IndexOf(Joined(list, x), x)
                = 1 + IF x \in Guids(list) THEN IndexOf(list, x) - 1 ELSE Len(list)
           /\ IndexOf(Joined(list, x), x) \in 1 .. Len(list) + 1
<1>1. CASE x \in Guids(list)
  <2>1. IndexOf(list, x) \in DOMAIN list /\ Joined(list, x) = list
    BY <1>1 DEF IndexOf, Guids, Joined
  <2>2. list \in Seq(Entry)
    BY DEF Orderly
  <2>3. IndexOf(list, x) \in 1 .. Len(list) /\ Len(list) \in Nat
    BY <2>1, <2>2
  <2> QED BY <1>1, <2>1, <2>3
<1>2. CASE x \notin Guids(list)
  <2> DEFINE e == [guid |-> x, left |-> 0]
             u == Append(list, e)
  <2>1. e \in Entry /\ list \in Seq(Entry) /\ e \notin ToSet(list)
    BY <1>2, GuidsOf DEF Entry, Orderly
  <2>2. u \in Seq(Entry) /\ ToSet(u) = ToSet(list) \cup {e} /\ IsInjective(u)
    BY <2>1, AppendSet DEF Orderly
  <2>3. Joined(list, x) = u
    BY <1>2 DEF Joined
  <2>4. Orderly(u) /\ Guids(u) = Guids(list) \cup {x}
    BY <1>2, <2>2, GuidsOf DEF Orderly
  <2>5. /\ DOMAIN u = 1 .. Len(list) + 1 /\ u[Len(list) + 1] = e /\ DOMAIN list = 1 .. Len(list)
        /\ \A i \in 1 .. Len(list) : u[i] = list[i]
    BY <2>1
  <2>6. \A i \in DOMAIN u : u[i].guid = x => i = Len(list) + 1
    BY <1>2, <2>1, <2>5 DEF Guids
  <2>7. IndexOf(u, x) = Len(list) + 1
    BY <2>1, <2>5, <2>6 DEF IndexOf
  <2> QED BY <1>2, <2>1, <2>3, <2>4, <2>7
<1> QED BY <1>1, <1>2

\* Time-outs change, guids and places do not.
LEMMA Retimed ==
    ASSUME NEW list, Orderly(list), NEW u \in Seq(Entry), DOMAIN u = DOMAIN list,
           \A i \in DOMAIN list : u[i].guid = list[i].guid
    PROVE  Orderly(u) /\ Guids(u) = Guids(list)
<1> DEFINE g == [i \in DOMAIN list |-> list[i].guid]
<1>1. g = [i \in DOMAIN u |-> u[i].guid]
  OBVIOUS
<1>2. list \in Seq(Entry)
  BY DEF Orderly
<1>3. Orderly(u)
  BY <1>1, <1>2, OrderlyMeans
<1> QED BY <1>3 DEF Guids

LEMMA RetimedType ==
    ASSUME NEW list \in Seq(Entry), NEW left \in [DOMAIN list -> Nat]
    PROVE  [i \in DOMAIN list |-> [list[i] EXCEPT !.left = left[i]]] \in Seq(Entry)
<1>1. \A i \in DOMAIN list : list[i] \in Entry
  OBVIOUS
<1>2. \A i \in DOMAIN list : [list[i] EXCEPT !.left = left[i]] \in Entry
  BY <1>1 DEF Entry
<1> QED BY <1>2

LEMMA TimeoutType == ASSUME NEW slot \in Nat PROVE getTimeout(slot) \in Nat
BY DEF getTimeout, getTime, TIMEOUT_EXTRA

LEMMA Renewing ==
    ASSUME NEW list, Orderly(list), NEW x \in Players, NEW slot \in Nat
    PROVE  Orderly(Renewed(list, x, slot)) /\ Guids(Renewed(list, x, slot)) = Guids(list)
<1> DEFINE left == [i \in DOMAIN list |->
                      IF list[i].guid = x THEN getTimeout(slot) ELSE list[i].left]
           u == [i \in DOMAIN list |-> [list[i] EXCEPT !.left = left[i]]]
<1>1. list \in Seq(Entry) /\ \A i \in DOMAIN list : list[i] \in Entry
  BY DEF Orderly
<1>2. left \in [DOMAIN list -> Nat]
  BY <1>1, TimeoutType DEF Entry
<1>3. u \in Seq(Entry)
  BY <1>1, <1>2, RetimedType
<1>4. \A i \in DOMAIN list : u[i].guid = list[i].guid
  BY <1>1 DEF Entry
<1>5. Orderly(u) /\ Guids(u) = Guids(list)
  <2> HIDE DEF u
  <2> QED BY <1>3, <1>4, Retimed DEF u
<1>6. ASSUME NEW i \in DOMAIN list
      PROVE  u[i] = IF list[i].guid = x THEN [list[i] EXCEPT !.left = getTimeout(slot)]
                                        ELSE list[i]
  BY <1>1 DEF Entry
<1>7. Renewed(list, x, slot) = u
  BY <1>6 DEF Renewed
<1> QED BY <1>5, <1>7

LEMMA Ageing ==
    ASSUME NEW list, Orderly(list)
    PROVE  Orderly(Aged(list)) /\ Guids(Aged(list)) = Guids(list)
<1> DEFINE left == [i \in DOMAIN list |->
                      IF list[i].left > TickLength THEN list[i].left - TickLength ELSE 0]
           u == [i \in DOMAIN list |-> [list[i] EXCEPT !.left = left[i]]]
<1>1. list \in Seq(Entry) /\ \A i \in DOMAIN list : list[i] \in Entry
  BY DEF Orderly
<1>2. left \in [DOMAIN list -> Nat]
  BY <1>1, WaitingListAssumption DEF Entry
<1>3. u \in Seq(Entry)
  BY <1>1, <1>2, RetimedType
<1>4. \A i \in DOMAIN list : u[i].guid = list[i].guid
  BY <1>1 DEF Entry
<1>5. Aged(list) = u
  BY DEF Aged
<1> QED BY <1>3, <1>4, <1>5, Retimed

-----------------------------------------------------------------------------
\* What a call of clientLogin sees: both lists cleaned, and the player in one of them.
Priority(x) == LET kept == cleanupList(priorityWaitList)
               IN  IF x \in Premium THEN Joined(kept, x) ELSE kept
Ordinary(x) == LET kept == cleanupList(waitList)
               IN  IF x \in Premium THEN kept ELSE Joined(kept, x)
Slot(x) == Place(Priority(x), Ordinary(x), x) + SlotError(x, x \in playerReferences \cap Fresh)

LEMMA ListsMatch ==
    ReferencesMatch <=>
        /\ Orderly(priorityWaitList) /\ Orderly(waitList)
        /\ playerReferences \subseteq Players /\ playerReferences = Waiting
        /\ drift \in 0 .. MaxDrift /\ online \subseteq Players
        /\ Guids(priorityWaitList) \subseteq Premium /\ Guids(waitList) \cap Premium = {}
<1>1. ASSUME priorityWaitList \in Seq(Entry), waitList \in Seq(Entry)
      PROVE  /\ Orderly(priorityWaitList)
                  <=> IsInjective([i \in DOMAIN priorityWaitList |-> priorityWaitList[i].guid])
             /\ Orderly(waitList) <=> IsInjective([i \in DOMAIN waitList |-> waitList[i].guid])
  BY <1>1, OrderlyMeans
<1>2. Orderly(priorityWaitList) => priorityWaitList \in Seq(Entry)
  BY DEF Orderly
<1>3. Orderly(waitList) => waitList \in Seq(Entry)
  BY DEF Orderly
<1> QED BY <1>1, <1>2, <1>3 DEF ReferencesMatch, WaitTypeOK

\* The same of the next state.
LEMMA ListsMatchNext ==
    ASSUME Orderly(priorityWaitList'), Orderly(waitList'),
           playerReferences' \subseteq Players,
           playerReferences' = Guids(priorityWaitList') \cup Guids(waitList'),
           drift' \in 0 .. MaxDrift, online' \subseteq Players,
           Guids(priorityWaitList') \subseteq Premium, Guids(waitList') \cap Premium = {}
    PROVE  ReferencesMatch'
<1>1. /\ priorityWaitList' \in Seq(Entry) /\ waitList' \in Seq(Entry)
      /\ IsInjective([i \in DOMAIN priorityWaitList' |-> priorityWaitList'[i].guid])
      /\ IsInjective([i \in DOMAIN waitList' |-> waitList'[i].guid])
  BY OrderlyMeans DEF Orderly
<1> QED BY <1>1 DEF ReferencesMatch, WaitTypeOK, Waiting, Guids

LEMMA SeenByLogin ==
    ASSUME ReferencesMatch, NEW x \in Players
    PROVE  /\ Orderly(Priority(x)) /\ Orderly(Ordinary(x))
           /\ Guids(Priority(x)) \cup Guids(Ordinary(x)) = Fresh \cup {x}
           /\ Guids(Priority(x)) \subseteq Premium /\ Guids(Ordinary(x)) \cap Premium = {}
           /\ Fresh \subseteq playerReferences
           /\ Place(Priority(x), Ordinary(x), x) = Ahead(x) + 1
           /\ Ahead(x) \in Nat
           /\ Slot(x) \in Nat \ {0} /\ Slot(x) >= Ahead(x) + 1
           /\ drift = 0 => Slot(x) = Ahead(x) + 1
<1> DEFINE kept1 == cleanupList(priorityWaitList)
           kept2 == cleanupList(waitList)
<1>1. /\ Orderly(kept1) /\ Orderly(kept2)
      /\ Guids(kept1) \subseteq Guids(priorityWaitList) /\ Guids(kept2) \subseteq Guids(waitList)
  BY ListsMatch, CleanedUp
<1>2. /\ Len(kept1) \in Nat /\ Len(kept2) \in Nat
  BY <1>1 DEF Orderly
<1>3. /\ Guids(kept1) \subseteq Premium /\ Guids(kept2) \cap Premium = {}
      /\ playerReferences = Waiting /\ drift \in Nat
  BY <1>1, ListsMatch
<1>4. Fresh = Guids(kept1) \cup Guids(kept2)
  <2>1. /\ Guids(kept1) = {e.guid : e \in {e \in ToSet(priorityWaitList) : ~HasExpired(e)}}
        /\ Guids(kept2) = {e.guid : e \in {e \in ToSet(waitList) : ~HasExpired(e)}}
    BY ListsMatch, CleanedUp
  <2> HIDE DEF kept1, kept2
  <2> QED BY <2>1 DEF Fresh
<1>5. Fresh \subseteq playerReferences
  BY <1>1, <1>3, <1>4 DEF Waiting
<1>6. /\ Orderly(Joined(kept1, x)) /\ Guids(Joined(kept1, x)) = Guids(kept1) \cup {x}
      /\ IndexOf(Joined(kept1, x), x)
           = 1 + IF x \in Guids(kept1) THEN IndexOf(kept1, x) - 1 ELSE Len(kept1)
      /\ IndexOf(Joined(kept1, x), x) \in 1 .. Len(kept1) + 1
  BY <1>1, Joining
<1>7. /\ Orderly(Joined(kept2, x)) /\ Guids(Joined(kept2, x)) = Guids(kept2) \cup {x}
      /\ IndexOf(Joined(kept2, x), x)
           = 1 + IF x \in Guids(kept2) THEN IndexOf(kept2, x) - 1 ELSE Len(kept2)
      /\ IndexOf(Joined(kept2, x), x) \in 1 .. Len(kept2) + 1
  BY <1>1, Joining
<1> HIDE DEF kept1, kept2
<1>8. CASE x \in Premium
  <2>1. Priority(x) = Joined(kept1, x) /\ Ordinary(x) = kept2
    BY <1>8 DEF Priority, Ordinary, kept1, kept2
  <2>2. Place(Priority(x), Ordinary(x), x) = IndexOf(Joined(kept1, x), x)
    BY <1>8, <2>1 DEF Place
  <2>3. Ahead(x) = IF x \in Guids(kept1) THEN IndexOf(kept1, x) - 1 ELSE Len(kept1)
    BY <1>8 DEF Ahead, kept1, kept2
  <2>4. IndexOf(Joined(kept1, x), x) = 1 + Ahead(x)
    BY <1>6, <2>3
  <2>5. Ahead(x) \in Nat /\ Place(Priority(x), Ordinary(x), x) = Ahead(x) + 1
    <3>1. x \in Guids(kept1) => IndexOf(kept1, x) \in DOMAIN kept1
      BY DEF IndexOf, Guids
    <3>2. kept1 \in Seq(Entry)
      BY <1>1 DEF Orderly
    <3>3. Ahead(x) \in Int
      BY <1>2, <2>3, <3>1, <3>2
    <3> QED BY <1>2, <1>6, <2>2, <2>4, <3>3
  <2>6. Slot(x) \in Nat \ {0} /\ Slot(x) >= Ahead(x) + 1 /\ (drift = 0 => Slot(x) = Ahead(x) + 1)
    BY <1>3, <2>5 DEF Slot, SlotError
  <2> QED BY <1>1, <1>3, <1>4, <1>5, <1>6, <1>8, <2>1, <2>5, <2>6
<1>9. CASE x \notin Premium
  <2>1. Priority(x) = kept1 /\ Ordinary(x) = Joined(kept2, x)
    BY <1>9 DEF Priority, Ordinary, kept1, kept2
  <2>2. Place(Priority(x), Ordinary(x), x) = Len(kept1) + IndexOf(Joined(kept2, x), x)
    BY <1>9, <2>1 DEF Place
  <2>3. Ahead(x) = Len(kept1) + IF x \in Guids(kept2) THEN IndexOf(kept2, x) - 1 ELSE Len(kept2)
    BY <1>9 DEF Ahead, kept1, kept2
  <2>4. (IF x \in Guids(kept2) THEN IndexOf(kept2, x) - 1 ELSE Len(kept2)) \in Int
    <3>1. x \in Guids(kept2) => IndexOf(kept2, x) \in DOMAIN kept2
      BY DEF IndexOf, Guids
    <3>2. kept2 \in Seq(Entry)
      BY <1>1 DEF Orderly
    <3> QED BY <1>2, <3>1, <3>2
  <2>5. Ahead(x) \in Nat /\ Place(Priority(x), Ordinary(x), x) = Ahead(x) + 1
    BY <1>2, <1>7, <2>2, <2>3, <2>4
  <2>6. Slot(x) \in Nat \ {0} /\ Slot(x) >= Ahead(x) + 1 /\ (drift = 0 => Slot(x) = Ahead(x) + 1)
    BY <1>3, <2>5 DEF Slot, SlotError
  <2> QED BY <1>1, <1>3, <1>4, <1>5, <1>7, <1>9, <2>1, <2>5, <2>6
<1> QED BY <1>8, <1>9

LEMMA LoginByListDoes ==
    ASSUME NEW x \in Players, LoginByList(x)
    PROVE  /\ ~LetIn(x)
           /\ IF Cardinality(online) + Slot(x) <= MaxPlayers
              THEN /\ priorityWaitList' = Without(Priority(x), x)
                   /\ waitList' = Without(Ordinary(x), x)
                   /\ playerReferences' = (playerReferences \cap Fresh) \ {x}
                   /\ drift' = IF x \in Premium /\ drift < MaxDrift THEN drift + 1 ELSE drift
                   /\ online' = online \cup {x}
              ELSE /\ priorityWaitList' = Renewed(Priority(x), x, Slot(x))
                   /\ waitList' = Renewed(Ordinary(x), x, Slot(x))
                   /\ playerReferences' = (playerReferences \cap Fresh) \cup {x}
                   /\ UNCHANGED <<drift, online>>
BY DEF LoginByList, Slot, Priority, Ordinary

LEMMA LoginByListKeeps ==
    ASSUME ReferencesMatch, NEW x \in Players, LoginByList(x)
    PROVE  ReferencesMatch'
<1>1. /\ Orderly(Priority(x)) /\ Orderly(Ordinary(x))
      /\ Guids(Priority(x)) \cup Guids(Ordinary(x)) = Fresh \cup {x}
      /\ Guids(Priority(x)) \subseteq Premium /\ Guids(Ordinary(x)) \cap Premium = {}
      /\ Fresh \subseteq playerReferences /\ Slot(x) \in Nat
  BY SeenByLogin
<1>2. /\ playerReferences \subseteq Players /\ drift \in 0 .. MaxDrift /\ online \subseteq Players
      /\ MaxDrift \in Nat
  BY ListsMatch, WaitingListAssumption
<1>3. CASE Cardinality(online) + Slot(x) <= MaxPlayers
  <2>1. /\ priorityWaitList' = Without(Priority(x), x) /\ waitList' = Without(Ordinary(x), x)
        /\ playerReferences' = (playerReferences \cap Fresh) \ {x}
        /\ drift' = IF x \in Premium /\ drift < MaxDrift THEN drift + 1 ELSE drift
        /\ online' = online \cup {x}
    BY <1>3, LoginByListDoes
  <2>2. /\ Orderly(priorityWaitList') /\ Orderly(waitList')
        /\ Guids(priorityWaitList') = Guids(Priority(x)) \ {x}
        /\ Guids(waitList') = Guids(Ordinary(x)) \ {x}
    BY <1>1, <2>1, LeftOut
  <2>3. drift' \in 0 .. MaxDrift
    BY <1>2, <2>1
  <2> QED BY <1>1, <1>2, <2>1, <2>2, <2>3, ListsMatchNext
<1>4. CASE ~(Cardinality(online) + Slot(x) <= MaxPlayers)
  <2>1. /\ priorityWaitList' = Renewed(Priority(x), x, Slot(x))
        /\ waitList' = Renewed(Ordinary(x), x, Slot(x))
        /\ playerReferences' = (playerReferences \cap Fresh) \cup {x}
        /\ drift' = drift /\ online' = online
    BY <1>4, LoginByListDoes
  <2>2. /\ Orderly(priorityWaitList') /\ Orderly(waitList')
        /\ Guids(priorityWaitList') = Guids(Priority(x))
        /\ Guids(waitList') = Guids(Ordinary(x))
    BY <1>1, <2>1, Renewing
  <2> QED BY <1>1, <1>2, <2>1, <2>2, ListsMatchNext
<1> QED BY <1>3, <1>4

LEMMA WaitStarts == WaitInit => ReferencesMatch
<1> SUFFICES ASSUME WaitInit PROVE ReferencesMatch
  OBVIOUS
<1>1. Orderly(<<>>) /\ Guids(<<>>) = {}
  BY DEF Orderly, IsInjective, ToSet, Guids
<1> QED BY <1>1, ListsMatch, WaitingListAssumption DEF WaitInit, Waiting

LEMMA WaitStep ==
    ASSUME ReferencesMatch, [WaitNext]_waitVars
    PROVE  ReferencesMatch'
<1>0. /\ Orderly(priorityWaitList) /\ Orderly(waitList)
      /\ playerReferences \subseteq Players
      /\ playerReferences = Guids(priorityWaitList) \cup Guids(waitList)
      /\ drift \in 0 .. MaxDrift /\ online \subseteq Players
      /\ Guids(priorityWaitList) \subseteq Premium /\ Guids(waitList) \cap Premium = {}
  BY ListsMatch DEF Waiting
<1>1. CASE Tick
  BY <1>0, <1>1, Ageing, ListsMatchNext DEF Tick
<1>2. ASSUME NEW x \in Players, LoginAtOnce(x) PROVE ReferencesMatch'
  BY <1>0, <1>2, ListsMatchNext DEF LoginAtOnce
<1>3. ASSUME NEW x \in Players, LoginByList(x) PROVE ReferencesMatch'
  BY <1>3, LoginByListKeeps
<1>4. ASSUME NEW x \in Players, Logout(x) PROVE ReferencesMatch'
  BY <1>0, <1>4, ListsMatchNext DEF Logout
<1>5. CASE UNCHANGED waitVars
  BY <1>0, <1>5, ListsMatchNext DEF waitVars
<1> QED BY <1>1, <1>2, <1>3, <1>4, <1>5 DEF WaitNext, Login

\* The lists of waiting players and the references into them always agree, however
\* many players try, give up, let their entries run out or are let in: what
\* clientLogin erases is an entry of that player, and the only one.
THEOREM ReferencesKept == WaitSpec => []ReferencesMatch
BY WaitStarts, WaitStep, PTL DEF WaitSpec

\* An empty list is still empty when it is cleaned, and nobody is in it.
LEMMA NobodyAhead ==
    ASSUME priorityWaitList = <<>>, waitList = <<>>, NEW x PROVE Ahead(x) = 0
BY OnlyEmpty DEF Ahead, cleanupList, Guids

\* A login lets in exactly who has a room left behind those ahead (LoginsInOrder),
\* for any number of players and rooms.
THEOREM LoginsOrdered == WaitSpec => LoginsInOrder
<1>1. ASSUME ReferencesMatch, NEW x \in Players, Login(x)
      PROVE  LeavesRoomForThoseAhead(x) /\ RoomAdmits(x)
  <2> DEFINE n == Cardinality(online)
  <2>1. /\ x \notin online /\ MaxPlayers \in Nat
        /\ IsFiniteSet(online) /\ n \in Nat /\ Cardinality(online \cup {x}) = n + 1
    <3>1. online \subseteq Players /\ IsFiniteSet(Players)
      BY <1>1, WaitingListAssumption DEF ReferencesMatch, WaitTypeOK
    <3>2. IsFiniteSet(online)
      BY <3>1, FS_Subset
    <3> QED BY <1>1, <3>2, FS_CardinalityType, FS_AddElement, WaitingListAssumption DEF Login
  <2>2. CASE LoginAtOnce(x)
    <3>1. online' = online \cup {x}
      BY <2>2 DEF LoginAtOnce
    <3>2. x \in Exempt \/ MaxPlayers = 0 \/ (Ahead(x) = 0 /\ n < MaxPlayers)
      BY <2>2, NobodyAhead DEF LoginAtOnce, LetIn
    <3> QED BY <2>1, <3>1, <3>2 DEF LeavesRoomForThoseAhead, RoomAdmits
  <2>3. CASE LoginByList(x)
    <3>1. /\ Ahead(x) \in Nat /\ Slot(x) \in Nat /\ Slot(x) >= Ahead(x) + 1
          /\ drift = 0 => Slot(x) = Ahead(x) + 1
      BY <1>1, SeenByLogin
    <3>2. IF n + Slot(x) <= MaxPlayers THEN online' = online \cup {x} ELSE online' = online
      BY <2>3, LoginByListDoes
    <3>3. CASE n + Slot(x) <= MaxPlayers
      <4>1. Cardinality(online') = n + 1 /\ x \in online'
        BY <2>1, <3>2, <3>3
      <4>2. n + 1 + Ahead(x) <= MaxPlayers
        BY <2>1, <3>1, <3>3
      <4> QED BY <4>1, <4>2 DEF LeavesRoomForThoseAhead, RoomAdmits
    <3>4. CASE ~(n + Slot(x) <= MaxPlayers)
      <4>1. x \notin online'
        BY <2>1, <3>2, <3>4
      <4>2. ~(drift = 0 /\ n + Ahead(x) < MaxPlayers)
        BY <2>1, <3>1, <3>4
      <4> QED BY <4>1, <4>2 DEF LeavesRoomForThoseAhead, RoomAdmits
    <3> QED BY <3>3, <3>4
  <2> QED BY <1>1, <2>2, <2>3 DEF Login
<1>2. ReferencesMatch => [\A p \in Players : Login(p) =>
                              LeavesRoomForThoseAhead(p) /\ RoomAdmits(p)]_waitVars
  BY <1>1
<1> QED BY <1>2, ReferencesKept, PTL DEF LoginsInOrder
-----------------------------------------------------------------------------
(* Party.                                                                  *)

Stages == {"free", "game", "dead", "gone"}
Groups == [leader    : [Parties -> Persons \cup {None}],
           members   : [Parties -> Seq(Persons)],
           invitees  : [Parties -> SUBSET Persons],
           party     : [Persons -> Parties \cup {None}],
           invitedBy : [Persons -> SUBSET Parties]]

Inside(s, g) == {o \in Persons : s.party[o] = g}
Asked(s, g) == {o \in Persons : g \in s.invitedBy[o]}

\* PartiesMatch says nothing of a free object and little of who is gone: that a
\* player returns with no invitation an existing party remembers, that who knows
\* of an invitation has it, and that a leader is inside, are what keeps it.  The
\* six values that concern one party are all it depends on, so that a step is
\* looked at in the parties it touches.
\*
\* One party: its leader, members and invitees, the players who say that they are
\* in it, and those who say that they are invited.
Team(leader, members, invitees, inside, asked, st, leave) ==
    /\ IsInjective(members) /\ leader \notin ToSet(members)
    /\ leader # None => leader \in inside
    /\ inside # {} \/ asked # {} =>
          /\ inside = ({leader} \cup ToSet(members)) \ {None}
          /\ asked \subseteq invitees
          /\ \A o \in invitees : st[o] # "free" /\ (st[o] \in {"game", "dead"} => o \in asked)
          /\ invitees \cap inside = {}
          /\ leader # None => members # <<>> \/ invitees # {}
          /\ leave => leader # None /\ \A o \in inside : st[o] = "game"

TeamOf(s, g, st, leave) ==
    Team(s.leader[g], s.members[g], s.invitees[g], Inside(s, g), Asked(s, g), st, leave)

Unused(s, st) == \A o \in Persons : st[o] = "free" => s.party[o] = None /\ s.invitedBy[o] = {}

Kept(s, st, leave) ==
    /\ s \in Groups
    /\ Unused(s, st)
    /\ \A g \in Parties : TeamOf(s, g, st, leave)

\* A party that nothing touches.
LEMMA Untouched ==
    ASSUME NEW s \in Groups, NEW t \in Groups, NEW g \in Parties, NEW st, NEW leave,
           TeamOf(s, g, st, leave),
           t.leader[g] = s.leader[g], t.members[g] = s.members[g], t.invitees[g] = s.invitees[g],
           Inside(t, g) = Inside(s, g), Asked(t, g) = Asked(s, g)
    PROVE  TeamOf(t, g, st, leave)
BY DEF TeamOf

LEMMA NoList == ToSet(<<>>) = {} /\ IsInjective(<<>>) /\ \A A : <<>> \in Seq(A)
BY EmptySeq DEF ToSet, IsInjective

\* What disband does.
Disbanded(s, g, all, t) ==
    /\ t \in Groups
    /\ t.leader = [s.leader EXCEPT ![g] = None]
    /\ t.members = [s.members EXCEPT ![g] = <<>>]
    /\ t.invitees = [s.invitees EXCEPT ![g] = {}]
    /\ t.party = [o \in Persons |-> IF o \in all THEN None ELSE s.party[o]]
    /\ t.invitedBy = [o \in Persons |->
         IF o \in s.invitees[g] THEN s.invitedBy[o] \ {g} ELSE s.invitedBy[o]]

LEMMA DisbandDoes ==
    ASSUME NEW s \in Groups, NEW g \in Parties, s.leader[g] # None
    PROVE  Disbanded(s, g, {s.leader[g]} \cup ToSet(s.members[g]), disband(s, g))
BY NoList DEF disband, Groups, Disbanded

\* After disband nobody names the party, and the others are as before.
LEMMA Disbanding ==
    ASSUME NEW s \in Groups, NEW g \in Parties, NEW st, NEW leave, s.leader[g] # None,
           Unused(s, st), \A h \in Parties \ {g} : TeamOf(s, h, st, leave),
           NEW all, all = {s.leader[g]} \cup ToSet(s.members[g]),
           \A o \in all : s.party[o] \in {g, None},
           Inside(s, g) \subseteq all, Asked(s, g) \subseteq s.invitees[g]
    PROVE  Kept(disband(s, g), st, leave)
<1> DEFINE t == disband(s, g)
<1>0. s.leader \in [Parties -> Persons \cup {None}] /\ s.members \in [Parties -> Seq(Persons)]
      /\ s.invitees \in [Parties -> SUBSET Persons] /\ s.party \in [Persons -> Parties \cup {None}]
      /\ s.invitedBy \in [Persons -> SUBSET Parties] /\ None \notin Parties
    BY PartyAssumption DEF Groups
<1>1. /\ t \in Groups
      /\ t.leader = [s.leader EXCEPT ![g] = None]
      /\ t.members = [s.members EXCEPT ![g] = <<>>]
      /\ t.invitees = [s.invitees EXCEPT ![g] = {}]
      /\ t.party = [o \in Persons |-> IF o \in all THEN None ELSE s.party[o]]
      /\ t.invitedBy = [o \in Persons |->
           IF o \in s.invitees[g] THEN s.invitedBy[o] \ {g} ELSE s.invitedBy[o]]
    <2>1. Disbanded(s, g, all, t)
        BY DisbandDoes
    <2> QED BY <2>1 DEF Disbanded
<1> HIDE DEF t
<1>2. Unused(t, st)
    BY <1>0, <1>1 DEF Unused
<1>3. TeamOf(t, g, st, leave)
    <2>1. Inside(t, g) = {} /\ Asked(t, g) = {}
        BY <1>0, <1>1 DEF Inside, Asked
    <2>2. t.leader[g] = None /\ t.members[g] = <<>>
        BY <1>0, <1>1
    <2> QED BY <2>1, <2>2, NoList DEF TeamOf, Team
<1>4. ASSUME NEW h \in Parties \ {g} PROVE TeamOf(t, h, st, leave)
    <2>1. t.leader[h] = s.leader[h] /\ t.members[h] = s.members[h] /\ t.invitees[h] = s.invitees[h]
        BY <1>0, <1>1
    <2>2. Inside(t, h) = Inside(s, h) /\ Asked(t, h) = Asked(s, h)
        BY <1>0, <1>1 DEF Inside, Asked
    <2> QED BY <1>1, <2>1, <2>2, Untouched
<1> QED BY <1>1, <1>2, <1>3, <1>4 DEF Kept, t

\* What Kept says of one party.
LEMMA Meaning ==
    ASSUME NEW s, NEW st, NEW leave, Kept(s, st, leave), NEW g \in Parties
    PROVE  /\ s.leader[g] \in Persons \cup {None} /\ s.members[g] \in Seq(Persons)
           /\ s.invitees[g] \in SUBSET Persons
           /\ IsInjective(s.members[g]) /\ s.leader[g] \notin ToSet(s.members[g])
           /\ s.leader[g] # None => s.leader[g] \in Inside(s, g)
           /\ None \notin ToSet(s.members[g]) /\ ToSet(s.members[g]) \subseteq Persons
           /\ Inside(s, g) # {} \/ Asked(s, g) # {} =>
                 /\ Inside(s, g) = ({s.leader[g]} \cup ToSet(s.members[g])) \ {None}
                 /\ Asked(s, g) \subseteq s.invitees[g]
                 /\ \A o \in s.invitees[g] :
                       st[o] # "free" /\ (st[o] \in {"game", "dead"} => o \in Asked(s, g))
                 /\ s.invitees[g] \cap Inside(s, g) = {}
                 /\ s.leader[g] # None => s.members[g] # <<>> \/ s.invitees[g] # {}
                 /\ leave => s.leader[g] # None /\ \A o \in Inside(s, g) : st[o] = "game"
<1>1. s.leader[g] \in Persons \cup {None} /\ s.members[g] \in Seq(Persons)
      /\ s.invitees[g] \in SUBSET Persons
    BY DEF Kept, Groups
<1>2. TeamOf(s, g, st, leave)
    BY DEF Kept
<1>3. ToSet(s.members[g]) \subseteq Persons
    BY <1>1, ToSetFinite
<1> QED BY <1>1, <1>2, <1>3, PartyAssumption DEF TeamOf, Team

\* Another leader of the same party.
LEMMA Passing ==
    ASSUME NEW s, NEW st, NEW leave, Kept(s, st, leave), NEW g \in Parties, NEW o \in Persons,
           s.leader[g] # None, s.leader[g] # o, s.party[o] = g
    PROVE  LET t == passPartyLeadership(s, g, o)
           IN  /\ Kept(t, st, leave)
               /\ t.leader = [s.leader EXCEPT ![g] = o]
               /\ \A h \in Parties \ {g} : t.members[h] = s.members[h]
               /\ {o} \cup ToSet(t.members[g]) = {s.leader[g]} \cup ToSet(s.members[g])
               /\ t.invitees = s.invitees /\ t.party = s.party /\ t.invitedBy = s.invitedBy
<1> DEFINE t == passPartyLeadership(s, g, o)
           m == s.members[g]
           n == <<s.leader[g]>> \o Dropping(m, o)
<1>0. s \in Groups /\ s.leader \in [Parties -> Persons \cup {None}] /\ s.members \in [Parties -> Seq(Persons)]
      /\ s.invitees \in [Parties -> SUBSET Persons] /\ s.party \in [Persons -> Parties \cup {None}]
      /\ s.invitedBy \in [Persons -> SUBSET Parties] /\ None \notin Parties
    BY PartyAssumption DEF Kept, Groups
<1>1. o \in Inside(s, g)
    BY DEF Inside
<1>2. Inside(s, g) = {s.leader[g]} \cup ToSet(m) /\ s.leader[g] \in Persons /\ m \in Seq(Persons)
      /\ IsInjective(m) /\ s.leader[g] \notin ToSet(m) /\ o # None
    BY <1>1, Meaning, PartyAssumption
<1>3. Dropping(m, o) \in Seq(Persons) /\ ToSet(Dropping(m, o)) = ToSet(m) \ {o} /\ IsInjective(Dropping(m, o))
    BY <1>2, DroppingProperties
<1>4. n \in Seq(Persons) /\ ToSet(n) = {s.leader[g]} \cup (ToSet(m) \ {o}) /\ IsInjective(n)
    BY <1>2, <1>3, PushFrontProperties
<1>5. n # <<>> /\ o \notin ToSet(n) /\ {o} \cup ToSet(n) = {s.leader[g]} \cup ToSet(m)
    BY <1>1, <1>2, <1>4, NoList
<1> HIDE DEF n
<1>6. /\ t \in Groups
      /\ t.leader = [s.leader EXCEPT ![g] = o] /\ t.members = [s.members EXCEPT ![g] = n]
      /\ t.invitees = s.invitees /\ t.party = s.party /\ t.invitedBy = s.invitedBy
    BY <1>0, <1>4 DEF passPartyLeadership, Groups, n
<1> HIDE DEF t
<1>7. /\ t.leader[g] = o /\ t.members[g] = n /\ t.invitees[g] = s.invitees[g]
      /\ \A h \in Parties \ {g} : t.leader[h] = s.leader[h] /\ t.members[h] = s.members[h]
    BY <1>0, <1>6
<1>8. \A h \in Parties : Inside(t, h) = Inside(s, h) /\ Asked(t, h) = Asked(s, h)
    BY <1>6 DEF Inside, Asked
<1>9. Kept(t, st, leave)
    <2>1. Unused(t, st)
        BY <1>6 DEF Kept, Unused
    <2>2. TeamOf(t, g, st, leave)
        <3>1. TeamOf(s, g, st, leave)
            BY DEF Kept
        <3>2. Inside(s, g) = ({o} \cup ToSet(n)) \ {None}
            BY <1>1, <1>2, <1>5, Meaning
        <3> QED BY <1>1, <1>2, <1>4, <1>5, <1>7, <1>8, <3>1, <3>2 DEF TeamOf, Team
    <2>3. ASSUME NEW h \in Parties \ {g} PROVE TeamOf(t, h, st, leave)
        BY <1>0, <1>6, <1>7, <1>8, Untouched DEF Kept
    <2> QED BY <1>6, <2>1, <2>2, <2>3 DEF Kept
<1> QED BY <1>5, <1>6, <1>7, <1>9 DEF t

\* Who follows a leader who leaves: the party keeps its people, or nobody follows.
Succeeding(s, st, leave, g, o, t) ==
    /\ Kept(t, st, leave) /\ t.leader[g] # None
    /\ \A h \in Parties \ {g} : t.leader[h] = s.leader[h] /\ t.members[h] = s.members[h]
    /\ {t.leader[g]} \cup ToSet(t.members[g]) = {s.leader[g]} \cup ToSet(s.members[g])
    /\ t.invitees = s.invitees /\ t.party = s.party /\ t.invitedBy = s.invitedBy
    /\ s.leader[g] # o => t = s
    /\ s.leader[g] = o /\ t.leader[g] = o =>
         t = s /\ (s.members[g] = <<>> \/ (s.invitees[g] = {} /\ Len(s.members[g]) = 1))

LEMMA Succession ==
    ASSUME NEW s, NEW st, NEW leave, Kept(s, st, leave), NEW o \in Persons, NEW g \in Parties,
           s.party[o] = g, s.leader[g] # None
    PROVE  Succeeding(s, st, leave, g, o, Succeeded(s, g, o))
<1> DEFINE t == Succeeded(s, g, o)
           p == Head(s.members[g])
           Hands == s.leader[g] = o /\ s.members[g] # <<>> /\ (Len(s.members[g]) > 1 \/ s.invitees[g] # {})
<1>0. s.leader \in [Parties -> Persons \cup {None}] /\ s.members[g] \in Seq(Persons) /\ s.invitees[g] \in SUBSET Persons
    BY DEF Kept, Groups
<1>1. CASE ~Hands
    <2>1. t = s
        BY <1>1 DEF Succeeded
    <2>2. s.leader[g] = o => s.members[g] = <<>> \/ (s.invitees[g] = {} /\ Len(s.members[g]) = 1)
        <3>1. s.members[g] # <<>> => Len(s.members[g]) \in Nat \ {0}
            BY <1>0, EmptySeq
        <3>2. s.leader[g] = o /\ s.members[g] # <<>> => ~(Len(s.members[g]) > 1) /\ s.invitees[g] = {}
            BY <1>1
        <3>3. \A n \in Nat \ {0} : ~(n > 1) => n = 1
            OBVIOUS
        <3> QED BY <3>1, <3>2, <3>3
    <2> QED BY <2>1, <2>2 DEF Succeeding
<1>2. CASE Hands
    <2>1. t = passPartyLeadership(s, g, p)
        BY <1>2 DEF Succeeded
    <2>2. p \in Persons /\ p \in ToSet(s.members[g])
        BY <1>0, <1>2, TailSet
    <2>3. o \in Inside(s, g)
        BY DEF Inside
    <2>4. p \in Inside(s, g) /\ p # o /\ p # None
        BY <1>2, <2>2, <2>3, Meaning
    <2>5. s.party[p] = g
        BY <2>4 DEF Inside
    <2> HIDE DEF p
    <2>6. /\ Kept(t, st, leave)
          /\ t.leader = [s.leader EXCEPT ![g] = p]
          /\ \A h \in Parties \ {g} : t.members[h] = s.members[h]
          /\ {p} \cup ToSet(t.members[g]) = {s.leader[g]} \cup ToSet(s.members[g])
          /\ t.invitees = s.invitees /\ t.party = s.party /\ t.invitedBy = s.invitedBy
        BY <1>2, <2>1, <2>2, <2>4, <2>5, Passing
    <2> HIDE DEF t
    <2>7. t.leader[g] = p /\ \A h \in Parties \ {g} : t.leader[h] = s.leader[h]
        BY <1>0, <2>6
    <2> QED BY <1>2, <2>4, <2>6, <2>7 DEF t, Succeeding
<1> QED BY <1>1, <1>2

\* Who leaves is in no party, and what is left of it is a party or is ended.
LEMMA Leaving ==
    ASSUME NEW s, NEW st, NEW leave, Kept(s, st, leave), NEW o \in Persons
    PROVE  LET t == leaveParty(s, o)
           IN  /\ Kept(t, st, leave)
               /\ t.party[o] = None \/ (s.party[o] \in Parties /\ s.leader[s.party[o]] = None /\ t = s)
<1> DEFINE g == s.party[o]
           u == Succeeded(s, g, o)
           m == Dropping(u.members[g], o)
           left == [u EXCEPT !.members[g] = m, !.party[o] = None]
           t == leaveParty(s, o)
<1>0. s \in Groups /\ g \in Parties \cup {None}
    BY DEF Kept, Groups
<1>1. CASE g = None \/ s.leader[g] = None
    BY <1>0, <1>1 DEF leaveParty
<1>2. CASE g # None /\ s.leader[g] # None
    <2>1. g \in Parties /\ o \in Inside(s, g)
        BY <1>0, <1>2 DEF Inside
    <2>2. /\ Kept(u, st, leave) /\ u.leader[g] # None
          /\ {u.leader[g]} \cup ToSet(u.members[g]) = {s.leader[g]} \cup ToSet(s.members[g])
          /\ u.party = s.party /\ u.invitedBy = s.invitedBy
        <3>1. Succeeding(s, st, leave, g, o, u)
            BY <1>2, <2>1, Succession
        <3> QED BY <3>1 DEF Succeeding
    <2>3. t = IF u.leader[g] = o \/ Alone(left, g) THEN disband(left, g) ELSE left
        BY <1>2 DEF leaveParty
    <2> HIDE DEF u, t, g
    <2>4. o \in Inside(u, g) /\ u.party[o] = g
        BY <2>1, <2>2 DEF Inside
    <2>5. /\ u \in Groups /\ u.leader \in [Parties -> Persons \cup {None}] /\ u.members \in [Parties -> Seq(Persons)]
          /\ u.invitees \in [Parties -> SUBSET Persons] /\ u.party \in [Persons -> Parties \cup {None}]
          /\ u.invitedBy \in [Persons -> SUBSET Parties] /\ None \notin Parties /\ Unused(u, st)
        BY <2>2, PartyAssumption DEF Kept, Groups
    <2>6. /\ Inside(u, g) = {u.leader[g]} \cup ToSet(u.members[g]) /\ None \notin Inside(u, g)
          /\ Asked(u, g) \subseteq u.invitees[g] /\ IsInjective(u.members[g])
          /\ u.leader[g] \notin ToSet(u.members[g])
        BY <2>1, <2>2, <2>4, Meaning
    <2>7. m \in Seq(Persons) /\ ToSet(m) = ToSet(u.members[g]) \ {o} /\ IsInjective(m)
        BY <2>1, <2>5, <2>6, DroppingProperties
    <2> HIDE DEF m
    <2>8. /\ left \in Groups
          /\ left.leader = u.leader /\ left.members = [u.members EXCEPT ![g] = m]
          /\ left.invitees = u.invitees /\ left.party = [u.party EXCEPT ![o] = None]
          /\ left.invitedBy = u.invitedBy
        BY <2>5, <2>7 DEF Groups
    <2> HIDE DEF left
    <2>9. left.party[o] = None /\ left.members[g] = m /\ \A h \in Parties \ {g} : left.members[h] = u.members[h]
        BY <2>1, <2>5, <2>8
    <2>10. /\ Inside(left, g) = Inside(u, g) \ {o} /\ Asked(left, g) = Asked(u, g)
           /\ \A h \in Parties \ {g} : Inside(left, h) = Inside(u, h) /\ Asked(left, h) = Asked(u, h)
        BY <2>1, <2>4, <2>5, <2>8 DEF Inside, Asked
    <2>11. Unused(left, st)
        BY <2>5, <2>8 DEF Unused
    <2>12. \A h \in Parties \ {g} : TeamOf(left, h, st, leave)
        BY <2>2, <2>5, <2>8, <2>9, <2>10, Untouched DEF Kept
    <2>13. CASE u.leader[g] = o \/ Alone(left, g)
        <3> DEFINE all == {left.leader[g]} \cup ToSet(left.members[g])
        <3>1. left.leader[g] # None /\ all \subseteq Inside(u, g) /\ Inside(left, g) \subseteq all
            BY <2>2, <2>6, <2>7, <2>8, <2>9, <2>10
        <3>2. \A p \in all : left.party[p] \in {g, None}
            BY <2>5, <2>8, <3>1 DEF Inside
        <3>3. Asked(left, g) \subseteq left.invitees[g]
            BY <2>6, <2>8, <2>10
        <3>4. t = disband(left, g)
            BY <2>3, <2>13
        <3>5. Kept(t, st, leave)
            BY <2>1, <2>8, <2>11, <2>12, <3>1, <3>2, <3>3, <3>4, Disbanding
        <3>6. t.party[o] = None
            <4>1. Disbanded(left, g, all, t)
                BY <2>1, <2>8, <3>1, <3>4, DisbandDoes
            <4> QED BY <2>8, <2>9, <4>1 DEF Disbanded
        <3> QED BY <3>5, <3>6 DEF t
    <2>14. CASE ~(u.leader[g] = o \/ Alone(left, g))
        <3>1. t = left
            BY <2>3, <2>14
        <3>2. m # <<>> \/ left.invitees[g] # {}
            BY <2>9, <2>14 DEF Alone
        <3>3. Inside(left, g) = {left.leader[g]} \cup ToSet(m) /\ None \notin Inside(left, g)
            BY <2>6, <2>7, <2>8, <2>10, <2>14
        <3>4. left.leader[g] \notin ToSet(m) /\ left.leader[g] # None
            BY <2>2, <2>6, <2>7, <2>8
        <3>5. TeamOf(left, g, st, leave)
            <4>1. /\ Asked(left, g) \subseteq left.invitees[g]
                  /\ \A p \in left.invitees[g] : st[p] # "free" /\ (st[p] \in {"game", "dead"} => p \in Asked(left, g))
                  /\ left.invitees[g] \cap Inside(left, g) = {}
                  /\ leave => \A p \in Inside(left, g) : st[p] = "game"
                BY <2>1, <2>2, <2>4, <2>8, <2>10, Meaning
            <4> QED BY <2>7, <2>9, <3>2, <3>3, <3>4, <4>1 DEF TeamOf, Team
        <3>6. Kept(left, st, leave)
            BY <2>8, <2>11, <2>12, <3>5 DEF Kept
        <3> QED BY <2>9, <3>1, <3>6 DEF t
    <2> QED BY <2>13, <2>14
<1> QED BY <1>0, <1>1, <1>2

\* What Uninvited does, with the parties of G out of the player's own list.
Withdrawn(s, G, o, t) ==
    LET known == {g \in G : s.leader[g] # None /\ o \in s.invitees[g]}
        ended == {g \in known : s.members[g] = <<>> /\ s.invitees[g] = {o}}
    IN  /\ t \in Groups
        /\ t.leader = [g \in Parties |-> IF g \in ended THEN None ELSE s.leader[g]]
        /\ t.members = s.members
        /\ t.invitees = [g \in Parties |-> s.invitees[g] \ IF g \in known THEN {o} ELSE {}]
        /\ t.party = [p \in Persons |-> IF \E g \in ended : s.leader[g] = p THEN None ELSE s.party[p]]
        /\ t.invitedBy = [s.invitedBy EXCEPT ![o] = @ \ G]

\* Who is invited no longer, by the parties of G: a player who goes, or one whom a
\* party with a leader does not want any more.
LEMMA Withdrawing ==
    ASSUME NEW s, NEW st, NEW leave, Kept(s, st, leave), NEW o \in Persons,
           NEW G \in SUBSET Parties, G \subseteq s.invitedBy[o],
           st[o] = "gone" \/ \A g \in G : s.leader[g] # None,
           NEW t, Withdrawn(s, G, o, t)
    PROVE  Kept(t, st, leave)
<1> DEFINE known == {g \in G : s.leader[g] # None /\ o \in s.invitees[g]}
           ended == {g \in known : s.members[g] = <<>> /\ s.invitees[g] = {o}}
<1>0. /\ s \in Groups /\ s.leader \in [Parties -> Persons \cup {None}] /\ s.members \in [Parties -> Seq(Persons)]
      /\ s.invitees \in [Parties -> SUBSET Persons] /\ s.party \in [Persons -> Parties \cup {None}]
      /\ s.invitedBy \in [Persons -> SUBSET Parties] /\ None \notin Parties /\ Unused(s, st)
    BY PartyAssumption DEF Kept, Groups
<1>1. /\ t \in Groups
      /\ t.leader = [g \in Parties |-> IF g \in ended THEN None ELSE s.leader[g]]
      /\ t.members = s.members
      /\ t.invitees = [g \in Parties |-> s.invitees[g] \ IF g \in known THEN {o} ELSE {}]
      /\ t.party = [p \in Persons |-> IF \E g \in ended : s.leader[g] = p THEN None ELSE s.party[p]]
      /\ t.invitedBy = [s.invitedBy EXCEPT ![o] = @ \ G]
    BY DEF Withdrawn
<1>2. \A g \in G : o \in Asked(s, g) /\ o \in s.invitees[g]
    BY Meaning DEF Asked
<1>3. \A g \in ended : Inside(s, g) = {s.leader[g]} /\ Asked(s, g) = {o}
    <2> SUFFICES ASSUME NEW g \in ended PROVE Inside(s, g) = {s.leader[g]} /\ Asked(s, g) = {o}
        OBVIOUS
    <2>1. g \in Parties /\ g \in G /\ s.leader[g] # None /\ s.members[g] = <<>> /\ s.invitees[g] = {o}
        OBVIOUS
    <2>2. Inside(s, g) = ({s.leader[g]} \cup ToSet(s.members[g])) \ {None} /\ Asked(s, g) \subseteq s.invitees[g]
        BY <1>2, <2>1, Meaning
    <2> QED BY <1>2, <2>1, <2>2, NoList
<1>4. Unused(t, st)
    BY <1>0, <1>1 DEF Unused
<1>10. \A g \in known : g \in Parties /\ g \in G /\ o \in s.invitees[g] /\ s.leader[g] # None
    OBVIOUS
<1>11. \A g \in ended : g \in known /\ s.members[g] = <<>>
    OBVIOUS
<1>12. \A g \in known \ ended : s.members[g] # <<>> \/ s.invitees[g] \ {o} # {}
    OBVIOUS
<1>13. \A g \in Parties \ known : g \in G => s.leader[g] = None
    BY <1>2
<1> HIDE DEF known, ended
<1>5. \A g \in Parties \ ended : Inside(t, g) = Inside(s, g)
    <2> SUFFICES ASSUME NEW g \in Parties \ ended, NEW p \in Persons PROVE t.party[p] = g <=> s.party[p] = g
        BY DEF Inside
    <2>1. \A e \in ended : s.leader[e] = p => s.party[p] = e
        BY <1>3 DEF Inside
    <2> QED BY <1>0, <1>1, <2>1
<1>6. \A g \in Parties : Asked(t, g) = IF g \in G THEN Asked(s, g) \ {o} ELSE Asked(s, g)
    BY <1>0, <1>1 DEF Asked
<1>7. ASSUME NEW g \in ended PROVE TeamOf(t, g, st, leave)
    <2>1. g \in Parties /\ g \in G /\ s.members[g] = <<>>
        BY <1>10, <1>11
    <2>2. t.leader[g] = None /\ t.members[g] = <<>>
        BY <1>1, <2>1
    <2>3. Asked(t, g) = {}
        BY <1>3, <1>6, <2>1
    <2>4. Inside(t, g) = {}
        <3> SUFFICES ASSUME NEW p \in Persons, t.party[p] = g PROVE FALSE
            BY DEF Inside
        <3>1. s.party[p] = g /\ \A e \in ended : s.leader[e] # p
            BY <1>0, <1>1, <2>1
        <3> QED BY <1>3, <3>1 DEF Inside
    <2> QED BY <2>2, <2>3, <2>4, NoList DEF TeamOf, Team
<1>8. ASSUME NEW g \in known \ ended PROVE TeamOf(t, g, st, leave)
    <2>1. g \in Parties /\ g \in G /\ o \in s.invitees[g] /\ s.leader[g] # None
        BY <1>10
    <2>2. t.leader[g] = s.leader[g] /\ t.members[g] = s.members[g] /\ t.invitees[g] = s.invitees[g] \ {o}
        BY <1>1, <2>1
    <2>3. Inside(t, g) = Inside(s, g) /\ Asked(t, g) = Asked(s, g) \ {o} /\ Asked(s, g) # {}
        BY <1>2, <1>5, <1>6, <2>1
    <2>4. s.members[g] # <<>> \/ s.invitees[g] \ {o} # {}
        BY <1>12
    <2>5. TeamOf(s, g, st, leave)
        BY <2>1 DEF Kept
    <2> QED BY <2>2, <2>3, <2>4, <2>5 DEF TeamOf, Team
<1>9. ASSUME NEW g \in Parties \ known PROVE TeamOf(t, g, st, leave)
    <2>1. t.leader[g] = s.leader[g] /\ t.members[g] = s.members[g] /\ t.invitees[g] = s.invitees[g]
          /\ Inside(t, g) = Inside(s, g)
        BY <1>1, <1>5, <1>11
    <2>2. g \in G => st[o] = "gone" /\ s.leader[g] = None
        BY <1>13
    <2>3. TeamOf(s, g, st, leave)
        BY DEF Kept
    <2> QED BY <1>2, <1>6, <2>1, <2>2, <2>3 DEF TeamOf, Team
<1> QED BY <1>1, <1>4, <1>7, <1>8, <1>9 DEF Kept

\* Who joins a party that exists leaves its invitees for its members.
LEMMA JoiningParty ==
    ASSUME NEW s, NEW st, NEW leave, Kept(s, st, leave), NEW g \in Parties, NEW o \in Persons,
           s.leader[g] # None, o \in s.invitees[g], s.party[o] = None, st[o] = "game",
           Inside(s, g) # {}
    PROVE  Kept(joinParty(s, g, o), st, leave)
<1> DEFINE t == joinParty(s, g, o)
           n == Append(s.members[g], o)
<1>0. /\ s \in Groups /\ s.leader \in [Parties -> Persons \cup {None}] /\ s.members \in [Parties -> Seq(Persons)]
      /\ s.invitees \in [Parties -> SUBSET Persons] /\ s.party \in [Persons -> Parties \cup {None}]
      /\ s.invitedBy \in [Persons -> SUBSET Parties] /\ None \notin Parties /\ Unused(s, st)
      /\ None # o
    BY PartyAssumption DEF Kept, Groups
<1>1. o \notin Inside(s, g) /\ Inside(s, g) = {s.leader[g]} \cup ToSet(s.members[g])
      /\ IsInjective(s.members[g]) /\ s.leader[g] \notin ToSet(s.members[g])
    BY <1>0, Meaning DEF Inside
<1>2. n \in Seq(Persons) /\ ToSet(n) = ToSet(s.members[g]) \cup {o} /\ IsInjective(n)
    BY <1>0, <1>1, AppendSet
<1>3. n # <<>>
    BY <1>2, NoList
<1> HIDE DEF n
<1>4. /\ t \in Groups /\ t.leader = s.leader /\ t.members = [s.members EXCEPT ![g] = n]
      /\ t.invitees = [s.invitees EXCEPT ![g] = @ \ {o}] /\ t.party = [s.party EXCEPT ![o] = g]
      /\ t.invitedBy = [s.invitedBy EXCEPT ![o] = @ \ {g}]
    BY <1>0, <1>2 DEF joinParty, Groups, n
<1> HIDE DEF t
<1>5. Unused(t, st)
    BY <1>0, <1>4 DEF Unused
<1>6. /\ Inside(t, g) = Inside(s, g) \cup {o} /\ Asked(t, g) = Asked(s, g) \ {o}
      /\ \A h \in Parties \ {g} : Inside(t, h) = Inside(s, h) /\ Asked(t, h) = Asked(s, h)
    BY <1>0, <1>4 DEF Inside, Asked
<1>7. /\ t.members[g] = n /\ t.invitees[g] = s.invitees[g] \ {o} /\ t.leader[g] = s.leader[g]
      /\ \A h \in Parties \ {g} : t.members[h] = s.members[h] /\ t.invitees[h] = s.invitees[h]
    BY <1>0, <1>4
<1>8. TeamOf(t, g, st, leave)
    <2>1. TeamOf(s, g, st, leave)
        BY DEF Kept
    <2> QED BY <1>0, <1>1, <1>2, <1>3, <1>6, <1>7, <2>1 DEF TeamOf, Team
<1>9. ASSUME NEW h \in Parties \ {g} PROVE TeamOf(t, h, st, leave)
    BY <1>0, <1>4, <1>6, <1>7, Untouched DEF Kept
<1> QED BY <1>4, <1>5, <1>8, <1>9 DEF Kept, t

\* A player comes into the game, dies, or goes and is not in a party that cares.
LEMMA Turning ==
    ASSUME NEW s, NEW st \in [Persons -> Stages], NEW leave, Kept(s, st, leave), NEW o \in Persons,
           st[o] # "gone", NEW to \in {"game", "dead", "gone"}, to = "game" \/ st[o] # "free",
           to # "game" /\ leave => s.party[o] = None
    PROVE  Kept(s, [st EXCEPT ![o] = to], leave)
<1> DEFINE new == [st EXCEPT ![o] = to]
<1>1. new[o] = to /\ \A p \in Persons \ {o} : new[p] = st[p]
    OBVIOUS
<1> HIDE DEF new
<1>2. Unused(s, new)
    BY <1>1 DEF Kept, Unused
<1>3. ASSUME NEW g \in Parties PROVE TeamOf(s, g, new, leave)
    <2>1. TeamOf(s, g, st, leave) /\ s.invitees[g] \in SUBSET Persons
        BY DEF Kept, Groups
    <2>2. st[o] \in Stages
        OBVIOUS
    <2>3. to # "game" /\ leave => o \notin Inside(s, g)
        BY PartyAssumption DEF Inside
    <2>4. Inside(s, g) \subseteq Persons
        BY DEF Inside
    <2> QED BY <1>1, <2>1, <2>2, <2>3, <2>4 DEF TeamOf, Team, Stages
<1> QED BY <1>2, <1>3 DEF Kept, new

PartyInv ==
    /\ stage \in [Persons -> Stages]
    /\ leavePartyOnDeath \in BOOLEAN
    /\ Kept(grouped, stage, leavePartyOnDeath)

LEMMA GroupedType ==
    ASSUME PartyInv
    PROVE  /\ grouped \in Groups
           /\ grouped.leader \in [Parties -> Persons \cup {None}]
           /\ grouped.members \in [Parties -> Seq(Persons)]
           /\ grouped.invitees \in [Parties -> SUBSET Persons]
           /\ grouped.party \in [Persons -> Parties \cup {None}]
           /\ grouped.invitedBy \in [Persons -> SUBSET Parties]
           /\ None \notin Parties /\ None \notin Persons
           /\ stage \in [Persons -> Stages] /\ leavePartyOnDeath \in BOOLEAN
           /\ Unused(grouped, stage)
BY PartyAssumption DEF PartyInv, Kept, Groups

LEMMA PartyMeans == PartyInv => PartiesMatch
<1> SUFFICES ASSUME PartyInv PROVE PartiesMatch
    OBVIOUS
<1>1. PartyTypeOK
    BY GroupedType DEF PartyTypeOK, Stages
<1>2. ASSUME NEW g \in Parties
      PROVE  LET all == {grouped.leader[g]} \cup ToSet(grouped.members[g])
             IN  /\ IsInjective(grouped.members[g]) /\ grouped.leader[g] \notin ToSet(grouped.members[g])
                 /\ Exists(g) =>
                       /\ {o \in Persons : grouped.party[o] = g} = all \ {None}
                       /\ \A o \in Persons : stage[o] \in {"game", "dead"} =>
                             (o \in grouped.invitees[g] <=> g \in grouped.invitedBy[o])
                       /\ grouped.invitees[g] \cap all = {}
                       /\ grouped.leader[g] # None => ~Alone(grouped, g)
                       /\ leavePartyOnDeath => \A o \in all : o # None /\ InGame(o)
    <2>1. Exists(g) <=> Inside(grouped, g) # {} \/ Asked(grouped, g) # {}
        BY DEF Exists, Inside, Asked
    <2>2. \A o \in Persons : g \in grouped.invitedBy[o] <=> o \in Asked(grouped, g)
        BY DEF Asked
    <2>3. Kept(grouped, stage, leavePartyOnDeath)
        BY DEF PartyInv
    <2>4. None \notin Persons
        BY PartyAssumption
    <2>5. {o \in Persons : grouped.party[o] = g} = Inside(grouped, g)
        BY DEF Inside
    <2> QED BY <2>1, <2>2, <2>3, <2>4, <2>5, Meaning DEF Alone, InGame
<1> QED BY <1>1, <1>2 DEF PartiesMatch

LEMMA PartyStarts == PartyInit => PartyInv
<1> SUFFICES ASSUME PartyInit PROVE PartyInv
    OBVIOUS
<1>1. grouped \in Groups /\ stage \in [Persons -> Stages] /\ leavePartyOnDeath \in BOOLEAN
    BY NoList DEF PartyInit, Groups, Stages
<1>2. Unused(grouped, stage)
    BY DEF PartyInit, Unused
<1>3. ASSUME NEW g \in Parties PROVE TeamOf(grouped, g, stage, leavePartyOnDeath)
    <2>1. Inside(grouped, g) = {} /\ Asked(grouped, g) = {}
        BY PartyAssumption DEF PartyInit, Inside, Asked
    <2>2. grouped.members[g] = <<>> /\ grouped.leader[g] = None
        BY DEF PartyInit
    <2> QED BY <2>1, <2>2, NoList DEF TeamOf, Team
<1> QED BY <1>1, <1>2, <1>3 DEF PartyInv, Kept

\* What only changes the lists.
LEMMA ListsChange ==
    ASSUME PartyInv, UNCHANGED <<stage, leavePartyOnDeath>>,
           Kept(grouped', stage, leavePartyOnDeath)
    PROVE  PartyInv'
BY DEF PartyInv, Kept, Unused, TeamOf

LEMMA InviteKeeps ==
    ASSUME PartyInv, NEW o \in Persons, NEW p \in Persons, Invite(o, p) PROVE PartyInv'
<1> DEFINE st == stage
           leave == leavePartyOnDeath
           S(g) == IF g \in LeaderOf(o)
                   THEN [grouped EXCEPT !.invitees[g] = @ \cup {p}, !.invitedBy[p] = @ \cup {g}]
                   ELSE [grouped EXCEPT !.leader[g] = o, !.party[o] = g, !.members[g] = <<>>,
                                        !.invitees[g] = {p}, !.invitedBy[p] = @ \cup {g}]
<1>1. PICK g \in LeaderOf(o) \cup {n \in Parties : grouped.party[o] = None /\ ~Exists(n)} : grouped' = S(g)
    BY DEF Invite
<1>2. /\ o # p /\ st[o] = "game" /\ st[p] = "game" /\ grouped.party[p] = None /\ ~Invites(o, p)
      /\ UNCHANGED <<stage, leavePartyOnDeath>> /\ g \in Parties /\ Kept(grouped, st, leave)
    BY <1>1 DEF Invite, InGame, LeaderOf, PartyInv
<1> DEFINE t == grouped'
<1>3. CASE g \in LeaderOf(o)
    <2>1. t = [grouped EXCEPT !.invitees[g] = @ \cup {p}, !.invitedBy[p] = @ \cup {g}]
        BY <1>1, <1>3
    <2>2. /\ t \in Groups /\ t.leader = grouped.leader /\ t.members = grouped.members
          /\ t.invitees = [grouped.invitees EXCEPT ![g] = @ \cup {p}] /\ t.party = grouped.party
          /\ t.invitedBy = [grouped.invitedBy EXCEPT ![p] = @ \cup {g}]
        BY <1>2, <2>1, GroupedType DEF Groups
    <2> HIDE DEF t
    <2>3. Unused(t, st)
        BY <1>2, <2>2, GroupedType DEF Unused
    <2>4. /\ Asked(t, g) = Asked(grouped, g) \cup {p} /\ \A h \in Parties : Inside(t, h) = Inside(grouped, h)
          /\ \A h \in Parties \ {g} : Asked(t, h) = Asked(grouped, h)
        BY <1>2, <2>2, GroupedType DEF Inside, Asked
    <2>5. /\ t.invitees[g] = grouped.invitees[g] \cup {p}
          /\ \A h \in Parties \ {g} : t.invitees[h] = grouped.invitees[h]
        BY <1>2, <2>2, GroupedType
    <2>6. p \notin Inside(grouped, g) /\ Inside(grouped, g) # {}
        BY <1>2, <1>3, GroupedType DEF Inside, LeaderOf
    <2>7. TeamOf(t, g, st, leave)
        <3>1. TeamOf(grouped, g, st, leave)
            BY <1>2 DEF Kept
        <3> QED BY <1>2, <2>2, <2>4, <2>5, <2>6, <3>1 DEF TeamOf, Team
    <2>8. ASSUME NEW h \in Parties \ {g} PROVE TeamOf(t, h, st, leave)
        BY <1>2, <2>2, <2>4, <2>5, Untouched DEF Kept
    <2> QED BY <1>2, <2>2, <2>3, <2>7, <2>8, ListsChange DEF Kept, t
<1>4. CASE g \notin LeaderOf(o)
    <2>1. t = [grouped EXCEPT !.leader[g] = o, !.party[o] = g, !.members[g] = <<>>,
                              !.invitees[g] = {p}, !.invitedBy[p] = @ \cup {g}]
          /\ ~Exists(g) /\ grouped.party[o] = None
        BY <1>1, <1>4
    <2>2. /\ t \in Groups /\ t.leader = [grouped.leader EXCEPT ![g] = o]
          /\ t.members = [grouped.members EXCEPT ![g] = <<>>]
          /\ t.invitees = [grouped.invitees EXCEPT ![g] = {p}]
          /\ t.party = [grouped.party EXCEPT ![o] = g]
          /\ t.invitedBy = [grouped.invitedBy EXCEPT ![p] = @ \cup {g}]
        <3>1. <<>> \in Seq(Persons) /\ {p} \in SUBSET Persons
            BY NoList
        <3> QED BY <1>2, <2>1, <3>1, GroupedType DEF Groups
    <2> HIDE DEF t
    <2>3. Unused(t, st)
        BY <1>2, <2>2, GroupedType DEF Unused
    <2>4. /\ Asked(t, g) = {p} /\ Inside(t, g) = {o}
          /\ \A h \in Parties \ {g} : Inside(t, h) = Inside(grouped, h) /\ Asked(t, h) = Asked(grouped, h)
        BY <1>2, <2>1, <2>2, GroupedType DEF Inside, Asked, Exists
    <2>5. /\ t.invitees[g] = {p} /\ t.leader[g] = o /\ t.members[g] = <<>>
          /\ \A h \in Parties \ {g} : /\ t.invitees[h] = grouped.invitees[h]
                                      /\ t.leader[h] = grouped.leader[h] /\ t.members[h] = grouped.members[h]
        BY <1>2, <2>2, GroupedType
    <2>6. TeamOf(t, g, st, leave)
        <3>1. IsInjective(t.members[g]) /\ ToSet(t.members[g]) = {} /\ o # None
            BY <2>5, NoList, GroupedType
        <3>2. t.invitees[g] # {} /\ t.leader[g] # None
              /\ Inside(t, g) = ({t.leader[g]} \cup ToSet(t.members[g])) \ {None}
            BY <2>4, <2>5, <3>1
        <3> QED BY <1>2, <2>4, <2>5, <3>1, <3>2 DEF TeamOf, Team
    <2>7. ASSUME NEW h \in Parties \ {g} PROVE TeamOf(t, h, st, leave)
        BY <1>2, <2>2, <2>4, <2>5, Untouched DEF Kept
    <2> QED BY <1>2, <2>2, <2>3, <2>6, <2>7, ListsChange DEF Kept, t
<1> QED BY <1>3, <1>4

LEMMA JoinKeeps ==
    ASSUME PartyInv, NEW o \in Persons, NEW p \in Persons, Join(o, p) PROVE PartyInv'
<1>1. PICK g \in LeaderOf(p) : o \in grouped.invitees[g]
    BY DEF Join, Invites
<1>2. g \in Parties /\ grouped.party[p] = g /\ grouped.leader[g] = p
    BY <1>1 DEF LeaderOf
<1>3. grouped.leader[g] # None /\ Inside(grouped, g) # {}
    BY <1>2, GroupedType DEF Inside
<1>4. Kept(joinParty(grouped, g, o), stage, leavePartyOnDeath)
    BY <1>1, <1>2, <1>3, JoiningParty DEF Join, InGame, PartyInv
<1> QED BY <1>2, <1>4, ListsChange DEF Join

LEMMA RevokeKeeps ==
    ASSUME PartyInv, NEW o \in Persons, NEW p \in Persons, Revoke(o, p) PROVE PartyInv'
<1>1. PICK g \in LeaderOf(o) : p \in grouped.invitees[g]
    BY DEF Revoke, Invites
<1>2. g \in Parties /\ grouped.party[o] = g /\ grouped.leader[g] = o /\ stage[p] = "game"
      /\ grouped' = removeInvite(grouped, g, p) /\ UNCHANGED <<stage, leavePartyOnDeath>>
    BY <1>1 DEF LeaderOf, Revoke, InGame
<1>3. grouped.leader[g] # None /\ o \in Inside(grouped, g)
    BY <1>2, GroupedType DEF Inside
<1>4. g \in grouped.invitedBy[p]
    BY <1>1, <1>2, <1>3, Meaning DEF PartyInv, Asked
<1>5. Withdrawn(grouped, {g}, p, removeInvite(grouped, g, p))
    BY <1>2, GroupedType DEF Withdrawn, removeInvite, Uninvited, Groups
<1>6. Kept(grouped', stage, leavePartyOnDeath)
    BY <1>2, <1>3, <1>4, <1>5, Withdrawing DEF PartyInv
<1> QED BY <1>2, <1>6, ListsChange

LEMMA PassKeeps ==
    ASSUME PartyInv, NEW o \in Persons, NEW p \in Persons, Pass(o, p) PROVE PartyInv'
<1> DEFINE g == grouped.party[p]
<1>1. g \in Parties /\ grouped.party[o] = g /\ grouped.leader[g] = o /\ o # p
      /\ grouped' = passPartyLeadership(grouped, g, p) /\ UNCHANGED <<stage, leavePartyOnDeath>>
    BY DEF Pass, LeaderOf
<1>2. grouped.leader[g] # None
    BY <1>1, GroupedType
<1>3. Kept(grouped', stage, leavePartyOnDeath)
    BY <1>1, <1>2, Passing DEF PartyInv
<1> QED BY <1>1, <1>3, ListsChange

LEMMA LeaveKeeps ==
    ASSUME PartyInv, NEW o \in Persons, grouped' = leaveParty(grouped, o),
           UNCHANGED <<stage, leavePartyOnDeath>>
    PROVE  PartyInv'
<1>1. Kept(grouped', stage, leavePartyOnDeath)
    BY Leaving DEF PartyInv
<1> QED BY <1>1, ListsChange

LEMMA DisbandKeeps == ASSUME PartyInv, NEW o \in Persons, Disband(o) PROVE PartyInv'
<1> DEFINE g == grouped.party[o]
           all == {grouped.leader[g]} \cup ToSet(grouped.members[g])
<1>1. g \in Parties /\ grouped.leader[g] = o /\ o # None
      /\ grouped' = disband(grouped, g) /\ UNCHANGED <<stage, leavePartyOnDeath>>
    BY GroupedType DEF Disband, LeaderOf
<1>2. o \in Inside(grouped, g)
    BY DEF Inside
<1>3. all = Inside(grouped, g) /\ Asked(grouped, g) \subseteq grouped.invitees[g]
    BY <1>1, <1>2, Meaning DEF PartyInv
<1>4. \A p \in all : grouped.party[p] \in {g, None}
    BY <1>3 DEF Inside
<1> HIDE DEF g
<1>5. Kept(grouped', stage, leavePartyOnDeath)
    BY <1>1, <1>3, <1>4, Disbanding DEF PartyInv, Kept
<1> QED BY <1>1, <1>5, ListsChange

\* A stage for another, with lists that are kept.
LEMMA GoesOn ==
    ASSUME PartyInv, NEW o \in Persons, NEW to \in {"game", "dead", "gone"},
           stage[o] # "gone", to = "game" \/ stage[o] # "free",
           stage' = [stage EXCEPT ![o] = to], leavePartyOnDeath' = leavePartyOnDeath,
           Kept(grouped', stage, leavePartyOnDeath),
           to # "game" /\ leavePartyOnDeath => grouped'.party[o] = None
    PROVE  PartyInv'
<1> DEFINE t == grouped'
<1>1. Kept(t, [stage EXCEPT ![o] = to], leavePartyOnDeath)
    BY Turning DEF PartyInv
<1>2. [stage EXCEPT ![o] = to] \in [Persons -> Stages]
    BY DEF PartyInv, Stages
<1> QED BY <1>1, <1>2 DEF PartyInv, Kept, Unused, TeamOf

\* If the dead leave their party, who is in one is in the game.
LEMMA InsideIsAlive ==
    ASSUME PartyInv, NEW o \in Persons, NEW g \in Parties, grouped.party[o] = g, leavePartyOnDeath
    PROVE  grouped.leader[g] # None /\ stage[o] = "game"
<1>1. o \in Inside(grouped, g)
    BY DEF Inside
<1>2. Kept(grouped, stage, leavePartyOnDeath)
    BY DEF PartyInv
<1>3. TeamOf(grouped, g, stage, leavePartyOnDeath)
    BY <1>2 DEF Kept
<1> QED BY <1>1, <1>3 DEF TeamOf, Team

\* Leaving before the player goes.
LEMMA LeavesFirst ==
    ASSUME PartyInv, NEW o \in Persons, NEW t, t = leaveParty(grouped, o)
    PROVE  /\ Kept(t, stage, leavePartyOnDeath)
           /\ leavePartyOnDeath => t.party[o] = None
<1>1. /\ Kept(t, stage, leavePartyOnDeath)
      /\ \/ t.party[o] = None
         \/ grouped.party[o] \in Parties /\ grouped.leader[grouped.party[o]] = None /\ t = grouped
    BY Leaving DEF PartyInv
<1> QED BY <1>1, InsideIsAlive

LEMMA LogsOutKeeps == ASSUME PartyInv, NEW o \in Persons, LogsOut(o) PROVE PartyInv'
<1> DEFINE s == leaveParty(grouped, o)
           st == [stage EXCEPT ![o] = "gone"]
           t == clearPartyInvitations(s, o)
<1>1. /\ stage[o] = "game" /\ stage' = st /\ grouped' = t
      /\ leavePartyOnDeath' = leavePartyOnDeath
    BY DEF LogsOut, Moves
<1>2. Kept(s, stage, leavePartyOnDeath) /\ (leavePartyOnDeath => s.party[o] = None)
    BY LeavesFirst
<1> HIDE DEF s
<1>3. Kept(s, st, leavePartyOnDeath)
    BY <1>1, <1>2, Turning DEF PartyInv
<1>4. /\ s \in Groups /\ s.leader \in [Parties -> Persons \cup {None}] /\ s.members \in [Parties -> Seq(Persons)]
      /\ s.invitees \in [Parties -> SUBSET Persons] /\ s.party \in [Persons -> Parties \cup {None}]
      /\ s.invitedBy \in [Persons -> SUBSET Parties]
    BY <1>3 DEF Kept, Groups
<1>5. Withdrawn(s, s.invitedBy[o], o, t)
    <2>1. [s.invitedBy EXCEPT ![o] = {}] = [s.invitedBy EXCEPT ![o] = @ \ s.invitedBy[o]]
        BY <1>4
    <2> QED BY <1>4, <2>1 DEF Withdrawn, clearPartyInvitations, Uninvited, Groups
<1>6. st \in [Persons -> Stages] /\ st[o] = "gone"
    BY <1>1 DEF PartyInv, Stages
<1> HIDE DEF t, st
<1>7. Kept(t, st, leavePartyOnDeath)
    BY <1>3, <1>4, <1>5, <1>6, Withdrawing
<1> QED BY <1>1, <1>6, <1>7 DEF PartyInv, Kept, Unused, TeamOf

LEMMA DiesKeeps == ASSUME PartyInv, NEW o \in Persons, Dies(o) PROVE PartyInv'
<1>1. /\ stage[o] = "game" /\ stage' = [stage EXCEPT ![o] = "dead"]
      /\ leavePartyOnDeath' = leavePartyOnDeath
      /\ grouped' = IF leavePartyOnDeath THEN leaveParty(grouped, o) ELSE grouped
    BY DEF Dies, Moves
<1>2. Kept(grouped', stage, leavePartyOnDeath) /\ (leavePartyOnDeath => grouped'.party[o] = None)
    BY <1>1, LeavesFirst DEF PartyInv
<1> QED BY <1>1, <1>2, GoesOn

LEMMA StageKeeps ==
    ASSUME PartyInv, NEW o \in Persons, EntersGame(o) \/ Respawns(o) \/ LeavesDead(o) PROVE PartyInv'
<1> USE DEF Moves
<1>1. /\ grouped' = grouped /\ leavePartyOnDeath' = leavePartyOnDeath
      /\ Kept(grouped', stage, leavePartyOnDeath)
    BY DEF PartyInv, EntersGame, Respawns, LeavesDead
<1>2. CASE EntersGame(o) \/ Respawns(o)
    BY <1>1, <1>2, GoesOn DEF EntersGame, Respawns
<1>3. CASE LeavesDead(o)
    <2>1. leavePartyOnDeath => grouped.party[o] = None
        BY <1>3, InsideIsAlive, GroupedType DEF LeavesDead
    <2> QED BY <1>1, <1>3, <2>1, GoesOn DEF LeavesDead
<1> QED BY <1>2, <1>3

LEMMA DestroyedKeeps == ASSUME PartyInv, NEW o \in Persons, Destroyed(o) PROVE PartyInv'
<1> DEFINE t == grouped'
           st == [stage EXCEPT ![o] = "free"]
           leave == leavePartyOnDeath
<1>1. /\ stage[o] = "gone" /\ stage' = st /\ leavePartyOnDeath' = leavePartyOnDeath /\ ~Listed(o)
    BY DEF Destroyed, Moves
<1>2. /\ t \in Groups /\ t.members = grouped.members /\ t.invitees = grouped.invitees
      /\ t.leader = [g \in Parties |-> IF grouped.leader[g] = o THEN None ELSE grouped.leader[g]]
      /\ t.party = [grouped.party EXCEPT ![o] = None]
      /\ t.invitedBy = [grouped.invitedBy EXCEPT ![o] = {}]
    BY GroupedType DEF Destroyed, Groups
<1> HIDE DEF t
<1>3. st \in [Persons -> Stages] /\ st[o] = "free" /\ \A p \in Persons \ {o} : st[p] = stage[p]
    BY GroupedType DEF Stages
<1> HIDE DEF st
<1>4. Unused(t, st)
    BY <1>2, <1>3, GroupedType DEF Unused
<1>5. ASSUME NEW g \in Parties PROVE TeamOf(t, g, st, leave)
    <2>1. Inside(t, g) = Inside(grouped, g) \ {o} /\ Asked(t, g) = Asked(grouped, g) \ {o}
        BY <1>2, GroupedType DEF Inside, Asked
    <2>2. TeamOf(grouped, g, stage, leave) /\ Kept(grouped, stage, leave)
        BY DEF PartyInv, Kept
    <2>3. ToSet(grouped.members[g]) \subseteq Persons /\ None \notin ToSet(grouped.members[g])
        BY <2>2, Meaning
    <2>4. t.leader[g] = IF grouped.leader[g] = o THEN None ELSE grouped.leader[g]
        BY <1>2
    <2>5. IsInjective(t.members[g]) /\ t.leader[g] \notin ToSet(t.members[g])
          /\ (t.leader[g] # None => t.leader[g] \in Inside(t, g))
        BY <1>2, <2>1, <2>2, <2>3, <2>4 DEF TeamOf, Team
    <2>6. CASE Inside(t, g) = {} /\ Asked(t, g) = {}
        BY <2>5, <2>6 DEF TeamOf, Team
    <2>7. CASE Inside(t, g) # {} \/ Asked(t, g) # {}
        <3>1. Exists(g)
            BY <2>1, <2>7 DEF Exists, Inside, Asked
        <3>2. o \notin ToSet(grouped.members[g]) /\ o \notin grouped.invitees[g]
            BY <1>1, <3>1 DEF Listed
        <3>3. leave => o \notin Inside(grouped, g)
            BY <1>1, InsideIsAlive DEF Inside
        <3>4. Inside(grouped, g) # {} \/ Asked(grouped, g) # {}
            BY <2>1, <2>7
        <3>5. Asked(t, g) = Asked(grouped, g) /\ Inside(grouped, g) \subseteq Persons
              /\ grouped.invitees[g] \subseteq Persons
            BY <2>1, <2>2, <3>2, <3>4, Meaning DEF Inside
        <3>6. Inside(t, g) = ({t.leader[g]} \cup ToSet(t.members[g])) \ {None}
            BY <1>2, <2>1, <2>2, <2>4, <3>2, <3>4, Meaning
        <3>7. leave => t.leader[g] = grouped.leader[g] /\ t.leader[g] # None
            <4>1. leave => grouped.leader[g] # None
                BY <2>2, <3>4 DEF TeamOf, Team
            <4>2. grouped.leader[g] # None => grouped.leader[g] \in Inside(grouped, g)
                BY <2>2, <3>4, Meaning
            <4> QED BY <2>4, <3>3, <4>1, <4>2
        <3>8. t.leader[g] # None => t.members[g] # <<>> \/ t.invitees[g] # {}
            BY <1>2, <2>2, <2>4, <3>4, Meaning
        <3> QED BY <1>1, <1>2, <1>3, <2>1, <2>2, <2>5, <3>2, <3>3, <3>4, <3>5, <3>6, <3>7, <3>8
                DEF TeamOf, Team
    <2> QED BY <2>6, <2>7
<1> QED BY <1>1, <1>2, <1>3, <1>4, <1>5 DEF PartyInv, Kept, Unused, TeamOf, t

LEMMA PartyStep == PartyInv /\ [PartyNext]_partyVars => PartyInv'
<1> SUFFICES ASSUME PartyInv, [PartyNext]_partyVars PROVE PartyInv'
    OBVIOUS
<1>1. CASE UNCHANGED partyVars
    BY <1>1 DEF partyVars, PartyInv, Kept, Unused, TeamOf
<1>2. ASSUME NEW o \in Persons, LeavesParty(o) PROVE PartyInv'
    BY <1>2, LeaveKeeps DEF LeavesParty
<1>3. ASSUME NEW o \in Persons, Disband(o) PROVE PartyInv'
    BY <1>3, DisbandKeeps
<1>4. ASSUME NEW o \in Persons, EntersGame(o) \/ Respawns(o) \/ LeavesDead(o) PROVE PartyInv'
    BY <1>4, StageKeeps
<1>5. ASSUME NEW o \in Persons, LogsOut(o) PROVE PartyInv'
    BY <1>5, LogsOutKeeps
<1>6. ASSUME NEW o \in Persons, Dies(o) PROVE PartyInv'
    BY <1>6, DiesKeeps
<1>7. ASSUME NEW o \in Persons, Destroyed(o) PROVE PartyInv'
    BY <1>7, DestroyedKeeps
<1>8. ASSUME NEW o \in Persons, NEW p \in Persons,
             Invite(o, p) \/ Join(o, p) \/ Revoke(o, p) \/ Pass(o, p) \/ RemoveMember(o, p)
      PROVE  PartyInv'
    BY <1>8, InviteKeeps, JoinKeeps, RevokeKeeps, PassKeeps, LeaveKeeps DEF RemoveMember
<1> QED BY <1>1, <1>2, <1>3, <1>4, <1>5, <1>6, <1>7, <1>8 DEF PartyNext

\* Whatever players do, die and come back, and however long a party keeps the
\* objects of those who are gone (party.cpp, Player::despawn), parties and players
\* name each other.
THEOREM PartiesAlwaysMatch == PartySpec => []PartiesMatch
<1>1. PartySpec => []PartyInv
    BY PartyStarts, PartyStep, PTL DEF PartySpec
<1> QED BY <1>1, PartyMeans, PTL

\* Whom disband and leaveParty do not concern, and what they leave to a party.
All(s, g) == ({s.leader[g]} \cup ToSet(s.members[g])) \ {None}

LEMMA OneAtMost ==
    ASSUME NEW S, NEW x, S \subseteq {x} PROVE Cardinality(S) <= 1
<1>1. S = {} \/ S = {x}
    OBVIOUS
<1>2. Cardinality({}) = 0 /\ Cardinality({x}) = 1
    BY FS_EmptySet, FS_Singleton
<1> QED BY <1>1, <1>2

LEMMA OneMember ==
    ASSUME NEW A, NEW m \in Seq(A), Len(m) = 1 PROVE ToSet(m) \subseteq {m[1]}
BY DEF ToSet

\* Who leaves ends no party but one in which at most one other is left.
LEMMA LeavingEnds ==
    ASSUME NEW s, NEW st, NEW leave, Kept(s, st, leave), NEW o \in Persons, NEW g \in Parties,
           NEW t, t = leaveParty(s, o)
    PROVE  /\ s.party[o] # g => /\ t.leader[g] = s.leader[g] /\ t.members[g] = s.members[g]
                                /\ t.invitees[g] = s.invitees[g]
           /\ t.invitees[g] \subseteq s.invitees[g]
           /\ s.leader[g] # None /\ t.leader[g] = None =>
                 \/ All(s, g) = {o}
                 \/ Cardinality(All(s, g) \ {o}) <= 1 /\ s.invitees[g] = {}
<1> DEFINE h == s.party[o]
           u == Succeeded(s, h, o)
           m == Dropping(u.members[h], o)
           left == [u EXCEPT !.members[h] = m, !.party[o] = None]
<1>0. s \in Groups /\ h \in Parties \cup {None}
    BY DEF Kept, Groups
<1>1. CASE h = None \/ s.leader[h] = None
    <2>1. t = s
        BY <1>1 DEF leaveParty
    <2> QED BY <2>1
<1>2. CASE h # None /\ s.leader[h] # None
    <2>1. h \in Parties /\ o \in Inside(s, h)
        BY <1>0, <1>2 DEF Inside
    <2>3. t = IF u.leader[h] = o \/ Alone(left, h) THEN disband(left, h) ELSE left
        BY <1>2 DEF leaveParty
    <2>10. s.party[o] = h /\ u = Succeeded(s, h, o)
        OBVIOUS
    <2> HIDE DEF u, h
    <2>2. /\ Kept(u, st, leave) /\ u.leader[h] # None
          /\ \A k \in Parties \ {h} : u.leader[k] = s.leader[k] /\ u.members[k] = s.members[k]
          /\ {u.leader[h]} \cup ToSet(u.members[h]) = {s.leader[h]} \cup ToSet(s.members[h])
          /\ u.invitees = s.invitees /\ u.party = s.party
          /\ s.leader[h] # o => u = s
          /\ s.leader[h] = o /\ u.leader[h] = o =>
               u = s /\ (s.members[h] = <<>> \/ (s.invitees[h] = {} /\ Len(s.members[h]) = 1))
        <3>1. h \in Parties /\ s.leader[h] # None
            BY <1>2, <2>1
        <3>2. Succeeding(s, st, leave, h, o, u)
            BY <2>10, <3>1, Succession
        <3> QED BY <3>2 DEF Succeeding
    <2>4. /\ u \in Groups /\ u.leader \in [Parties -> Persons \cup {None}] /\ u.members \in [Parties -> Seq(Persons)]
          /\ u.invitees \in [Parties -> SUBSET Persons] /\ None \notin Persons
          /\ u.party \in [Persons -> Parties \cup {None}] /\ s.members[h] \in Seq(Persons)
        BY <1>0, <2>1, <2>2, PartyAssumption DEF Kept, Groups
    <2>5. m \in Seq(Persons) /\ ToSet(m) = ToSet(u.members[h]) \ {o}
        BY <2>1, <2>4, DroppingProperties
    <2> HIDE DEF m
    <2>6. /\ left \in Groups /\ left.leader = u.leader /\ left.invitees = u.invitees
          /\ left.members = [u.members EXCEPT ![h] = m]
        BY <2>4, <2>5 DEF Groups
    <2> HIDE DEF left
    <2>7. \A k \in Parties \ {h} : left.members[k] = u.members[k]
        BY <2>4, <2>6
    <2>8. CASE t = left /\ ~(u.leader[h] = o \/ Alone(left, h))
        <3>1. g # h => t.leader[g] = s.leader[g] /\ t.members[g] = s.members[g]
            <4> SUFFICES ASSUME g # h PROVE t.leader[g] = s.leader[g] /\ t.members[g] = s.members[g]
                OBVIOUS
            <4>1. g \in Parties \ {h}
                OBVIOUS
            <4>2. u.leader[g] = s.leader[g] /\ u.members[g] = s.members[g] /\ left.members[g] = u.members[g]
                BY <2>2, <2>7, <4>1
            <4> QED BY <2>6, <2>8, <4>2
        <3>2. t.leader[g] = None => s.leader[g] = None
            BY <2>2, <2>6, <2>8, <3>1
        <3> QED BY <2>2, <2>6, <2>8, <3>1, <3>2 DEF h
    <2>9. CASE t = disband(left, h) /\ (u.leader[h] = o \/ Alone(left, h))
        <3>1. left.leader[h] # None
            BY <2>2, <2>6
        <3>2. Disbanded(left, h, {left.leader[h]} \cup ToSet(left.members[h]), t)
            BY <2>1, <2>6, <2>9, <3>1, DisbandDoes
        <3>3. /\ t.leader = [u.leader EXCEPT ![h] = None]
              /\ t.members = [left.members EXCEPT ![h] = <<>>]
              /\ t.invitees = [u.invitees EXCEPT ![h] = {}]
            BY <2>6, <3>2 DEF Disbanded
        <3>4. /\ g # h => /\ t.leader[g] = s.leader[g] /\ t.members[g] = s.members[g]
                          /\ t.invitees[g] = s.invitees[g]
              /\ t.invitees[g] \subseteq s.invitees[g]
            <4>1. left.members \in [Parties -> Seq(Persons)]
                BY <2>6 DEF Groups
            <4> QED BY <2>2, <2>4, <2>7, <3>3, <4>1
        <3>5. \/ All(s, h) = {o}
              \/ Cardinality(All(s, h) \ {o}) <= 1 /\ s.invitees[h] = {}
            <4>1. CASE u.leader[h] = o
                <5>1. s.leader[h] = o /\ (s.members[h] = <<>> \/ (s.invitees[h] = {} /\ Len(s.members[h]) = 1))
                    BY <2>2, <4>1
                <5>2. CASE s.members[h] = <<>>
                    BY <2>4, <5>1, <5>2, NoList DEF All
                <5>3. CASE s.invitees[h] = {} /\ Len(s.members[h]) = 1
                    <6>1. All(s, h) \ {o} \subseteq {s.members[h][1]}
                        BY <2>4, <5>1, <5>3, OneMember DEF All
                    <6> QED BY <5>3, <6>1, OneAtMost
                <5> QED BY <5>1, <5>2, <5>3
            <4>2. CASE Alone(left, h)
                <5>1. m = <<>> /\ s.invitees[h] = {}
                    BY <2>1, <2>2, <2>4, <2>6, <4>2 DEF Alone
                <5>2. ToSet(u.members[h]) \subseteq {o}
                    BY <2>5, <5>1, NoList
                <5>3. All(s, h) \ {o} \subseteq {u.leader[h]}
                    BY <2>2, <5>2 DEF All
                <5> QED BY <5>1, <5>3, OneAtMost
            <4> QED BY <2>9, <4>1, <4>2
        <3> QED BY <3>4, <3>5 DEF h
    <2> QED BY <2>3, <2>8, <2>9
<1> QED BY <1>0, <1>1, <1>2

LastInvited(s, g, o) == s.members[g] = <<>> /\ s.invitees[g] = {o}

\* An invitation that ends a party was the last, and its leader alone.
LEMMA WithdrawingEnds ==
    ASSUME NEW s \in Groups, NEW o \in Persons, NEW G \in SUBSET Parties, NEW t, Withdrawn(s, G, o, t),
           NEW g \in Parties, s.leader[g] # None, t.leader[g] = None
    PROVE  LastInvited(s, g, o)
<1> DEFINE ended == {k \in {l \in G : s.leader[l] # None /\ o \in s.invitees[l]} :
                        s.members[k] = <<>> /\ s.invitees[k] = {o}}
<1>1. t.leader = [k \in Parties |-> IF k \in ended THEN None ELSE s.leader[k]]
    BY DEF Withdrawn
<1> HIDE DEF ended
<1>2. g \in ended
    BY <1>1
<1> QED BY <1>2 DEF ended, LastInvited

\* What EndsWhenLeftAlone allows for one party.
EndsWell(g) ==
    LET all == ({grouped.leader[g]} \cup ToSet(grouped.members[g])) \ {None}
    IN  grouped.leader[g] # None /\ grouped.leader'[g] = None =>
        \/ Disband(grouped.leader[g])
        \/ \E o \in Persons :
              \/ all = {o}
              \/ Cardinality(all \ {o}) <= 1 /\ grouped.invitees[g] \subseteq {o}
              \/ Destroyed(o) /\ ~leavePartyOnDeath

LEMMA LeaveEndsWell ==
    ASSUME PartyInv, NEW o \in Persons, grouped' = leaveParty(grouped, o), NEW g \in Parties
    PROVE  EndsWell(g)
<1>1. grouped.leader[g] # None /\ grouped'.leader[g] = None =>
         \/ All(grouped, g) = {o}
         \/ Cardinality(All(grouped, g) \ {o}) <= 1 /\ grouped.invitees[g] = {}
    <2> DEFINE t == grouped'
    <2>1. t = leaveParty(grouped, o) /\ Kept(grouped, stage, leavePartyOnDeath)
        BY DEF PartyInv
    <2> HIDE DEF t
    <2>2. grouped.leader[g] # None /\ t.leader[g] = None =>
             \/ All(grouped, g) = {o}
             \/ Cardinality(All(grouped, g) \ {o}) <= 1 /\ grouped.invitees[g] = {}
        BY <2>1, LeavingEnds
    <2> QED BY <2>2 DEF t
<1> QED BY <1>1 DEF EndsWell, All

LEMMA WithdrawEndsWell ==
    ASSUME NEW g \in Parties, NEW o \in Persons,
           grouped.members[g] = <<>>, grouped.invitees[g] = {o}
    PROVE  EndsWell(g)
<1> DEFINE all == ({grouped.leader[g]} \cup ToSet(grouped.members[g])) \ {None}
<1>1. all \ {o} \subseteq {grouped.leader[g]}
    BY NoList
<1> HIDE DEF all
<1>2. Cardinality(all \ {o}) <= 1 /\ grouped.invitees[g] \subseteq {o}
    BY <1>1, OneAtMost
<1> QED BY <1>2 DEF EndsWell, all

LEMMA LogoutEndsWell ==
    ASSUME PartyInv, NEW o \in Persons, LogsOut(o), NEW g \in Parties PROVE EndsWell(g)
<1> DEFINE s == leaveParty(grouped, o)
           t == clearPartyInvitations(s, o)
<1> SUFFICES ASSUME grouped.leader[g] # None, t.leader[g] = None PROVE EndsWell(g)
    BY DEF EndsWell, LogsOut
<1>1. /\ Kept(s, stage, leavePartyOnDeath)
      /\ Kept(grouped, stage, leavePartyOnDeath)
    BY LeavesFirst DEF PartyInv
<1>2. /\ grouped.party[o] # g => /\ s.leader[g] = grouped.leader[g] /\ s.members[g] = grouped.members[g]
                                 /\ s.invitees[g] = grouped.invitees[g]
      /\ s.invitees[g] \subseteq grouped.invitees[g]
      /\ s.leader[g] = None =>
            \/ All(grouped, g) = {o}
            \/ Cardinality(All(grouped, g) \ {o}) <= 1 /\ grouped.invitees[g] = {}
    BY <1>1, LeavingEnds
<1> HIDE DEF s
<1>3. CASE s.leader[g] = None
    BY <1>2, <1>3 DEF EndsWell, All
<1>4. CASE s.leader[g] # None
    <2>1. /\ s \in Groups /\ s.invitedBy \in [Persons -> SUBSET Parties]
          /\ s.leader \in [Parties -> Persons \cup {None}] /\ s.members \in [Parties -> Seq(Persons)]
          /\ s.invitees \in [Parties -> SUBSET Persons] /\ s.party \in [Persons -> Parties \cup {None}]
        BY <1>1 DEF Kept, Groups
    <2>2. [s.invitedBy EXCEPT ![o] = {}] = [s.invitedBy EXCEPT ![o] = @ \ s.invitedBy[o]]
        BY <2>1
    <2>3. Withdrawn(s, s.invitedBy[o], o, t)
        BY <2>1, <2>2 DEF Withdrawn, clearPartyInvitations, Uninvited, Groups
    <2> HIDE DEF t
    <2>4. s.members[g] = <<>> /\ s.invitees[g] = {o}
        <3> DEFINE G == s.invitedBy[o]
        <3>1. G \in SUBSET Parties /\ t.leader[g] = None /\ Withdrawn(s, G, o, t)
              /\ s \in Groups /\ s.leader[g] # None
            BY <1>4, <2>1, <2>3
        <3> HIDE DEF G
        <3>2. LastInvited(s, g, o)
            BY <3>1, WithdrawingEnds
        <3> QED BY <3>2 DEF LastInvited
    <2>5. grouped.party[o] # g
        <3> SUFFICES ASSUME grouped.party[o] = g PROVE FALSE
            OBVIOUS
        <3>1. o \in Inside(grouped, g) /\ o \in grouped.invitees[g]
            BY <1>2, <2>4 DEF Inside
        <3> QED BY <1>1, <3>1, Meaning
    <2> QED BY <1>2, <2>4, <2>5, WithdrawEndsWell
<1> QED BY <1>3, <1>4

LEMMA EndsWellStep ==
    ASSUME PartyInv, [PartyNext]_partyVars, NEW g \in Parties PROVE EndsWell(g)
<1> SUFFICES ASSUME grouped.leader[g] # None, grouped'.leader[g] = None PROVE EndsWell(g)
    BY DEF EndsWell
<1>0. grouped' # grouped
    OBVIOUS
<1>1. ASSUME NEW o \in Persons, LeavesParty(o) PROVE EndsWell(g)
    BY <1>1, LeaveEndsWell DEF LeavesParty
<1>2. ASSUME NEW o \in Persons, Disband(o) PROVE EndsWell(g)
    <2>1. grouped.leader[grouped.party[o]] = o /\ grouped.party[o] \in Parties /\ o # None
          /\ grouped' = disband(grouped, grouped.party[o])
        BY <1>2, GroupedType DEF Disband, LeaderOf
    <2>2. grouped'.leader = [grouped.leader EXCEPT ![grouped.party[o]] = None]
        BY <2>1 DEF disband
    <2>3. grouped.party[o] = g
        BY <2>1, <2>2, GroupedType
    <2> QED BY <1>2, <2>1, <2>3 DEF EndsWell
<1>3. ASSUME NEW o \in Persons, Dies(o) PROVE EndsWell(g)
    BY <1>0, <1>3, LeaveEndsWell DEF Dies
<1>4. ASSUME NEW o \in Persons, Destroyed(o) PROVE EndsWell(g)
    <2>1. grouped'.leader = [k \in Parties |-> IF grouped.leader[k] = o THEN None ELSE grouped.leader[k]]
        BY <1>4, GroupedType DEF Destroyed, Groups
    <2>2. grouped.leader[g] = o
        BY <2>1
    <2>3. grouped.party[o] = g
        BY <2>2, Meaning DEF PartyInv, Inside
    <2>4. ~leavePartyOnDeath
        BY <1>4, <2>3, InsideIsAlive DEF Destroyed, Moves
    <2> QED BY <1>4, <2>4 DEF EndsWell
<1>5. ASSUME NEW o \in Persons, NEW p \in Persons, Invite(o, p) PROVE EndsWell(g)
    <2>1. PICK h \in Parties :
             \/ grouped' = [grouped EXCEPT !.invitees[h] = @ \cup {p}, !.invitedBy[p] = @ \cup {h}]
             \/ grouped' = [grouped EXCEPT !.leader[h] = o, !.party[o] = h, !.members[h] = <<>>,
                                           !.invitees[h] = {p}, !.invitedBy[p] = @ \cup {h}]
        BY <1>5 DEF Invite, LeaderOf
    <2>2. grouped'.leader \in {grouped.leader, [grouped.leader EXCEPT ![h] = o]}
        BY <2>1, GroupedType DEF Groups
    <2> QED BY <2>2, GroupedType
<1>6. ASSUME NEW o \in Persons, NEW p \in Persons, Join(o, p) PROVE EndsWell(g)
    <2>1. grouped'.leader = grouped.leader
        BY <1>6, GroupedType DEF Join, joinParty, Groups
    <2> QED BY <2>1
<1>7. ASSUME NEW o \in Persons, NEW p \in Persons, Revoke(o, p) PROVE EndsWell(g)
    <2>1. PICK h \in Parties : grouped' = removeInvite(grouped, h, p)
        BY <1>7 DEF Revoke, Invites, LeaderOf
    <2>2. Withdrawn(grouped, {h}, p, removeInvite(grouped, h, p))
        BY GroupedType DEF Withdrawn, removeInvite, Uninvited, Groups
    <2>3. grouped.members[g] = <<>> /\ grouped.invitees[g] = {p}
        <3> DEFINE t == grouped'
        <3>1. {h} \in SUBSET Parties /\ grouped \in Groups /\ Withdrawn(grouped, {h}, p, t)
            BY <2>1, <2>2, GroupedType
        <3>2. grouped.leader[g] # None /\ t.leader[g] = None
            OBVIOUS
        <3> HIDE DEF t
        <3>3. LastInvited(grouped, g, p)
            BY <3>1, <3>2, WithdrawingEnds
        <3> QED BY <3>3 DEF LastInvited
    <2> QED BY <2>3, WithdrawEndsWell
<1>8. ASSUME NEW o \in Persons, NEW p \in Persons, Pass(o, p) PROVE EndsWell(g)
    <2>1. grouped'.leader \in {grouped.leader, [grouped.leader EXCEPT ![grouped.party[o]] = p]}
        BY <1>8, GroupedType DEF Pass, passPartyLeadership, Groups
    <2> QED BY <2>1, GroupedType
<1>9. ASSUME NEW o \in Persons, LogsOut(o) PROVE EndsWell(g)
    BY <1>9, LogoutEndsWell
<1>10. ASSUME NEW o \in Persons, EntersGame(o) \/ Respawns(o) \/ LeavesDead(o) PROVE EndsWell(g)
    BY <1>0, <1>10 DEF EntersGame, Respawns, LeavesDead
<1>11. ASSUME NEW o \in Persons, NEW p \in Persons, RemoveMember(o, p) PROVE EndsWell(g)
    BY <1>11, LeaveEndsWell DEF RemoveMember
<1> QED BY <1>0, <1>1, <1>2, <1>3, <1>4, <1>5, <1>6, <1>7, <1>8, <1>9, <1>10, <1>11 DEF PartyNext, partyVars

\* No handler ends a party (Party::disband) for another reason than those that
\* EndsWhenLeftAlone names: leaveParty and removeInvite look at the members and the
\* invitations that the invariant keeps right.
THEOREM PartiesEndWell == PartySpec => EndsWhenLeftAlone
<1>1. PartySpec => []PartyInv
    BY PartyStarts, PartyStep, PTL DEF PartySpec
<1>2. PartyInv /\ [PartyNext]_partyVars =>
      [\A g \in Parties :
         LET all == ({grouped.leader[g]} \cup ToSet(grouped.members[g])) \ {None}
         IN  grouped.leader[g] # None /\ grouped.leader'[g] = None =>
             \/ Disband(grouped.leader[g])
             \/ \E o \in Persons :
                   \/ all = {o}
                   \/ Cardinality(all \ {o}) <= 1 /\ grouped.invitees[g] \subseteq {o}
                   \/ Destroyed(o) /\ ~leavePartyOnDeath]_partyVars
    BY EndsWellStep DEF EndsWell
<1> QED BY <1>1, <1>2, PTL DEF PartySpec, EndsWhenLeftAlone

-----------------------------------------------------------------------------
(***************************************************************************)
(* Decay.  Between two handlers every item is listed at its stamp and      *)
(* nowhere else while it decays, and every list has a timer in time.  A    *)
(* handler has one item in hand of which less holds (AllBut); checkDecay   *)
(* has, besides, those that were due and are still to end (Limbo), and     *)
(* lists without a timer, for which it sets one in the end (R).            *)
(***************************************************************************)
States == {Unset, "true", "pending", "stopping", "false"}
Records == [kind : Kinds \cup {Unset}, state : States,
            duration : {Unset} \cup 0..MaxLife, stamp : Stamps \cup {Unset}]
Decays == [item : [Items -> Records], map : [Stamps -> Seq(Items)],
           event : Nat \cup {Unset}, strays : SUBSET Nat]

\* No kind takes longer than MaxLife.
LEMMA LifeBounds ==
    /\ MaxLife \in Nat /\ MaxLife >= 1 /\ \A k \in Kinds : Type[k].time \in 0..MaxLife
    /\ MaxTime \in Nat /\ MinTicks \in Nat /\ Stamps = 0..(MaxTime + MaxLife)
    /\ 0..MaxLife \subseteq Stamps /\ Stamps \subseteq Nat
    /\ Unset \notin Nat /\ Unset \notin Stamps /\ Unset \notin Kinds /\ Unset \notin 0..MaxLife
<1> DEFINE T == {Type[k].time : k \in Kinds} \cup {1}
<1>1. /\ IsFiniteSet(Kinds) /\ \A k \in Kinds : Type[k].time \in Nat
      /\ MaxTime \in Nat /\ MinTicks \in Nat /\ Unset \notin Nat /\ Unset \notin Kinds
    BY DecayAssumption
<1>2. IsFiniteSet({Type[k].time : k \in Kinds})
    <2> DEFINE f == [k \in Kinds |-> Type[k].time]
    <2>1. f \in Surjection(Kinds, {Type[k].time : k \in Kinds})
        BY DEF Surjection
    <2> HIDE DEF f
    <2> QED BY <1>1, <2>1, FS_Surjection
<1>3. IsFiniteSet(T)
    BY <1>2, FS_AddElement
<1>4. T \in SUBSET Nat /\ T # {} /\ 1 \in T /\ \A k \in Kinds : Type[k].time \in T
    BY <1>1
<1>5. MaxLife = Max(T)
    BY DEF MaxLife
<1> HIDE DEF T
<1>6. MaxLife \in Nat /\ \A n \in T : n <= MaxLife
    BY <1>3, <1>4, <1>5, LargestNat
<1>7. Stamps = 0..(MaxTime + MaxLife)
    BY DEF Stamps
<1> QED BY <1>1, <1>4, <1>6, <1>7

Off(d, i) == \A t \in Stamps : i \notin ToSet(d.map[t])

\* An item between two handlers: listed where it says, exactly as long as it decays.
Normal(d, i) ==
    LET f == d.item[i]
    IN  /\ \A t \in Stamps : i \in ToSet(d.map[t]) <=> f.state = "true" /\ f.stamp = t
        /\ f.state = "true" => f.stamp # Unset /\ canDecay(f) /\ f.duration # Unset

\* One whose time has come and that checkDecay has not reached yet.
Limbo(d, i) ==
    LET f == d.item[i]
    IN  Off(d, i) /\ f.state = "true" /\ canDecay(f) /\ f.duration # Unset

\* The one item that a handler has in hand: if it is listed, then where it says.
Almost(d, i) ==
    LET f == d.item[i]
    IN  /\ \A t \in Stamps : i \in ToSet(d.map[t]) => f.stamp = t /\ f.state # Unset
        /\ f.state = "true" => f.stamp \in Stamps /\ i \in ToSet(d.map[f.stamp])

\* A timer looks at the list of t in time, or one will that is set for the first of R.
Waits(d, R, t) ==
    \/ \E e \in ({d.event} \cup d.strays) \ {Unset} : e <= t + MinTicks
    \/ \E r \in R : r <= t

Watched(d, R) == \A t \in Stamps : d.map[t] # <<>> => Waits(d, R, t)

Sound(d, R) ==
    /\ now \in 0..MaxTime /\ d \in Decays
    /\ \A t \in Stamps : IsInjective(d.map[t])
    /\ \A i \in Items : d.item[i].stamp # Unset => d.item[i].stamp <= now + MaxLife
    /\ Watched(d, R)

Good(d, X, R) ==
    /\ Sound(d, R)
    /\ \A i \in Items \ X : Normal(d, i)
    /\ \A i \in X : Limbo(d, i)

AllBut(d, i, X, R) ==
    /\ Sound(d, R) /\ i \in Items \ X
    /\ \A j \in Items \ (X \cup {i}) : Normal(d, j)
    /\ \A j \in X : Limbo(d, j)
    /\ Almost(d, i)

\* All but one item are as they were, and listed where they were.
SameOthers(d, e, i) ==
    \A j \in Items \ {i} :
        e.item[j] = d.item[j] /\ \A t \in Stamps : j \in ToSet(e.map[t]) <=> j \in ToSet(d.map[t])

LEMMA DecaysType ==
    ASSUME NEW d \in Decays
    PROVE  /\ d.item \in [Items -> Records] /\ d.map \in [Stamps -> Seq(Items)]
           /\ d.event \in Nat \cup {Unset} /\ d.strays \in SUBSET Nat
           /\ \A i \in Items : /\ d.item[i].kind \in Kinds \cup {Unset} /\ d.item[i].state \in States
                               /\ d.item[i].duration \in {Unset} \cup 0..MaxLife
                               /\ d.item[i].stamp \in Stamps \cup {Unset}
BY DEF Decays, Records

\* What a change of the item in hand leaves.
LEMMA Framing ==
    ASSUME NEW d, NEW e, NEW i, NEW X \in SUBSET Items, NEW R, AllBut(d, i, X, R),
           Sound(e, R), SameOthers(d, e, i), Almost(e, i)
    PROVE  AllBut(e, i, X, R)
<1>1. \A j \in Items \ (X \cup {i}) : Normal(e, j)
    BY DEF AllBut, SameOthers, Normal
<1>2. \A j \in X : Limbo(e, j)
    BY DEF AllBut, SameOthers, Limbo, Off
<1> QED BY <1>1, <1>2 DEF AllBut

\* An item is taken in hand, and is done with.
LEMMA InHand ==
    ASSUME NEW d, NEW X \in SUBSET Items, NEW R, Good(d, X, R), NEW i \in Items \ X
    PROVE  AllBut(d, i, X, R)
<1>1. Almost(d, i)
    <2>1. d.item[i].stamp \in Stamps \cup {Unset} /\ Unset \notin Stamps /\ Unset # "true"
        BY DecaysType, LifeBounds, DecayAssumption DEF Good, Sound
    <2> QED BY <2>1 DEF Good, Normal, Almost
<1> QED BY <1>1 DEF Good, AllBut

LEMMA OutOfHand ==
    ASSUME NEW d, NEW X \in SUBSET Items, NEW R, NEW i, AllBut(d, i, X, R), Normal(d, i)
    PROVE  Good(d, X, R)
BY DEF Good, AllBut

LEMMA OffIsNormal ==
    ASSUME NEW d, NEW i, Off(d, i), d.item[i].state # "true"
    PROVE  Normal(d, i)
BY DEF Off, Normal

LEMMA DurationType ==
    ASSUME NEW d, NEW R, Sound(d, R), NEW i \in Items
    PROVE  Duration(d.item[i]) \in 0..MaxLife
<1>1. /\ now \in Nat /\ MaxLife \in Nat /\ d.item[i].duration \in {Unset} \cup 0..MaxLife
      /\ d.item[i].stamp # Unset => d.item[i].stamp \in Nat /\ d.item[i].stamp <= now + MaxLife
    BY LifeBounds, DecaysType DEF Sound
<1> QED BY <1>1 DEF Duration

\* Lists that lose something are watched as before.
LEMMA FewerWatched ==
    ASSUME NEW d \in Decays, NEW e \in Decays, NEW R, Watched(d, R),
           e.event = d.event, e.strays = d.strays,
           \A t \in Stamps : ToSet(e.map[t]) \subseteq ToSet(d.map[t])
    PROVE  Watched(e, R)
<1>1. \A t \in Stamps : e.map[t] # <<>> => d.map[t] # <<>>
    <2> SUFFICES ASSUME NEW t \in Stamps, e.map[t] # <<>> PROVE d.map[t] # <<>>
        OBVIOUS
    <2>1. e.map[t] \in Seq(Items) /\ d.map[t] \in Seq(Items)
        BY DecaysType
    <2>2. ToSet(e.map[t]) # {}
        BY <2>1, NotEmpty
    <2> QED BY <2>1, <2>2, NotEmpty
<1> QED BY <1>1 DEF Watched, Waits

\* Another record for one item.
Rewritten(d, e, i, f) == e = [d EXCEPT !.item[i] = f]

LEMMA NewRecord ==
    ASSUME NEW d, NEW R, Sound(d, R), NEW i \in Items, NEW f \in Records,
           f.stamp # Unset => f.stamp <= now + MaxLife,
           NEW e, Rewritten(d, e, i, f)
    PROVE  /\ Sound(e, R) /\ SameOthers(d, e, i) /\ e.item[i] = f
           /\ e.map = d.map /\ e.event = d.event /\ e.strays = d.strays
<1>1. d \in Decays
    BY DEF Sound
<1>2. /\ e \in Decays /\ e.item = [d.item EXCEPT ![i] = f]
      /\ e.map = d.map /\ e.event = d.event /\ e.strays = d.strays
    BY <1>1 DEF Decays, Rewritten
<1>3. e.item[i] = f /\ \A j \in Items \ {i} : e.item[j] = d.item[j]
    BY <1>1, <1>2, DecaysType
<1>4. Watched(e, R)
    BY <1>2 DEF Sound, Watched, Waits
<1>5. Sound(e, R)
    BY <1>2, <1>3, <1>4 DEF Sound
<1> QED BY <1>2, <1>3, <1>5 DEF SameOthers

\* The item in hand leaves its list.
LEMMA Unlisting ==
    ASSUME NEW d, NEW R, Sound(d, R), NEW i \in Items, d.item[i].stamp \in Stamps,
           i \in ToSet(d.map[d.item[i].stamp])
    PROVE  LET e == Unlisted(d, i)
           IN  /\ Sound(e, R) /\ SameOthers(d, e, i) /\ e.item = d.item
               /\ i \notin ToSet(e.map[d.item[i].stamp])
               /\ \A t \in Stamps : ToSet(e.map[t]) \subseteq ToSet(d.map[t])
               /\ e.event = d.event /\ e.strays = d.strays
<1> DEFINE t == d.item[i].stamp
           list == d.map[t]
           at == CHOOSE n \in DOMAIN list : list[n] = i
           u == Front([list EXCEPT ![at] = Last(list)])
           e == Unlisted(d, i)
<1>1. d \in Decays /\ t \in Stamps /\ list \in Seq(Items) /\ IsInjective(list)
      /\ d.map \in [Stamps -> Seq(Items)] /\ d.item \in [Items -> Records]
    BY DecaysType DEF Sound
<1>2. \E n \in DOMAIN list : list[n] = i
    BY DEF ToSet
<1>3. at \in DOMAIN list /\ list[at] = i
    BY <1>2
<1> HIDE DEF at
<1>4. u \in Seq(Items) /\ IsInjective(u) /\ ToSet(u) = ToSet(list) \ {i}
    <2> HIDE DEF list
    <2>1. u \in Seq(Items) /\ IsInjective(u) /\ ToSet(u) = ToSet(list) \ {list[at]}
        BY <1>1, <1>3, SwapOut
    <2> HIDE DEF u
    <2> QED BY <1>3, <2>1
<1>5. e = [d EXCEPT !.map[t] = u]
    BY DEF Unlisted, at
<1> HIDE DEF e, u, list
<1>6. /\ e \in Decays /\ e.item = d.item /\ e.map = [d.map EXCEPT ![t] = u]
      /\ e.event = d.event /\ e.strays = d.strays
    BY <1>1, <1>4, <1>5 DEF Decays
<1>7. e.map[t] = u /\ \A r \in Stamps \ {t} : e.map[r] = d.map[r]
    BY <1>1, <1>6
<1>8. \A r \in Stamps : ToSet(e.map[r]) \subseteq ToSet(d.map[r])
    BY <1>4, <1>7 DEF list
<1>9. Watched(e, R)
    BY <1>1, <1>6, <1>8, FewerWatched DEF Sound
<1>10. Sound(e, R)
    BY <1>1, <1>4, <1>6, <1>7, <1>9 DEF Sound
<1>11. SameOthers(d, e, i)
    BY <1>4, <1>6, <1>7 DEF SameOthers, list
<1> QED BY <1>4, <1>6, <1>7, <1>8, <1>10, <1>11 DEF e

\* What stopping leaves of the item in hand: in no list, not decaying, and timers as they were.
Stopped(d, e, i) ==
    /\ Off(e, i) /\ e.item[i].state # "true" /\ e.item[i].kind = d.item[i].kind
    /\ d.item[i].duration # Unset => e.item[i].duration # Unset
    /\ e.event = d.event /\ e.strays = d.strays

LEMMA Stopping ==
    ASSUME NEW d, NEW i, NEW X \in SUBSET Items, NEW R, AllBut(d, i, X, R)
    PROVE  AllBut(stopDecay(d, i), i, X, R) /\ Stopped(d, stopDecay(d, i), i)
<1> DEFINE f == d.item[i]
           list == IF f.stamp = Unset THEN <<>> ELSE d.map[f.stamp]
           e == stopDecay(d, i)
<1>1. /\ Sound(d, R) /\ i \in Items /\ d \in Decays /\ f \in Records
      /\ f.stamp \in Stamps \cup {Unset} /\ Unset \notin Stamps /\ Unset # "true"
      /\ f.duration \in {Unset} \cup 0..MaxLife /\ f.kind \in Kinds \cup {Unset} /\ f.state \in States
      /\ f.stamp # Unset => f.stamp <= now + MaxLife
      /\ Unset \notin 0..MaxLife
    BY DecaysType, LifeBounds, DecayAssumption DEF AllBut, Sound
<1>2. /\ \A t \in Stamps : i \in ToSet(d.map[t]) => f.stamp = t /\ f.state # Unset
      /\ f.state = "true" => f.stamp \in Stamps /\ i \in ToSet(d.map[f.stamp])
    BY DEF AllBut, Almost
<1>3. ASSUME NEW r, Sound(r, R), SameOthers(d, r, i), Off(r, i), r.item[i].state # "true"
      PROVE  AllBut(r, i, X, R)
    <2>1. Almost(r, i)
        BY <1>3 DEF Off, Almost
    <2> QED BY <1>3, <2>1, Framing
<1>4. CASE f.state = Unset
    <2>1. e = d
        BY <1>4 DEF stopDecay
    <2>2. Off(d, i)
        BY <1>2, <1>4 DEF Off
    <2> QED BY <1>1, <1>4, <2>1, <2>2 DEF Stopped
<1>5. CASE f.state # Unset /\ f.stamp = Unset
    <2> DEFINE g == [f EXCEPT !.state = Unset]
               r == [d EXCEPT !.item[i] = g]
    <2>1. e = [d EXCEPT !.item[i].state = Unset]
        <3>1. i \notin ToSet(list)
            BY <1>5 DEF ToSet
        <3> HIDE DEF list
        <3>2. e = CASE f.state = Unset -> d
                    [] f.state # Unset /\ f.stamp = Unset -> [d EXCEPT !.item[i].state = Unset]
                    [] f.state # Unset /\ i \in ToSet(list) ->
                          [Unlisted(d, i) EXCEPT
                              !.item[i].state = Unset,
                              !.item[i].duration = IF f.duration = Unset THEN Unset ELSE Duration(f)]
                    [] f.state # Unset /\ f.stamp # Unset /\ i \notin ToSet(list) ->
                          IF Len(list) = 1 THEN d ELSE [d EXCEPT !.item[i].stamp = Unset]
            BY DEF stopDecay, list
        <3> QED BY <1>5, <3>1, <3>2
    <2>2. e = r
        BY <1>1, <2>1 DEF Decays, Records
    <2>3. g \in Records /\ g.stamp = f.stamp /\ g.state = Unset /\ g.kind = f.kind /\ g.duration = f.duration
        BY <1>1 DEF Records, States
    <2> HIDE DEF e, g
    <2>4. /\ Sound(e, R) /\ SameOthers(d, e, i) /\ e.item[i] = g
          /\ e.map = d.map /\ e.event = d.event /\ e.strays = d.strays
        BY <1>1, <1>5, <2>2, <2>3, NewRecord DEF Rewritten
    <2>5. Off(e, i)
        BY <1>1, <1>2, <1>5, <2>4 DEF Off
    <2>6. AllBut(e, i, X, R)
        BY <1>1, <1>3, <2>3, <2>4, <2>5
    <2> QED BY <1>1, <2>3, <2>4, <2>5, <2>6 DEF Stopped, e
<1>6. CASE f.state # Unset /\ f.stamp # Unset /\ i \in ToSet(list)
    <2> DEFINE u == Unlisted(d, i)
               g == [f EXCEPT !.state = Unset, !.duration = IF f.duration = Unset THEN Unset ELSE Duration(f)]
    <2>1. e = [u EXCEPT !.item[i].state = Unset,
                        !.item[i].duration = IF f.duration = Unset THEN Unset ELSE Duration(f)]
        BY <1>6 DEF stopDecay
    <2>2. f.stamp \in Stamps /\ i \in ToSet(d.map[f.stamp])
        BY <1>1, <1>6
    <2>3. /\ Sound(u, R) /\ SameOthers(d, u, i) /\ u.item = d.item
          /\ i \notin ToSet(u.map[f.stamp])
          /\ \A t \in Stamps : ToSet(u.map[t]) \subseteq ToSet(d.map[t])
          /\ u.event = d.event /\ u.strays = d.strays
        BY <1>1, <2>2, Unlisting
    <2> HIDE DEF u
    <2>4. e = [u EXCEPT !.item[i] = g]
        <3>1. u.item[i] = f
            BY <2>3
        <3>2. u \in Decays
            BY <2>3 DEF Sound
        <3> QED BY <1>1, <2>1, <3>1, <3>2 DEF Decays, Records
    <2>5. Duration(f) \in 0..MaxLife
        BY <1>1, DurationType
    <2>6. g \in Records /\ g.stamp = f.stamp /\ g.state = Unset /\ g.kind = f.kind
          /\ (f.duration # Unset => g.duration # Unset)
        BY <1>1, <2>5 DEF Records, States
    <2> HIDE DEF e, g
    <2>7. /\ Sound(e, R) /\ SameOthers(u, e, i) /\ e.item[i] = g
          /\ e.map = u.map /\ e.event = u.event /\ e.strays = u.strays
        BY <1>1, <2>3, <2>4, <2>6, NewRecord DEF Rewritten
    <2>8. Off(e, i)
        BY <1>2, <2>3, <2>7 DEF Off
    <2>9. SameOthers(d, e, i)
        BY <2>3, <2>7 DEF SameOthers
    <2>10. AllBut(e, i, X, R)
        BY <1>1, <1>3, <2>6, <2>7, <2>8, <2>9
    <2> QED BY <1>1, <2>3, <2>6, <2>7, <2>8, <2>10 DEF Stopped, e
<1>7. CASE f.state # Unset /\ f.stamp # Unset /\ i \notin ToSet(list)
    <2>1. Off(d, i) /\ f.state # "true"
        BY <1>1, <1>2, <1>7 DEF Off
    <2>2. e = IF Len(list) = 1 THEN d ELSE [d EXCEPT !.item[i].stamp = Unset]
        BY <1>7 DEF stopDecay
    <2>3. CASE Len(list) = 1
        BY <2>1, <2>2, <2>3 DEF Stopped
    <2>4. CASE Len(list) # 1
        <3> DEFINE g == [f EXCEPT !.stamp = Unset]
        <3>1. e = [d EXCEPT !.item[i] = g]
            BY <2>2, <2>4
        <3>2. g \in Records /\ g.stamp = Unset /\ g.state = f.state /\ g.kind = f.kind /\ g.duration = f.duration
            BY <1>1 DEF Records
        <3> HIDE DEF e, g
        <3>3. /\ Sound(e, R) /\ SameOthers(d, e, i) /\ e.item[i] = g
              /\ e.map = d.map /\ e.event = d.event /\ e.strays = d.strays
            BY <1>1, <3>1, <3>2, NewRecord DEF Rewritten
        <3>4. Off(e, i)
            BY <2>1, <3>3 DEF Off
        <3>5. AllBut(e, i, X, R)
            BY <1>3, <2>1, <3>2, <3>3, <3>4
        <3> QED BY <2>1, <3>2, <3>3, <3>4, <3>5 DEF Stopped, e
    <2> QED BY <2>3, <2>4
<1> QED BY <1>4, <1>5, <1>6, <1>7

\* The timer of a deadline that is still to come.
LEMMA LaterInTime ==
    ASSUME now \in 0..MaxTime, NEW t \in Nat, t >= now
    PROVE  Later(t - now) \in Nat \ {Unset} /\ Later(t - now) <= t + MinTicks
<1>1. now \in Nat /\ MinTicks \in Nat /\ t - now \in Nat /\ Unset \notin Nat
    BY LifeBounds
<1>2. Max({MinTicks, t - now}) = IF MinTicks <= t - now THEN t - now ELSE MinTicks
    BY <1>1, MaxOfTwo
<1> QED BY <1>1, <1>2 DEF Later

\* After Scheduled every list is watched as before, and one at t would be.
LEMMA Scheduling ==
    ASSUME NEW d, NEW R, R \in SUBSET Nat, Sound(d, R), NEW t \in Stamps, t >= now
    PROVE  LET e == Scheduled(d, t)
           IN  Sound(e, R) /\ Waits(e, R, t) /\ e.item = d.item /\ e.map = d.map
<1> DEFINE e == Scheduled(d, t)
           T == Deadlines(d)
<1>1. /\ d \in Decays /\ now \in 0..MaxTime /\ Watched(d, R)
      /\ d.event \in Nat \cup {Unset} /\ d.strays \in SUBSET Nat
      /\ MinTicks \in Nat /\ Stamps \subseteq Nat /\ t \in Nat /\ Unset \notin Nat
    BY LifeBounds, DecaysType DEF Sound
<1>2. Later(t - now) \in Nat \ {Unset} /\ Later(t - now) <= t + MinTicks
    BY <1>1, LaterInTime
<1>3. T \in SUBSET Nat /\ \A r \in Stamps : d.map[r] # <<>> <=> r \in T
    BY <1>1 DEF Deadlines
<1> HIDE DEF T
<1>4. ASSUME NEW f \in Decays, f.item = d.item, f.map = d.map, Watched(f, R)
      PROVE  Sound(f, R)
    BY <1>4 DEF Sound
<1>5. CASE T = {}
    <2>1. e = [d EXCEPT !.event = Later(t - now), !.strays = @ \cup ({d.event} \ {Unset})]
        BY <1>5 DEF Scheduled, T
    <2> HIDE DEF e
    <2>2. /\ e \in Decays /\ e.item = d.item /\ e.map = d.map /\ e.event = Later(t - now)
        BY <1>1, <1>2, <2>1 DEF Decays
    <2>3. Watched(e, R)
        BY <1>3, <1>5, <2>2 DEF Watched
    <2>4. Waits(e, R, t)
        BY <1>2, <2>2 DEF Waits
    <2> QED BY <1>4, <2>2, <2>3, <2>4 DEF e
<1>6. CASE T # {}
    <2> DEFINE m == Min(T)
    <2>1. m \in T /\ \A r \in T : m <= r
        BY <1>3, <1>6, SmallestNat
    <2>2. FirstDeadline(d) = m
        BY DEF FirstDeadline, T
    <2> HIDE DEF m
    <2>3. CASE t < m
        <3>1. e = [d EXCEPT !.event = Later(t - now)]
            BY <1>6, <2>2, <2>3 DEF Scheduled, T
        <3> HIDE DEF e
        <3>2. /\ e \in Decays /\ e.item = d.item /\ e.map = d.map /\ e.event = Later(t - now)
            BY <1>1, <1>2, <3>1 DEF Decays
        <3>3. ASSUME NEW r \in Stamps, e.map[r] # <<>> PROVE Waits(e, R, r)
            <4>1. r \in T /\ m <= r /\ m \in Nat /\ r \in Nat
                BY <1>1, <1>3, <2>1, <3>2, <3>3
            <4>2. Later(t - now) <= r + MinTicks
                BY <1>1, <1>2, <2>3, <4>1
            <4> QED BY <1>2, <3>2, <4>2 DEF Waits
        <3>4. Waits(e, R, t)
            BY <1>2, <3>2 DEF Waits
        <3>5. Watched(e, R)
            BY <3>3 DEF Watched
        <3> QED BY <1>4, <3>2, <3>4, <3>5 DEF e
    <2>4. CASE ~(t < m)
        <3>1. e = d
            BY <1>6, <2>2, <2>4 DEF Scheduled, T
        <3>2. m \in Stamps /\ d.map[m] # <<>> /\ m \in Nat /\ m <= t
            BY <1>1, <1>3, <2>1, <2>4 DEF T, Deadlines
        <3>3. Waits(d, R, m)
            BY <1>1, <3>2 DEF Watched
        <3>4. Waits(d, R, t)
            <4>1. \A x \in Nat : x <= m => x <= t
                BY <1>1, <3>2
            <4>2. \A x \in Nat : x <= m + MinTicks => x <= t + MinTicks
                BY <1>1, <3>2
            <4> QED BY <1>1, <3>3, <4>1, <4>2 DEF Waits
        <3> QED BY <3>1, <3>4
    <2> QED BY <2>3, <2>4
<1> QED BY <1>5, <1>6

\* An item enters a list that is watched.
Enters(d, e, i, t) == e = [d EXCEPT !.map[t] = Append(@, i)]

LEMMA Listing ==
    ASSUME NEW d, NEW R, Sound(d, R), NEW i \in Items, NEW t \in Stamps,
           i \notin ToSet(d.map[t]), Waits(d, R, t),
           NEW e, Enters(d, e, i, t)
    PROVE  /\ Sound(e, R) /\ SameOthers(d, e, i) /\ e.item = d.item
           /\ i \in ToSet(e.map[t]) /\ \A r \in Stamps \ {t} : e.map[r] = d.map[r]
<1> DEFINE u == Append(d.map[t], i)
<1>1. d \in Decays /\ d.map[t] \in Seq(Items) /\ IsInjective(d.map[t])
    BY DecaysType DEF Sound
<1>2. u \in Seq(Items) /\ ToSet(u) = ToSet(d.map[t]) \cup {i} /\ IsInjective(u)
    BY <1>1, AppendSet
<1>3. e = [d EXCEPT !.map[t] = u]
    BY DEF Enters
<1> HIDE DEF u
<1>4. /\ e \in Decays /\ e.item = d.item /\ e.map = [d.map EXCEPT ![t] = u]
      /\ e.event = d.event /\ e.strays = d.strays
    BY <1>1, <1>2, <1>3 DEF Decays
<1>5. e.map[t] = u /\ \A r \in Stamps \ {t} : e.map[r] = d.map[r]
    BY <1>1, <1>4, DecaysType
<1>6. Watched(e, R)
    BY <1>4, <1>5 DEF Sound, Watched, Waits
<1>7. Sound(e, R)
    BY <1>2, <1>4, <1>5, <1>6 DEF Sound
<1>8. SameOthers(d, e, i)
    BY <1>2, <1>4, <1>5 DEF SameOthers
<1> QED BY <1>2, <1>4, <1>5, <1>7, <1>8

PutIn(d, e, i, t) ==
    e = [d EXCEPT !.item[i].state = "true", !.item[i].stamp = t, !.map[t] = Append(@, i)]

LEMMA Putting ==
    ASSUME NEW d, NEW R, Sound(d, R), NEW i \in Items, NEW t \in Stamps, t <= now + MaxLife,
           Off(d, i), Waits(d, R, t),
           NEW e, PutIn(d, e, i, t)
    PROVE  /\ Sound(e, R) /\ SameOthers(d, e, i)
           /\ e.item[i].state = "true" /\ e.item[i].stamp = t /\ e.item[i].kind = d.item[i].kind
           /\ e.item[i].duration = d.item[i].duration
           /\ \A r \in Stamps : i \in ToSet(e.map[r]) <=> r = t
<1> DEFINE g == [d.item[i] EXCEPT !.state = "true", !.stamp = t]
           r == [d EXCEPT !.item[i] = g]
<1>1. d \in Decays /\ d.item[i] \in Records
    BY DecaysType DEF Sound
<1>2. g \in Records /\ g.stamp = t
    BY <1>1 DEF Records, States
<1>3. e = [r EXCEPT !.map[t] = Append(@, i)]
    BY <1>1 DEF Decays, Records, PutIn
<1>4. r = [d EXCEPT !.item[i] = g]
    OBVIOUS
<1> HIDE DEF g, r
<1>5. /\ Sound(r, R) /\ SameOthers(d, r, i) /\ r.item[i] = g
      /\ r.map = d.map /\ r.event = d.event /\ r.strays = d.strays
    <2>1. Rewritten(d, r, i, g)
        BY <1>4 DEF Rewritten
    <2>2. g.stamp # Unset => g.stamp <= now + MaxLife
        BY <1>2
    <2> QED BY <1>2, <2>1, <2>2, NewRecord
<1>6. Waits(r, R, t) /\ i \notin ToSet(r.map[t])
    BY <1>5 DEF Waits, Off
<1>7. /\ Sound(e, R) /\ SameOthers(r, e, i) /\ e.item = r.item
      /\ i \in ToSet(e.map[t]) /\ \A q \in Stamps \ {t} : e.map[q] = r.map[q]
    <2>1. Enters(r, e, i, t)
        BY <1>3 DEF Enters
    <2> QED BY <1>5, <1>6, <2>1, Listing
<1>8. SameOthers(d, e, i)
    BY <1>5, <1>7 DEF SameOthers
<1>9. \A q \in Stamps : i \in ToSet(e.map[q]) <=> q = t
    BY <1>5, <1>7 DEF Off
<1>10. /\ g.state = "true" /\ g.kind = d.item[i].kind /\ g.duration = d.item[i].duration
    BY <1>1 DEF g, Records
<1> QED BY <1>2, <1>5, <1>7, <1>8, <1>9, <1>10

\* What decays and has a time left is listed where it should be.
LEMMA Beginning ==
    ASSUME NEW d, NEW i, NEW X \in SUBSET Items, NEW R, R \in SUBSET Nat, AllBut(d, i, X, R),
           canDecay(d.item[i]), d.item[i].duration # Unset
    PROVE  Good(Begun(d, i), X, R)
<1> DEFINE f == d.item[i]
           t == now + f.duration
           d1 == IF f.stamp = Unset THEN d ELSE stopDecay(d, i)
           d2 == Scheduled(d1, t)
           e == Begun(d, i)
<1>1. i \in Items /\ now \in 0..MaxTime /\ d \in Decays /\ Sound(d, R)
    BY DEF AllBut, Sound
<1>2. /\ MaxTime \in Nat /\ MaxLife \in Nat /\ f.duration \in 0..MaxLife /\ Unset \notin Stamps
      /\ Stamps = 0..(MaxTime + MaxLife)
    BY <1>1, LifeBounds, DecaysType
<1>3. t \in Stamps /\ t >= now /\ t <= now + MaxLife
    BY <1>1, <1>2
<1>4. AllBut(d1, i, X, R) /\ Off(d1, i) /\ d1.item[i].kind = f.kind /\ d1.item[i].duration # Unset
    <2>1. CASE f.stamp = Unset
        BY <1>2, <2>1 DEF AllBut, Almost, Off
    <2>2. CASE f.stamp # Unset
        BY <2>2, Stopping DEF Stopped
    <2> QED BY <2>1, <2>2
<1>5. PutIn(d2, e, i, t)
    BY DEF Begun, PutIn
<1> HIDE DEF d1, t, e
<1>6. Sound(d2, R) /\ Waits(d2, R, t) /\ d2.item = d1.item /\ d2.map = d1.map
    <2>1. Sound(d1, R)
        BY <1>4 DEF AllBut
    <2> QED BY <1>3, <2>1, Scheduling
<1> HIDE DEF d2
<1>7. Off(d2, i)
    BY <1>4, <1>6 DEF Off
<1>8. /\ Sound(e, R) /\ SameOthers(d2, e, i)
      /\ e.item[i].state = "true" /\ e.item[i].stamp = t /\ e.item[i].kind = d2.item[i].kind
      /\ e.item[i].duration = d2.item[i].duration
      /\ \A r \in Stamps : i \in ToSet(e.map[r]) <=> r = t
    BY <1>1, <1>3, <1>5, <1>6, <1>7, Putting
<1>9. canDecay(e.item[i]) /\ e.item[i].duration # Unset
    BY <1>4, <1>6, <1>8 DEF canDecay
<1>10. SameOthers(d1, e, i)
    BY <1>6, <1>8 DEF SameOthers
<1>11. Normal(e, i)
    BY <1>2, <1>3, <1>8, <1>9 DEF Normal
<1>12. Almost(e, i)
    BY <1>3, <1>8, DecayAssumption DEF Almost
<1>13. AllBut(e, i, X, R)
    BY <1>4, <1>8, <1>10, <1>12, Framing
<1> QED BY <1>11, <1>13, OutOfHand DEF e

\* An item in hand that is listed and does not say so decays, or is stopped.
Startable(f, listed) ==
    /\ listed /\ f.state \notin {"true", "stopping"} => canDecay(f) /\ f.duration # Unset
    /\ f.state = "true" /\ canDecay(f) => f.duration # Unset

LEMMA Starting ==
    ASSUME NEW d, NEW i, NEW X \in SUBSET Items, NEW R, R \in SUBSET Nat, AllBut(d, i, X, R),
           Startable(d.item[i], ~Off(d, i))
    PROVE  Good(Started(d, i), X, R)
<1> DEFINE f == d.item[i]
           e == Started(d, i)
<1>1. CASE f.state = "stopping" \/ (~canDecay(f) /\ f.state = "true")
    <2>1. e = stopDecay(d, i)
        BY <1>1 DEF Started
    <2>2. AllBut(e, i, X, R) /\ Normal(e, i)
        BY <2>1, Stopping, OffIsNormal DEF Stopped
    <2> QED BY <2>2, OutOfHand
<1>2. CASE ~(f.state = "stopping" \/ (~canDecay(f) /\ f.state = "true"))
           /\ (~canDecay(f) \/ f.state = "true" \/ f.duration = Unset)
    <2>1. e = d
        BY <1>2 DEF Started
    <2>2. CASE f.state = "true"
        <3>1. \A t \in Stamps : i \in ToSet(d.map[t]) <=> f.stamp = t
            BY <2>2 DEF AllBut, Almost
        <3>2. f.stamp \in Stamps /\ Unset \notin Stamps
            BY <2>2, LifeBounds DEF AllBut, Almost
        <3>3. Normal(d, i)
            BY <1>2, <2>2, <3>1, <3>2 DEF Startable, Normal
        <3> QED BY <2>1, <3>3, OutOfHand
    <2>3. CASE f.state # "true"
        <3>1. Off(d, i)
            BY <1>2, <2>3 DEF Startable
        <3>2. Normal(d, i)
            BY <2>3, <3>1, OffIsNormal
        <3> QED BY <2>1, <3>2, OutOfHand
    <2> QED BY <2>2, <2>3
<1>3. CASE /\ ~(f.state = "stopping" \/ (~canDecay(f) /\ f.state = "true"))
           /\ ~(~canDecay(f) \/ f.state = "true" \/ f.duration = Unset)
    <2>1. e = Begun(d, i)
        BY <1>3 DEF Started
    <2> QED BY <1>3, <2>1, Beginning
<1> QED BY <1>1, <1>2, <1>3

\* Kinds that setID stops, and the others that it makes decay.
Stops(k) == Type[k].time = 0 /\ ~Type[k].stopTime /\ Type[k].decayTo = Never
Settled(k) == Type[k].time > 0 \/ Stops(k)

\* What a kind with a time decays to either has a time or is one that setID stops, and
\* so is what that decays to.
Settles ==
    \A k \in Kinds : Type[k].time > 0 /\ Type[k].decayTo \in Kinds =>
        /\ Settled(Type[k].decayTo)
        /\ Type[Type[k].decayTo].decayTo \in Kinds => Settled(Type[Type[k].decayTo].decayTo)

LEMMA KindTypes ==
    ASSUME NEW k \in Kinds
    PROVE  /\ Type[k].time \in 0..MaxLife /\ Type[k].decayTo \in Kinds \cup {Vanish}
           /\ Type[k].stopTime \in BOOLEAN /\ k # Unset /\ Vanish \notin Kinds
           /\ Type[k].stopTime => Type[k].time = 0 \/ Type[k].decayTo \in {Never, Vanish}
           /\ Type[k].time > 0 => Type[k].decayTo # k
           /\ ~Lasting(k) => \A to \in (Type[k].into \cup {Type[k].decayTo}) \cap Kinds : ~Lasting(to)
<1>1. Type[k] \in [time : Nat, decayTo : Kinds \cup {Vanish}, stopTime : BOOLEAN, into : SUBSET Kinds]
    BY DecayAssumption
<1>2. /\ Vanish \notin Kinds /\ Unset \notin Kinds
      /\ Type[k].stopTime => Type[k].time = 0 \/ Type[k].decayTo \in {Never, Vanish}
      /\ Type[k].time > 0 => Type[k].decayTo # k
      /\ ~Lasting(k) => \A to \in (Type[k].into \cup {Type[k].decayTo}) \cap Kinds : ~Lasting(to)
    BY DecayAssumption
<1> QED BY <1>1, <1>2, LifeBounds

\* What a new kind does to an item: it starts anew, it is stopped, or it goes on.
LEMMA SettingID ==
    ASSUME NEW f \in Records, NEW k \in Kinds
    PROVE  LET g == setID(f, k)
           IN  /\ g \in Records /\ g.stamp = f.stamp /\ g.kind = k
               /\ \/ Type[k].time > 0 /\ g.state = "pending" /\ g.duration = Type[k].time
                  \/ Stops(k) /\ g.state = IF f.state = Unset THEN Unset ELSE "stopping"
                  \/ /\ g.state = f.state /\ g.duration = f.duration /\ ~Stops(k)
                     /\ Type[k].time > 0 => Type[f.kind].stopTime
<1> DEFINE g == setID(f, k)
           stops == Type[k].time = 0 /\ ~Type[k].stopTime /\ Type[k].decayTo = Never
           fresh == Type[k].time > 0 /\ (f.duration = Unset \/ ~Type[f.kind].stopTime)
           state == IF fresh THEN "pending" ELSE IF stops /\ f.state # Unset THEN "stopping" ELSE f.state
           duration == IF fresh THEN Type[k].time ELSE IF stops THEN Unset ELSE f.duration
<1>1. /\ Type[k].time \in 0..MaxLife /\ f.state \in States /\ f.duration \in {Unset} \cup 0..MaxLife
      /\ f.stamp \in Stamps \cup {Unset} /\ MaxLife \in Nat
    BY KindTypes, LifeBounds DEF Records
<1>2. g = [f EXCEPT !.kind = k, !.state = state, !.duration = duration]
    BY DEF setID
<1> HIDE DEF g
<1>3. /\ g.stamp = f.stamp /\ g.kind = k /\ g.state = state /\ g.duration = duration
      /\ g = [kind |-> k, state |-> state, duration |-> duration, stamp |-> f.stamp]
    <2> HIDE DEF state, duration
    <2> QED BY <1>2 DEF Records
<1>4. state \in States /\ duration \in {Unset} \cup 0..MaxLife
    BY <1>1 DEF States
<1>5. g \in Records
    <2> HIDE DEF state, duration
    <2> QED BY <1>1, <1>3, <1>4 DEF Records
<1>6. \/ Type[k].time > 0 /\ state = "pending" /\ duration = Type[k].time
      \/ Stops(k) /\ state = IF f.state = Unset THEN Unset ELSE "stopping"
      \/ /\ state = f.state /\ duration = f.duration /\ ~Stops(k)
         /\ Type[k].time > 0 => Type[f.kind].stopTime
    <2>1. CASE fresh
        BY <2>1
    <2>2. CASE ~fresh /\ stops
        BY <2>2 DEF Stops
    <2>3. CASE ~fresh /\ ~stops
        <3>1. state = f.state /\ duration = f.duration /\ ~Stops(k)
            BY <2>3 DEF Stops
        <3>2. Type[k].time > 0 => Type[f.kind].stopTime
            BY <2>3
        <3> HIDE DEF state, duration
        <3> QED BY <3>1, <3>2
    <2> QED BY <2>1, <2>2, <2>3
<1> QED BY <1>3, <1>5, <1>6 DEF g

LEMMA IdsAfter ==
    ASSUME NEW f \in Records, NEW k \in Kinds
    PROVE  /\ IdAfter(f, k) \in Kinds
           /\ IdAfter(f, k) = k \/ IdAfter(f, k) = Type[k].decayTo
BY KindTypes DEF IdAfter

\* Another record that says of the lists what the old one said.
LEMMA Rewriting ==
    ASSUME NEW d, NEW i, NEW X \in SUBSET Items, NEW R, AllBut(d, i, X, R),
           NEW f \in Records, f.stamp = d.item[i].stamp,
           f.state = Unset => d.item[i].state = Unset,
           f.state = "true" => d.item[i].state = "true",
           NEW e, Rewritten(d, e, i, f)
    PROVE  /\ AllBut(e, i, X, R) /\ e.item[i] = f /\ e.map = d.map
           /\ Off(e, i) <=> Off(d, i)
<1>1. /\ Sound(d, R) /\ i \in Items
      /\ d.item[i].stamp # Unset => d.item[i].stamp <= now + MaxLife
    BY DEF AllBut, Sound
<1>2. /\ Sound(e, R) /\ SameOthers(d, e, i) /\ e.item[i] = f /\ e.map = d.map
    BY <1>1, NewRecord
<1>3. Almost(e, i)
    BY <1>2 DEF AllBut, Almost
<1>4. AllBut(e, i, X, R)
    BY <1>2, <1>3, Framing
<1> QED BY <1>2, <1>4 DEF Off

\* An item is made another: one that is in no list, that decays, or, if Settles, that a
\* script has made pending again.
LEMMA Transforming ==
    ASSUME NEW d, NEW i, NEW X \in SUBSET Items, NEW R, R \in SUBSET Nat, AllBut(d, i, X, R),
           NEW k \in Kinds, k # d.item[i].kind,
           \/ Off(d, i) /\ d.item[i].state # "true"
           \/ /\ d.item[i].state = "true" /\ d.item[i].duration # Unset /\ ~Lasting(k)
           \/ /\ Settles /\ canDecay(d.item[i]) /\ d.item[i].state = "pending"
              /\ k = Type[d.item[i].kind].decayTo
    PROVE  Good(transformItem(d, i, k), X, R)
<1> DEFINE f == d.item[i]
           id == IdAfter(f, k)
           g == setID(f, id)
           e == [d EXCEPT !.item[i] = g]
<1>1. /\ i \in Items /\ f \in Records /\ Unset # "true" /\ Unset # "stopping" /\ Unset # "pending"
    <2>1. i \in Items /\ d \in Decays
        BY DEF AllBut, Sound
    <2> QED BY <2>1, DecaysType, DecayAssumption
<1>2. id \in Kinds /\ (id = k \/ id = Type[k].decayTo)
    BY <1>1, IdsAfter
<1>3. transformItem(d, i, k) = Started(e, i)
    <2>1. [d EXCEPT !.item[i] = setID(@, IdAfter(@, k))] = e
        BY <1>1 DEF AllBut, Sound, Decays
    <2> QED BY <2>1 DEF transformItem
<1> HIDE DEF id
<1>4. /\ g \in Records /\ g.stamp = f.stamp /\ g.kind = id
      /\ \/ Type[id].time > 0 /\ g.state = "pending" /\ g.duration = Type[id].time
         \/ Stops(id) /\ g.state = IF f.state = Unset THEN Unset ELSE "stopping"
         \/ /\ g.state = f.state /\ g.duration = f.duration /\ ~Stops(id)
            /\ Type[id].time > 0 => Type[f.kind].stopTime
    BY <1>1, <1>2, SettingID
<1>5. Rewritten(d, e, i, g)
    BY DEF Rewritten
<1> HIDE DEF g, e
<1>6. (g.state = Unset => f.state = Unset) /\ (g.state = "true" => f.state = "true")
    BY <1>1, <1>4
<1>7. AllBut(e, i, X, R) /\ e.item[i] = g /\ e.map = d.map /\ (Off(e, i) <=> Off(d, i))
    BY <1>1, <1>4, <1>5, <1>6, Rewriting
<1>8. Startable(g, ~Off(d, i))
    <2>1. /\ Type[id].time \in Nat /\ Type[k].time \in Nat /\ MaxLife \in Nat /\ id # Unset
          /\ Unset \notin Nat /\ (~Lasting(k) => ~Lasting(id))
        BY <1>2, KindTypes, LifeBounds
    <2>2. ASSUME ~Lasting(id), Type[id].time > 0, g.duration = Type[id].time
          PROVE  canDecay(g) /\ g.duration # Unset
        BY <1>4, <2>1, <2>2 DEF canDecay, Lasting
    <2>3. CASE Off(d, i) /\ f.state # "true"
        BY <1>6, <2>3 DEF Startable
    <2>4. CASE f.state = "true" /\ f.duration # Unset /\ ~Lasting(k)
        <3>1. CASE Type[id].time > 0 /\ g.state = "pending" /\ g.duration = Type[id].time
            BY <2>1, <2>2, <2>4, <3>1 DEF Startable
        <3>2. CASE Stops(id) /\ g.state = IF f.state = Unset THEN Unset ELSE "stopping"
            BY <1>1, <2>4, <3>2 DEF Startable
        <3>3. CASE g.state = f.state /\ g.duration = f.duration
            BY <2>4, <3>3 DEF Startable
        <3> QED BY <1>4, <3>1, <3>2, <3>3
    <2>5. CASE Settles /\ canDecay(f) /\ f.state = "pending" /\ k = Type[f.kind].decayTo
        <3>1. /\ f.kind \in Kinds /\ Type[f.kind].time > 0 /\ Type[f.kind].decayTo # Never
            BY <1>1, <2>5 DEF canDecay, Records
        <3>2. ~Lasting(f.kind) /\ ~Lasting(k)
            BY <2>5, <3>1, KindTypes DEF Lasting
        <3>3. Settled(id)
            BY <1>2, <2>5, <3>1 DEF Settles
        <3>4. ~Type[f.kind].stopTime
            BY <2>5, <3>1, KindTypes
        <3>5. CASE Type[id].time > 0 /\ g.state = "pending" /\ g.duration = Type[id].time
            BY <2>1, <2>2, <3>2, <3>5 DEF Startable
        <3>6. CASE Stops(id) /\ g.state = IF f.state = Unset THEN Unset ELSE "stopping"
            BY <1>1, <2>5, <3>6 DEF Startable
        <3> QED BY <1>4, <3>3, <3>4, <3>5, <3>6 DEF Settled
    <2> QED BY <2>3, <2>4, <2>5
<1> QED BY <1>3, <1>7, <1>8, Starting

LEMMA Removing ==
    ASSUME NEW d, NEW i, NEW X \in SUBSET Items, NEW R, AllBut(d, i, X, R)
    PROVE  LET e == Removed(d, i)
           IN  Good(e, X, R) /\ AllBut(e, i, X, R) /\ Off(e, i) /\ e.item[i] = Nowhere
<1> DEFINE d1 == stopDecay(d, i)
           e == Removed(d, i)
<1>1. AllBut(d1, i, X, R) /\ Off(d1, i)
    BY Stopping DEF Stopped
<1>2. Rewritten(d1, e, i, Nowhere)
    BY DEF Removed, Rewritten
<1> HIDE DEF d1, e
<1>3. Nowhere \in Records /\ Nowhere.stamp = Unset /\ Nowhere.state = Unset
    BY DEF Nowhere, Records, States
<1>4. Sound(d1, R) /\ i \in Items
    BY <1>1 DEF AllBut
<1>5. Sound(e, R) /\ SameOthers(d1, e, i) /\ e.item[i] = Nowhere /\ e.map = d1.map
    BY <1>2, <1>3, <1>4, NewRecord
<1>6. Off(e, i) /\ Unset # "true"
    BY <1>1, <1>5, DecayAssumption DEF Off
<1>7. Almost(e, i)
    BY <1>3, <1>5, <1>6 DEF Almost, Off
<1>8. AllBut(e, i, X, R)
    BY <1>1, <1>5, <1>7, Framing
<1>9. Normal(e, i)
    BY <1>3, <1>5, <1>6, OffIsNormal
<1>10. Good(e, X, R)
    BY <1>8, <1>9, OutOfHand
<1> QED BY <1>5, <1>6, <1>8, <1>10 DEF e

\* What is in no list, or pending with a time of its own.
LEMMA Decaying ==
    ASSUME NEW d, NEW i, NEW X \in SUBSET Items, NEW R, R \in SUBSET Nat, AllBut(d, i, X, R),
           canDecay(d.item[i]), d.item[i].state # "true",
           Off(d, i) \/ (Settles /\ d.item[i].state = "pending")
    PROVE  Good(internalDecayItem(d, i), X, R)
<1> DEFINE f == d.item[i]
           to == Type[f.kind].decayTo
<1>1. f.kind \in Kinds /\ Type[f.kind].time > 0
    <2>1. i \in Items /\ d \in Decays
        BY DEF AllBut, Sound
    <2> QED BY <2>1, DecaysType DEF canDecay
<1>2. CASE to = Vanish
    BY <1>2, Removing DEF internalDecayItem
<1>3. CASE to # Vanish
    <2>1. to \in Kinds /\ to # f.kind
        BY <1>1, <1>3, KindTypes
    <2>2. internalDecayItem(d, i) = transformItem(d, i, to)
        BY <1>3 DEF internalDecayItem
    <2> QED BY <2>1, <2>2, Transforming
<1> QED BY <1>2, <1>3

LEMMA StartingDecay ==
    ASSUME NEW d, NEW i, NEW X \in SUBSET Items, NEW R, R \in SUBSET Nat, AllBut(d, i, X, R),
           d.item[i].state # "true",
           \/ Off(d, i)
           \/ /\ Settles /\ canDecay(d.item[i]) /\ d.item[i].state = "pending"
              /\ d.item[i].duration # Unset
    PROVE  Good(startDecay(d, i), X, R)
<1> DEFINE f == d.item[i]
<1>1. CASE canDecay(f) /\ f.state \notin {"true", "stopping"} /\ f.duration = 0
    BY <1>1, Decaying DEF startDecay
<1>2. CASE ~(canDecay(f) /\ f.state \notin {"true", "stopping"} /\ f.duration = 0)
    <2>1. startDecay(d, i) = Started(d, i)
        BY <1>2 DEF startDecay
    <2>2. Startable(f, ~Off(d, i))
        BY DEF Startable
    <2> QED BY <2>1, <2>2, Starting
<1> QED BY <1>1, <1>2

\* One of those that were due ends.
LEMMA Ending ==
    ASSUME NEW d, NEW X \in SUBSET Items, NEW R, R \in SUBSET Nat, Good(d, X, R), NEW i \in X
    PROVE  Good(Ended(d, i), X \ {i}, R)
<1> DEFINE f == d.item[i]
           g == [f EXCEPT !.state = "false", !.stamp = Unset]
           d1 == [d EXCEPT !.item[i] = g]
<1>1. i \in Items /\ Sound(d, R) /\ d \in Decays /\ Limbo(d, i)
    BY DEF Good, Sound
<1>2. f \in Records
    BY <1>1, DecaysType
<1>3. g \in Records /\ g.stamp = Unset /\ g.state = "false" /\ g.kind = f.kind
    BY <1>2 DEF Records, States
<1>4. Rewritten(d, d1, i, g)
    BY DEF Rewritten
<1>5. Ended(d, i) = internalDecayItem(d1, i)
    <2>1. [d EXCEPT !.item[i].state = "false", !.item[i].stamp = Unset] = d1
        BY <1>1, <1>2 DEF Decays, Records
    <2>2. canDecay(f)
        BY <1>1 DEF Limbo
    <2> QED BY <2>1, <2>2 DEF Ended
<1> HIDE DEF g, d1
<1>6. Sound(d1, R) /\ SameOthers(d, d1, i) /\ d1.item[i] = g /\ d1.map = d.map
    BY <1>1, <1>3, <1>4, NewRecord
<1>7. Off(d1, i) /\ canDecay(d1.item[i]) /\ d1.item[i].state # "true"
    BY <1>1, <1>3, <1>6 DEF Limbo, Off, canDecay
<1>8. AllBut(d1, i, X \ {i}, R)
    <2>1. Almost(d1, i)
        BY <1>7 DEF Almost, Off
    <2>2. \A j \in Items \ ((X \ {i}) \cup {i}) : Normal(d1, j)
        BY <1>6 DEF Good, SameOthers, Normal
    <2>3. \A j \in X \ {i} : Limbo(d1, j)
        BY <1>6 DEF Good, SameOthers, Limbo, Off
    <2> QED BY <1>1, <1>6, <2>1, <2>2, <2>3 DEF AllBut
<1> QED BY <1>5, <1>7, <1>8, Decaying

\* The function that AllEnded reads off.
After(d, s, f) ==
    f = [n \in 0..Len(s) |-> IF n = 0 THEN d ELSE Ended(f[n - 1], s[n])]

LEMMA AfterExists ==
    ASSUME NEW d, NEW s \in Seq(Items)
    PROVE  \E f : After(d, s, f)
<1> DEFINE P == {t \in Seq(Items) : \E f : After(d, t, f)}
<1>1. <<>> \in P
    <2> DEFINE f == [n \in 0..0 |-> d]
    <2>1. After(d, <<>>, f)
        BY DEF After
    <2> QED BY <2>1
<1>2. ASSUME NEW t \in Seq(Items), NEW x \in Items, t \in P PROVE Append(t, x) \in P
    <2>1. PICK f : After(d, t, f)
        BY <1>2
    <2> DEFINE u == Append(t, x)
               g == [n \in 0..Len(u) |-> IF n <= Len(t) THEN f[n] ELSE Ended(f[Len(t)], x)]
    <2>2. Len(u) = Len(t) + 1 /\ u[Len(u)] = x /\ u \in Seq(Items)
          /\ \A n \in 1..Len(t) : u[n] = t[n]
        OBVIOUS
    <2>3. \A n \in 0..Len(t) : f[n] = IF n = 0 THEN d ELSE Ended(f[n - 1], t[n])
        BY <2>1 DEF After
    <2> HIDE DEF u
    <2>4. After(d, u, g)
        BY <2>2, <2>3 DEF After
    <2> HIDE DEF g
    <2> QED BY <2>2, <2>4 DEF u
<1> HIDE DEF P
<1>3. s \in P
    BY <1>1, <1>2, AppendInduction
<1> QED BY <1>3 DEF P

LEMMA AllEnding ==
    ASSUME NEW d, NEW s \in Seq(Items), IsInjective(s), NEW R, R \in SUBSET Nat, Good(d, ToSet(s), R)
    PROVE  Good(AllEnded(d, s), {}, R)
<1> DEFINE f == CHOOSE g : After(d, s, g)
           Left(n) == {s[m] : m \in (n + 1)..Len(s)}
           N == {n \in Nat : n <= Len(s) => Good(f[n], Left(n), R)}
<1>1. AllEnded(d, s) = f[Len(s)]
    BY DEF AllEnded, After
<1>2. After(d, s, f)
    BY AfterExists
<1> HIDE DEF f
<1>3. \A n \in 0..Len(s) : f[n] = IF n = 0 THEN d ELSE Ended(f[n - 1], s[n])
    BY <1>2 DEF After
<1>4. Len(s) \in Nat /\ DOMAIN s = 1..Len(s) /\ \A m \in 1..Len(s) : s[m] \in Items
    OBVIOUS
<1>5. 0 \in N
    <2>1. Left(0) = ToSet(s)
        BY <1>4 DEF ToSet
    <2>2. f[0] = d
        BY <1>3, <1>4
    <2> HIDE DEF Left
    <2>3. Good(f[0], Left(0), R)
        BY <2>1, <2>2
    <2> QED BY <2>3
<1>6. ASSUME NEW n \in Nat, n \in N PROVE n + 1 \in N
    <2> SUFFICES ASSUME n + 1 <= Len(s) PROVE Good(f[n + 1], Left(n + 1), R)
        OBVIOUS
    <2>1. Good(f[n], Left(n), R)
        BY <1>4, <1>6
    <2>2. f[n + 1] = Ended(f[n], s[n + 1])
        BY <1>3, <1>4
    <2>3. s[n + 1] \in Left(n) /\ Left(n) \in SUBSET Items
        BY <1>4
    <2>4. Left(n) \ {s[n + 1]} = Left(n + 1)
        <3>1. \A m \in (n + 2)..Len(s) : m \in (n + 1)..Len(s) /\ s[m] # s[n + 1]
            BY <1>4 DEF IsInjective
        <3>2. \A m \in (n + 1)..Len(s) : m = n + 1 \/ m \in (n + 2)..Len(s)
            BY <1>4
        <3>3. (n + 1) + 1 = n + 2
            OBVIOUS
        <3> QED BY <3>1, <3>2, <3>3
    <2> HIDE DEF Left
    <2> QED BY <2>1, <2>2, <2>3, <2>4, Ending
<1> HIDE DEF N
<1>7. Len(s) \in N
    BY <1>4, <1>5, <1>6, NatSetInduction
<1>8. Left(Len(s)) = {}
    BY <1>4
<1> HIDE DEF Left
<1>9. Good(f[Len(s)], Left(Len(s)), R)
    BY <1>4, <1>7 DEF N
<1> QED BY <1>1, <1>8, <1>9

\* The function that Due reads off.
UpTo(d, n, f) == f = [t \in 0..n |-> IF t = 0 THEN d.map[0] ELSE f[t - 1] \o d.map[t]]

LEMMA UpToExists ==
    ASSUME NEW d, NEW n \in Nat
    PROVE  \E f : UpTo(d, n, f)
<1> DEFINE N == {m \in Nat : \E f : UpTo(d, m, f)}
<1>1. 0 \in N
    <2> DEFINE f == [t \in 0..0 |-> d.map[0]]
    <2>1. UpTo(d, 0, f)
        BY DEF UpTo
    <2> QED BY <2>1
<1>2. ASSUME NEW m \in Nat, m \in N PROVE m + 1 \in N
    <2>1. PICK f : UpTo(d, m, f)
        BY <1>2
    <2> DEFINE g == [t \in 0..(m + 1) |-> IF t <= m THEN f[t] ELSE f[m] \o d.map[m + 1]]
    <2>2. \A t \in 0..m : f[t] = IF t = 0 THEN d.map[0] ELSE f[t - 1] \o d.map[t]
        BY <2>1 DEF UpTo
    <2>3. \A t \in 0..(m + 1) : g[t] = IF t = 0 THEN d.map[0] ELSE g[t - 1] \o d.map[t]
        <3> SUFFICES ASSUME NEW t \in 0..(m + 1) PROVE g[t] = IF t = 0 THEN d.map[0] ELSE g[t - 1] \o d.map[t]
            OBVIOUS
        <3>1. \A r \in 0..m : r \in 0..(m + 1) /\ g[r] = f[r]
            OBVIOUS
        <3>2. CASE t \in 0..m /\ t # 0
            <4>1. t - 1 \in 0..m
                BY <3>2
            <4> QED BY <2>2, <3>1, <3>2, <4>1
        <3>3. CASE t = m + 1
            <4>1. t - 1 = m /\ m \in 0..m /\ t # 0 /\ ~(t <= m)
                BY <3>3
            <4>2. g[t] = f[m] \o d.map[t]
                BY <3>3, <4>1
            <4> HIDE DEF g
            <4> QED BY <3>1, <4>1, <4>2
        <3>4. CASE t = 0
            BY <2>2, <3>1, <3>4
        <3> QED BY <3>2, <3>3, <3>4
    <2>4. g = [t \in 0..(m + 1) |-> g[t]]
        OBVIOUS
    <2>5. UpTo(d, m + 1, g)
        <3> HIDE DEF g
        <3> QED BY <2>3, <2>4 DEF UpTo
    <2> HIDE DEF g
    <2> QED BY <2>5
<1> HIDE DEF N
<1>3. n \in N
    BY <1>1, <1>2, NatSetInduction
<1> QED BY <1>3 DEF N

\* Those that are due are listed once each, and are those in the lists of the past.
LEMMA DueProperties ==
    ASSUME NEW d, NEW R, Good(d, {}, R)
    PROVE  /\ Due(d) \in Seq(Items) /\ IsInjective(Due(d))
           /\ \A i : i \in ToSet(Due(d)) <=> \E t \in 0..now : i \in ToSet(d.map[t])
<1> DEFINE f == CHOOSE g : UpTo(d, now, g)
           Right(t) == /\ f[t] \in Seq(Items) /\ IsInjective(f[t])
                       /\ \A i : i \in ToSet(f[t]) <=> \E r \in 0..t : i \in ToSet(d.map[r])
           N == {t \in Nat : t <= now => Right(t)}
<1>1. /\ now \in Nat /\ 0..now \subseteq Stamps /\ \A t \in Stamps : d.map[t] \in Seq(Items) /\ IsInjective(d.map[t])
      /\ \A t, r \in Stamps, i \in Items : i \in ToSet(d.map[t]) /\ i \in ToSet(d.map[r]) => t = r
    <2>1. now \in Nat /\ 0..now \subseteq Stamps
        BY LifeBounds DEF Good, Sound
    <2>2. \A t \in Stamps : d.map[t] \in Seq(Items) /\ IsInjective(d.map[t])
        BY DecaysType DEF Good, Sound
    <2>3. \A t \in Stamps, i \in Items : i \in ToSet(d.map[t]) => d.item[i].stamp = t
        BY DEF Good, Normal
    <2> QED BY <2>1, <2>2, <2>3
<1>2. Due(d) = f[now]
    BY DEF Due, UpTo
<1>3. UpTo(d, now, f)
    BY <1>1, UpToExists
<1> HIDE DEF f
<1>4. \A t \in 0..now : f[t] = IF t = 0 THEN d.map[0] ELSE f[t - 1] \o d.map[t]
    BY <1>3 DEF UpTo
<1>5. 0 \in N
    <2>1. f[0] = d.map[0] /\ 0 \in Stamps
        BY <1>1, <1>4
    <2>2. Right(0)
        BY <1>1, <2>1
    <2> QED BY <2>2
<1>6. ASSUME NEW n \in Nat, n \in N PROVE n + 1 \in N
    <2> SUFFICES ASSUME n + 1 <= now PROVE Right(n + 1)
        OBVIOUS
    <2> DEFINE p == f[n]
               q == d.map[n + 1]
    <2>1. Right(n)
        BY <1>1, <1>6
    <2>2. f[n + 1] = p \o q /\ n + 1 \in Stamps /\ 0..n \subseteq Stamps
        <3>1. n + 1 \in 0..now /\ n + 1 # 0 /\ (n + 1) - 1 = n /\ 0..n \subseteq 0..now
            BY <1>1
        <3> QED BY <1>1, <1>4, <3>1
    <2>3. p \in Seq(Items) /\ IsInjective(p) /\ q \in Seq(Items) /\ IsInjective(q)
        BY <1>1, <2>1, <2>2
    <2>4. ToSet(p) \cap ToSet(q) = {}
        <3>1. ToSet(q) \subseteq Items
            BY <2>3 DEF ToSet
        <3>2. \A r \in 0..n : r # n + 1
            OBVIOUS
        <3> QED BY <1>1, <2>1, <2>2, <3>1, <3>2
    <2>5. f[n + 1] \in Seq(Items) /\ IsInjective(f[n + 1]) /\ ToSet(f[n + 1]) = ToSet(p) \cup ToSet(q)
        <3> HIDE DEF p, q
        <3> QED BY <2>2, <2>3, <2>4, ConcatSet
    <2>6. \A i : i \in ToSet(f[n + 1]) <=> \E r \in 0..(n + 1) : i \in ToSet(d.map[r])
        <3>1. \A r \in 0..(n + 1) : r \in 0..n \/ r = n + 1
            OBVIOUS
        <3>2. n + 1 \in 0..(n + 1) /\ \A r \in 0..n : r \in 0..(n + 1)
            OBVIOUS
        <3> QED BY <2>1, <2>5, <3>1, <3>2
    <2> QED BY <2>5, <2>6
<1> HIDE DEF N
<1>7. now \in N
    BY <1>1, <1>5, <1>6, NatSetInduction
<1> HIDE DEF Right
<1>8. Right(now)
    BY <1>1, <1>7 DEF N
<1> QED BY <1>2, <1>8 DEF Right

\* Without the lists of the past those that are due are in limbo.
LEMMA ErasingDue ==
    ASSUME NEW d, NEW R, Good(d, {}, R)
    PROVE  Good(Erased(d), ToSet(Due(d)), Deadlines(Erased(d)))
<1> DEFINE e == Erased(d)
           X == ToSet(Due(d))
<1>1. /\ now \in Nat /\ d \in Decays /\ d.map \in [Stamps -> Seq(Items)] /\ Stamps \subseteq Nat
      /\ 0..now \subseteq Stamps
    BY DecaysType, LifeBounds DEF Good, Sound
<1>2. /\ e \in Decays /\ e.item = d.item
      /\ \A t \in Stamps : e.map[t] = IF t <= now THEN <<>> ELSE d.map[t]
    <2> DEFINE w == [t \in Stamps |-> IF t <= now THEN <<>> ELSE d.map[t]]
    <2>1. e = [d EXCEPT !.map = w]
        BY <1>1 DEF Erased, Decays
    <2>2. w \in [Stamps -> Seq(Items)]
        BY <1>1
    <2> HIDE DEF w, e
    <2>3. e \in Decays /\ e.item = d.item /\ e.map = w
        BY <1>1, <2>1, <2>2 DEF Decays
    <2> QED BY <2>3 DEF w
<1>3. X \subseteq Items /\ \A i : i \in X <=> \E t \in 0..now : i \in ToSet(d.map[t])
    <2>1. Due(d) \in Seq(Items)
        BY DueProperties
    <2>2. X \subseteq Items
        BY <2>1 DEF ToSet
    <2> QED BY <2>2, DueProperties
<1> HIDE DEF e, X
<1>4. \A i : \A t \in Stamps : i \in ToSet(e.map[t]) <=> t > now /\ i \in ToSet(d.map[t])
    <2>1. ToSet(<<>>) = {}
        BY DEF ToSet
    <2> QED BY <1>1, <1>2, <2>1
<1>5. Sound(e, Deadlines(e))
    <2>1. Watched(e, Deadlines(e))
        <3> SUFFICES ASSUME NEW t \in Stamps, e.map[t] # <<>> PROVE Waits(e, Deadlines(e), t)
            BY DEF Watched
        <3>1. t \in Deadlines(e) /\ t <= t
            BY <1>1 DEF Deadlines
        <3> QED BY <3>1 DEF Waits
    <2>2. IsInjective(<<>>)
        BY DEF IsInjective
    <2> QED BY <1>2, <2>1, <2>2 DEF Good, Sound
<1>6. \A i \in X : Limbo(e, i)
    <2> SUFFICES ASSUME NEW i \in X PROVE Limbo(e, i)
        OBVIOUS
    <2>1. Normal(d, i)
        BY <1>3 DEF Good
    <2>2. PICK t \in 0..now : i \in ToSet(d.map[t])
        BY <1>3
    <2>3. d.item[i].state = "true" /\ d.item[i].stamp = t
        BY <1>1, <2>1, <2>2 DEF Normal
    <2>4. Off(e, i)
        <3>1. ASSUME NEW r \in Stamps, i \in ToSet(e.map[r]) PROVE FALSE
            <4>1. r > now /\ i \in ToSet(d.map[r])
                BY <1>4, <3>1
            <4>2. d.item[i].stamp = r
                BY <2>1, <4>1 DEF Normal
            <4> QED BY <1>1, <2>2, <2>3, <4>1, <4>2
        <3> QED BY <3>1 DEF Off
    <2> QED BY <1>2, <2>1, <2>3, <2>4 DEF Limbo, Normal
<1>7. \A i \in Items \ X : Normal(e, i)
    <2> SUFFICES ASSUME NEW i \in Items \ X PROVE Normal(e, i)
        OBVIOUS
    <2>1. Normal(d, i)
        BY DEF Good
    <2>2. \A t \in Stamps : i \in ToSet(d.map[t]) => t > now
        BY <1>1, <1>3
    <2>3. \A t \in Stamps : i \in ToSet(e.map[t]) <=> i \in ToSet(d.map[t])
        BY <1>4, <2>2
    <2> QED BY <1>2, <2>1, <2>3 DEF Normal
<1> QED BY <1>5, <1>6, <1>7 DEF Good, e, X

\* checkDecay, when no timer may be left.
LEMMA Checking ==
    ASSUME NEW d, NEW R, Good(d, {}, R)
    PROVE  Good(checkDecay(d), {}, {})
<1> DEFINE done == AllEnded(Erased(d), Due(d))
           rest == Deadlines(Erased(d))
           e == checkDecay(d)
<1>1. Due(d) \in Seq(Items) /\ IsInjective(Due(d))
    BY DueProperties
<1>2. /\ rest \in SUBSET Nat /\ \A t \in rest : t > now
      /\ now \in Nat /\ now \in 0..MaxTime /\ Stamps \subseteq Nat /\ MinTicks \in Nat /\ Unset \notin Nat
    <2>1. now \in Nat /\ now \in 0..MaxTime /\ Stamps \subseteq Nat /\ MinTicks \in Nat /\ Unset \notin Nat
        BY LifeBounds DEF Good, Sound
    <2>2. \A t \in rest : t \in Stamps /\ ~(t <= now)
        <3>1. d \in Decays /\ d.map \in [Stamps -> Seq(Items)]
            BY DecaysType DEF Good, Sound
        <3>2. Erased(d).map = [t \in Stamps |-> IF t <= now THEN <<>> ELSE d.map[t]]
            BY <3>1 DEF Erased, Decays
        <3>3. \A t \in Stamps : t <= now => Erased(d).map[t] = <<>>
            BY <3>2
        <3>4. \A t \in rest : t \in Stamps /\ Erased(d).map[t] # <<>>
            BY DEF Deadlines
        <3> HIDE DEF rest
        <3> SUFFICES ASSUME NEW t \in rest PROVE t \in Stamps /\ ~(t <= now)
            OBVIOUS
        <3> QED BY <3>3, <3>4, Zenon
    <2> HIDE DEF rest
    <2>3. ASSUME NEW t \in rest PROVE t \in Nat /\ t > now
        <3>1. t \in Nat /\ ~(t <= now)
            BY <2>1, <2>2
        <3>2. now \in Nat
            BY <2>1
        <3> QED BY <3>1, <3>2
    <2>4. rest \in SUBSET Nat
        BY <2>3
    <2> QED BY <2>1, <2>3, <2>4
<1>3. Good(done, {}, rest)
    BY <1>1, <1>2, AllEnding, ErasingDue
<1>4. e = IF rest = {} THEN done
          ELSE [done EXCEPT !.event = Later(Min(rest) - now), !.strays = @ \cup ({done.event} \ {Unset})]
    BY DEF checkDecay
<1> HIDE DEF done, rest, e
<1>5. CASE rest = {}
    BY <1>3, <1>4, <1>5 DEF e
<1>6. CASE rest # {}
    <2> DEFINE m == Min(rest)
    <2>1. m \in rest /\ \A t \in rest : m <= t
        BY <1>2, <1>6, SmallestNat
    <2>2. e = [done EXCEPT !.event = Later(m - now), !.strays = @ \cup ({done.event} \ {Unset})]
        BY <1>4, <1>6
    <2> HIDE DEF m
    <2>3. Later(m - now) \in Nat \ {Unset} /\ Later(m - now) <= m + MinTicks /\ m \in Nat
        BY <1>2, <2>1, LaterInTime
    <2>4. done \in Decays /\ done.event \in Nat \cup {Unset} /\ done.strays \in SUBSET Nat
        BY <1>3, DecaysType DEF Good, Sound
    <2>5. /\ e \in Decays /\ e.item = done.item /\ e.map = done.map
          /\ e.event = Later(m - now) /\ e.strays = done.strays \cup ({done.event} \ {Unset})
        BY <2>2, <2>3, <2>4 DEF Decays
    <2>6. ASSUME NEW t \in Stamps, e.map[t] # <<>> PROVE Waits(e, {}, t)
        <3>1. Waits(done, rest, t)
            BY <1>3, <2>5, <2>6 DEF Good, Sound, Watched
        <3>2. CASE \E x \in ({done.event} \cup done.strays) \ {Unset} : x <= t + MinTicks
            BY <2>5, <3>2 DEF Waits
        <3>3. CASE \E r \in rest : r <= t
            <4>1. t \in Nat /\ m <= t
                BY <1>2, <2>1, <2>3, <3>3
            <4>2. Later(m - now) <= t + MinTicks
                BY <1>2, <2>3, <4>1
            <4> QED BY <2>3, <2>5, <4>2 DEF Waits
        <3> QED BY <3>1, <3>2, <3>3 DEF Waits
    <2>7. Sound(e, {})
        BY <1>3, <2>5, <2>6 DEF Good, Sound, Watched
    <2>8. \A i \in Items : Normal(e, i)
        BY <1>3, <2>5 DEF Good, Normal
    <2> QED BY <2>7, <2>8 DEF Good, e
<1> QED BY <1>5, <1>6

DecayInv == Good(decay, {}, {})

LEMMA Unchanging ==
    ASSUME Good(decay', {}, {}), now' = now
    PROVE  DecayInv'
BY DEF DecayInv, Good, Sound, Watched, Waits, Normal, Limbo, Off, canDecay

LEMMA DecayStarts == DecayInit => DecayInv
<1> SUFFICES ASSUME DecayInit PROVE DecayInv
    OBVIOUS
<1>1. /\ now = 0 /\ decay = [item |-> [i \in Items |-> Nowhere], map |-> [t \in Stamps |-> <<>>],
                             event |-> Unset, strays |-> {}]
      /\ MaxTime \in Nat /\ Unset # "true"
    BY DecayAssumption DEF DecayInit
<1>2. /\ Nowhere \in Records /\ Nowhere.stamp = Unset /\ Nowhere.state = Unset
      /\ ToSet(<<>>) = {} /\ IsInjective(<<>>) /\ <<>> \in Seq(Items)
    BY DEF Nowhere, Records, States, ToSet, IsInjective
<1>3. /\ decay.item = [i \in Items |-> Nowhere] /\ decay.map = [t \in Stamps |-> <<>>]
      /\ decay.event = Unset /\ decay.strays = {}
    BY <1>1
<1>4. decay \in Decays
    <2>1. decay.item \in [Items -> Records]
        BY <1>2, <1>3
    <2>2. decay.map \in [Stamps -> Seq(Items)]
        BY <1>2, <1>3
    <2> QED BY <1>1, <1>3, <2>1, <2>2 DEF Decays
<1>5. Sound(decay, {})
    BY <1>1, <1>2, <1>3, <1>4 DEF Sound, Watched
<1>6. \A i \in Items : Normal(decay, i)
    <2> SUFFICES ASSUME NEW i \in Items PROVE Normal(decay, i)
        OBVIOUS
    <2>1. Off(decay, i) /\ decay.item[i].state # "true"
        BY <1>1, <1>2, <1>3 DEF Off
    <2> QED BY <2>1, OffIsNormal
<1> QED BY <1>5, <1>6 DEF DecayInv, Good

LEMMA AppearKeeps ==
    ASSUME DecayInv, NEW i \in Items, NEW k \in Kinds, Appear(i, k)
    PROVE  DecayInv'
<1> DEFINE f == [Nowhere EXCEPT !.kind = k,
                   !.duration = IF Type[k].time > 0 THEN Type[k].time ELSE Unset]
           d == [decay EXCEPT !.item[i] = f]
<1>1. AllBut(decay, i, {}, {}) /\ Normal(decay, i) /\ decay.item[i] = Nowhere
    BY InHand DEF DecayInv, Good, Appear
<1>2. Nowhere.state = Unset /\ Nowhere.stamp = Unset /\ Unset # "true"
    BY DecayAssumption DEF Nowhere
<1>3. f \in Records /\ f.stamp = Unset /\ f.state = Unset
    <2>1. Type[k].time \in 0..MaxLife
        BY KindTypes
    <2> QED BY <2>1 DEF Records, States, Nowhere
<1>4. Rewritten(decay, d, i, f)
    BY DEF Rewritten
<1>5. decay' = startDecay(d, i) /\ now' = now
    BY DEF Appear
<1> HIDE DEF f, d
<1>6. /\ AllBut(d, i, {}, {}) /\ d.item[i] = f /\ (Off(d, i) <=> Off(decay, i))
    BY <1>1, <1>2, <1>3, <1>4, Rewriting
<1>7. Off(decay, i)
    BY <1>1, <1>2 DEF Normal, Off
<1>8. Good(startDecay(d, i), {}, {})
    BY <1>2, <1>3, <1>6, <1>7, StartingDecay
<1> QED BY <1>5, <1>8, Unchanging

LEMMA TransformKeeps ==
    ASSUME DecayInv, NEW i \in Items, NEW k \in Kinds, Transform(i, k)
    PROVE  DecayInv'
<1> DEFINE f == decay.item[i]
<1>1. AllBut(decay, i, {}, {}) /\ Normal(decay, i)
    BY InHand DEF DecayInv, Good
<1>2. f.kind \in Kinds \cup {Unset}
    BY DecaysType DEF DecayInv, Good, Sound
<1>3. decay' = transformItem(decay, i, k) /\ now' = now /\ k \in Type[f.kind].into
    BY DEF Transform
<1>4. CASE k = f.kind
    <2>1. decay' = decay
        BY <1>3, <1>4 DEF transformItem
    <2> QED BY <1>3, <2>1, Unchanging DEF DecayInv
<1>5. CASE k # f.kind
    <2>1. CASE f.state = "true"
        <3>1. canDecay(f) /\ f.duration # Unset
            BY <1>1, <2>1 DEF Normal
        <3>2. f.kind \in Kinds /\ ~Lasting(f.kind)
            BY <1>2, <3>1 DEF canDecay, Lasting
        <3>3. ~Lasting(k)
            BY <1>3, <3>2, KindTypes
        <3>4. Good(transformItem(decay, i, k), {}, {})
            BY <1>1, <1>5, <2>1, <3>1, <3>3, Transforming
        <3> QED BY <1>3, <3>4, Unchanging
    <2>2. CASE f.state # "true"
        <3>1. Off(decay, i)
            BY <1>1, <2>2 DEF Normal, Off
        <3>2. Good(transformItem(decay, i, k), {}, {})
            BY <1>1, <1>5, <2>2, <3>1, Transforming
        <3> QED BY <1>3, <3>2, Unchanging
    <2> QED BY <2>1, <2>2
<1> QED BY <1>4, <1>5

LEMMA SetDurationKeeps ==
    ASSUME Settles, DecayInv, NEW i \in Items, NEW time \in {0, 1}, SetDuration(i, time)
    PROVE  DecayInv'
<1> DEFINE g == decay.item[i]
           f == [g EXCEPT !.state = "pending", !.duration = time]
           d == [decay EXCEPT !.item[i] = f]
<1>1. AllBut(decay, i, {}, {}) /\ Normal(decay, i) /\ decay \in Decays
    BY InHand DEF DecayInv, Good, Sound
<1>2. Unset # "pending" /\ time \in 0..MaxLife /\ Unset # time
    BY DecayAssumption, LifeBounds
<1>3. g \in Records
    BY <1>1, DecaysType
<1>4. /\ f \in Records /\ f.stamp = g.stamp /\ f.state = "pending" /\ f.duration = time /\ f.kind = g.kind
    BY <1>2, <1>3 DEF Records, States
<1>5. Rewritten(decay, d, i, f)
    BY DEF Rewritten
<1>6. decay' = startDecay(d, i) /\ now' = now
    <2>1. [decay EXCEPT !.item[i].state = "pending", !.item[i].duration = time] = d
        BY <1>1, <1>3 DEF Decays, Records
    <2> QED BY <2>1 DEF SetDuration
<1> HIDE DEF f, d
<1>7. /\ AllBut(d, i, {}, {}) /\ d.item[i] = f /\ (Off(d, i) <=> Off(decay, i))
    BY <1>1, <1>2, <1>4, <1>5, Rewriting
<1>8. Off(d, i) \/ canDecay(f)
    BY <1>1, <1>4, <1>7 DEF Normal, Off, canDecay
<1>9. Good(startDecay(d, i), {}, {})
    BY <1>2, <1>4, <1>7, <1>8, StartingDecay
<1> QED BY <1>6, <1>9, Unchanging

LEMMA ReloadKeeps ==
    ASSUME DecayInv, NEW i \in Items, Reload(i)
    PROVE  DecayInv'
<1> DEFINE f == decay.item[i]
           r == Removed(decay, i)
           g == [Nowhere EXCEPT !.kind = f.kind,
                   !.state = IF f.state \in {"true", "pending"} THEN "pending" ELSE Unset,
                   !.duration = IF f.duration = Unset THEN Unset ELSE Duration(f)]
           d == [r EXCEPT !.item[i] = g]
<1>1. AllBut(decay, i, {}, {}) /\ Sound(decay, {})
    BY InHand DEF DecayInv, Good
<1>2. AllBut(r, i, {}, {}) /\ Off(r, i) /\ r.item[i] = Nowhere
    BY <1>1, Removing
<1>3. Nowhere.state = Unset /\ Nowhere.stamp = Unset /\ Unset # "true"
    BY DecayAssumption DEF Nowhere
<1>4. g \in Records /\ g.stamp = Unset /\ g.state \in {"pending", Unset}
    <2>1. Duration(f) \in 0..MaxLife
        BY <1>1, DurationType
    <2>2. f.kind \in Kinds \cup {Unset}
        BY <1>1, DecaysType DEF Sound
    <2> QED BY <2>1, <2>2 DEF Records, States, Nowhere
<1>5. Rewritten(r, d, i, g)
    BY DEF Rewritten
<1>6. decay' = startDecay(d, i) /\ now' = now
    BY DEF Reload
<1> HIDE DEF r, g, d
<1>7. AllBut(d, i, {}, {}) /\ d.item[i] = g /\ (Off(d, i) <=> Off(r, i))
    BY <1>2, <1>3, <1>4, <1>5, Rewriting
<1>8. Good(startDecay(d, i), {}, {})
    BY <1>2, <1>3, <1>4, <1>7, StartingDecay
<1> QED BY <1>6, <1>8, Unchanging

LEMMA TimerKeeps ==
    ASSUME DecayInv, TimerFires
    PROVE  DecayInv'
<1>1. PICK t \in ({decay.event} \ {Unset}) \cup decay.strays :
          \/ t = decay.event /\ decay' = checkDecay([decay EXCEPT !.event = Unset])
          \/ t \in decay.strays /\ decay' = checkDecay([decay EXCEPT !.strays = @ \ {t}])
    BY DEF TimerFires
<1>2. decay \in Decays /\ Sound(decay, {}) /\ Stamps \subseteq Nat
    BY LifeBounds DEF DecayInv, Good, Sound
<1>3. ASSUME NEW d \in Decays, d.item = decay.item, d.map = decay.map
      PROVE  Good(checkDecay(d), {}, {})
    <2>1. Waits(d, {0}, 0) /\ \A r \in Stamps : Waits(d, {0}, r)
        BY <1>2 DEF Waits
    <2>2. Sound(d, {0})
        BY <1>2, <1>3, <2>1 DEF Sound, Watched
    <2>3. \A i \in Items : Normal(d, i)
        BY <1>3 DEF DecayInv, Good, Normal
    <2>4. Good(d, {}, {0})
        BY <2>2, <2>3 DEF Good
    <2> QED BY <2>4, Checking
<1>4. CASE decay' = checkDecay([decay EXCEPT !.event = Unset])
    <2> DEFINE d == [decay EXCEPT !.event = Unset]
    <2>1. d \in Decays /\ d.item = decay.item /\ d.map = decay.map
        BY <1>2 DEF Decays
    <2>2. decay' = checkDecay(d)
        BY <1>4
    <2> HIDE DEF d
    <2> QED BY <1>3, <2>1, <2>2, Unchanging DEF TimerFires
<1>5. CASE decay' = checkDecay([decay EXCEPT !.strays = @ \ {t}])
    <2> DEFINE d == [decay EXCEPT !.strays = @ \ {t}]
    <2>1. d \in Decays /\ d.item = decay.item /\ d.map = decay.map
        BY <1>2 DEF Decays
    <2>2. decay' = checkDecay(d)
        BY <1>5
    <2> HIDE DEF d
    <2> QED BY <1>3, <2>1, <2>2, Unchanging DEF TimerFires
<1> QED BY <1>1, <1>4, <1>5

LEMMA ClockKeeps ==
    ASSUME DecayInv, ClockTicks
    PROVE  DecayInv'
<1>1. now \in 0..MaxTime /\ now' = now + 1 /\ now' \in 0..MaxTime /\ decay' = decay
      /\ MaxTime \in Nat /\ MaxLife \in Nat
    BY LifeBounds, DecayAssumption DEF DecayInv, Good, Sound, ClockTicks
<1>2. \A i \in Items : decay.item[i].stamp # Unset =>
          decay.item[i].stamp \in Nat /\ decay.item[i].stamp <= now + MaxLife
    BY DecaysType, LifeBounds DEF DecayInv, Good, Sound
<1>3. \A i \in Items : decay.item[i].stamp # Unset => decay.item[i].stamp <= now' + MaxLife
    BY <1>1, <1>2
<1> QED BY <1>1, <1>3 DEF DecayInv, Good, Sound, Watched, Waits, Normal, Limbo, Off, canDecay

LEMMA DecayStep ==
    ASSUME Settles
    PROVE  DecayInv /\ [DecayNext]_decayVars => DecayInv'
<1> SUFFICES ASSUME DecayInv, [DecayNext]_decayVars PROVE DecayInv'
    OBVIOUS
<1>1. ASSUME NEW i \in Items, TakeAway(i) PROVE DecayInv'
    <2>1. AllBut(decay, i, {}, {})
        BY InHand DEF DecayInv
    <2>2. Good(Removed(decay, i), {}, {})
        BY <2>1, Removing
    <2> QED BY <1>1, <2>2, Unchanging DEF TakeAway
<1>2. CASE UNCHANGED decayVars
    BY <1>2, Unchanging DEF decayVars, DecayInv
<1>3. Made \subseteq Kinds
    BY DecayAssumption
<1> QED BY <1>1, <1>2, <1>3, AppearKeeps, TransformKeeps, SetDurationKeeps, ReloadKeeps,
           TimerKeeps, ClockKeeps DEF DecayNext

LEMMA DecayMeans == DecayInv => DecaysInTime
<1> SUFFICES ASSUME DecayInv PROVE DecaysInTime
    OBVIOUS
<1>1. decay \in Decays /\ now \in 0..MaxTime /\ Watched(decay, {}) /\ Stamps \subseteq Nat
    BY LifeBounds DEF DecayInv, Good, Sound
<1>2. DecayTypeOK
    BY <1>1, DecaysType DEF DecayTypeOK, Records, States
<1>3. ASSUME NEW i \in Items, NEW t \in Stamps
      PROVE  Cardinality({n \in DOMAIN decay.map[t] : decay.map[t][n] = i})
             = IF decay.item[i].state = "true" /\ decay.item[i].stamp = t THEN 1 ELSE 0
    <2> DEFINE list == decay.map[t]
               S == {n \in DOMAIN list : list[n] = i}
    <2>1. IsInjective(list) /\ Normal(decay, i)
        BY DEF DecayInv, Good, Sound
    <2>2. i \in ToSet(list) <=> decay.item[i].state = "true" /\ decay.item[i].stamp = t
        BY <2>1 DEF Normal
    <2> HIDE DEF list
    <2>3. CASE i \in ToSet(list)
        <3>1. PICK n \in DOMAIN list : list[n] = i
            BY <2>3 DEF ToSet
        <3>2. S = {n}
            BY <2>1, <3>1 DEF IsInjective
        <3>3. Cardinality(S) = 1
            BY <3>2, FS_Singleton
        <3> QED BY <2>2, <2>3, <3>3 DEF list
    <2>4. CASE i \notin ToSet(list)
        <3>1. S = {}
            BY <2>4 DEF ToSet
        <3>2. Cardinality(S) = 0
            BY <3>1, FS_EmptySet
        <3> QED BY <2>2, <2>4, <3>2 DEF list
    <2> QED BY <2>3, <2>4
<1>4. NeverLate
    <2> SUFFICES ASSUME Deadlines(decay) # {}
                 PROVE  \E t \in {decay.event} \cup decay.strays :
                            t # Unset /\ t <= FirstDeadline(decay) + MinTicks
        BY DEF NeverLate
    <2>1. Deadlines(decay) \in SUBSET Nat
        BY <1>1 DEF Deadlines
    <2>2. FirstDeadline(decay) \in Deadlines(decay)
        BY <2>1, SmallestNat DEF FirstDeadline
    <2>3. Waits(decay, {}, FirstDeadline(decay))
        BY <1>1, <2>2 DEF Watched, Deadlines
    <2> QED BY <2>3 DEF Waits
<1> QED BY <1>2, <1>3, <1>4 DEF DecaysInTime, DecayingIsListed

\* Whatever is made, taken away, transformed, set by scripts, saved and loaded, and
\* however late the dispatcher is: what decays is listed once, when it says, and a timer
\* will look at the list in time (decay.cpp).  Settles is needed when a script sets a time
\* of 0 on what is already listed: startDecay then transforms an item that keeps its stamp.
THEOREM AlwaysDecaysInTime == ASSUME Settles PROVE DecaySpec => []DecaysInTime
<1>1. DecayInv /\ [DecayNext]_decayVars => DecayInv'
    BY DecayStep
<1>2. DecaySpec => []DecayInv
    BY <1>1, DecayStarts, PTL DEF DecaySpec
<1> QED BY <1>2, DecayMeans, PTL
=============================================================================
