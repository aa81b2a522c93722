------------------------------- MODULE Raids -------------------------------
(***************************************************************************)
(* Raids: class Raids, which starts one at a time, and class Raid, which   *)
(* plays the events of its file one after the other                        *)
(* (lua/creature/raids.cpp), with Game.startRaid and the two ways to load  *)
(* them again (lua/functions/core/game/game_functions.cpp,                 *)
(* game/functions/game_reload.cpp, server/signals.cpp).  A raid in         *)
(* execution is a chain of events of the dispatcher, each scheduled by the *)
(* one before; both classes leave `this' in them.  All of it runs on the   *)
(* dispatcher, one call a step.  What the events do to the world is left   *)
(* out, and so are scripts among them that load the raids again.           *)
(***************************************************************************)
EXTENDS Integers, FiniteSets

CONSTANTS
    Names,       \* the raids of raids.xml
    Repeatable,  \* those that have repeat="yes"
    Length,      \* how many events each has
    NoRaid

ASSUME RaidsAssumption ==
    /\ Repeatable \subseteq Names /\ Length \in [Names -> Nat] /\ NoRaid \notin Names

VARIABLES
    raidList,   \* names in Raids::raidList
    running,    \* Raids::running
    nextEvent,  \* Raid::nextEvent of the raids there are
    scheduled,  \* pending calls of executeRaidEvent: the raid, the number of the
                \* event, and whether the Raid has been destroyed meanwhile
    rested,     \* raids whose margin has passed since lastRaidEnd
    raidsStarted, \* Raids::started
    raidsCheck, \* whether the event that checkRaidsEvent names is pending
    otherChecks, \* how many other calls of checkRaids are pending
    disabled,   \* DISABLE_LEGACY_RAIDS of the configuration
    astray      \* an event has run on a Raid that had been destroyed

raidVars == <<raidList, running, nextEvent, scheduled, rested, raidsStarted,
              raidsCheck, otherChecks, disabled, astray>>

RaidsInit ==
    /\ raidList = {} /\ running = NoRaid /\ nextEvent = [r \in Names |-> 0]
    /\ scheduled = {} /\ rested = Names /\ raidsStarted = FALSE /\ raidsCheck = FALSE
    /\ otherChecks = 0 /\ disabled \in BOOLEAN /\ astray = FALSE

Event(r, n, dead) == [raid |-> r, number |-> n, dead |-> dead]

-----------------------------------------------------------------------------
(* One raid                                                                 *)

resetRaid_NextTimeGoesOn(r) ==
    running' = NoRaid /\ rested' = {} /\ UNCHANGED nextEvent

\* resetRaid; an event that is on its way is the one that calls it.
resetRaid(r) ==
    /\ running' = NoRaid /\ rested' = {}
    /\ nextEvent' = [nextEvent EXCEPT ![r] = 0]

\* setRunning and startRaid.
startRaid(r) ==
    IF nextEvent[r] < Length[r]
    THEN /\ scheduled' = scheduled \cup {Event(r, nextEvent[r], FALSE)}
         /\ running' = r /\ UNCHANGED <<nextEvent, rested>>
    ELSE resetRaid(r) /\ UNCHANGED scheduled

\* An event of the file is played: announcements and scripts may fail.
executeRaidEvent(e, succeeds) ==
    LET next == nextEvent[e.raid] + 1
    IN  /\ e \in scheduled /\ ~e.dead
        /\ IF succeeds /\ next < Length[e.raid]
           THEN /\ scheduled' = (scheduled \ {e}) \cup {Event(e.raid, next, FALSE)}
                /\ nextEvent' = [nextEvent EXCEPT ![e.raid] = next]
                /\ UNCHANGED <<running, rested>>
           ELSE scheduled' = scheduled \ {e} /\ resetRaid(e.raid)
        /\ UNCHANGED <<raidList, raidsStarted, raidsCheck, otherChecks, disabled, astray>>

\* The same on a Raid that does not exist any more.  That is undefined; here
\* its memory is as it was, and the object goes on.
executeOnDestroyed(e, succeeds) ==
    LET next == e.number + 1
    IN  /\ e \in scheduled /\ e.dead
        /\ astray' = TRUE
        /\ IF succeeds /\ next < Length[e.raid]
           THEN /\ scheduled' = (scheduled \ {e}) \cup {Event(e.raid, next, TRUE)}
                /\ UNCHANGED <<running, rested>>
           ELSE /\ scheduled' = scheduled \ {e}
                /\ running' = NoRaid /\ rested' = {}
        /\ UNCHANGED <<raidList, nextEvent, raidsStarted, raidsCheck, otherChecks, disabled>>

-----------------------------------------------------------------------------
(* All raids                                                                *)

\* checkRaids does nothing more, for good, if it finds raids disabled.  The
\* list is gone through in order, but each raid has to win its roll.
checkRaids ==
    /\ \/ raidsCheck /\ raidsCheck' = ~disabled /\ UNCHANGED otherChecks
       \/ /\ otherChecks > 0 /\ raidsCheck' = (raidsCheck \/ ~disabled)
          /\ otherChecks' = otherChecks - (IF raidsCheck /\ ~disabled THEN 0 ELSE 1)
    /\ IF disabled \/ running # NoRaid
       THEN UNCHANGED <<raidList, running, nextEvent, scheduled, rested>>
       ELSE \/ UNCHANGED <<raidList, running, nextEvent, scheduled, rested>>
            \/ \E r \in raidList \cap rested :
                  /\ startRaid(r)
                  /\ raidList' = IF r \in Repeatable THEN raidList ELSE raidList \ {r}
    /\ UNCHANGED <<raidsStarted, disabled, astray>>

\* Game.startRaid; a raid that runs once stays in the list.
luaGameStartRaid(r) ==
    /\ r \in raidList /\ running = NoRaid
    /\ startRaid(r)
    /\ UNCHANGED <<raidList, raidsStarted, raidsCheck, otherChecks, disabled, astray>>

\* The events whose raid clear() finds in the list are stopped; the Raid that
\* only `running' held is destroyed, with its event pending.
Orphans == {[e EXCEPT !.dead = TRUE] : e \in {x \in scheduled : x.raid \notin raidList}}
           \cup {e \in scheduled : e.dead}

\* clear, loadFromXml and startup: when the server starts and whenever the raids
\* are loaded again.  There may be no raids.xml, and of its raids those are
\* loaded whose own files can be read.
reload(found, readable) ==
    LET loads == ~disabled /\ found
    IN  /\ scheduled' = Orphans
        /\ running' = NoRaid /\ nextEvent' = [r \in Names |-> 0]
        /\ raidList' = IF loads THEN readable ELSE {}
        /\ rested' = IF loads THEN {} ELSE Names
        /\ raidsStarted' = loads /\ raidsCheck' = loads
        /\ UNCHANGED <<otherChecks, disabled, astray>>

\* The margin of a raid passes.
MarginEnds(r) ==
    /\ r \notin rested /\ rested' = rested \cup {r}
    /\ UNCHANGED <<raidList, running, nextEvent, scheduled, raidsStarted, raidsCheck,
                   otherChecks, disabled, astray>>

\* The configuration is loaded again.
Configure ==
    /\ disabled' = ~disabled
    /\ UNCHANGED <<raidList, running, nextEvent, scheduled, rested, raidsStarted, raidsCheck,
                   otherChecks, astray>>

RaidsNext ==
    \/ checkRaids \/ Configure
    \/ \E found \in BOOLEAN, readable \in SUBSET Names : reload(found, readable)
    \/ \E r \in Names : luaGameStartRaid(r) \/ MarginEnds(r)
    \/ \E e \in scheduled, succeeds \in BOOLEAN :
          executeRaidEvent(e, succeeds) \/ executeOnDestroyed(e, succeeds)

RaidsSpec == RaidsInit /\ [][RaidsNext]_raidVars

-----------------------------------------------------------------------------
(* Properties *)

RaidsTypeOK ==
    /\ raidList \subseteq Names /\ running \in Names \cup {NoRaid}
    /\ nextEvent \in [Names -> Nat] /\ rested \subseteq Names
    /\ scheduled \subseteq [raid : Names, number : Nat, dead : BOOLEAN]
    /\ raidsStarted \in BOOLEAN /\ raidsCheck \in BOOLEAN /\ otherChecks \in Nat
    /\ disabled \in BOOLEAN /\ astray \in BOOLEAN

Pending == {e \in scheduled : ~e.dead}

\* One raid at a time, from its first event to its last: what is running has
\* exactly its next event under way, and every other raid has none and would
\* begin at its first, through failing events, raids that scripts start, and
\* raids that are loaded again in the middle.
OneRaidAtATime ==
    /\ running # NoRaid =>
          /\ Event(running, nextEvent[running], FALSE) \in scheduled
          /\ nextEvent[running] < Length[running]
    /\ \A e \in Pending : e.raid = running /\ e.number = nextEvent[running]
    /\ \A r \in Names \ {running} : nextEvent[r] = 0

\* However often the raids are loaded and switched off and on, at most one
\* check is under way, and none while they are not loaded.  What a raid leaves
\* behind when it is destroyed is the event of one that runs once: clear() does
\* not find it in the list any more.  Until such an event has run, there is one
\* raid at a time.
RaidsKept ==
    /\ RaidsTypeOK
    /\ otherChecks = 0 /\ (raidsCheck => raidsStarted)
    /\ \A e \in scheduled : e.dead => e.raid \notin Repeatable
    /\ ~astray => OneRaidAtATime
=============================================================================
