---------------------------- MODULE WaitingList ----------------------------
(***************************************************************************)
(* The queue in front of a full server: class WaitingList and its use in   *)
(* ProtocolGame::login (creatures/players/management/waitlist.cpp,         *)
(* server/network/protocol/protocolgame.cpp).  Every login attempt runs on *)
(* the dispatcher, so a call of clientLogin is one step.  A timeout is the *)
(* time left, in seconds, from the present OTSYS_TIME().                   *)
(***************************************************************************)
EXTENDS Integers, FiniteSets, SequencesExt, Lists

CONSTANTS
    Players,
    Premium,     \* those for whom isPremium() holds
    Exempt,      \* CanAlwaysLogin, or an account of a game master
    MaxPlayers,  \* maxPlayers of config.lua; 0 is no limit
    TickLength,  \* seconds between two observations of the clock
    MaxDrift     \* bound of drift; no ordinary player passes one so large

ASSUME WaitingListAssumption ==
    /\ IsFiniteSet(Players) /\ Premium \subseteq Players /\ Exempt \subseteq Players
    /\ MaxPlayers \in Nat /\ TickLength \in Nat \ {0}
    /\ MaxDrift \in Nat /\ MaxDrift >= MaxPlayers

VARIABLES
    priorityWaitList, waitList,  \* entries [guid, left], the first to enter first
    playerReferences,  \* the guids that have a reference to their entry
    drift,   \* what size() of priorityWaitList has too much, of waitList too little
    online   \* Game::players

waitVars == <<priorityWaitList, waitList, playerReferences, drift, online>>

TIMEOUT_EXTRA == 15
getTime(slot) ==
    CASE slot < 5 -> 5 [] slot \in 5..9 -> 10 [] slot \in 10..19 -> 20
      [] slot \in 20..49 -> 60 [] slot >= 50 -> 120
getTimeout_Subtracts(slot) == getTime(slot) - TIMEOUT_EXTRA
getTimeout(slot) == getTime(slot) + TIMEOUT_EXTRA

WaitInit ==
    /\ priorityWaitList = <<>> /\ waitList = <<>> /\ playerReferences = {}
    /\ drift = 0 /\ online = {}

Entry == [guid : Players, left : Nat]
Guids(list) == {list[i].guid : i \in DOMAIN list}
IndexOf(list, p) == CHOOSE i \in DOMAIN list : list[i].guid = p
HasExpired(entry) == entry.left <= 0
cleanupList(list) == Only(list, {entry \in Entry : ~HasExpired(entry)})
Fresh_KeepsReferences == Guids(priorityWaitList) \cup Guids(waitList)
Fresh ==
    {entry.guid : entry \in {entry \in ToSet(priorityWaitList) \cup ToSet(waitList) :
                                ~HasExpired(entry)}}

\* addPlayerToList: whose entry exists keeps its place, a new one goes last.
Joined(list, p) ==
    IF p \in Guids(list) THEN list ELSE Append(list, [guid |-> p, left |-> 0])
Renewed(list, p, slot) ==
    [i \in DOMAIN list |-> IF list[i].guid = p
                           THEN [list[i] EXCEPT !.left = getTimeout(slot)]
                           ELSE list[i]]
Without(list, p) == Only(list, {entry \in Entry : entry.guid # p})

Place_OneTooMany(priority, ordinary, p) ==
    1 + IF p \in Premium THEN IndexOf(priority, p)
                         ELSE Len(priority) + IndexOf(ordinary, p)

\* The place of p among those waiting, once p has joined.
Place(priority, ordinary, p) ==
    IF p \in Premium THEN IndexOf(priority, p)
                     ELSE Len(priority) + IndexOf(ordinary, p)

\* A known premium player's slot is counted along the list, a new ordinary
\* one's from two sizes whose errors cancel out; the others use the size of
\* priorityWaitList alone.
SlotError_Negative(p, known) == IF known <=> p \in Premium THEN 0 ELSE -drift
SlotError(p, known) == IF known <=> p \in Premium THEN 0 ELSE drift

LetIn_IgnoresLists(p) ==
    p \in Exempt \/ MaxPlayers = 0 \/ Cardinality(online) < MaxPlayers

\* The two early returns of clientLogin.
LetIn(p) ==
    \/ p \in Exempt \/ MaxPlayers = 0
    \/ priorityWaitList = <<>> /\ waitList = <<>> /\ Cardinality(online) < MaxPlayers

LoginAtOnce(p) ==
    /\ LetIn(p)
    /\ online' = online \cup {p}
    /\ UNCHANGED <<priorityWaitList, waitList, playerReferences, drift>>

\* The rest of clientLogin.  An admitted player is erased from waitList,
\* whichever list the entry is in: the node goes, but the wrong list counts.
\* (\E over one value is a LET that TLC evaluates once.)
LoginByList(p) ==
    /\ ~LetIn(p)
    /\ \E kept1 \in {cleanupList(priorityWaitList)}, kept2 \in {cleanupList(waitList)} :
       \E priority \in {IF p \in Premium THEN Joined(kept1, p) ELSE kept1},
          ordinary \in {IF p \in Premium THEN kept2 ELSE Joined(kept2, p)} :
       LET known == p \in playerReferences \cap Fresh
           slot  == Place(priority, ordinary, p) + SlotError(p, known)
       IN  IF Cardinality(online) + slot <= MaxPlayers
           THEN /\ priorityWaitList' = Without(priority, p)
                /\ waitList' = Without(ordinary, p)
                /\ playerReferences' = (playerReferences \cap Fresh) \ {p}
                /\ drift' = IF p \in Premium /\ drift < MaxDrift
                            THEN drift + 1 ELSE drift
                /\ online' = online \cup {p}
           ELSE /\ priorityWaitList' = Renewed(priority, p, slot)
                /\ waitList' = Renewed(ordinary, p, slot)
                /\ playerReferences' = (playerReferences \cap Fresh) \cup {p}
                /\ UNCHANGED <<drift, online>>

Login(p) == p \notin online /\ (LoginAtOnce(p) \/ LoginByList(p))

Logout(p) ==
    /\ p \in online
    /\ online' = online \ {p}
    /\ UNCHANGED <<priorityWaitList, waitList, playerReferences, drift>>

\* Time passes for every entry; one that has run out stays so.
Aged(list) ==
    [i \in DOMAIN list |->
        [list[i] EXCEPT !.left = IF @ > TickLength THEN @ - TickLength ELSE 0]]
Tick ==
    /\ priorityWaitList' = Aged(priorityWaitList) /\ waitList' = Aged(waitList)
    /\ UNCHANGED <<playerReferences, drift, online>>

WaitNext == Tick \/ \E p \in Players : Login(p) \/ Logout(p)
WaitSpec == WaitInit /\ [][WaitNext]_waitVars

Waiting == Guids(priorityWaitList) \cup Guids(waitList)

\* A waiting client repeats its login (the server sends the retry time), every
\* player leaves some time, and the exempt do not come and go for ever.
WaitFairness ==
    /\ \A p \in Players : WF_waitVars(p \in Waiting /\ Login(p)) /\ WF_waitVars(Logout(p))
    /\ <>[][\A p \in Exempt : ~Login(p)]_waitVars

-----------------------------------------------------------------------------
(* Properties *)

WaitTypeOK ==
    /\ priorityWaitList \in Seq(Entry) /\ waitList \in Seq(Entry)
    /\ playerReferences \subseteq Players
    /\ drift \in 0..MaxDrift /\ online \subseteq Players

\* Every reference has its one entry, in the list its owner's rank says, and
\* every entry its reference: what erase is given is always an entry.
ReferencesMatch ==
    /\ WaitTypeOK
    /\ playerReferences = Waiting
    /\ Guids(priorityWaitList) \subseteq Premium
    /\ Guids(waitList) \cap Premium = {}
    /\ \A list \in {priorityWaitList, waitList} :
          IsInjective([i \in DOMAIN list |-> list[i].guid])

Ahead(p) ==
    LET first == cleanupList(priorityWaitList)
        then  == cleanupList(waitList)
        before(list) == IF p \in Guids(list) THEN IndexOf(list, p) - 1 ELSE Len(list)
    IN  IF p \in Premium THEN before(first) ELSE Len(first) + before(then)

\* A player who is let in leaves room for everyone who stands before: nobody
\* overtakes except into a room that is there for all, premium first, and no
\* ordinary login ever takes the server past maxPlayers.
LeavesRoomForThoseAhead(p) ==
    p \notin Exempt /\ p \in online' /\ MaxPlayers > 0 =>
        Cardinality(online') + Ahead(p) <= MaxPlayers

\* waitlist.cpp:87: who has the room "should be able to login now".  It holds
\* until premium players have been let in from the list; each of them leaves
\* the size of priorityWaitList one too large.
RoomAdmits(p) ==
    drift = 0 /\ Cardinality(online) + Ahead(p) < MaxPlayers => p \in online'

\* A login is let in when there is a room for the player behind those ahead, and
\* only then, whatever entries have run out between two tries.
LoginsInOrder ==
    [][\A p \in Players : Login(p) => LeavesRoomForThoseAhead(p) /\ RoomAdmits(p)]_waitVars

\* Nobody waits for ever: a client that goes on trying gets in, unless its
\* entry runs out between two tries.  Ordinary players may have to wait while
\* premium players do, and after some have been let in (drift).
WaitEnds ==
    \A p \in Players :
        p \in Waiting ~>
            \/ p \in online \/ p \notin Fresh
            \/ p \notin Premium /\ (drift > 0 \/ priorityWaitList # <<>>)
=============================================================================
