------------------------------- MODULE Party -------------------------------
(***************************************************************************)
(* Parties of players: class Party (creatures/players/grouping/party.cpp)  *)
(* with the requests of Game (game/game.cpp) and what happens to a member  *)
(* who dies or logs out (creatures/players/player.cpp).  All of it runs on *)
(* the dispatcher, one handler a step.  A Player is an object: a character *)
(* that comes back is a new one, and the old one lives on while a party    *)
(* names it, because the lists of a party own their players; the leader is *)
(* a weak pointer.  Shared experience and the analyser are left out.       *)
(***************************************************************************)
EXTENDS Lists

CONSTANTS
    Persons,  \* objects of class Player
    Parties,  \* objects of class Party
    None      \* nullptr

ASSUME PartyAssumption == None \notin Persons \cup Parties

VARIABLES
    stage,    \* of an object: free, in the game, dead, or gone and owned by a party at most
    grouped,  \* leader, members and invitees of a Party; party and invitations of a Player
    leavePartyOnDeath  \* of the configuration

partyVars == <<stage, grouped, leavePartyOnDeath>>

PartyInit ==
    /\ stage = [o \in Persons |-> "free"]
    /\ grouped = [leader   |-> [g \in Parties |-> None],
                  members  |-> [g \in Parties |-> <<>>],
                  invitees |-> [g \in Parties |-> {}],
                  party    |-> [o \in Persons |-> None],
                  invitedBy |-> [o \in Persons |-> {}]]
    /\ leavePartyOnDeath \in BOOLEAN

Alone(s, g) == s.members[g] = <<>> /\ s.invitees[g] = {}   \* Party::empty
InGame(o) == stage[o] = "game"

\* Objects that a Party which still exists owns.
Exists(g) == \E o \in Persons : grouped.party[o] = g \/ g \in grouped.invitedBy[o]
Listed(o) == \E g \in Parties :
               Exists(g) /\ (o \in ToSet(grouped.members[g]) \/ o \in grouped.invitees[g])

-----------------------------------------------------------------------------
(* Party                                                                    *)

disband(s, g) ==
    IF s.leader[g] = None THEN s
    ELSE LET all == {s.leader[g]} \cup ToSet(s.members[g])
         IN  [leader    |-> [s.leader EXCEPT ![g] = None],
              members   |-> [s.members EXCEPT ![g] = <<>>],
              invitees  |-> [s.invitees EXCEPT ![g] = {}],
              party     |-> [o \in Persons |-> IF o \in all THEN None ELSE s.party[o]],
              invitedBy |-> [o \in Persons |->
                 IF o \in s.invitees[g] THEN s.invitedBy[o] \ {g} ELSE s.invitedBy[o]]]

\* The old leader becomes the first member.
passPartyLeadership(s, g, o) ==
    IF s.leader[g] = None \/ s.leader[g] = o \/ s.party[o] # g THEN s
    ELSE [s EXCEPT !.leader[g] = o,
                   !.members[g] = <<s.leader[g]>> \o Dropping(@, o)]

\* Who leads and leaves is followed by the first member, if anybody would be
\* left with the new leader or is invited.
Succeeded_IgnoresInvitees(s, g, o) ==
    IF s.leader[g] = o /\ Len(s.members[g]) > 1
    THEN passPartyLeadership(s, g, Head(s.members[g])) ELSE s

Succeeded(s, g, o) ==
    IF s.leader[g] = o /\ s.members[g] # <<>> /\ (Len(s.members[g]) > 1 \/ s.invitees[g] # {})
    THEN passPartyLeadership(s, g, Head(s.members[g])) ELSE s

leaveParty(s, o) ==
    LET g    == s.party[o]
        s1   == Succeeded(s, g, o)
        left == [s1 EXCEPT !.members[g] = Dropping(@, o), !.party[o] = None]
    IN  IF g = None THEN s
        ELSE IF s.leader[g] = None THEN s
        ELSE IF s1.leader[g] = o \/ Alone(left, g) THEN disband(left, g) ELSE left

joinParty(s, g, o) ==
    [s EXCEPT !.invitees[g] = @ \ {o}, !.party[o] = g,
              !.members[g] = Append(@, o), !.invitedBy[o] = @ \ {g}]

\* removeInvite, without removeFromPlayer, of every party of G: no two of them
\* have a leader in common, and the last invitation of a leader alone ends a party.
Uninvited_KeepsEmpty(s, G, o) ==
    [s EXCEPT !.invitees = [g \in Parties |->
        IF g \in G /\ s.leader[g] # None THEN s.invitees[g] \ {o} ELSE s.invitees[g]]]

Uninvited(s, G, o) ==
    LET known == {g \in G : s.leader[g] # None /\ o \in s.invitees[g]}
        ended == {g \in known : s.members[g] = <<>> /\ s.invitees[g] = {o}}
    IN  [s EXCEPT !.invitees = [g \in Parties |-> s.invitees[g] \ IF g \in known THEN {o} ELSE {}],
                  !.leader   = [g \in Parties |-> IF g \in ended THEN None ELSE s.leader[g]],
                  !.party    = [p \in Persons |->
                      IF \E g \in ended : s.leader[g] = p THEN None ELSE s.party[p]]]

removeInvite(s, g, o) == Uninvited([s EXCEPT !.invitedBy[o] = @ \ {g}], {g}, o)

\* Player::clearPartyInvitations.
clearPartyInvitations(s, o) ==
    [Uninvited(s, s.invitedBy[o], o) EXCEPT !.invitedBy[o] = {}]

-----------------------------------------------------------------------------
(* The requests of players                                                  *)

LeaderOf(o) == {g \in Parties : grouped.party[o] = g /\ grouped.leader[g] = o}
Invites(o, p) == \E g \in LeaderOf(o) : p \in grouped.invitees[g]

\* playerInviteToParty: a party is created with the first invitation.
Invite(o, p) ==
    /\ o # p /\ InGame(o) /\ InGame(p) /\ grouped.party[p] = None
    /\ ~Invites(p, o) /\ ~Invites(o, p)
    /\ \E g \in LeaderOf(o) \cup {n \in Parties : grouped.party[o] = None /\ ~Exists(n)} :
          grouped' =
             IF g \in LeaderOf(o)
             THEN [grouped EXCEPT !.invitees[g] = @ \cup {p}, !.invitedBy[p] = @ \cup {g}]
             ELSE [grouped EXCEPT !.leader[g] = o, !.party[o] = g, !.members[g] = <<>>,
                                  !.invitees[g] = {p}, !.invitedBy[p] = @ \cup {g}]
    /\ UNCHANGED <<stage, leavePartyOnDeath>>

Join_Twice(o, p) ==
    /\ InGame(o) /\ InGame(p) /\ Invites(p, o)
    /\ grouped' = joinParty(grouped, grouped.party[p], o)
    /\ UNCHANGED <<stage, leavePartyOnDeath>>

\* playerJoinParty
Join(o, p) ==
    /\ InGame(o) /\ InGame(p) /\ Invites(p, o) /\ grouped.party[o] = None
    /\ grouped' = joinParty(grouped, grouped.party[p], o)
    /\ UNCHANGED <<stage, leavePartyOnDeath>>

\* playerRevokePartyInvitation
Revoke(o, p) ==
    /\ InGame(o) /\ InGame(p) /\ Invites(o, p)
    /\ grouped' = removeInvite(grouped, grouped.party[o], p)
    /\ UNCHANGED <<stage, leavePartyOnDeath>>

\* playerPassPartyLeadership
Pass(o, p) ==
    /\ InGame(o) /\ InGame(p) /\ o # p
    /\ grouped.party[p] \in LeaderOf(o)
    /\ grouped' = passPartyLeadership(grouped, grouped.party[o], p)
    /\ UNCHANGED <<stage, leavePartyOnDeath>>

\* playerLeaveParty, unless the player is in a fight.
LeavesParty(o) ==
    /\ InGame(o) /\ grouped.party[o] # None
    /\ grouped' = leaveParty(grouped, o) /\ UNCHANGED <<stage, leavePartyOnDeath>>

\* party:removeMember: the leader sends away any member, also one who is gone.
RemoveMember(o, p) ==
    /\ InGame(o) /\ \E g \in LeaderOf(o) : p \in ToSet(grouped.members[g])
    /\ grouped' = leaveParty(grouped, p) /\ UNCHANGED <<stage, leavePartyOnDeath>>

\* party:disband
Disband(o) ==
    /\ InGame(o) /\ LeaderOf(o) # {}
    /\ grouped' = disband(grouped, grouped.party[o]) /\ UNCHANGED <<stage, leavePartyOnDeath>>

-----------------------------------------------------------------------------
(* Coming and going                                                         *)

Moves(o, from, to) == stage[o] = from /\ stage' = [stage EXCEPT ![o] = to]

EntersGame(o) == Moves(o, "free", "game") /\ UNCHANGED <<grouped, leavePartyOnDeath>>

\* Player::onRemoveCreature of a logout.
LogsOut(o) ==
    /\ Moves(o, "game", "gone")
    /\ grouped' = clearPartyInvitations(leaveParty(grouped, o), o)
    /\ UNCHANGED leavePartyOnDeath

\* Player::despawn
Dies(o) ==
    /\ Moves(o, "game", "dead")
    /\ grouped' = IF leavePartyOnDeath THEN leaveParty(grouped, o) ELSE grouped
    /\ UNCHANGED leavePartyOnDeath

Respawns(o) == Moves(o, "dead", "game") /\ UNCHANGED <<grouped, leavePartyOnDeath>>

\* The connection of a dead player ends: nothing removes the player from lists.
LeavesDead(o) == Moves(o, "dead", "gone") /\ UNCHANGED <<grouped, leavePartyOnDeath>>

\* The last pointer to a Player is gone, and weak ones expire.
Destroyed(o) ==
    /\ ~Listed(o) /\ Moves(o, "gone", "free")
    /\ grouped' = [grouped EXCEPT
          !.party[o] = None, !.invitedBy[o] = {},
          !.leader = [g \in Parties |-> IF @[g] = o THEN None ELSE @[g]]]
    /\ UNCHANGED leavePartyOnDeath

PartyNext ==
    \E o \in Persons :
        \/ LeavesParty(o) \/ Disband(o)
        \/ EntersGame(o) \/ LogsOut(o) \/ Dies(o) \/ Respawns(o) \/ LeavesDead(o) \/ Destroyed(o)
        \/ \E p \in Persons : Invite(o, p) \/ Join(o, p) \/ Revoke(o, p) \/ Pass(o, p) \/ RemoveMember(o, p)

PartySpec == PartyInit /\ [][PartyNext]_partyVars

-----------------------------------------------------------------------------
(* Properties *)

PartyTypeOK ==
    /\ stage \in [Persons -> {"free", "game", "dead", "gone"}]
    /\ grouped.leader \in [Parties -> Persons \cup {None}]
    /\ grouped.members \in [Parties -> Seq(Persons)]
    /\ grouped.invitees \in [Parties -> SUBSET Persons]
    /\ grouped.party \in [Persons -> Parties \cup {None}]
    /\ grouped.invitedBy \in [Persons -> SUBSET Parties]
    /\ leavePartyOnDeath \in BOOLEAN

\* Players and parties name each other: everybody is in one party at most, the
\* leader is no member, who is invited knows it and is not inside, nobody leads
\* a party of one without invitations; and a party keeps its members and its
\* leader in the game if the dead leave it.
PartiesMatch ==
    /\ PartyTypeOK
    /\ \A g \in Parties :
          LET all == {grouped.leader[g]} \cup ToSet(grouped.members[g])
          IN  /\ IsInjective(grouped.members[g]) /\ grouped.leader[g] \notin ToSet(grouped.members[g])
              /\ Exists(g) =>
                    /\ {o \in Persons : grouped.party[o] = g} = all \ {None}
                    /\ \A o \in Persons : stage[o] \in {"game", "dead"} =>
                          (o \in grouped.invitees[g] <=> g \in grouped.invitedBy[o])
                    /\ grouped.invitees[g] \cap all = {}
                    /\ grouped.leader[g] # None => ~Alone(grouped, g)
                    /\ leavePartyOnDeath => \A o \in all : o # None /\ InGame(o)

\* A party ends when its leader disbands it, when all but one of those in it have
\* left and nobody is invited, or with the last of them.  What the code does not catch is a leader
\* who is dead and gone: the others are left in a party they cannot leave.
EndsWhenLeftAlone ==
    [][\A g \in Parties :
         LET all == ({grouped.leader[g]} \cup ToSet(grouped.members[g])) \ {None}
         IN  grouped.leader[g] # None /\ grouped.leader'[g] = None =>
             \/ Disband(grouped.leader[g])
             \/ \E o \in Persons :
                   \/ all = {o}
                   \/ Cardinality(all \ {o}) <= 1 /\ grouped.invitees[g] \subseteq {o}
                   \/ Destroyed(o) /\ ~leavePartyOnDeath]_partyVars
=============================================================================
