----------------------------- MODULE SaveManager -----------------------------
(***************************************************************************)
(* How characters travel between the database and the game: SaveManager    *)
(* (game/scheduling/save_manager.cpp) with its callers (login, logout,     *)
(* death, offline delivery, market, setGameState) and the table by table   *)
(* save and load of IOLoginData (io/iologindata.cpp).                      *)
(*                                                                         *)
(* A character's state is the set of changes it has received; a change     *)
(* (gold banked, a letter put in the inbox) shows in every table, so two   *)
(* tables with different changes are a torn save.  A Player object is      *)
(* <<character, n>>.  The game thread is the dispatcher: a handler runs    *)
(* to its end before the next starts, so its job is idle between handlers. *)
(***************************************************************************)
EXTENDS Integers, Sequences, FiniteSets

CONSTANTS
    Chars,         \* characters, by their GUID
    Incarnations,  \* bound: Player objects of one character at a time
    LastTable,     \* tables a save writes: players, stash, items, ...
    Changes,       \* bound: the changes made during a behaviour
    GameThread,    \* the dispatcher thread
    Workers,       \* the other threads of the pool
    Staff,         \* characters with the flag CanAlwaysLogin
    NoObject,
    SaveAsync,     \* the option toggleSaveAsync
    MaxSaves,      \* bound: calls of SaveManager that take a time stamp
    Offline,       \* whether offline characters receive mail, rent, transfers
    Market,        \* whether market offers of other characters are accepted
    MayDie,        \* whether characters die
    MayClose,      \* whether setGameState is called
    MayFail,       \* whether a query may fail (Database::executeQuery)
    MayCrash       \* whether the process may be killed

Objects == Chars \X (1..Incarnations)
CharOf(o) == o[1]
Threads == Workers \cup {GameThread}
Tables == 1..LastTable

ASSUME SaveAssumption ==
    /\ LastTable \in Nat \ {0} /\ MaxSaves \in Nat /\ Incarnations \in Nat
    /\ NoObject \notin Objects /\ GameThread \notin Workers
    /\ Staff \subseteq Chars
    /\ {SaveAsync, Offline, Market, MayDie, MayClose, MayFail, MayCrash}
          \subseteq BOOLEAN

VARIABLES
    gameState,    \* Game::gameState; "halted" once the process has stopped
    closing,      \* setGameState is between its first kick and its return
    place,        \* where a Player object is: "free" if it does not exist
    content,      \* what each object holds, table by table
    db,           \* the rows of the database
    made,         \* every change a character ever received
    asked,        \* what an object held when it was last asked to be saved
    playerMap,    \* m_playerMap: the stamp of the last request (0: none)
    scheduledAt,  \* m_scheduledAt: the stamp of the last scheduleAll
    now,          \* steady_clock: counts the stamps taken
    queue,        \* tasks of the pool, in order
    job           \* what each thread is doing

vars == <<gameState, closing, place, content, db, made, asked, playerMap,
          scheduledAt, now, queue, job>>
saves == <<playerMap, scheduledAt, now, queue>>
state == <<gameState, closing>>

Idle == [op |-> "idle", obj |-> NoObject, table |-> 1, next |-> "stay",
         stamp |-> 0, by |-> NoObject, seen |-> {}]
TaskType == [kind: {"player", "all", "part"}, obj: Objects \cup {NoObject},
             stamp: Nat, by: Threads \cup {NoObject}]
JobType == [op: {"idle", "load", "check", "lock", "save", "kick", "submit",
                 "await"},
            obj: Objects \cup {NoObject}, table: 1..(LastTable + 1),
            next: {"stay", "game", "dead", "gone", "free"},
            stamp: Nat, by: Threads \cup {NoObject}, seen: SUBSET Objects]

Init ==
    /\ gameState = "normal" /\ closing = FALSE
    /\ place = [o \in Objects |-> "free"]
    /\ content = [o \in Objects |-> [t \in Tables |-> {}]]
    /\ db = [c \in Chars |-> [t \in Tables |-> {}]]
    /\ made = [c \in Chars |-> {}]
    /\ asked = [o \in Objects |-> {}]
    /\ playerMap = [c \in Chars |-> 0]
    /\ scheduledAt = 0 /\ now = 0
    /\ queue = <<>>
    /\ job = [th \in Threads |-> Idle]

-----------------------------------------------------------------------------
(* Who holds an object *)

Of(c, places) == {o \in Objects : CharOf(o) = c /\ place[o] \in places}
InGame == {o \in Objects : place[o] = "game"}        \* Game::players

\* A shared_ptr in a thread or in a task of saveAll.
Held(o) ==
    \/ \E th \in Threads : job[th].obj = o /\ job[th].op # "check"
    \/ \E i \in DOMAIN queue : queue[i].obj = o /\ queue[i].kind = "part"
\* A weak_ptr in a task of schedulePlayer.
Watched(o) ==
    \/ \E th \in Threads : job[th].obj = o
    \/ \E i \in DOMAIN queue : queue[i].obj = o
Fresh(c) == {o \in Of(c, {"free"}) : ~Watched(o)}

Holds(o) == {k \in Changes : \A t \in Tables : k \in content[o][t]}

GameIdle == job[GameThread].op = "idle" /\ gameState # "halted"
Unused == Changes \ UNION {made[c] : c \in Chars}

\* The object receives a change: it shows in every table.
Change(o, k) ==
    /\ content' = [content EXCEPT
                     ![o] = [t \in Tables |-> content[o][t] \cup {k}]]
    /\ made' = [made EXCEPT ![CharOf(o)] = @ \cup {k}]

Begin(th, op, o, next) ==
    job' = [job EXCEPT ![th] = [Idle EXCEPT !.op = op, !.obj = o, !.next = next]]

-----------------------------------------------------------------------------
(* SaveManager: requests of the game thread *)

schedulePlayer_StampTooEarly(o) ==
    /\ now < MaxSaves
    /\ now' = now + 1
    /\ playerMap' = [playerMap EXCEPT ![CharOf(o)] = now - 1]
    /\ queue' = Append(queue, [kind |-> "player", obj |-> o,
                               stamp |-> now + 1, by |-> NoObject])
    /\ UNCHANGED scheduledAt
schedulePlayer_NoStamp(o) ==
    /\ now < MaxSaves
    /\ now' = now + 1
    /\ queue' = Append(queue, [kind |-> "player", obj |-> o,
                               stamp |-> now + 1, by |-> NoObject])
    /\ UNCHANGED <<playerMap, scheduledAt>>

\* schedulePlayer, asynchronous: a stamp and a task of the pool.
schedulePlayer(o) ==
    /\ now < MaxSaves
    /\ now' = now + 1
    /\ playerMap' = [playerMap EXCEPT ![CharOf(o)] = now + 1]
    /\ queue' = Append(queue, [kind |-> "player", obj |-> o,
                               stamp |-> now + 1, by |-> NoObject])
    /\ UNCHANGED scheduledAt

\* savePlayer for an object of the game; then the object goes to `next'.
savePlayer(o, next) ==
    /\ asked' = [asked EXCEPT ![o] = Holds(o)]
    /\ IF SaveAsync /\ gameState # "shutdown"
       THEN /\ schedulePlayer(o)
            /\ place' = [place EXCEPT ![o] = IF next = "stay" THEN @ ELSE next]
            /\ UNCHANGED job
       ELSE /\ Begin(GameThread, "lock", o, next)
            /\ UNCHANGED <<place, saves>>

scheduleAll ==
    /\ GameIdle /\ now < MaxSaves
    /\ now' = now + 1 /\ scheduledAt' = now + 1
    /\ IF SaveAsync
       THEN /\ queue' = Append(queue, [kind |-> "all", obj |-> NoObject,
                                       stamp |-> now + 1, by |-> NoObject])
            /\ UNCHANGED job
       ELSE /\ Begin(GameThread, "submit", NoObject, "stay")
            /\ UNCHANGED queue
    /\ UNCHANGED <<state, place, content, db, made, asked, playerMap>>

-----------------------------------------------------------------------------
(* The game's handlers *)

Login_NoLookup(c) ==
    /\ GameIdle
    /\ gameState = "closed" => c \in Staff
    /\ \E o \in Fresh(c) : Begin(GameThread, "load", o, "game")
    /\ UNCHANGED <<state, place, content, db, made, asked, saves>>

\* ProtocolGame::login of a character that is not online, with what the thread of
\* the connection has asked before, that it is not dead either: nobody dies between.
Login(c) ==
    /\ GameIdle
    /\ gameState = "closed" => c \in Staff
    /\ Of(c, {"game", "dead"}) = {}
    /\ \E o \in Fresh(c) : Begin(GameThread, "load", o, "game")
    /\ UNCHANGED <<state, place, content, db, made, asked, saves>>

\* Playing changes the character; the code saves it later, or never asks to.
Play(o) ==
    /\ GameIdle /\ o \in InGame
    /\ \E k \in Unused : Change(o, k)
    /\ UNCHANGED <<state, place, db, asked, saves, job>>

\* player:save(), a market offer, an expired premium.
RequestSave(o) ==
    /\ GameIdle /\ o \in InGame
    /\ savePlayer(o, "stay")
    /\ UNCHANGED <<state, content, db, made>>

Logout_Unsaved(o) ==
    /\ GameIdle /\ o \in InGame
    /\ place' = [place EXCEPT ![o] = "gone"]
    /\ UNCHANGED <<state, content, db, made, asked, saves, job>>

\* Game::removeCreature: saved by onRemoveCreature, then removed.
Logout(o) ==
    /\ GameIdle /\ o \in InGame
    /\ savePlayer(o, "gone")
    /\ UNCHANGED <<state, content, db, made>>

\* Player::despawn: saved, removed from Game::players, kept by its protocol.
Die(o) ==
    /\ MayDie /\ GameIdle /\ o \in InGame
    /\ savePlayer(o, "dead")
    /\ UNCHANGED <<state, content, db, made>>

\* Player::spawn: the object returns to the game as it is.
Respawn(o) ==
    /\ GameIdle /\ place[o] = "dead"
    /\ place' = [place EXCEPT ![o] = "game"]
    /\ UNCHANGED <<state, content, db, made, asked, saves, job>>

\* The dead player's connection closes; nothing saves the object.
LeaveDead(o) ==
    /\ GameIdle /\ place[o] = "dead"
    /\ place' = [place EXCEPT ![o] = "gone"]
    /\ UNCHANGED <<state, content, db, made, asked, saves, job>>

\* The last shared_ptr of a removed player is released.
Release(o) ==
    /\ place[o] = "gone" /\ ~Held(o)
    /\ place' = [place EXCEPT ![o] = "free"]
    /\ UNCHANGED <<state, content, db, made, asked, saves, job>>

\* A temporary object is loaded, changed and saved (getPlayerByGUID,
\* getPlayerByName with allowOffline).
LoadTemporary(c) ==
    /\ \E o \in Fresh(c) : Begin(GameThread, "load", o, "free")
    /\ UNCHANGED <<state, place, content, db, made, asked, saves>>

\* Mail, house rent and depot, bank transfer to somebody not in the game.
DeliverOffline(c) ==
    /\ Offline /\ GameIdle /\ Unused # {}
    /\ Of(c, {"game"}) = {}
    /\ LoadTemporary(c)

AcceptMarketOffer_IgnoresDead(c) ==
    /\ Market /\ GameIdle /\ Unused # {}
    /\ Of(c, {"game"}) = {}
    /\ LoadTemporary(c)

\* getMarketPlayerByGUID: the online player, the dead one, or a temporary
\* one; a player in memory (isOffline() is false) is not saved.
AcceptMarketOffer(c) ==
    /\ Market /\ GameIdle /\ Unused # {}
    /\ \/ /\ \E o \in Of(c, {"dead"}), k \in Unused : Change(o, k)
          /\ UNCHANGED <<state, place, db, asked, saves, job>>
       \/ /\ Of(c, {"game", "dead"}) = {}
          /\ LoadTemporary(c)

-----------------------------------------------------------------------------
(* Game::setGameState *)

setGameState ==
    /\ MayClose /\ GameIdle
    /\ \/ /\ gameState = "normal" /\ gameState' = "closed"
          /\ closing' = TRUE
          /\ Begin(GameThread, "kick", NoObject, "stay")
       \/ /\ gameState # "shutdown" /\ gameState' = "shutdown"
          /\ closing' = TRUE
          /\ Begin(GameThread, "kick", NoObject, "stay")
       \/ /\ gameState = "closed" /\ gameState' = "normal"
          /\ UNCHANGED <<closing, job>>
    /\ UNCHANGED <<place, content, db, made, asked, saves>>

Kicked == {o \in InGame : gameState = "shutdown" \/ CharOf(o) \notin Staff}

Kick(o) ==
    /\ job[GameThread].op = "kick" /\ o \in Kicked
    /\ savePlayer(o, "gone")
    /\ UNCHANGED <<state, content, db, made>>

KickDone ==
    /\ job[GameThread].op = "kick" /\ Kicked = {}
    /\ Begin(GameThread, "submit", NoObject, "stay")
    /\ UNCHANGED <<state, place, content, db, made, asked, saves>>

-----------------------------------------------------------------------------
(* SaveManager: saveAll, on the game thread or on a worker *)

Submit(th, o) ==
    /\ job[th].op = "submit" /\ o \in InGame \ job[th].seen
    /\ queue' = Append(queue, [kind |-> "part", obj |-> o, stamp |-> 0,
                               by |-> th])
    /\ asked' = [asked EXCEPT ![o] = Holds(o)]
    /\ job' = [job EXCEPT ![th].seen = @ \cup {o}]
    /\ UNCHANGED <<state, place, content, db, made, playerMap, scheduledAt, now>>

SubmitDone(th) ==
    /\ job[th].op = "submit" /\ InGame \subseteq job[th].seen
    /\ job' = [job EXCEPT ![th].op = "await"]
    /\ UNCHANGED <<state, place, content, db, made, asked, saves>>

\* future.get() of every task this saveAll submitted.
PartsOf(th) ==
    \/ \E i \in DOMAIN queue : queue[i].by = th
    \/ \E w \in Workers : job[w].by = th

SaveAllDone_NoWait(th) ==
    /\ job[th].op = "await"
    /\ job' = [job EXCEPT ![th] = Idle]
    /\ IF th = GameThread
       THEN /\ closing' = FALSE
            /\ gameState' = IF gameState = "shutdown" THEN "halted" ELSE gameState
       ELSE UNCHANGED state
    /\ UNCHANGED <<place, content, db, made, asked, saves>>

SaveAllDone(th) ==
    /\ job[th].op = "await" /\ ~PartsOf(th)
    /\ job' = [job EXCEPT ![th] = Idle]
    /\ IF th = GameThread
       THEN /\ closing' = FALSE
            /\ gameState' = IF gameState = "shutdown" THEN "halted" ELSE gameState
       ELSE UNCHANGED state
    /\ UNCHANGED <<place, content, db, made, asked, saves>>

-----------------------------------------------------------------------------
(* The pool, and the steps of a save and of a load *)

Take(w) ==
    /\ w \in Workers /\ job[w].op = "idle" /\ queue # <<>>
    /\ queue' = Tail(queue)
    /\ job' = [job EXCEPT ![w] =
                 [Idle EXCEPT !.op = IF Head(queue).kind = "part" THEN "lock"
                                     ELSE "check",
                              !.obj = Head(queue).obj,
                              !.stamp = Head(queue).stamp,
                              !.by = Head(queue).by]]
    /\ UNCHANGED <<state, place, content, db, made, asked, playerMap,
                   scheduledAt, now>>

Expired(w) == place[job[w].obj] = "free"          \* weak_ptr::lock fails
Superseded(w) == playerMap[CharOf(job[w].obj)] # job[w].stamp

CheckPlayer(w) ==
    /\ job[w].op = "check" /\ job[w].obj # NoObject
    /\ job' = [job EXCEPT ![w] = IF Expired(w) \/ Superseded(w) THEN Idle
                                 ELSE [@ EXCEPT !.op = "lock"]]
    /\ UNCHANGED <<state, place, content, db, made, asked, saves>>

CheckAll(w) ==
    /\ job[w].op = "check" /\ job[w].obj = NoObject
    /\ job' = [job EXCEPT ![w] = IF scheduledAt # job[w].stamp THEN Idle
                                 ELSE [Idle EXCEPT !.op = "submit"]]
    /\ UNCHANGED <<state, place, content, db, made, asked, saves>>

LockFree_Recursive(o) == \A th \in Threads :
    ~(job[th].op \in {"lock", "save"} /\ job[th].obj = o)
\* doSavePlayer: PlayerLock, then m_playerMap.erase, then the tables.
LockFree(o) == \A th \in Threads : ~(job[th].op = "save" /\ job[th].obj = o)

StartSave(th) ==
    /\ job[th].op = "lock" /\ LockFree(job[th].obj)
    /\ playerMap' = [playerMap EXCEPT ![CharOf(job[th].obj)] = 0]
    /\ job' = [job EXCEPT ![th].op = "save"]
    /\ UNCHANGED <<state, place, content, db, made, asked, scheduledAt, now,
                   queue>>

SaveTable_LastFirst(th) ==
    LET o == job[th].obj  t == LastTable + 1 - job[th].table IN
    /\ job[th].op = "save" /\ t \in Tables
    /\ db' = [db EXCEPT ![CharOf(o)][t] = content[o][t]]
    /\ job' = [job EXCEPT ![th].table = @ + 1]
    /\ UNCHANGED <<state, place, content, made, asked, saves>>

\* savePlayerGuard: each query commits by itself, before the transaction.
SaveTable(th) ==
    LET o == job[th].obj  t == job[th].table IN
    /\ job[th].op = "save" /\ t \in Tables
    /\ db' = [db EXCEPT ![CharOf(o)][t] = content[o][t]]
    /\ job' = [job EXCEPT ![th].table = t + 1]
    /\ UNCHANGED <<state, place, content, made, asked, saves>>

EndSave_ErasesStamp(th) ==
    LET o == job[th].obj  next == job[th].next IN
    /\ job[th].op = "save"
    /\ job[th].table \in Tables => MayFail
    /\ playerMap' = [playerMap EXCEPT ![CharOf(o)] = 0]
    /\ place' = [place EXCEPT ![o] = IF next = "stay" THEN @ ELSE next]
    /\ job' = [job EXCEPT ![th] = IF th = GameThread /\ closing
                                  THEN [Idle EXCEPT !.op = "kick"] ELSE Idle]
    /\ UNCHANGED <<state, content, db, made, asked, scheduledAt, now, queue>>

EndSave(th) ==
    LET o == job[th].obj  next == job[th].next IN
    /\ job[th].op = "save"
    /\ job[th].table \in Tables => MayFail        \* the query's exception
    /\ place' = [place EXCEPT ![o] = IF next = "stay" THEN @ ELSE next]
    /\ job' = [job EXCEPT ![th] = IF th = GameThread /\ closing
                                  THEN [Idle EXCEPT !.op = "kick"] ELSE Idle]
    /\ UNCHANGED <<state, content, db, made, asked, saves>>

LoadTable(th) ==
    LET o == job[th].obj  t == job[th].table IN
    /\ job[th].op = "load" /\ t \in Tables
    /\ content' = [content EXCEPT ![o][t] = db[CharOf(o)][t]]
    /\ job' = [job EXCEPT ![th].table = t + 1]
    /\ UNCHANGED <<state, place, db, made, asked, saves>>

LoadFails(th) ==
    /\ MayFail /\ job[th].op = "load" /\ job[th].table \in Tables
    /\ job' = [job EXCEPT ![th] = Idle]
    /\ UNCHANGED <<state, place, content, db, made, asked, saves>>

\* placeCreature, for a login; the change and its save, for a temporary object.
Loaded(th) ==
    LET o == job[th].obj IN
    /\ job[th].op = "load" /\ job[th].table \notin Tables
    /\ IF job[th].next = "game"
       THEN /\ place' = [place EXCEPT ![o] = "game"]
            /\ asked' = [asked EXCEPT ![o] = {}]
            /\ job' = [job EXCEPT ![th] = Idle]
            /\ UNCHANGED <<content, made>>
       ELSE /\ \E k \in Unused : Change(o, k)
            /\ Begin(th, "lock", o, "free")
            /\ UNCHANGED <<place, asked>>
    /\ UNCHANGED <<state, db, saves>>

\* The process is killed and started again.
Crash ==
    /\ MayCrash /\ gameState # "halted"
    /\ gameState' = "normal" /\ closing' = FALSE
    /\ place' = [o \in Objects |-> "free"]
    /\ job' = [th \in Threads |-> Idle]
    /\ queue' = <<>>
    /\ playerMap' = [c \in Chars |-> 0] /\ scheduledAt' = 0
    /\ UNCHANGED <<content, db, made, asked, now>>

Handler ==
    \/ scheduleAll \/ setGameState
    \/ \E c \in Chars : Login(c) \/ DeliverOffline(c) \/ AcceptMarketOffer(c)
    \/ \E o \in Objects : Play(o) \/ RequestSave(o) \/ Logout(o) \/ Die(o)
                          \/ Respawn(o) \/ LeaveDead(o)

Work(th) ==
    \/ SubmitDone(th) \/ SaveAllDone(th) \/ StartSave(th) \/ SaveTable(th)
    \/ EndSave(th) \/ LoadTable(th) \/ LoadFails(th) \/ Loaded(th)
    \/ \E o \in Objects : Submit(th, o)

PoolWork(w) == Take(w) \/ CheckPlayer(w) \/ CheckAll(w)
Closing == KickDone \/ \E o \in Objects : Kick(o)

Next ==
    \/ Handler \/ Closing \/ Crash
    \/ \E th \in Threads : Work(th)
    \/ \E w \in Workers : PoolWork(w)
    \/ \E o \in Objects : Release(o)

Spec == Init /\ [][Next]_vars
LiveSpec ==
    /\ Spec /\ WF_vars(Closing)
    /\ \A th \in Threads : WF_vars(Work(th))
    /\ \A w \in Workers : WF_vars(PoolWork(w))

-----------------------------------------------------------------------------
(* Properties *)

TypeOK ==
    /\ gameState \in {"normal", "closed", "shutdown", "halted"}
    /\ closing \in BOOLEAN
    /\ place \in [Objects -> {"free", "game", "dead", "gone"}]
    /\ content \in [Objects -> [Tables -> SUBSET Changes]]
    /\ db \in [Chars -> [Tables -> SUBSET Changes]]
    /\ made \in [Chars -> SUBSET Changes]
    /\ asked \in [Objects -> SUBSET Changes]
    /\ playerMap \in [Chars -> Nat]
    /\ scheduledAt \in Nat /\ now \in Nat
    /\ queue \in Seq(TaskType)
    /\ job \in [Threads -> JobType]

Saving(o) == \E th \in Threads : job[th].op = "save" /\ job[th].obj = o
Busy(c) == \E o \in Objects : CharOf(o) = c /\ Held(o)

\* A character is in memory at most once, and never in a temporary object
\* while its real one is in the game.
OneObject ==
    \A o, p \in Objects :
        /\ CharOf(o) = CharOf(p) /\ o # p /\ place[o] = "game"
        => place[p] \in {"free", "gone"} /\ ~(job[GameThread].obj = p)

\* A character with no object in memory is in the database as it last was,
\* in every table: a login, or an offline delivery, never loads an old state
\* (onRemoveCreature saves before the object leaves Game::players).
SavedWhenAbsent ==
    OneObject /\ \A c \in Chars :
        Of(c, {"game", "dead"}) = {} /\ ~Busy(c) =>
            \A t \in Tables : db[c][t] = made[c]

\* Between saves the tables of a character agree: what moved from one to
\* another (an item sold, its price banked) is neither lost nor doubled.
\* executeWithinTransaction promises it for a failed save as well.
NotTorn ==
    \A c \in Chars :
        (\A o \in Objects : CharOf(o) = c => ~Saving(o)) =>
            \A t, u \in Tables : db[c][t] = db[c][u]

\* No save ever takes back what an earlier one stored (two objects of one
\* character, or an old save that ends late, would).
NeverRollsBack ==
    [][\A c \in Chars, t \in Tables : db[c][t] \subseteq db'[c][t]]_vars

\* However saves fail and whenever the process dies, a table is never newer
\* than one that savePlayerGuard writes before it.
TornInOrder ==
    \A c \in Chars, t, u \in Tables : t <= u => db[c][u] \subseteq db[c][t]

\* What an object of the game held when savePlayer or saveAll accepted it is
\* stored, or a task with the stamp m_playerMap has will store it, or a save
\* in progress has still to read it (doSavePlayer erases the stamp first).
RequestCovered ==
    TypeOK /\ \A o \in InGame :
        \/ \A t \in Tables : asked[o] \subseteq db[CharOf(o)][t]
        \/ \E i \in DOMAIN queue :
              /\ queue[i].obj = o
              /\ queue[i].kind = "player" => queue[i].stamp = playerMap[CharOf(o)]
        \/ \E th \in Threads :
              /\ job[th].obj = o
              /\ \/ job[th].op = "check" /\ job[th].stamp = playerMap[CharOf(o)]
                 \/ job[th].op = "lock"
                 \/ /\ job[th].op = "save"
                    /\ \A t \in 1..(job[th].table - 1) :
                         asked[o] \subseteq db[CharOf(o)][t]

\* An accepted request is eventually stored, if the player stays in the game.
RequestIsSaved ==
    \A o \in Objects : \A k \in Changes :
        (o \in InGame /\ k \in asked[o]) ~>
            (o \notin InGame \/ \A t \in Tables : k \in db[CharOf(o)][t])

\* Every save, saveAll and setGameState that starts comes to its end.
SavesComplete ==
    \A th \in Threads : job[th].op # "idle" ~> job[th].op = "idle"
=============================================================================
