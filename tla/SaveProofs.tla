----------------------------- MODULE SaveProofs -----------------------------
(***************************************************************************)
(* SaveManager, for any number of characters, objects, tables and workers. *)
(* With synchronous saves, none of which fails (Sync): what is not in      *)
(* memory is in the database as it last was.  With synchronous saves that  *)
(* may fail, and a process that may die (OneCopy): the rows of a character *)
(* are torn in the order of its tables at most, and no save takes anything *)
(* back.  In every mode: a character is in memory once, and, if it has one *)
(* object and no save fails (OneEach), every accepted request is covered.  *)
(***************************************************************************)
EXTENDS SaveManager, TLAPS

\* No toggleSaveAsync, no failing statement, no process that dies; and either
\* nobody dies or nobody changes a character that is not in the game.
Sync ==
    /\ SaveAsync = FALSE /\ MayFail = FALSE /\ MayCrash = FALSE
    /\ MayDie = FALSE \/ (Offline = FALSE /\ Market = FALSE)

InMemory(o) == place[o] \in {"game", "dead"}
Absent(c) == \A o \in Objects : CharOf(o) = c => ~InMemory(o)

\* The pool is given parts of a saveAll that waits for them, and nothing else.
PartOK(task) ==
    /\ task.kind = "part" /\ task.by = GameThread
    /\ task.obj \in Objects /\ place[task.obj] = "game"
QueueOK ==
    /\ \A i \in DOMAIN queue : PartOK(queue[i])
    /\ queue # <<>> => job[GameThread].op \in {"submit", "await"}

WorkersOK ==
    \A w \in Workers :
        \/ job[w] = Idle
        \/ /\ job[w].op \in {"lock", "save"} /\ job[w].by = GameThread
           /\ job[w].obj \in Objects /\ place[job[w].obj] = "game"
           /\ job[w].next = "stay" /\ (job[w].op = "lock" => job[w].table = 1)
           /\ job[GameThread].op \in {"submit", "await"}

\* What the handler of the game thread works on: a character it loads, the object
\* of a player, or a temporary one.
Full(o) == \A t \in Tables : content[o][t] = made[CharOf(o)]
GameOK ==
    LET j == job[GameThread] IN
    /\ j.op # "check"
    /\ j.op \in {"idle", "kick", "submit", "await"} => j.obj = NoObject
    /\ j.op = "load" =>
          /\ j.obj \in Objects /\ j.next \in {"game", "free"} /\ Absent(CharOf(j.obj))
          /\ \A t \in Tables : t < j.table => content[j.obj][t] = made[CharOf(j.obj)]
    /\ j.op \in {"lock", "save"} =>
          /\ j.obj \in Objects /\ (j.op = "lock" => j.table = 1)
          /\ \/ j.next \in {"stay", "gone"} /\ place[j.obj] = "game"
             \/ j.next = "dead" /\ place[j.obj] = "game" /\ MayDie
             \/ j.next = "free" /\ Absent(CharOf(j.obj)) /\ Full(j.obj)

\* Who is in memory is there once, and complete.
PlacesOK ==
    /\ \A o, p \in Objects : InMemory(o) /\ InMemory(p) /\ CharOf(o) = CharOf(p) => o = p
    /\ \A o \in Objects : InMemory(o) => Full(o)
    /\ \A o \in Objects : place[o] = "dead" => MayDie

SavesObject(th, c) == job[th].op = "save" /\ CharOf(job[th].obj) = c

\* A save has written the tables up to its place, and leaves the others as they
\* were, alike; a character nobody saves is alike in all tables.
TablesOK ==
    /\ \A th, ti \in Threads :
          job[th].op = "save" /\ job[ti].op = "save" /\ job[th].obj = job[ti].obj => th = ti
    /\ \A th \in Threads : \A c \in Chars : SavesObject(th, c) =>
          /\ \A t \in Tables : t < job[th].table => db[c][t] = made[c]
          /\ \A t, u \in Tables : t >= job[th].table /\ u >= job[th].table => db[c][t] = db[c][u]
    /\ \A c \in Chars : (\A th \in Threads : ~SavesObject(th, c)) =>
          \A t, u \in Tables : db[c][t] = db[c][u]

\* A character with no object in the game, and with none that is being saved.
GameSaves(c) == job[GameThread].op \in {"lock", "save"} /\ CharOf(job[GameThread].obj) = c
StoredOK ==
    \A c \in Chars :
        (\A o \in Objects : CharOf(o) = c => place[o] # "game") /\ ~GameSaves(c) =>
            \A t \in Tables : db[c][t] = made[c]

SaveInv == TypeOK /\ QueueOK /\ WorkersOK /\ GameOK /\ PlacesOK /\ TablesOK /\ StoredOK

-----------------------------------------------------------------------------
(* Lemmas                                                                   *)

LEMMA Consts ==
    /\ LastTable \in Nat \ {0} /\ GameThread \notin Workers /\ GameThread \in Threads
    /\ Workers \subseteq Threads /\ Tables = 1..LastTable /\ Tables \subseteq Nat /\ 1 \in Tables
    /\ NoObject \notin Objects /\ \A th \in Threads : th = GameThread \/ th \in Workers
BY SaveAssumption DEF SaveAssumption, Threads, Tables

LEMMA CharOfType == ASSUME NEW o \in Objects PROVE CharOf(o) \in Chars
BY DEF Objects, CharOf

LEMMA IdleFields ==
    /\ Idle \in JobType /\ Idle.op = "idle" /\ Idle.obj = NoObject /\ Idle.table = 1
    /\ Idle.next = "stay" /\ Idle.by = NoObject /\ Idle.stamp = 0 /\ Idle.seen = {}
BY Consts DEF Idle, JobType

\* What Begin leaves the game thread with.
LEMMA Begun ==
    ASSUME TypeOK, NEW o \in Objects \cup {NoObject},
           NEW op \in {"load", "lock", "kick", "submit"},
           NEW next \in {"stay", "game", "dead", "gone", "free"},
           Begin(GameThread, op, o, next)
    PROVE  /\ job' \in [Threads -> JobType]
           /\ job'[GameThread].op = op /\ job'[GameThread].obj = o
           /\ job'[GameThread].next = next /\ job'[GameThread].table = 1
           /\ \A w \in Workers : job'[w] = job[w]
<1> DEFINE j == [Idle EXCEPT !.op = op, !.obj = o, !.next = next]
<1>1. j \in JobType /\ j.op = op /\ j.obj = o /\ j.next = next /\ j.table = 1
  BY IdleFields DEF JobType
<1>2. job' = [job EXCEPT ![GameThread] = j]
  BY DEF Begin
<1> HIDE DEF j
<1> QED BY <1>1, <1>2, Consts DEF TypeOK

\* While a handler runs that does not wait for a saveAll, the pool has nothing.
LEMMA PoolRests ==
    ASSUME SaveInv, job[GameThread].op \notin {"submit", "await"}
    PROVE  queue = <<>> /\ \A w \in Workers : job[w] = Idle
BY DEF SaveInv, QueueOK, WorkersOK

\* Whoever saves a character saves the same object, so one saves it at a time.
LEMMA OneSaver ==
    ASSUME SaveInv, NEW th \in Threads, NEW ti \in Threads, NEW c \in Chars,
           SavesObject(th, c), SavesObject(ti, c)
    PROVE  th = ti
<1>1. ASSUME NEW w \in Workers, job[w].op = "save"
      PROVE  job[w].obj \in Objects /\ InMemory(job[w].obj)
  BY <1>1, IdleFields DEF SaveInv, WorkersOK, InMemory
<1>2. ASSUME job[GameThread].op = "save"
      PROVE  \A w \in Workers : job[w] = Idle
  BY <1>2, PoolRests
<1>3. CASE th \in Workers /\ ti \in Workers
  <2>1. job[th].obj = job[ti].obj
    BY <1>1, <1>3 DEF SaveInv, PlacesOK, SavesObject
  <2> QED BY <2>1 DEF SaveInv, TablesOK, SavesObject
<1>4. CASE th = GameThread \/ ti = GameThread
  BY <1>2, <1>4, Consts, IdleFields DEF SavesObject
<1> QED BY <1>3, <1>4, Consts

-----------------------------------------------------------------------------
(* The game thread begins something                                         *)

\* It has nothing in hand, and neither has the pool.
LEMMA GameBegins ==
    ASSUME SaveInv, job[GameThread].op \in {"idle", "kick"},
           UNCHANGED <<place, content, db, made, queue>>, TypeOK',
           job'[GameThread].op # "save", \A w \in Workers : job'[w] = job[w], GameOK'
    PROVE  SaveInv'
<1>1. queue = <<>> /\ \A w \in Workers : job[w] = Idle
  BY PoolRests
<1>2. \A th \in Threads : job[th].op # "save" /\ job'[th].op # "save"
  BY <1>1, Consts, IdleFields
<1>3. QueueOK' /\ WorkersOK'
  BY <1>1 DEF QueueOK, WorkersOK
<1>4. PlacesOK'
  BY DEF SaveInv, PlacesOK, InMemory, Full
<1>5. TablesOK'
  BY <1>2 DEF SaveInv, TablesOK, SavesObject
<1>6. StoredOK'
  BY DEF SaveInv, StoredOK, GameSaves
<1> QED BY <1>3, <1>4, <1>5, <1>6 DEF SaveInv

\* A save of a player who is in the game.
LEMMA BeginsSave ==
    ASSUME SaveInv, Sync, job[GameThread].op \in {"idle", "kick"}, NEW o \in InGame,
           NEW next \in {"stay", "gone", "dead"}, next = "dead" => MayDie,
           savePlayer(o, next), UNCHANGED <<state, content, db, made>>
    PROVE  SaveInv'
<1>1. o \in Objects /\ place[o] = "game"
  BY DEF InGame
<1>2. /\ Begin(GameThread, "lock", o, next) /\ UNCHANGED <<place, saves>>
      /\ asked' = [asked EXCEPT ![o] = Holds(o)]
  BY DEF savePlayer, Sync
<1>3. /\ job' \in [Threads -> JobType]
      /\ job'[GameThread].op = "lock" /\ job'[GameThread].obj = o
      /\ job'[GameThread].next = next /\ job'[GameThread].table = 1
      /\ \A w \in Workers : job'[w] = job[w]
  BY <1>1, <1>2, Begun DEF SaveInv
<1>4. asked' \in [Objects -> SUBSET Changes]
  BY <1>2 DEF SaveInv, TypeOK, Holds
<1>5. TypeOK'
  BY <1>2, <1>3, <1>4 DEF SaveInv, TypeOK, saves, state
<1>6. GameOK'
  BY <1>1, <1>2, <1>3 DEF GameOK
<1> QED BY <1>2, <1>3, <1>5, <1>6, GameBegins DEF saves

\* A load of a character that is not in memory.
LEMMA BeginsLoad ==
    ASSUME SaveInv, Sync, GameIdle, NEW c \in Chars, NEW o \in Fresh(c),
           NEW next \in {"game", "free"}, Absent(c), Begin(GameThread, "load", o, next),
           UNCHANGED <<state, place, content, db, made, asked, saves>>
    PROVE  SaveInv'
<1>1. o \in Objects /\ CharOf(o) = c
  BY DEF Fresh, Of
<1>2. /\ job' \in [Threads -> JobType]
      /\ job'[GameThread].op = "load" /\ job'[GameThread].obj = o
      /\ job'[GameThread].next = next /\ job'[GameThread].table = 1
      /\ \A w \in Workers : job'[w] = job[w]
  BY <1>1, Begun DEF SaveInv
<1>3. TypeOK'
  BY <1>2 DEF SaveInv, TypeOK, saves, state
<1>4. Absent(c)'
  BY DEF Absent, InMemory
<1>5. GameOK'
  BY <1>1, <1>2, <1>4, Consts DEF GameOK
<1> QED BY <1>2, <1>3, <1>5, GameBegins DEF GameIdle, saves

\* Nothing in hand: setGameState, and the saveAll of a closing server.
LEMMA BeginsRound ==
    ASSUME SaveInv, Sync, job[GameThread].op \in {"idle", "kick"},
           NEW op \in {"kick", "submit"}, Begin(GameThread, op, NoObject, "stay"),
           UNCHANGED <<place, content, db, made, asked, playerMap, queue>>,
           gameState' \in {"normal", "closed", "shutdown", "halted"}, closing' \in BOOLEAN,
           scheduledAt' \in Nat, now' \in Nat
    PROVE  SaveInv'
<1>1. /\ job' \in [Threads -> JobType]
      /\ job'[GameThread].op = op /\ job'[GameThread].obj = NoObject
      /\ \A w \in Workers : job'[w] = job[w]
  BY Begun DEF SaveInv
<1>2. TypeOK'
  BY <1>1 DEF SaveInv, TypeOK
<1>3. GameOK'
  BY <1>1 DEF GameOK
<1> QED BY <1>1, <1>2, <1>3, GameBegins

LEMMA NoneDead == ASSUME SaveInv, MayDie = FALSE PROVE \A o \in Objects : place[o] # "dead"
BY DEF SaveInv, PlacesOK

LEMMA NotInMemory ==
    ASSUME SaveInv, NEW c \in Chars, Of(c, {"game"}) = {},
           MayDie = FALSE \/ Of(c, {"game", "dead"}) = {}
    PROVE  Absent(c)
BY NoneDead DEF Of, Absent, InMemory

LEMMA HandlerKeeps ==
    ASSUME SaveInv, Sync,
           \/ scheduleAll \/ setGameState \/ KickDone
           \/ \E c \in Chars : Login(c) \/ DeliverOffline(c)
           \/ \E o \in Objects : RequestSave(o) \/ Logout(o) \/ Die(o) \/ Kick(o)
    PROVE  SaveInv'
<1>1. CASE scheduleAll
  <2>1. /\ now' = now + 1 /\ scheduledAt' = now + 1 /\ job[GameThread].op = "idle"
        /\ Begin(GameThread, "submit", NoObject, "stay")
        /\ UNCHANGED <<state, place, content, db, made, asked, playerMap, queue>>
    BY <1>1 DEF scheduleAll, Sync, GameIdle
  <2>2. now \in Nat /\ gameState \in {"normal", "closed", "shutdown", "halted"}
        /\ closing \in BOOLEAN
    BY DEF SaveInv, TypeOK
  <2> QED BY <2>1, <2>2, BeginsRound DEF state
<1>2. CASE setGameState
  <2>1. /\ gameState' \in {"normal", "closed", "shutdown"} /\ closing' \in BOOLEAN
        /\ job[GameThread].op = "idle"
        /\ Begin(GameThread, "kick", NoObject, "stay") \/ UNCHANGED job
        /\ UNCHANGED <<place, content, db, made, asked, saves>>
    BY <1>2 DEF setGameState, GameIdle, SaveInv, TypeOK
  <2>2. now \in Nat /\ scheduledAt \in Nat
    BY DEF SaveInv, TypeOK
  <2>3. CASE Begin(GameThread, "kick", NoObject, "stay")
    BY <2>1, <2>2, <2>3, BeginsRound DEF saves
  <2>4. CASE UNCHANGED job
    <3>1. TypeOK'
      BY <2>1, <2>4 DEF SaveInv, TypeOK, saves
    <3>2. GameOK'
      BY <2>1, <2>4 DEF SaveInv, GameOK
    <3> QED BY <2>1, <2>4, <3>1, <3>2, GameBegins DEF saves
  <2> QED BY <2>1, <2>3, <2>4
<1>3. CASE KickDone
  <2>1. gameState \in {"normal", "closed", "shutdown", "halted"} /\ closing \in BOOLEAN
        /\ now \in Nat /\ scheduledAt \in Nat
    BY DEF SaveInv, TypeOK
  <2> QED BY <1>3, <2>1, BeginsRound DEF KickDone, state, saves
<1>4. ASSUME NEW c \in Chars, Login(c) PROVE SaveInv'
  <2>1. Absent(c)
    BY <1>4 DEF Login, Of, Absent, InMemory
  <2> QED BY <1>4, <2>1, BeginsLoad DEF Login
<1>5. ASSUME NEW c \in Chars, DeliverOffline(c) PROVE SaveInv'
  <2>1. Absent(c)
    BY <1>5, NotInMemory DEF DeliverOffline, Sync
  <2> QED BY <1>5, <2>1, BeginsLoad DEF DeliverOffline, LoadTemporary
<1>6. ASSUME NEW o \in Objects, RequestSave(o) PROVE SaveInv'
  BY <1>6, BeginsSave DEF RequestSave, GameIdle
<1>7. ASSUME NEW o \in Objects, Logout(o) PROVE SaveInv'
  BY <1>7, BeginsSave DEF Logout, GameIdle
<1>8. ASSUME NEW o \in Objects, Die(o) PROVE SaveInv'
  BY <1>8, BeginsSave DEF Die, GameIdle
<1>9. ASSUME NEW o \in Objects, Kick(o) PROVE SaveInv'
  BY <1>9, BeginsSave DEF Kick, Kicked
<1> QED BY <1>1, <1>2, <1>3, <1>4, <1>5, <1>6, <1>7, <1>8, <1>9

LEMMA MarketKeeps ==
    ASSUME SaveInv, Sync, NEW c \in Chars, AcceptMarketOffer(c)
    PROVE  SaveInv'
<1>1. MayDie = FALSE /\ GameIdle
  BY DEF AcceptMarketOffer, Sync
<1>2. Of(c, {"dead"}) = {}
  BY <1>1, NoneDead DEF Of
<1>3. Of(c, {"game", "dead"}) = {} /\ LoadTemporary(c)
  BY <1>2 DEF AcceptMarketOffer
<1>4. Absent(c)
  BY <1>3 DEF Of, Absent, InMemory
<1> QED BY <1>1, <1>3, <1>4, BeginsLoad DEF LoadTemporary

-----------------------------------------------------------------------------
(* Objects change or move                                                   *)

\* The pool rests and nobody saves; PlacesOK and StoredOK are left to show.
LEMMA QuietStep ==
    ASSUME SaveInv, job[GameThread].op = "idle", UNCHANGED <<job, queue, db>>,
           TypeOK', PlacesOK', StoredOK'
    PROVE  SaveInv'
<1>1. queue = <<>> /\ \A w \in Workers : job[w] = Idle
  BY PoolRests
<1>2. \A th \in Threads : job[th].op # "save"
  BY <1>1, Consts, IdleFields
<1>3. QueueOK' /\ WorkersOK'
  BY <1>1 DEF QueueOK, WorkersOK
<1>4. GameOK'
  BY DEF SaveInv, GameOK
<1>5. TablesOK'
  BY <1>2 DEF SaveInv, TablesOK, SavesObject
<1> QED BY <1>3, <1>4, <1>5 DEF SaveInv

LEMMA PlayKeeps == ASSUME SaveInv, NEW o \in Objects, Play(o) PROVE SaveInv'
<1>1. /\ job[GameThread].op = "idle" /\ place[o] = "game"
      /\ UNCHANGED <<state, place, db, asked, saves, job>>
  BY DEF Play, GameIdle, InGame
<1>2. PICK k \in Unused : Change(o, k)
  BY DEF Play
<1> DEFINE c == CharOf(o)
<1>3. c \in Chars /\ k \in Changes
  BY CharOfType DEF Unused
<1>4. /\ content' \in [Objects -> [Tables -> SUBSET Changes]]
      /\ made' \in [Chars -> SUBSET Changes]
      /\ \A t \in Tables : content'[o][t] = content[o][t] \cup {k}
      /\ made'[c] = made[c] \cup {k}
      /\ \A p \in Objects \ {o} : content'[p] = content[p]
      /\ \A d \in Chars \ {c} : made'[d] = made[d]
  BY <1>2, <1>3 DEF Change, SaveInv, TypeOK
<1>5. TypeOK'
  BY <1>1, <1>4 DEF SaveInv, TypeOK, state, saves
<1>6. PlacesOK'
  <2>1. ASSUME NEW p \in Objects, InMemory(p), NEW t \in Tables
        PROVE  content'[p][t] = made'[CharOf(p)]
    <3>1. content[p][t] = made[CharOf(p)]
      BY <2>1 DEF SaveInv, PlacesOK, Full
    <3>2. CASE p = o
      BY <1>4, <3>1, <3>2
    <3>3. CASE p # o
      <4>1. CharOf(p) # c
        BY <1>1, <2>1, <3>3 DEF SaveInv, PlacesOK, InMemory
      <4> QED BY <1>4, <3>1, <3>3, <4>1, CharOfType
    <3> QED BY <3>2, <3>3
  <2> QED BY <1>1, <2>1 DEF SaveInv, PlacesOK, InMemory, Full
<1>7. StoredOK'
  <2>1. ASSUME NEW d \in Chars, \A p \in Objects : CharOf(p) = d => place[p] # "game"
        PROVE  d # c
    BY <1>1, <2>1
  <2> QED BY <1>1, <1>4, <2>1 DEF SaveInv, StoredOK, GameSaves
<1> QED BY <1>1, <1>5, <1>6, <1>7, QuietStep DEF saves

LEMMA RespawnKeeps == ASSUME SaveInv, NEW o \in Objects, Respawn(o) PROVE SaveInv'
<1>1. /\ job[GameThread].op = "idle" /\ place[o] = "dead"
      /\ place' = [place EXCEPT ![o] = "game"]
      /\ UNCHANGED <<state, content, db, made, asked, saves, job>>
  BY DEF Respawn, GameIdle
<1>2. /\ place' \in [Objects -> {"free", "game", "dead", "gone"}] /\ place'[o] = "game"
      /\ \A p \in Objects \ {o} : place'[p] = place[p]
  BY <1>1 DEF SaveInv, TypeOK
<1>3. TypeOK'
  BY <1>1, <1>2 DEF SaveInv, TypeOK, state, saves
<1>4. PlacesOK'
  <2>1. \A p \in Objects : place'[p] \in {"game", "dead"} => InMemory(p)
    BY <1>1, <1>2 DEF InMemory
  <2> QED BY <1>1, <1>2, <2>1 DEF SaveInv, PlacesOK, InMemory, Full
<1>5. StoredOK'
  BY <1>1, <1>2 DEF SaveInv, StoredOK, GameSaves
<1> QED BY <1>1, <1>3, <1>4, <1>5, QuietStep DEF saves

\* A dead player was saved when dying, and has not been touched.
LEMMA LeaveDeadKeeps == ASSUME SaveInv, NEW o \in Objects, LeaveDead(o) PROVE SaveInv'
<1>1. /\ job[GameThread].op = "idle" /\ place[o] = "dead"
      /\ place' = [place EXCEPT ![o] = "gone"]
      /\ UNCHANGED <<state, content, db, made, asked, saves, job>>
  BY DEF LeaveDead, GameIdle
<1>2. /\ place' \in [Objects -> {"free", "game", "dead", "gone"}] /\ place'[o] = "gone"
      /\ \A p \in Objects \ {o} : place'[p] = place[p]
  BY <1>1 DEF SaveInv, TypeOK
<1>3. TypeOK'
  BY <1>1, <1>2 DEF SaveInv, TypeOK, state, saves
<1>4. PlacesOK'
  <2>1. \A p \in Objects : place'[p] \in {"game", "dead"} => InMemory(p)
    BY <1>1, <1>2 DEF InMemory
  <2> QED BY <1>1, <1>2, <2>1 DEF SaveInv, PlacesOK, InMemory, Full
<1>5. StoredOK'
  BY <1>1, <1>2 DEF SaveInv, StoredOK, GameSaves
<1> QED BY <1>1, <1>3, <1>4, <1>5, QuietStep DEF saves

LEMMA ReleaseKeeps == ASSUME SaveInv, NEW o \in Objects, Release(o) PROVE SaveInv'
<1>1. /\ place[o] = "gone" /\ place' = [place EXCEPT ![o] = "free"]
      /\ UNCHANGED <<state, content, db, made, asked, saves, job>>
  BY DEF Release
<1>2. /\ place' \in [Objects -> {"free", "game", "dead", "gone"}] /\ place'[o] = "free"
      /\ \A p \in Objects \ {o} : place'[p] = place[p]
  BY <1>1 DEF SaveInv, TypeOK
<1>3. \A p \in Objects : /\ place'[p] = "game" <=> place[p] = "game"
                         /\ place'[p] = "dead" <=> place[p] = "dead"
  BY <1>1, <1>2
<1>4. TypeOK'
  BY <1>1, <1>2 DEF SaveInv, TypeOK, state, saves
<1>5. QueueOK' /\ WorkersOK'
  BY <1>1, <1>3 DEF SaveInv, QueueOK, WorkersOK, PartOK, saves
<1>6. GameOK'
  BY <1>1, <1>3, CharOfType DEF SaveInv, GameOK, Absent, InMemory, Full
<1>7. PlacesOK'
  BY <1>1, <1>3 DEF SaveInv, PlacesOK, InMemory, Full
<1>8. TablesOK' /\ StoredOK'
  BY <1>1, <1>3 DEF SaveInv, TablesOK, StoredOK, SavesObject, GameSaves
<1> QED BY <1>4, <1>5, <1>6, <1>7, <1>8 DEF SaveInv

-----------------------------------------------------------------------------
(* saveAll                                                                  *)

LEMMA OnlyGameSubmits ==
    ASSUME SaveInv, NEW th \in Threads, job[th].op \in {"submit", "await", "load", "kick", "check"}
    PROVE  th = GameThread /\ job[th].op # "check"
BY Consts, IdleFields DEF SaveInv, WorkersOK, GameOK

LEMMA SubmitKeeps ==
    ASSUME SaveInv, NEW th \in Threads, NEW o \in Objects, Submit(th, o)
    PROVE  SaveInv'
<1> DEFINE task == [kind |-> "part", obj |-> o, stamp |-> 0, by |-> th]
           j == job[GameThread]
<1>1. /\ job[th].op = "submit" /\ place[o] = "game" /\ queue' = Append(queue, task)
      /\ asked' = [asked EXCEPT ![o] = Holds(o)]
      /\ job' = [job EXCEPT ![th].seen = @ \cup {o}]
      /\ UNCHANGED <<state, place, content, db, made, playerMap, scheduledAt, now>>
  BY DEF Submit, InGame
<1>2. th = GameThread /\ j.op = "submit" /\ j \in JobType
  BY <1>1, OnlyGameSubmits DEF SaveInv, TypeOK
<1>3. task \in TaskType
  BY <1>2, Consts DEF TaskType
<1>4. /\ queue' \in Seq(TaskType) /\ queue' # <<>>
      /\ \A i \in DOMAIN queue' : queue'[i] = task \/ (i \in DOMAIN queue /\ queue'[i] = queue[i])
  BY <1>1, <1>3 DEF SaveInv, TypeOK
<1>5. asked' \in [Objects -> SUBSET Changes]
  BY <1>1 DEF SaveInv, TypeOK, Holds
<1>6. /\ job' \in [Threads -> JobType] /\ job'[GameThread].op = "submit"
      /\ job'[GameThread].obj = j.obj /\ \A w \in Workers : job'[w] = job[w]
  <2>1. [j EXCEPT !.seen = j.seen \cup {o}] \in JobType
    BY <1>2 DEF JobType
  <2>2. job' = [job EXCEPT ![GameThread] = [j EXCEPT !.seen = j.seen \cup {o}]]
    BY <1>1, <1>2
  <2> QED BY <1>2, <2>1, <2>2, Consts DEF SaveInv, TypeOK, JobType
<1>7. TypeOK'
  BY <1>1, <1>4, <1>5, <1>6 DEF SaveInv, TypeOK, state
<1>8. QueueOK'
  BY <1>1, <1>2, <1>4, <1>6 DEF SaveInv, QueueOK, PartOK
<1>9. WorkersOK'
  BY <1>1, <1>6 DEF SaveInv, WorkersOK
<1>10. GameOK'
  BY <1>2, <1>6 DEF SaveInv, GameOK
<1>11. PlacesOK'
  BY <1>1 DEF SaveInv, PlacesOK, InMemory, Full
<1>12. \A ti \in Threads : /\ job'[ti].op = "save" <=> job[ti].op = "save"
                           /\ job[ti].op = "save" => job'[ti] = job[ti]
  BY <1>2, <1>6, Consts
<1>13. TablesOK'
  <2>1. \A ti \in Threads, c \in Chars : SavesObject(ti, c)' <=> SavesObject(ti, c)
    BY <1>12 DEF SavesObject
  <2>2. \A ti \in Threads, c \in Chars : SavesObject(ti, c) => job'[ti].table = job[ti].table
    BY <1>12 DEF SavesObject
  <2>3. \A t1, t2 \in Threads :
           job'[t1].op = "save" /\ job'[t2].op = "save" /\ job'[t1].obj = job'[t2].obj => t1 = t2
    BY <1>12 DEF SaveInv, TablesOK
  <2> QED BY <1>1, <2>1, <2>2, <2>3 DEF SaveInv, TablesOK
<1>14. StoredOK'
  BY <1>1, <1>2, <1>6 DEF SaveInv, StoredOK, GameSaves
<1> QED BY <1>7, <1>8, <1>9, <1>10, <1>11, <1>13, <1>14 DEF SaveInv

LEMMA SubmitDoneKeeps ==
    ASSUME SaveInv, NEW th \in Threads, SubmitDone(th)
    PROVE  SaveInv'
<1> DEFINE j == job[GameThread]
<1>1. /\ job[th].op = "submit" /\ job' = [job EXCEPT ![th].op = "await"]
      /\ UNCHANGED <<state, place, content, db, made, asked, saves>>
  BY DEF SubmitDone
<1>2. th = GameThread /\ j.op = "submit" /\ j \in JobType
  BY <1>1, OnlyGameSubmits DEF SaveInv, TypeOK
<1>3. /\ job' \in [Threads -> JobType] /\ job'[GameThread].op = "await"
      /\ job'[GameThread].obj = j.obj /\ \A w \in Workers : job'[w] = job[w]
  <2>1. [j EXCEPT !.op = "await"] \in JobType
    BY <1>2 DEF JobType
  <2>2. job' = [job EXCEPT ![GameThread] = [j EXCEPT !.op = "await"]]
    BY <1>1, <1>2
  <2> QED BY <1>2, <2>1, <2>2, Consts DEF SaveInv, TypeOK, JobType
<1>4. TypeOK'
  BY <1>1, <1>3 DEF SaveInv, TypeOK, state, saves
<1>5. QueueOK' /\ WorkersOK'
  BY <1>1, <1>3 DEF SaveInv, QueueOK, PartOK, WorkersOK, saves
<1>6. GameOK'
  BY <1>2, <1>3 DEF SaveInv, GameOK
<1>7. PlacesOK'
  BY <1>1 DEF SaveInv, PlacesOK, InMemory, Full
<1>8. \A ti \in Threads : /\ job'[ti].op = "save" <=> job[ti].op = "save"
                         /\ job[ti].op = "save" => job'[ti] = job[ti]
  BY <1>2, <1>3, Consts
<1>9. TablesOK' /\ StoredOK'
  BY <1>1, <1>2, <1>3, <1>8 DEF SaveInv, TablesOK, StoredOK, SavesObject, GameSaves
<1> QED BY <1>4, <1>5, <1>6, <1>7, <1>9 DEF SaveInv

\* Nothing is left of the parts, so the pool has nothing at all.
LEMMA SaveAllDoneKeeps ==
    ASSUME SaveInv, NEW th \in Threads, SaveAllDone(th)
    PROVE  SaveInv'
<1>1. /\ job[th].op = "await" /\ ~PartsOf(th) /\ job' = [job EXCEPT ![th] = Idle]
      /\ UNCHANGED <<place, content, db, made, asked, saves>>
  BY DEF SaveAllDone
<1>2. th = GameThread
  BY <1>1, OnlyGameSubmits
<1>3. queue = <<>>
  <2>1. ASSUME queue # <<>> PROVE FALSE
    <3>1. 1 \in DOMAIN queue
      BY <2>1 DEF SaveInv, TypeOK
    <3>2. queue[1].by = GameThread
      BY <3>1 DEF SaveInv, QueueOK, PartOK
    <3> QED BY <1>1, <1>2, <3>1, <3>2 DEF PartsOf
  <2> QED BY <2>1
<1>4. \A w \in Workers : job[w] = Idle
  BY <1>1, <1>2 DEF SaveInv, WorkersOK, PartsOf
<1>5. /\ job' \in [Threads -> JobType] /\ \A ti \in Threads : job'[ti] = Idle
  BY <1>1, <1>2, <1>4, Consts, IdleFields DEF SaveInv, TypeOK
<1>6. TypeOK'
  <2>1. gameState' \in {"normal", "closed", "shutdown", "halted"} /\ closing' \in BOOLEAN
    BY <1>2 DEF SaveAllDone, SaveInv, TypeOK, state
  <2> QED BY <1>1, <1>5, <2>1 DEF SaveInv, TypeOK, saves
<1>7. QueueOK' /\ WorkersOK' /\ GameOK'
  BY <1>1, <1>3, <1>5, Consts, IdleFields DEF QueueOK, WorkersOK, GameOK, saves
<1>8. PlacesOK'
  BY <1>1 DEF SaveInv, PlacesOK, InMemory, Full
<1>9. \A ti \in Threads : job[ti].op # "save" /\ job'[ti].op # "save"
  BY <1>1, <1>2, <1>4, <1>5, Consts, IdleFields
<1>10. TablesOK' /\ StoredOK'
  BY <1>1, <1>2, <1>5, <1>9, Consts DEF SaveInv, TablesOK, StoredOK, SavesObject, GameSaves
<1> QED BY <1>6, <1>7, <1>8, <1>10 DEF SaveInv

-----------------------------------------------------------------------------
(* The pool                                                                 *)

LEMMA TakeKeeps == ASSUME SaveInv, NEW w \in Workers, Take(w) PROVE SaveInv'
<1> DEFINE task == Head(queue)
           j == [Idle EXCEPT !.op = IF task.kind = "part" THEN "lock" ELSE "check",
                             !.obj = task.obj, !.stamp = task.stamp, !.by = task.by]
<1>1. /\ job[w].op = "idle" /\ queue # <<>> /\ queue' = Tail(queue)
      /\ job' = [job EXCEPT ![w] = j]
      /\ UNCHANGED <<state, place, content, db, made, asked, playerMap, scheduledAt, now>>
  BY DEF Take
<1>2. task \in TaskType /\ PartOK(task)
  <2>1. 1 \in DOMAIN queue /\ task = queue[1] /\ task \in TaskType
    BY <1>1 DEF SaveInv, TypeOK
  <2> QED BY <2>1 DEF SaveInv, QueueOK
<1>3. /\ j \in JobType /\ j.op = "lock" /\ j.obj = task.obj /\ j.by = GameThread
      /\ j.next = "stay" /\ j.table = 1
  BY <1>2, IdleFields DEF JobType, TaskType, PartOK
<1>4. job[GameThread].op \in {"submit", "await"}
  BY <1>1 DEF SaveInv, QueueOK
<1> HIDE DEF j, task
<1>5. /\ job' \in [Threads -> JobType] /\ job'[w] = j
      /\ \A th \in Threads \ {w} : job'[th] = job[th]
      /\ job'[GameThread] = job[GameThread]
  BY <1>1, <1>3, Consts DEF SaveInv, TypeOK
<1>6. /\ queue' \in Seq(TaskType) /\ \A i \in DOMAIN queue' : PartOK(queue'[i])
  <2>1. /\ queue' \in Seq(TaskType)
        /\ \A i \in DOMAIN queue' : i + 1 \in DOMAIN queue /\ queue'[i] = queue[i + 1]
    BY <1>1 DEF SaveInv, TypeOK
  <2> QED BY <2>1 DEF SaveInv, QueueOK
<1>7. TypeOK'
  BY <1>1, <1>5, <1>6 DEF SaveInv, TypeOK, state
<1>8. QueueOK'
  BY <1>1, <1>4, <1>5, <1>6 DEF QueueOK, PartOK
<1>9. WorkersOK'
  <2>1. ASSUME NEW v \in Workers, v # w
        PROVE  job'[v] = job[v]
    BY <1>5, <2>1, Consts
  <2>2. task.obj \in Objects /\ place[task.obj] = "game"
    BY <1>2 DEF PartOK
  <2> QED BY <1>1, <1>3, <1>4, <1>5, <2>1, <2>2 DEF SaveInv, WorkersOK
<1>10. GameOK'
  BY <1>1, <1>5 DEF SaveInv, GameOK, Absent, InMemory, Full
<1>11. PlacesOK'
  BY <1>1 DEF SaveInv, PlacesOK, InMemory, Full
<1>12. \A ti \in Threads : /\ job'[ti].op = "save" <=> job[ti].op = "save"
                           /\ job[ti].op = "save" => job'[ti] = job[ti]
  BY <1>1, <1>3, <1>5
<1>13. TablesOK'
  <2>1. \A ti \in Threads, c \in Chars : SavesObject(ti, c)' <=> SavesObject(ti, c)
    BY <1>12 DEF SavesObject
  <2>2. \A ti \in Threads, c \in Chars : SavesObject(ti, c) => job'[ti].table = job[ti].table
    BY <1>12 DEF SavesObject
  <2>3. \A t1, t2 \in Threads :
           job'[t1].op = "save" /\ job'[t2].op = "save" /\ job'[t1].obj = job'[t2].obj => t1 = t2
    BY <1>12 DEF SaveInv, TablesOK
  <2> QED BY <1>1, <2>1, <2>2, <2>3 DEF SaveInv, TablesOK
<1>14. StoredOK'
  BY <1>1, <1>5 DEF SaveInv, StoredOK, GameSaves
<1> QED BY <1>7, <1>8, <1>9, <1>10, <1>11, <1>13, <1>14 DEF SaveInv

\* A worker never finds anything to check: there are only parts of a saveAll.
LEMMA NeverChecks == ASSUME SaveInv, NEW w \in Workers, CheckPlayer(w) \/ CheckAll(w) PROVE FALSE
BY IdleFields DEF SaveInv, WorkersOK, CheckPlayer, CheckAll

-----------------------------------------------------------------------------
(* Saving                                                                   *)

\* Whom a thread saves, or waits to save.
LEMMA SavedObject ==
    ASSUME SaveInv, NEW th \in Threads, job[th].op \in {"lock", "save"}
    PROVE  /\ job[th].obj \in Objects /\ CharOf(job[th].obj) \in Chars /\ Full(job[th].obj)
           /\ job[th] \in JobType
           /\ th \in Workers => place[job[th].obj] = "game" /\ job[th].next = "stay"
<1>1. CASE th = GameThread
  BY <1>1, CharOfType, Consts DEF SaveInv, GameOK, PlacesOK, InMemory, TypeOK
<1>2. CASE th \in Workers
  BY <1>2, CharOfType, IdleFields DEF SaveInv, WorkersOK, PlacesOK, InMemory, TypeOK
<1> QED BY <1>1, <1>2, Consts

\* Who saves a character saves the object that another thread saves of it.
LEMMA SameObject ==
    ASSUME SaveInv, NEW th \in Threads, NEW ti \in Threads,
           job[th].op \in {"lock", "save"}, job[ti].op \in {"lock", "save"},
           CharOf(job[th].obj) = CharOf(job[ti].obj)
    PROVE  job[th].obj = job[ti].obj
<1>1. ASSUME NEW w \in Workers, job[w].op \in {"lock", "save"}
      PROVE  job[w].obj \in Objects /\ InMemory(job[w].obj)
             /\ job[GameThread].op \in {"submit", "await"}
  BY <1>1, IdleFields DEF SaveInv, WorkersOK, InMemory
<1>2. CASE th \in Workers /\ ti \in Workers
  BY <1>1, <1>2 DEF SaveInv, PlacesOK
<1>3. CASE th = GameThread \/ ti = GameThread
  BY <1>1, <1>3, Consts
<1> QED BY <1>2, <1>3, Consts

LEMMA StartSaveKeeps == ASSUME SaveInv, NEW th \in Threads, StartSave(th) PROVE SaveInv'
<1> DEFINE o == job[th].obj  c == CharOf(o)
<1>1. /\ job[th].op = "lock" /\ LockFree(o)
      /\ playerMap' = [playerMap EXCEPT ![c] = 0] /\ job' = [job EXCEPT ![th].op = "save"]
      /\ UNCHANGED <<state, place, content, db, made, asked, scheduledAt, now, queue>>
  BY DEF StartSave
<1>2. o \in Objects /\ c \in Chars /\ job[th] \in JobType /\ job[th].table = 1
  BY <1>1, SavedObject, Consts, IdleFields DEF SaveInv, GameOK, WorkersOK
<1>3. /\ job' \in [Threads -> JobType] /\ \A ti \in Threads \ {th} : job'[ti] = job[ti]
      /\ job'[th].op = "save" /\ job'[th].obj = o /\ job'[th].table = 1
      /\ job'[th].next = job[th].next /\ job'[th].by = job[th].by
  <2>1. [job[th] EXCEPT !.op = "save"] \in JobType
    BY <1>2 DEF JobType
  <2> QED BY <1>1, <1>2, <2>1 DEF SaveInv, TypeOK, JobType
<1>4. TypeOK'
  BY <1>1, <1>2, <1>3 DEF SaveInv, TypeOK, state
<1>5. job'[GameThread].op \in {"submit", "await"} <=> job[GameThread].op \in {"submit", "await"}
  BY <1>1, <1>3, Consts
<1>6. QueueOK'
  BY <1>1, <1>3, <1>5 DEF SaveInv, QueueOK, PartOK
<1>7. WorkersOK'
  BY <1>1, <1>3, <1>5, Consts, IdleFields DEF SaveInv, WorkersOK
<1>8. GameOK'
  <2>1. CASE th = GameThread
    BY <1>1, <1>3, <2>1 DEF SaveInv, GameOK, Absent, InMemory, Full
  <2>2. CASE th # GameThread
    BY <1>1, <1>3, <2>2, Consts DEF SaveInv, GameOK, Absent, InMemory, Full
  <2> QED BY <2>1, <2>2
<1>9. PlacesOK'
  BY <1>1 DEF SaveInv, PlacesOK, InMemory, Full
<1>10. \A ti \in Threads : ~SavesObject(ti, c)
  BY <1>1, SameObject DEF LockFree, SavesObject
<1>11. TablesOK'
  <2>1. ASSUME NEW t1 \in Threads, NEW t2 \in Threads,
               job'[t1].op = "save", job'[t2].op = "save", job'[t1].obj = job'[t2].obj
        PROVE  t1 = t2
    <3>1. \A ti \in Threads \ {th} : ~(job[ti].op = "save" /\ job[ti].obj = o)
      BY <1>10 DEF SavesObject
    <3> QED BY <1>3, <2>1, <3>1 DEF SaveInv, TablesOK
  <2>2. \A t, u \in Tables : db[c][t] = db[c][u]
    BY <1>2, <1>10 DEF SaveInv, TablesOK
  <2>3. ASSUME NEW ti \in Threads, NEW d \in Chars, SavesObject(ti, d)'
        PROVE  /\ \A t \in Tables : t < job'[ti].table => db[d][t] = made[d]
               /\ \A t, u \in Tables : t >= job'[ti].table /\ u >= job'[ti].table => db[d][t] = db[d][u]
    <3>1. CASE ti = th
      BY <1>3, <2>2, <2>3, <3>1, Consts DEF SavesObject
    <3>2. CASE ti # th
      BY <1>3, <2>3, <3>2 DEF SaveInv, TablesOK, SavesObject
    <3> QED BY <3>1, <3>2
  <2>4. ASSUME NEW d \in Chars, \A ti \in Threads : ~SavesObject(ti, d)'
        PROVE  \A t, u \in Tables : db[d][t] = db[d][u]
    <3>1. \A ti \in Threads : ~SavesObject(ti, d)
      BY <1>1, <1>3, <2>4 DEF SavesObject
    <3> QED BY <3>1 DEF SaveInv, TablesOK
  <2> QED BY <1>1, <2>1, <2>3, <2>4 DEF TablesOK
<1>12. StoredOK'
  <2>1. \A d \in Chars : GameSaves(d)' <=> GameSaves(d)
    BY <1>1, <1>3, Consts DEF GameSaves
  <2> QED BY <1>1, <2>1 DEF SaveInv, StoredOK
<1> QED BY <1>4, <1>6, <1>7, <1>8, <1>9, <1>11, <1>12 DEF SaveInv

LEMMA SaveTableKeeps ==
    ASSUME SaveInv, NEW th \in Threads, SaveTable(th)
    PROVE  /\ SaveInv'
           /\ \A c \in Chars, t \in Tables : db'[c][t] = db[c][t] \/ db'[c][t] = made[c]
<1> DEFINE o == job[th].obj  c == CharOf(o)  k == job[th].table
<1>1. /\ job[th].op = "save" /\ k \in Tables /\ db' = [db EXCEPT ![c][k] = content[o][k]]
      /\ job' = [job EXCEPT ![th].table = k + 1]
      /\ UNCHANGED <<state, place, content, made, asked, saves>>
  BY DEF SaveTable
<1>2. /\ o \in Objects /\ c \in Chars /\ job[th] \in JobType /\ content[o][k] = made[c]
      /\ made[c] \subseteq Changes
  BY <1>1, SavedObject DEF Full, SaveInv, TypeOK
<1>3. /\ job' \in [Threads -> JobType] /\ \A ti \in Threads \ {th} : job'[ti] = job[ti]
      /\ job'[th].op = "save" /\ job'[th].obj = o /\ job'[th].table = k + 1
      /\ job'[th].next = job[th].next /\ job'[th].by = job[th].by
  <2>1. k + 1 \in 1..(LastTable + 1)
    BY <1>1, Consts
  <2>2. [job[th] EXCEPT !.table = k + 1] \in JobType
    BY <1>2, <2>1 DEF JobType
  <2> QED BY <1>1, <1>2, <2>2 DEF SaveInv, TypeOK, JobType
<1>4. /\ db' \in [Chars -> [Tables -> SUBSET Changes]] /\ db'[c][k] = made[c]
      /\ \A t \in Tables \ {k} : db'[c][t] = db[c][t]
      /\ \A d \in Chars \ {c} : db'[d] = db[d]
  BY <1>1, <1>2 DEF SaveInv, TypeOK
<1>5. TypeOK'
  BY <1>1, <1>3, <1>4 DEF SaveInv, TypeOK, state, saves
<1>6. job'[GameThread].op = job[GameThread].op /\ job'[GameThread].obj = job[GameThread].obj
  BY <1>1, <1>3, Consts
<1>7. QueueOK'
  BY <1>1, <1>6 DEF SaveInv, QueueOK, PartOK, saves
<1>8. WorkersOK'
  BY <1>1, <1>3, <1>6, Consts, IdleFields DEF SaveInv, WorkersOK
<1>9. GameOK'
  <2>1. CASE th = GameThread
    BY <1>1, <1>3, <2>1 DEF SaveInv, GameOK, Absent, InMemory, Full
  <2>2. CASE th # GameThread
    BY <1>1, <1>3, <2>2, Consts DEF SaveInv, GameOK, Absent, InMemory, Full
  <2> QED BY <2>1, <2>2
<1>10. PlacesOK'
  BY <1>1 DEF SaveInv, PlacesOK, InMemory, Full
<1>11. \A ti \in Threads : \A d \in Chars : SavesObject(ti, d)' <=> SavesObject(ti, d)
  BY <1>1, <1>3 DEF SavesObject
<1>12. SavesObject(th, c)
  BY <1>1 DEF SavesObject
<1>13. ASSUME NEW ti \in Threads, NEW d \in Chars, SavesObject(ti, d)
       PROVE  /\ \A t \in Tables : t < job'[ti].table => db'[d][t] = made[d]
              /\ \A t, u \in Tables : t >= job'[ti].table /\ u >= job'[ti].table =>
                    db'[d][t] = db'[d][u]
  <2>1. /\ \A t \in Tables : t < job[ti].table => db[d][t] = made[d]
        /\ \A t, u \in Tables : t >= job[ti].table /\ u >= job[ti].table => db[d][t] = db[d][u]
    BY <1>13 DEF SaveInv, TablesOK
  <2>2. CASE ti = th
    <3>1. d = c /\ job'[ti].table = k + 1 /\ k \in Nat /\ \A t \in Tables : t \in Nat
      BY <1>1, <1>3, <1>13, <2>2, Consts DEF SavesObject
    <3>2. \A t \in Tables : t < k + 1 => t < k \/ t = k
      BY <3>1
    <3>3. \A t \in Tables : t >= k + 1 => t >= k /\ t # k
      BY <3>1
    <3> QED BY <1>4, <2>1, <2>2, <3>1, <3>2, <3>3
  <2>3. CASE ti # th
    <3>1. d # c
      BY <1>12, <1>13, <2>3, OneSaver
    <3> QED BY <1>3, <1>4, <2>1, <2>3, <3>1
  <2> QED BY <2>2, <2>3
<1>14. ASSUME NEW d \in Chars, \A ti \in Threads : ~SavesObject(ti, d)
       PROVE  \A t, u \in Tables : db'[d][t] = db'[d][u]
  BY <1>4, <1>12, <1>14 DEF SaveInv, TablesOK
<1>15. TablesOK'
  <2>1. \A t1, t2 \in Threads :
           job'[t1].op = "save" /\ job'[t2].op = "save" /\ job'[t1].obj = job'[t2].obj => t1 = t2
    BY <1>1, <1>3 DEF SaveInv, TablesOK
  <2> QED BY <1>1, <1>11, <1>13, <1>14, <2>1 DEF TablesOK
<1>16. StoredOK'
  <2>1. ASSUME NEW d \in Chars, \A p \in Objects : CharOf(p) = d => place[p] # "game",
               ~GameSaves(d), NEW t \in Tables
        PROVE  db'[d][t] = made[d]
    <3>1. db[d][t] = made[d]
      BY <2>1 DEF SaveInv, StoredOK
    <3> QED BY <1>4, <3>1
  <2> QED BY <1>1, <1>6, <2>1 DEF StoredOK, GameSaves
<1>17. \A d \in Chars, t \in Tables : db'[d][t] = db[d][t] \/ db'[d][t] = made[d]
  BY <1>4
<1> QED BY <1>5, <1>7, <1>8, <1>9, <1>10, <1>15, <1>16, <1>17 DEF SaveInv

LEMMA EndSaveKeeps == ASSUME SaveInv, Sync, NEW th \in Threads, EndSave(th) PROVE SaveInv'
<1> DEFINE o == job[th].obj  c == CharOf(o)  next == job[th].next
<1>1. /\ job[th].op = "save" /\ job[th].table \notin Tables
      /\ place' = [place EXCEPT ![o] = IF next = "stay" THEN @ ELSE next]
      /\ job' = [job EXCEPT ![th] = IF th = GameThread /\ closing
                                    THEN [Idle EXCEPT !.op = "kick"] ELSE Idle]
      /\ UNCHANGED <<state, content, db, made, asked, saves>>
  BY DEF EndSave, Sync
<1>2. /\ o \in Objects /\ c \in Chars /\ job[th] \in JobType
      /\ th \in Workers => place[o] = "game" /\ next = "stay"
  BY <1>1, SavedObject
<1>3. SavesObject(th, c)
  BY <1>1 DEF SavesObject
<1>4. \A t \in Tables : db[c][t] = made[c]
  <2>1. \A t \in Tables : t < job[th].table
    BY <1>1, <1>2, Consts DEF JobType
  <2> QED BY <1>2, <1>3, <2>1 DEF SaveInv, TablesOK
<1>5. /\ job' \in [Threads -> JobType] /\ \A ti \in Threads \ {th} : job'[ti] = job[ti]
      /\ job'[th].op \in {"idle", "kick"} /\ job'[th].obj = NoObject
      /\ th \in Workers => job'[th] = Idle
  <2>1. [Idle EXCEPT !.op = "kick"] \in JobType /\ [Idle EXCEPT !.op = "kick"].op = "kick"
        /\ [Idle EXCEPT !.op = "kick"].obj = NoObject
    BY IdleFields DEF JobType
  <2> QED BY <1>1, <2>1, Consts, IdleFields DEF SaveInv, TypeOK
<1>6. /\ place' \in [Objects -> {"free", "game", "dead", "gone"}]
      /\ \A p \in Objects \ {o} : place'[p] = place[p]
      /\ place'[o] = IF next = "stay" THEN place[o] ELSE next
      /\ next = "game" => FALSE
  BY <1>1, <1>2, Consts DEF SaveInv, TypeOK, JobType, GameOK
<1>7. \A p \in Objects : /\ place'[p] \in {"game", "dead"} => InMemory(p)
                         /\ place'[p] = "dead" => MayDie
                         /\ CharOf(p) # c => place'[p] = place[p]
  <2>1. next = "dead" => MayDie /\ place[o] = "game"
    BY <1>1, <1>2, Consts DEF SaveInv, GameOK
  <2> QED BY <1>6, <2>1 DEF SaveInv, PlacesOK, InMemory
<1>8. TypeOK'
  BY <1>1, <1>5, <1>6 DEF SaveInv, TypeOK, state, saves
<1>9. PlacesOK'
  BY <1>1, <1>7 DEF SaveInv, PlacesOK, InMemory, Full
<1>10. ASSUME NEW ti \in Threads, NEW d \in Chars, SavesObject(ti, d)'
       PROVE  ti # th /\ SavesObject(ti, d) /\ job'[ti] = job[ti]
  BY <1>5, <1>10 DEF SavesObject
<1>11. ASSUME NEW d \in Chars, \A ti \in Threads : ~SavesObject(ti, d)'
       PROVE  \A t, u \in Tables : db[d][t] = db[d][u]
  <2>1. CASE d = c
    BY <1>4, <2>1
  <2>2. CASE d # c
    <3>1. \A ti \in Threads : ~SavesObject(ti, d)
      BY <1>5, <1>11, <2>2 DEF SavesObject
    <3> QED BY <3>1 DEF SaveInv, TablesOK
  <2> QED BY <2>1, <2>2
<1>12. TablesOK'
  <2>1. \A t1, t2 \in Threads :
           job'[t1].op = "save" /\ job'[t2].op = "save" /\ job'[t1].obj = job'[t2].obj => t1 = t2
    BY <1>5 DEF SaveInv, TablesOK
  <2> QED BY <1>1, <1>10, <1>11, <2>1 DEF SaveInv, TablesOK
<1>13. StoredOK'
  <2>1. ASSUME NEW d \in Chars, d # c, \A p \in Objects : CharOf(p) = d => place'[p] # "game",
               ~GameSaves(d)'
        PROVE  \A t \in Tables : db[d][t] = made[d]
    <3>1. ~GameSaves(d)
      BY <1>1, <1>5, <2>1, Consts DEF GameSaves
    <3> QED BY <1>7, <2>1, <3>1 DEF SaveInv, StoredOK
  <2> QED BY <1>1, <1>4, <2>1 DEF StoredOK
<1>14. QueueOK' /\ WorkersOK' /\ GameOK'
  <2>1. CASE th = GameThread
    <3>1. queue = <<>> /\ \A w \in Workers : job'[w] = Idle
      BY <1>1, <1>5, <2>1, PoolRests, Consts
    <3> QED BY <1>1, <1>5, <2>1, <3>1 DEF QueueOK, WorkersOK, GameOK, saves
  <2>2. CASE th \in Workers
    <3>1. place' = place /\ job'[GameThread] = job[GameThread]
      BY <1>1, <1>2, <1>5, <2>2, Consts DEF SaveInv, TypeOK
    <3>2. job'[GameThread].op \in {"submit", "await"}
      BY <1>1, <2>2, <3>1, IdleFields DEF SaveInv, WorkersOK
    <3>3. QueueOK'
      BY <1>1, <3>1 DEF SaveInv, QueueOK, PartOK, saves
    <3>4. WorkersOK'
      BY <1>5, <2>2, <3>1, <3>2, Consts DEF SaveInv, WorkersOK
    <3>5. GameOK'
      BY <1>1, <3>1, <3>2 DEF SaveInv, GameOK
    <3> QED BY <3>3, <3>4, <3>5
  <2> QED BY <2>1, <2>2, Consts
<1> QED BY <1>8, <1>9, <1>12, <1>13, <1>14 DEF SaveInv

-----------------------------------------------------------------------------
(* Loading                                                                  *)

\* A character that is being loaded is not in memory and is not being saved.
LEMMA LoadsAbsent ==
    ASSUME SaveInv, NEW th \in Threads, job[th].op = "load"
    PROVE  /\ th = GameThread /\ job[th].obj \in Objects /\ CharOf(job[th].obj) \in Chars
           /\ Absent(CharOf(job[th].obj)) /\ job[th].next \in {"game", "free"}
           /\ queue = <<>> /\ \A w \in Workers : job[w] = Idle
           /\ \A ti \in Threads : job[ti].op # "save"
           /\ \A t \in Tables : db[CharOf(job[th].obj)][t] = made[CharOf(job[th].obj)]
<1>1. th = GameThread
  BY OnlyGameSubmits
<1>2. /\ job[th].obj \in Objects /\ CharOf(job[th].obj) \in Chars
      /\ Absent(CharOf(job[th].obj)) /\ job[th].next \in {"game", "free"}
  BY <1>1, CharOfType DEF SaveInv, GameOK
<1>3. queue = <<>> /\ \A w \in Workers : job[w] = Idle
  BY <1>1, PoolRests
<1>4. \A ti \in Threads : job[ti].op # "save"
  BY <1>1, <1>3, Consts, IdleFields
<1>5. \A t \in Tables : db[CharOf(job[th].obj)][t] = made[CharOf(job[th].obj)]
  BY <1>1, <1>2 DEF SaveInv, StoredOK, GameSaves, Absent, InMemory
<1> QED BY <1>1, <1>2, <1>3, <1>4, <1>5

LEMMA LoadTableKeeps == ASSUME SaveInv, NEW th \in Threads, LoadTable(th) PROVE SaveInv'
<1> DEFINE j == job[GameThread]  o == j.obj  c == CharOf(o)  k == j.table
<1>1. /\ job[th].op = "load" /\ th = GameThread
      /\ o \in Objects /\ c \in Chars /\ Absent(c) /\ j.next \in {"game", "free"}
      /\ queue = <<>> /\ \A w \in Workers : job[w] = Idle
      /\ \A ti \in Threads : job[ti].op # "save"
      /\ \A t \in Tables : db[c][t] = made[c]
  BY LoadsAbsent DEF LoadTable
<1>2. /\ k \in Tables /\ content' = [content EXCEPT ![o][k] = db[c][k]]
      /\ job' = [job EXCEPT ![GameThread].table = k + 1]
      /\ UNCHANGED <<state, place, db, made, asked, saves>>
  BY <1>1 DEF LoadTable
<1>3. /\ job' \in [Threads -> JobType] /\ \A w \in Workers : job'[w] = job[w]
      /\ job'[GameThread].op = "load" /\ job'[GameThread].obj = o
      /\ job'[GameThread].table = k + 1 /\ job'[GameThread].next = j.next
  <2>1. k + 1 \in 1..(LastTable + 1)
    BY <1>2, Consts
  <2>2. j \in JobType
    BY Consts DEF SaveInv, TypeOK
  <2>3. [j EXCEPT !.table = k + 1] \in JobType
    BY <2>1, <2>2 DEF JobType
  <2> QED BY <1>1, <1>2, <2>2, <2>3, Consts DEF SaveInv, TypeOK, JobType
<1>4. /\ content' \in [Objects -> [Tables -> SUBSET Changes]] /\ content'[o][k] = made[c]
      /\ \A t \in Tables \ {k} : content'[o][t] = content[o][t]
      /\ \A p \in Objects \ {o} : content'[p] = content[p]
  BY <1>1, <1>2 DEF SaveInv, TypeOK
<1>5. TypeOK'
  BY <1>2, <1>3, <1>4 DEF SaveInv, TypeOK, state, saves
<1>6. QueueOK' /\ WorkersOK'
  BY <1>1, <1>2, <1>3 DEF QueueOK, WorkersOK, saves
<1>7. GameOK'
  <2>1. ASSUME NEW t \in Tables, t < k + 1 PROVE content'[o][t] = made[c]
    <3>1. t = k \/ t < k
      BY <1>2, <2>1, Consts
    <3> QED BY <1>1, <1>4, <3>1 DEF SaveInv, GameOK
  <2>2. Absent(c)'
    BY <1>1, <1>2 DEF Absent, InMemory
  <2> QED BY <1>1, <1>2, <1>3, <2>1, <2>2 DEF GameOK
<1>8. PlacesOK'
  <2>1. \A p \in Objects : InMemory(p) => p # o
    BY <1>1 DEF Absent
  <2> QED BY <1>2, <1>4, <2>1 DEF SaveInv, PlacesOK, InMemory, Full
<1>9. \A ti \in Threads : job'[ti].op # "save"
  BY <1>1, <1>3, Consts
<1>10. TablesOK'
  BY <1>1, <1>2, <1>9 DEF SaveInv, TablesOK, SavesObject
<1>11. StoredOK'
  BY <1>1, <1>2, <1>3 DEF SaveInv, StoredOK, GameSaves
<1> QED BY <1>5, <1>6, <1>7, <1>8, <1>10, <1>11 DEF SaveInv

LEMMA LoadedKeeps == ASSUME SaveInv, NEW th \in Threads, Loaded(th) PROVE SaveInv'
<1> DEFINE j == job[GameThread]  o == j.obj  c == CharOf(o)
<1>1. /\ job[th].op = "load" /\ th = GameThread
      /\ o \in Objects /\ c \in Chars /\ Absent(c) /\ j.next \in {"game", "free"}
      /\ queue = <<>> /\ \A w \in Workers : job[w] = Idle
      /\ \A ti \in Threads : job[ti].op # "save"
      /\ \A t \in Tables : db[c][t] = made[c]
  BY LoadsAbsent DEF Loaded
<1>2. Full(o)
  <2>1. j \in JobType /\ j.table \notin Tables
    BY <1>1, Consts DEF Loaded, SaveInv, TypeOK
  <2>2. \A t \in Tables : t < j.table
    BY <2>1, Consts DEF JobType
  <2> QED BY <1>1, <2>2 DEF SaveInv, GameOK, Full
<1>3. CASE j.next = "game"
  <2>1. /\ place' = [place EXCEPT ![o] = "game"] /\ asked' = [asked EXCEPT ![o] = {}]
        /\ job' = [job EXCEPT ![GameThread] = Idle]
        /\ UNCHANGED <<content, made, state, db, saves>>
    BY <1>1, <1>3 DEF Loaded
  <2>2. /\ place' \in [Objects -> {"free", "game", "dead", "gone"}] /\ place'[o] = "game"
        /\ \A p \in Objects \ {o} : place'[p] = place[p]
        /\ asked' \in [Objects -> SUBSET Changes]
    BY <1>1, <2>1 DEF SaveInv, TypeOK
  <2>3. job' \in [Threads -> JobType] /\ \A ti \in Threads : job'[ti] = Idle
    BY <1>1, <2>1, Consts, IdleFields DEF SaveInv, TypeOK
  <2>4. TypeOK'
    BY <2>1, <2>2, <2>3 DEF SaveInv, TypeOK, state, saves
  <2>5. QueueOK' /\ WorkersOK' /\ GameOK'
    BY <1>1, <2>1, <2>3, Consts, IdleFields DEF QueueOK, WorkersOK, GameOK, saves
  <2>6. PlacesOK'
    <3>1. ASSUME NEW p \in Objects, InMemory(p)'
          PROVE  p = o \/ (InMemory(p) /\ CharOf(p) # c)
      BY <1>1, <2>2, <3>1 DEF InMemory, Absent
    <3>2. \A p \in Objects : Full(p)' <=> Full(p)
      BY <2>1 DEF Full
    <3>3. \A p \in Objects : place'[p] = "dead" => place[p] = "dead"
      BY <2>2
    <3> QED BY <1>2, <3>1, <3>2, <3>3 DEF SaveInv, PlacesOK
  <2>7. \A ti \in Threads : job'[ti].op # "save"
    BY <2>3, IdleFields
  <2>8. TablesOK'
    BY <1>1, <2>1, <2>7 DEF SaveInv, TablesOK, SavesObject
  <2>9. StoredOK'
    <3>1. ASSUME NEW d \in Chars, \A p \in Objects : CharOf(p) = d => place'[p] # "game"
          PROVE  \A t \in Tables : db[d][t] = made[d]
      <4>1. \A p \in Objects : CharOf(p) = d => place[p] # "game"
        BY <1>1, <2>2, <3>1
      <4> QED BY <1>1, <4>1 DEF SaveInv, StoredOK, GameSaves
    <3> QED BY <2>1, <3>1 DEF StoredOK
  <2> QED BY <2>4, <2>5, <2>6, <2>8, <2>9 DEF SaveInv
<1>4. CASE j.next # "game"
  <2>1. /\ Begin(GameThread, "lock", o, "free")
        /\ UNCHANGED <<place, asked, state, db, saves>>
    BY <1>1, <1>4 DEF Loaded
  <2>2. PICK k \in Unused : Change(o, k)
    BY <1>1, <1>4 DEF Loaded
  <2>3. /\ content' \in [Objects -> [Tables -> SUBSET Changes]]
        /\ made' \in [Chars -> SUBSET Changes]
        /\ \A t \in Tables : content'[o][t] = content[o][t] \cup {k}
        /\ made'[c] = made[c] \cup {k}
        /\ \A p \in Objects \ {o} : content'[p] = content[p]
        /\ \A d \in Chars \ {c} : made'[d] = made[d]
    BY <1>1, <2>2 DEF Change, Unused, SaveInv, TypeOK
  <2>4. /\ job' \in [Threads -> JobType]
        /\ job'[GameThread].op = "lock" /\ job'[GameThread].obj = o
        /\ job'[GameThread].next = "free" /\ job'[GameThread].table = 1
        /\ \A w \in Workers : job'[w] = job[w]
    BY <1>1, <2>1, Begun DEF SaveInv
  <2>5. TypeOK'
    BY <2>1, <2>3, <2>4 DEF SaveInv, TypeOK, state, saves
  <2>6. QueueOK' /\ WorkersOK'
    BY <1>1, <2>1, <2>4 DEF QueueOK, WorkersOK, saves
  <2>7. GameOK'
    <3>1. Full(o)'
      BY <1>2, <2>3, <2>4 DEF Full
    <3>2. Absent(c)'
      BY <1>1, <2>1, <2>4 DEF Absent, InMemory
    <3> QED BY <1>1, <2>4, <3>1, <3>2 DEF GameOK
  <2>8. PlacesOK'
    <3>1. \A p \in Objects : InMemory(p) => p # o /\ CharOf(p) # c
      BY <1>1 DEF Absent
    <3> QED BY <2>1, <2>3, <3>1, CharOfType DEF SaveInv, PlacesOK, InMemory, Full
  <2>9. \A ti \in Threads : job'[ti].op # "save"
    BY <1>1, <2>4, Consts, IdleFields
  <2>10. TablesOK'
    BY <1>1, <2>1, <2>9 DEF SaveInv, TablesOK, SavesObject
  <2>11. StoredOK'
    <3>1. ASSUME NEW d \in Chars, \A p \in Objects : CharOf(p) = d => place[p] # "game",
                 ~GameSaves(d)'
          PROVE  \A t \in Tables : db[d][t] = made'[d]
      <4>1. d # c /\ ~GameSaves(d)
        BY <1>1, <2>4, <3>1 DEF GameSaves
      <4> QED BY <2>3, <3>1, <4>1 DEF SaveInv, StoredOK
    <3> QED BY <2>1, <3>1 DEF StoredOK
  <2> QED BY <2>5, <2>6, <2>7, <2>8, <2>10, <2>11 DEF SaveInv
<1> QED BY <1>3, <1>4

-----------------------------------------------------------------------------
(* The invariant                                                            *)

LEMMA SaveStarts == Init => SaveInv
<1> SUFFICES ASSUME Init PROVE SaveInv
  OBVIOUS
<1>1. \A th \in Threads : job[th] = Idle
  BY DEF Init
<1>2. /\ \A o \in Objects : place[o] = "free"
      /\ \A c \in Chars, t \in Tables : db[c][t] = {} /\ made[c] = {}
      /\ queue = <<>>
  BY DEF Init
<1>3. TypeOK
  <2>1. job \in [Threads -> JobType] /\ queue \in Seq(TaskType)
    BY IdleFields DEF Init
  <2>2. /\ content \in [Objects -> [Tables -> SUBSET Changes]]
        /\ db \in [Chars -> [Tables -> SUBSET Changes]]
    BY DEF Init
  <2> QED BY <2>1, <2>2 DEF Init, TypeOK
<1>4. QueueOK /\ WorkersOK /\ GameOK
  BY <1>1, <1>2, Consts, IdleFields DEF QueueOK, WorkersOK, GameOK
<1>5. PlacesOK
  BY <1>2 DEF PlacesOK, InMemory
<1>6. TablesOK /\ StoredOK
  BY <1>1, <1>2, IdleFields DEF TablesOK, StoredOK, SavesObject
<1> QED BY <1>3, <1>4, <1>5, <1>6 DEF SaveInv

LEMMA WorkKeeps == ASSUME SaveInv, Sync, NEW th \in Threads, Work(th) PROVE SaveInv'
<1>1. ~LoadFails(th)
  BY DEF LoadFails, Sync
<1>2. CASE SubmitDone(th) \/ SaveAllDone(th)
  BY <1>2, SubmitDoneKeeps, SaveAllDoneKeeps
<1>3. CASE StartSave(th) \/ SaveTable(th) \/ EndSave(th)
  BY <1>3, StartSaveKeeps, SaveTableKeeps, EndSaveKeeps
<1>4. CASE LoadTable(th) \/ Loaded(th)
  BY <1>4, LoadTableKeeps, LoadedKeeps
<1>5. CASE \E o \in Objects : Submit(th, o)
  BY <1>5, SubmitKeeps
<1> QED BY <1>1, <1>2, <1>3, <1>4, <1>5 DEF Work

LEMMA StutterKeeps == ASSUME SaveInv, UNCHANGED vars PROVE SaveInv'
<1>1. UNCHANGED <<state, place, content, db, made, asked, saves, job>>
  BY DEF vars, state, saves
<1>2. TypeOK'
  BY <1>1 DEF SaveInv, TypeOK, state, saves
<1>3. QueueOK' /\ WorkersOK' /\ GameOK' /\ PlacesOK'
  BY <1>1 DEF SaveInv, QueueOK, PartOK, WorkersOK, GameOK, PlacesOK, InMemory, Absent, Full, saves
<1>4. TablesOK' /\ StoredOK'
  BY <1>1 DEF SaveInv, TablesOK, StoredOK, SavesObject, GameSaves
<1> QED BY <1>2, <1>3, <1>4 DEF SaveInv

LEMMA SaveStep == ASSUME SaveInv, Sync, [Next]_vars PROVE SaveInv'
<1>1. CASE Handler
  <2>1. CASE \/ scheduleAll \/ setGameState
             \/ \E c \in Chars : Login(c) \/ DeliverOffline(c)
             \/ \E o \in Objects : RequestSave(o) \/ Logout(o) \/ Die(o)
    BY <2>1, HandlerKeeps
  <2>2. CASE \E c \in Chars : AcceptMarketOffer(c)
    BY <2>2, MarketKeeps
  <2>3. CASE \E o \in Objects : Play(o) \/ Respawn(o) \/ LeaveDead(o)
    BY <2>3, PlayKeeps, RespawnKeeps, LeaveDeadKeeps
  <2> QED BY <1>1, <2>1, <2>2, <2>3 DEF Handler
<1>2. CASE Closing
  BY <1>2, HandlerKeeps DEF Closing
<1>3. CASE Crash
  BY <1>3 DEF Crash, Sync
<1>4. CASE \E th \in Threads : Work(th)
  BY <1>4, WorkKeeps
<1>5. CASE \E w \in Workers : PoolWork(w)
  BY <1>5, TakeKeeps, NeverChecks DEF PoolWork
<1>6. CASE \E o \in Objects : Release(o)
  BY <1>6, ReleaseKeeps
<1>7. CASE UNCHANGED vars
  BY <1>7, StutterKeeps
<1> QED BY <1>1, <1>2, <1>3, <1>4, <1>5, <1>6, <1>7 DEF Next

\* The pool works for a saveAll the game thread waits for, a character is in
\* memory once and complete, and a save fills the tables from the first on.
THEOREM SaveInvariance == ASSUME Sync PROVE Spec => []SaveInv
<1>1. SaveInv /\ [Next]_vars => SaveInv'
  BY SaveStep
<1> QED BY <1>1, SaveStarts, PTL DEF Spec

LEMMA InvSaved == ASSUME SaveInv PROVE SavedWhenAbsent
<1>1. ASSUME NEW o \in Objects, NEW p \in Objects, CharOf(o) = CharOf(p), o # p,
             place[o] = "game"
      PROVE  place[p] \in {"free", "gone"} /\ ~(job[GameThread].obj = p)
  <2>1. place[p] \in {"free", "gone"}
    BY <1>1 DEF SaveInv, PlacesOK, InMemory, TypeOK
  <2>2. ASSUME job[GameThread].obj = p PROVE FALSE
    <3>1. job[GameThread] \in JobType /\ job[GameThread].op \in {"load", "lock", "save"}
      BY <2>2, Consts DEF SaveInv, TypeOK, GameOK, JobType
    <3>2. Absent(CharOf(p))
      BY <2>1, <2>2, <3>1 DEF SaveInv, GameOK
    <3> QED BY <1>1, <3>2 DEF Absent, InMemory
  <2> QED BY <2>1, <2>2
<1>2. ASSUME NEW c \in Chars, Of(c, {"game", "dead"}) = {}, ~Busy(c), NEW t \in Tables
      PROVE  db[c][t] = made[c]
  <2>1. \A o \in Objects : CharOf(o) = c => place[o] # "game"
    BY <1>2 DEF Of
  <2>2. ~GameSaves(c)
    <3>1. ASSUME GameSaves(c) PROVE FALSE
      <4>1. job[GameThread].obj \in Objects /\ CharOf(job[GameThread].obj) = c
        BY <3>1 DEF GameSaves, SaveInv, GameOK
      <4>2. Held(job[GameThread].obj)
        BY <3>1, Consts DEF GameSaves, Held
      <4> QED BY <1>2, <4>1, <4>2 DEF Busy
    <3> QED BY <3>1
  <2> QED BY <2>1, <2>2 DEF SaveInv, StoredOK
<1> QED BY <1>1, <1>2 DEF SavedWhenAbsent, OneObject

\* A character nobody holds in memory is in the database as it last was, in
\* every table, and is in memory at most once: what onRemoveCreature and the
\* temporary objects of mail, houses and the market rely on.
THEOREM SavedAlways == ASSUME Sync PROVE Spec => []SavedWhenAbsent
BY SaveInvariance, InvSaved, PTL

LEMMA InvNotTorn == ASSUME SaveInv PROVE NotTorn
<1>1. ASSUME NEW c \in Chars, \A o \in Objects : CharOf(o) = c => ~Saving(o)
      PROVE  \A th \in Threads : ~SavesObject(th, c)
  <2>1. ASSUME NEW th \in Threads, SavesObject(th, c) PROVE FALSE
    <3>1. job[th].obj \in Objects /\ CharOf(job[th].obj) = c /\ job[th].op = "save"
      BY <2>1, SavedObject DEF SavesObject
    <3> QED BY <1>1, <3>1 DEF Saving
  <2> QED BY <2>1
<1> QED BY <1>1 DEF NotTorn, SaveInv, TablesOK

\* Between saves the tables of a character agree, as long as no statement of a
\* save fails: savePlayerGuard needs no transaction for that.
THEOREM NeverTorn == ASSUME Sync PROVE Spec => []NotTorn
BY SaveInvariance, InvNotTorn, PTL

-----------------------------------------------------------------------------
(* In memory once, in every mode                                            *)

NotInGame(c) == \A o \in Objects : CharOf(o) = c => place[o] # "game"

\* With any of the options, whatever fails and whenever the process dies: who is
\* in the game or dead is there once, a worker's save moves nobody, and what the
\* game thread has in hand is the player of the game or else a character who is
\* not in it.
OnceInv ==
    /\ \A o, p \in Objects : InMemory(o) /\ InMemory(p) /\ CharOf(o) = CharOf(p) => o = p
    /\ \A w \in Workers : job[w].next = "stay" /\ job[w].op # "load"
    /\ LET j == job[GameThread] IN j.obj \in Objects =>
          \/ j.op = "load" /\ j.next = "game" /\ Absent(CharOf(j.obj))
          \/ j.op \in {"load", "lock", "save"} /\ j.next = "free" /\ NotInGame(CharOf(j.obj))
          \/ /\ j.op \in {"lock", "save"} /\ j.next \in {"stay", "gone", "dead"}
             /\ place[j.obj] = "game"

\* The game thread takes up an object, or nothing, and no object moves.
LEMMA OnceBegins ==
    ASSUME TypeOK, OnceInv, UNCHANGED place, NEW o \in Objects \cup {NoObject},
           NEW op \in {"load", "lock", "kick", "submit"},
           NEW next \in {"stay", "game", "gone", "dead", "free"},
           Begin(GameThread, op, o, next),
           o \in Objects =>
              \/ op = "load" /\ next = "game" /\ Absent(CharOf(o))
              \/ op \in {"load", "lock"} /\ next = "free" /\ NotInGame(CharOf(o))
              \/ op = "lock" /\ next \in {"stay", "gone", "dead"} /\ place[o] = "game"
    PROVE  OnceInv'
<1>1. /\ job'[GameThread].op = op /\ job'[GameThread].obj = o /\ job'[GameThread].next = next
      /\ \A w \in Workers : job'[w] = job[w]
  BY Begun
<1> QED BY <1>1 DEF OnceInv, InMemory, Absent, NotInGame

\* The game thread has nothing in hand, and somebody in memory moves.
LEMMA OnceMoves ==
    ASSUME TypeOK, OnceInv, UNCHANGED job, job[GameThread].obj \notin Objects,
           NEW o \in Objects, InMemory(o), NEW to, place' = [place EXCEPT ![o] = to]
    PROVE  OnceInv'
<1>1. \A p \in Objects \ {o} : place'[p] = place[p]
  BY DEF TypeOK
<1>2. \A p \in Objects : InMemory(p)' => InMemory(p)
  BY <1>1 DEF InMemory
<1> QED BY <1>2 DEF OnceInv

\* Whoever is taken out of hand, nobody else is.
LEMMA OncePut ==
    ASSUME OnceInv, UNCHANGED place, NEW th \in Threads,
           \A ti \in Threads \ {th} : job'[ti] = job[ti],
           job'[th].next = "stay", job'[th].op # "load",
           th = GameThread => job'[th].obj \notin Objects
    PROVE  OnceInv'
BY Consts DEF OnceInv, InMemory, Absent, NotInGame

LEMMA OnceSaves ==
    ASSUME TypeOK, OnceInv, NEW o \in InGame, NEW next \in {"stay", "gone", "dead"},
           job[GameThread].obj \notin Objects, savePlayer(o, next)
    PROVE  OnceInv'
<1>1. o \in Objects /\ place[o] = "game" /\ InMemory(o)
  BY DEF InGame, InMemory
<1>2. CASE SaveAsync /\ gameState # "shutdown"
  BY <1>1, <1>2, OnceMoves DEF savePlayer
<1>3. CASE ~(SaveAsync /\ gameState # "shutdown")
  <2>1. Begin(GameThread, "lock", o, next) /\ UNCHANGED place
    BY <1>3 DEF savePlayer
  <2> QED BY <1>1, <2>1, OnceBegins
<1> QED BY <1>2, <1>3

\* Between its handlers the game thread holds nothing.
LEMMA NothingInHand ==
    ASSUME OnceInv, job[GameThread].op \in {"idle", "kick", "submit", "await", "check"}
    PROVE  job[GameThread].obj \notin Objects
BY DEF OnceInv

LEMMA OnceHandler == ASSUME TypeOK, OnceInv, Handler \/ Closing PROVE OnceInv'
<1>1. job[GameThread].op \in {"idle", "kick"}
  BY DEF Handler, Closing, scheduleAll, setGameState, Login, DeliverOffline,
     AcceptMarketOffer, Play, RequestSave, Logout, Die, Respawn, LeaveDead, KickDone, Kick,
     GameIdle
<1>2. job[GameThread].obj \notin Objects
  BY <1>1, NothingInHand
<1>3. ASSUME UNCHANGED <<place, job>> PROVE OnceInv'
  BY <1>3 DEF OnceInv, InMemory, Absent, NotInGame
<1>4. CASE scheduleAll \/ setGameState \/ KickDone
  <2>1. UNCHANGED place
    BY <1>4 DEF scheduleAll, setGameState, KickDone
  <2>2. \/ UNCHANGED job
        \/ \E op \in {"kick", "submit"} : Begin(GameThread, op, NoObject, "stay")
    BY <1>4 DEF scheduleAll, setGameState, KickDone
  <2> QED BY <1>3, <2>1, <2>2, OnceBegins, Consts
<1>5. ASSUME NEW c \in Chars, LoadTemporary(c), NotInGame(c) PROVE OnceInv'
  <2>1. PICK o \in Objects : Begin(GameThread, "load", o, "free") /\ CharOf(o) = c
    BY <1>5 DEF LoadTemporary, Fresh, Of
  <2> QED BY <1>5, <2>1, OnceBegins DEF LoadTemporary
<1>6. ASSUME NEW c \in Chars, Login(c) PROVE OnceInv'
  <2>1. PICK o \in Objects : Begin(GameThread, "load", o, "game") /\ CharOf(o) = c
    BY <1>6 DEF Login, Fresh, Of
  <2>2. Absent(c)
    BY <1>6 DEF Login, Of, Absent, InMemory
  <2> QED BY <1>6, <2>1, <2>2, OnceBegins DEF Login
<1>7. ASSUME NEW c \in Chars, DeliverOffline(c) PROVE OnceInv'
  BY <1>5, <1>7 DEF DeliverOffline, Of, NotInGame
<1>8. ASSUME NEW c \in Chars, AcceptMarketOffer(c) PROVE OnceInv'
  <2>1. CASE UNCHANGED <<place, job>>
    BY <1>3, <2>1
  <2>2. CASE Of(c, {"game", "dead"}) = {} /\ LoadTemporary(c)
    BY <1>5, <2>2 DEF Of, NotInGame
  <2> QED BY <1>8, <2>1, <2>2 DEF AcceptMarketOffer
<1>9. ASSUME NEW o \in Objects, RequestSave(o) \/ Logout(o) \/ Die(o) \/ Kick(o) PROVE OnceInv'
  <2>1. o \in InGame /\ \E next \in {"stay", "gone", "dead"} : savePlayer(o, next)
    BY <1>9 DEF RequestSave, Logout, Die, Kick, Kicked
  <2> QED BY <1>2, <2>1, OnceSaves
<1>10. ASSUME NEW o \in Objects, Respawn(o) \/ LeaveDead(o) PROVE OnceInv'
  <2>1. /\ place[o] = "dead" /\ UNCHANGED job
        /\ \E to \in {"game", "gone"} : place' = [place EXCEPT ![o] = to]
    BY <1>10 DEF Respawn, LeaveDead
  <2> QED BY <1>2, <2>1, OnceMoves DEF InMemory
<1>11. ASSUME NEW o \in Objects, Play(o) PROVE OnceInv'
  BY <1>3, <1>11 DEF Play
<1> QED BY <1>4, <1>6, <1>7, <1>8, <1>9, <1>10, <1>11 DEF Handler, Closing

LEMMA OnceWork == ASSUME TypeOK, OnceInv, NEW th \in Threads, Work(th) PROVE OnceInv'
<1>1. job[th] \in JobType
  BY DEF TypeOK
<1>2. ASSUME NEW op \in {"await", "save"}, job[th].op = "submit" \/ op = "save",
             op = "save" => job[th].op = "lock",
             job' = [job EXCEPT ![th].op = op], UNCHANGED place
      PROVE  OnceInv'
  <2>1. /\ job'[th].op = op /\ job'[th].obj = job[th].obj /\ job'[th].next = job[th].next
        /\ \A ti \in Threads \ {th} : job'[ti] = job[ti]
    BY <1>1, <1>2 DEF TypeOK, JobType
  <2> QED BY <1>2, <2>1, Consts DEF OnceInv, InMemory, Absent, NotInGame
<1>3. ASSUME UNCHANGED place, job'[th].op = job[th].op, job'[th].obj = job[th].obj,
             job'[th].next = job[th].next, \A ti \in Threads \ {th} : job'[ti] = job[ti]
      PROVE  OnceInv'
  BY <1>3, Consts DEF OnceInv, InMemory, Absent, NotInGame
<1>4. ASSUME UNCHANGED place, job' = [job EXCEPT ![th] = Idle] PROVE OnceInv'
  <2>1. job'[th] = Idle /\ \A ti \in Threads \ {th} : job'[ti] = job[ti]
    BY <1>4 DEF TypeOK
  <2> QED BY <1>4, <2>1, OncePut, IdleFields, Consts
<1>5. CASE SubmitDone(th) \/ StartSave(th)
  BY <1>2, <1>5 DEF SubmitDone, StartSave
<1>6. CASE SaveAllDone(th) \/ LoadFails(th)
  BY <1>4, <1>6 DEF SaveAllDone, LoadFails
<1>7. CASE SaveTable(th) \/ LoadTable(th)
  <2>1. PICK t : job' = [job EXCEPT ![th].table = t] /\ UNCHANGED place
    BY <1>7 DEF SaveTable, LoadTable
  <2> QED BY <1>1, <1>3, <2>1 DEF TypeOK, JobType
<1>8. ASSUME NEW o \in Objects, Submit(th, o) PROVE OnceInv'
  <2>1. PICK s : job' = [job EXCEPT ![th].seen = s] /\ UNCHANGED place
    BY <1>8 DEF Submit
  <2> QED BY <1>1, <1>3, <2>1 DEF TypeOK, JobType
<1>9. CASE EndSave(th)
  <2> DEFINE o == job[th].obj  next == job[th].next
             j == IF th = GameThread /\ closing THEN [Idle EXCEPT !.op = "kick"] ELSE Idle
  <2>1. /\ job[th].op = "save" /\ job' = [job EXCEPT ![th] = j]
        /\ place' = [place EXCEPT ![o] = IF next = "stay" THEN @ ELSE next]
    BY <1>9 DEF EndSave
  <2>2. j.next = "stay" /\ j.op # "load" /\ j.obj = NoObject
    BY IdleFields DEF JobType
  <2> HIDE DEF j
  <2>3. job'[th] = j /\ \A ti \in Threads \ {th} : job'[ti] = job[ti]
    BY <2>1 DEF TypeOK
  <2>4. CASE next = "stay"
    <3>1. UNCHANGED place
      BY <2>1, <2>4 DEF TypeOK
    <3> QED BY <2>2, <2>3, <3>1, OncePut, Consts
  <2>5. CASE next # "stay"
    <3>1. th = GameThread
      BY <2>5, Consts DEF OnceInv
    <3>2. CASE o \in Objects
      <4>1. /\ next = "free" \/ (next \in {"gone", "dead"} /\ place[o] = "game")
            /\ \A p \in Objects \ {o} : place'[p] = place[p]
            /\ place'[o] = next
        BY <2>1, <2>5, <3>1, <3>2 DEF OnceInv, TypeOK
      <4>2. \A p \in Objects : InMemory(p)' => InMemory(p)
        BY <4>1 DEF InMemory
      <4>3. job'[GameThread].obj \notin Objects /\ \A w \in Workers : job'[w] = job[w]
        BY <2>2, <2>3, <3>1, Consts
      <4> QED BY <4>2, <4>3 DEF OnceInv
    <3>3. CASE o \notin Objects
      <4>1. UNCHANGED place
        BY <2>1, <3>3 DEF TypeOK
      <4> QED BY <2>2, <2>3, <4>1, OncePut, Consts
    <3> QED BY <3>2, <3>3
  <2> QED BY <2>4, <2>5
<1>10. CASE Loaded(th)
  <2> DEFINE o == job[th].obj
  <2>1. job[th].op = "load" /\ th = GameThread
    BY <1>10, Consts DEF Loaded, OnceInv
  <2>2. CASE job[th].next = "game"
    <3>1. place' = [place EXCEPT ![o] = "game"] /\ job' = [job EXCEPT ![th] = Idle]
      BY <1>10, <2>2 DEF Loaded
    <3>2. job'[GameThread].obj = NoObject /\ \A w \in Workers : job'[w] = job[w]
      BY <2>1, <3>1, Consts, IdleFields DEF TypeOK
    <3>3. \A p \in Objects \ {o} : place'[p] = place[p]
      BY <3>1 DEF TypeOK
    <3>4. ASSUME NEW p \in Objects, InMemory(p)'
          PROVE  p = o \/ (InMemory(p) /\ (o \in Objects => CharOf(p) # CharOf(o)))
      BY <2>1, <2>2, <3>3, <3>4 DEF InMemory, OnceInv, Absent
    <3> QED BY <3>2, <3>4, Consts DEF OnceInv
  <2>3. CASE job[th].next # "game"
    <3>1. Begin(GameThread, "lock", o, "free") /\ UNCHANGED place
      BY <1>10, <2>1, <2>3 DEF Loaded
    <3>2. o \in Objects \cup {NoObject}
      BY <1>1 DEF JobType
    <3>3. o \in Objects => NotInGame(CharOf(o))
      BY <2>1, <2>3 DEF OnceInv
    <3> QED BY <3>1, <3>2, <3>3, OnceBegins
  <2> QED BY <2>2, <2>3
<1> QED BY <1>5, <1>6, <1>7, <1>8, <1>9, <1>10 DEF Work

LEMMA OncePool == ASSUME TypeOK, OnceInv, NEW w \in Workers, PoolWork(w) PROVE OnceInv'
<1>1. job[w] \in JobType /\ job[w].next = "stay"
  BY Consts DEF TypeOK, OnceInv
<1>2. PICK j : job' = [job EXCEPT ![w] = j] /\ j.next = "stay" /\ j.op # "load"
  <2>1. CASE Take(w)
    <3> DEFINE j == [Idle EXCEPT !.op = IF Head(queue).kind = "part" THEN "lock" ELSE "check",
                                 !.obj = Head(queue).obj, !.stamp = Head(queue).stamp,
                                 !.by = Head(queue).by]
    <3>1. job' = [job EXCEPT ![w] = j]
      BY <2>1 DEF Take
    <3>2. j.next = "stay" /\ j.op # "load"
      BY IdleFields DEF JobType
    <3> QED BY <3>1, <3>2
  <2>2. CASE CheckPlayer(w)
    <3>1. [job[w] EXCEPT !.op = "lock"].next = "stay" /\ [job[w] EXCEPT !.op = "lock"].op = "lock"
      BY <1>1 DEF JobType
    <3> QED BY <2>2, <3>1, IdleFields DEF CheckPlayer
  <2>3. CASE CheckAll(w)
    <3>1. [Idle EXCEPT !.op = "submit"].next = "stay" /\ [Idle EXCEPT !.op = "submit"].op = "submit"
      BY IdleFields DEF JobType
    <3> QED BY <2>3, <3>1, IdleFields DEF CheckAll
  <2> QED BY <2>1, <2>2, <2>3 DEF PoolWork
<1>3. UNCHANGED place
  BY DEF PoolWork, Take, CheckPlayer, CheckAll
<1>4. job'[w] = j /\ \A ti \in Threads \ {w} : job'[ti] = job[ti]
  BY <1>2, Consts DEF TypeOK
<1> QED BY <1>2, <1>3, <1>4, OncePut, Consts

-----------------------------------------------------------------------------
(* Types, in every mode                                                     *)

\* Who loads, saves or waits to save has an object, and so has a part of a saveAll.
Works(j) == j.op \in {"load", "lock", "save"} => j.obj \in Objects
Part(task) == task.kind = "part" => task.obj \in Objects
JobsOK == job \in [Threads -> JobType] /\ \A th \in Threads : Works(job[th])
QueueType == queue \in Seq(TaskType) /\ \A i \in DOMAIN queue : Part(queue[i])
StampsOK == playerMap \in [Chars -> Nat] /\ scheduledAt \in Nat /\ now \in Nat
RowsOK ==
    /\ content \in [Objects -> [Tables -> SUBSET Changes]]
    /\ db \in [Chars -> [Tables -> SUBSET Changes]]
    /\ made \in [Chars -> SUBSET Changes]
PlaceType ==
    /\ gameState \in {"normal", "closed", "shutdown", "halted"} /\ closing \in BOOLEAN
    /\ place \in [Objects -> {"free", "game", "dead", "gone"}]
    /\ asked \in [Objects -> SUBSET Changes]

TypeInv == JobsOK /\ QueueType /\ StampsOK /\ RowsOK /\ PlaceType

LEMMA TypesHold == ASSUME TypeInv PROVE TypeOK
BY DEF TypeInv, TypeOK, JobsOK, QueueType, StampsOK, RowsOK, PlaceType

LEMMA JobPut ==
    ASSUME JobsOK, NEW th \in Threads, NEW j \in JobType, Works(j), job' = [job EXCEPT ![th] = j]
    PROVE  JobsOK'
BY DEF JobsOK

LEMMA JobBegins ==
    ASSUME JobsOK, NEW th \in Threads, NEW op \in {"load", "lock", "kick", "submit"},
           NEW o \in Objects \cup {NoObject}, op \in {"load", "lock"} => o \in Objects,
           NEW next \in {"stay", "game", "dead", "gone", "free"}, Begin(th, op, o, next)
    PROVE  JobsOK'
<1> DEFINE j == [Idle EXCEPT !.op = op, !.obj = o, !.next = next]
<1>1. j \in JobType /\ Works(j)
  BY IdleFields DEF JobType, Works
<1> HIDE DEF j
<1> QED BY <1>1, JobPut DEF Begin, j

LEMMA QueueAppend ==
    ASSUME QueueType, NEW task \in TaskType, Part(task), queue' = Append(queue, task)
    PROVE  QueueType'
BY DEF QueueType

LEMMA Changed ==
    ASSUME RowsOK, NEW o \in Objects, NEW k \in Unused, Change(o, k), UNCHANGED db
    PROVE  RowsOK'
<1>1. CharOf(o) \in Chars /\ k \in Changes
  BY CharOfType DEF Unused
<1> QED BY <1>1 DEF RowsOK, Change

LEMMA AskedType ==
    ASSUME PlaceType, NEW o \in Objects, asked' = [asked EXCEPT ![o] = Holds(o)]
    PROVE  asked' \in [Objects -> SUBSET Changes]
BY DEF PlaceType, Holds

LEMMA TypeSaves ==
    ASSUME TypeInv, NEW o \in Objects, NEW next \in {"stay", "gone", "dead"},
           savePlayer(o, next), UNCHANGED <<state, content, db, made>>
    PROVE  TypeInv'
<1>1. RowsOK' /\ asked' \in [Objects -> SUBSET Changes]
  BY AskedType DEF TypeInv, savePlayer, RowsOK
<1>2. CASE SaveAsync /\ gameState # "shutdown"
  <2> DEFINE task == [kind |-> "player", obj |-> o, stamp |-> now + 1, by |-> NoObject]
  <2>1. /\ now' = now + 1 /\ playerMap' = [playerMap EXCEPT ![CharOf(o)] = now + 1]
        /\ queue' = Append(queue, task)
        /\ place' = [place EXCEPT ![o] = IF next = "stay" THEN @ ELSE next]
        /\ UNCHANGED <<scheduledAt, job>>
    BY <1>2 DEF savePlayer, schedulePlayer
  <2>2. task \in TaskType /\ Part(task)
    BY DEF TypeInv, TaskType, Part, StampsOK
  <2>3. QueueType'
    BY <2>1, <2>2, QueueAppend DEF TypeInv
  <2>4. StampsOK'
    BY <2>1, CharOfType DEF TypeInv, StampsOK
  <2>5. JobsOK'
    BY <2>1 DEF TypeInv, JobsOK
  <2>6. PlaceType'
    BY <1>1, <2>1 DEF TypeInv, PlaceType, state
  <2> QED BY <1>1, <2>3, <2>4, <2>5, <2>6 DEF TypeInv
<1>3. CASE ~(SaveAsync /\ gameState # "shutdown")
  <2>1. Begin(GameThread, "lock", o, next) /\ UNCHANGED <<place, saves>>
    BY <1>3 DEF savePlayer
  <2>2. JobsOK'
    BY <2>1, JobBegins, Consts DEF TypeInv
  <2> QED BY <1>1, <2>1, <2>2 DEF TypeInv, QueueType, StampsOK, PlaceType, saves, state
<1> QED BY <1>2, <1>3

LEMMA TypeHandler == ASSUME TypeInv, Handler \/ Closing PROVE TypeInv'
<1>1. CASE scheduleAll
  <2> DEFINE task == [kind |-> "all", obj |-> NoObject, stamp |-> now + 1, by |-> NoObject]
  <2>1. /\ now' = now + 1 /\ scheduledAt' = now + 1
        /\ UNCHANGED <<state, place, content, db, made, asked, playerMap>>
        /\ \/ queue' = Append(queue, task) /\ UNCHANGED job
           \/ Begin(GameThread, "submit", NoObject, "stay") /\ UNCHANGED queue
    BY <1>1 DEF scheduleAll
  <2>2. task \in TaskType /\ Part(task)
    BY DEF TypeInv, TaskType, Part, StampsOK
  <2>3. QueueType' /\ JobsOK'
    BY <2>1, <2>2, QueueAppend, JobBegins, Consts DEF TypeInv, QueueType, JobsOK
  <2> QED BY <2>1, <2>3 DEF TypeInv, StampsOK, RowsOK, PlaceType, state
<1>2. CASE setGameState
  <2>1. /\ gameState' \in {"normal", "closed", "shutdown"} /\ closing' \in BOOLEAN
        /\ Begin(GameThread, "kick", NoObject, "stay") \/ UNCHANGED job
        /\ UNCHANGED <<place, content, db, made, asked, saves>>
    BY <1>2 DEF TypeInv, setGameState, PlaceType
  <2>2. JobsOK'
    BY <2>1, JobBegins, Consts DEF TypeInv, JobsOK
  <2> QED BY <2>1, <2>2 DEF TypeInv, QueueType, StampsOK, RowsOK, PlaceType, saves
<1>3. CASE KickDone
  <2>1. JobsOK'
    BY <1>3, JobBegins, Consts DEF TypeInv, KickDone
  <2> QED BY <1>3, <2>1 DEF TypeInv, KickDone, QueueType, StampsOK, RowsOK, PlaceType, saves, state
<1>4. ASSUME NEW o \in Objects, NEW next \in {"game", "free"}, Begin(GameThread, "load", o, next),
             UNCHANGED <<state, place, content, db, made, asked, saves>>
      PROVE  TypeInv'
  <2>1. JobsOK'
    BY <1>4, JobBegins, Consts DEF TypeInv
  <2> QED BY <1>4, <2>1 DEF TypeInv, QueueType, StampsOK, RowsOK, PlaceType, saves, state
<1>5. CASE \E c \in Chars : Login(c) \/ DeliverOffline(c)
  BY <1>4, <1>5 DEF Login, DeliverOffline, LoadTemporary, Fresh, Of
<1>6. ASSUME NEW o \in Objects, NEW k \in Unused, Change(o, k),
             UNCHANGED <<state, place, db, asked, saves, job>>
      PROVE  TypeInv'
  BY <1>6, Changed DEF TypeInv, JobsOK, QueueType, StampsOK, PlaceType, saves, state
<1>7. ASSUME NEW c \in Chars, AcceptMarketOffer(c) PROVE TypeInv'
  <2>1. CASE LoadTemporary(c)
    BY <1>4, <2>1 DEF LoadTemporary, Fresh, Of
  <2>2. CASE /\ \E o \in Of(c, {"dead"}), k \in Unused : Change(o, k)
             /\ UNCHANGED <<state, place, db, asked, saves, job>>
    BY <1>6, <2>2 DEF Of
  <2> QED BY <1>7, <2>1, <2>2 DEF AcceptMarketOffer
<1>8. ASSUME NEW o \in Objects, Play(o) PROVE TypeInv'
  BY <1>6, <1>8 DEF Play
<1>9. ASSUME NEW o \in Objects, RequestSave(o) \/ Logout(o) \/ Die(o) \/ Kick(o) PROVE TypeInv'
  BY <1>9, TypeSaves DEF RequestSave, Logout, Die, Kick
<1>10. ASSUME NEW o \in Objects, Respawn(o) \/ LeaveDead(o) PROVE TypeInv'
  BY <1>10 DEF TypeInv, Respawn, LeaveDead, JobsOK, QueueType, StampsOK, RowsOK, PlaceType,
     saves, state
<1> QED BY <1>1, <1>2, <1>3, <1>5, <1>7, <1>8, <1>9, <1>10 DEF Handler, Closing

LEMMA TypeWork == ASSUME TypeInv, NEW th \in Threads, Work(th) PROVE TypeInv'
<1> DEFINE o == job[th].obj
<1>1. job[th] \in JobType /\ Works(job[th])
  BY DEF TypeInv, JobsOK
<1>2. CASE SubmitDone(th)
  <2>1. [job[th] EXCEPT !.op = "await"] \in JobType /\ Works([job[th] EXCEPT !.op = "await"])
    BY <1>1 DEF JobType, Works
  <2>2. JobsOK'
    BY <1>2, <2>1, JobPut DEF TypeInv, SubmitDone
  <2> QED BY <1>2, <2>2 DEF TypeInv, SubmitDone, QueueType, StampsOK, RowsOK, PlaceType, saves, state
<1>3. CASE SaveAllDone(th)
  <2>1. JobsOK'
    BY <1>3, JobPut, IdleFields DEF TypeInv, SaveAllDone, Works
  <2>2. gameState' \in {"normal", "closed", "shutdown", "halted"} /\ closing' \in BOOLEAN
    BY <1>3 DEF TypeInv, SaveAllDone, PlaceType, state
  <2> QED BY <1>3, <2>1, <2>2 DEF TypeInv, SaveAllDone, QueueType, StampsOK, RowsOK, PlaceType, saves
<1>4. CASE StartSave(th)
  <2>1. o \in Objects /\ CharOf(o) \in Chars
    BY <1>1, <1>4, CharOfType DEF StartSave, Works
  <2>2. [job[th] EXCEPT !.op = "save"] \in JobType /\ Works([job[th] EXCEPT !.op = "save"])
    BY <1>1, <2>1 DEF JobType, Works
  <2>3. JobsOK'
    BY <1>4, <2>2, JobPut DEF TypeInv, StartSave
  <2> QED BY <1>4, <2>1, <2>3 DEF TypeInv, StartSave, QueueType, StampsOK, RowsOK, PlaceType, state
<1>5. CASE SaveTable(th) \/ LoadTable(th)
  <2> DEFINE t == job[th].table
  <2>1. o \in Objects /\ CharOf(o) \in Chars /\ t \in Tables /\ t + 1 \in 1..(LastTable + 1)
    BY <1>1, <1>5, CharOfType, Consts DEF SaveTable, LoadTable, Works
  <2>2. [job[th] EXCEPT !.table = t + 1] \in JobType /\ Works([job[th] EXCEPT !.table = t + 1])
    BY <1>1, <2>1 DEF JobType, Works
  <2>3. JobsOK'
    <3>1. job' = [job EXCEPT ![th] = [job[th] EXCEPT !.table = t + 1]]
      BY <1>5 DEF SaveTable, LoadTable
    <3> QED BY <2>2, <3>1, JobPut DEF TypeInv
  <2>4. content[o][t] \in SUBSET Changes /\ db[CharOf(o)][t] \in SUBSET Changes
    BY <2>1 DEF TypeInv, RowsOK
  <2>5. RowsOK'
    <3>1. CASE SaveTable(th)
      BY <2>1, <2>4, <3>1 DEF TypeInv, SaveTable, RowsOK
    <3>2. CASE LoadTable(th)
      BY <2>1, <2>4, <3>2 DEF TypeInv, LoadTable, RowsOK
    <3> QED BY <1>5, <3>1, <3>2
  <2> QED BY <1>5, <2>3, <2>5 DEF TypeInv, SaveTable, LoadTable, QueueType, StampsOK, PlaceType,
          saves, state
<1>6. CASE EndSave(th)
  <2> DEFINE j == IF th = GameThread /\ closing THEN [Idle EXCEPT !.op = "kick"] ELSE Idle
  <2>1. o \in Objects
    BY <1>1, <1>6 DEF EndSave, Works
  <2>2. j \in JobType /\ Works(j)
    BY IdleFields DEF JobType, Works
  <2>3. JobsOK'
    BY <1>6, <2>2, JobPut DEF TypeInv, EndSave
  <2>4. PlaceType'
    BY <1>1, <1>6, <2>1 DEF TypeInv, EndSave, PlaceType, JobType, state
  <2> QED BY <1>6, <2>3, <2>4 DEF TypeInv, EndSave, QueueType, StampsOK, RowsOK, saves
<1>7. CASE LoadFails(th)
  <2>1. JobsOK'
    BY <1>7, JobPut, IdleFields DEF TypeInv, LoadFails, Works
  <2> QED BY <1>7, <2>1 DEF TypeInv, LoadFails, QueueType, StampsOK, RowsOK, PlaceType, saves, state
<1>8. CASE Loaded(th)
  <2>1. o \in Objects
    BY <1>1, <1>8 DEF Loaded, Works
  <2>2. CASE job[th].next = "game"
    <3>1. JobsOK'
      BY <1>8, <2>2, JobPut, IdleFields DEF TypeInv, Loaded, Works
    <3>2. PlaceType'
      BY <1>8, <2>1, <2>2 DEF TypeInv, Loaded, PlaceType, state
    <3> QED BY <1>8, <2>2, <3>1, <3>2 DEF TypeInv, Loaded, QueueType, StampsOK, RowsOK, saves
  <2>3. CASE job[th].next # "game"
    <3>1. JobsOK'
      BY <1>8, <2>1, <2>3, JobBegins DEF TypeInv, Loaded
    <3>2. RowsOK'
      BY <1>8, <2>1, <2>3, Changed DEF TypeInv, Loaded
    <3> QED BY <1>8, <2>3, <3>1, <3>2 DEF TypeInv, Loaded, QueueType, StampsOK, PlaceType, saves, state
  <2> QED BY <2>2, <2>3
<1>9. ASSUME NEW p \in Objects, Submit(th, p) PROVE TypeInv'
  <2> DEFINE task == [kind |-> "part", obj |-> p, stamp |-> 0, by |-> th]
             j == [job[th] EXCEPT !.seen = @ \cup {p}]
  <2>1. task \in TaskType /\ Part(task) /\ queue' = Append(queue, task)
    BY <1>9 DEF Submit, TaskType, Part
  <2>2. j \in JobType /\ Works(j)
    BY <1>1, <1>9 DEF JobType, Works, Submit
  <2>3. JobsOK'
    BY <1>9, <2>2, JobPut DEF TypeInv, Submit
  <2>4. QueueType'
    BY <2>1, QueueAppend DEF TypeInv
  <2>5. PlaceType'
    BY <1>9, AskedType DEF TypeInv, Submit, PlaceType, state
  <2> QED BY <1>9, <2>3, <2>4, <2>5 DEF TypeInv, Submit, StampsOK, RowsOK
<1> QED BY <1>2, <1>3, <1>4, <1>5, <1>6, <1>7, <1>8, <1>9 DEF Work

LEMMA TypePool == ASSUME TypeInv, NEW w \in Workers, PoolWork(w) PROVE TypeInv'
<1>1. job[w] \in JobType /\ Works(job[w]) /\ w \in Threads
  BY Consts DEF TypeInv, JobsOK
<1>2. CASE Take(w)
  <2> DEFINE task == Head(queue)
             j == [Idle EXCEPT !.op = IF task.kind = "part" THEN "lock" ELSE "check",
                               !.obj = task.obj, !.stamp = task.stamp, !.by = task.by]
  <2>1. /\ task \in TaskType /\ Part(task)
        /\ Tail(queue) \in Seq(TaskType)
        /\ \A i \in DOMAIN Tail(queue) : Part(Tail(queue)[i])
    <3>1. queue \in Seq(TaskType) /\ queue # <<>> /\ \A i \in DOMAIN queue : Part(queue[i])
      BY <1>2 DEF TypeInv, Take, QueueType
    <3>2. 1 \in DOMAIN queue /\ task = queue[1] /\ task \in TaskType
          /\ Tail(queue) \in Seq(TaskType)
          /\ \A i \in DOMAIN Tail(queue) : i + 1 \in DOMAIN queue /\ Tail(queue)[i] = queue[i + 1]
      BY <3>1
    <3> QED BY <3>1, <3>2
  <2>2. j \in JobType /\ Works(j)
    BY <2>1, IdleFields DEF JobType, TaskType, Works, Part
  <2> HIDE DEF j, task
  <2>3. JobsOK'
    BY <1>1, <1>2, <2>2, JobPut DEF TypeInv, Take, j, task
  <2>4. QueueType'
    BY <1>2, <2>1 DEF Take, QueueType
  <2> QED BY <1>2, <2>3, <2>4 DEF TypeInv, Take, StampsOK, RowsOK, PlaceType, state
<1>3. CASE CheckPlayer(w) \/ CheckAll(w)
  <2>1. PICK j \in JobType : Works(j) /\ job' = [job EXCEPT ![w] = j]
    <3>1. CASE CheckPlayer(w)
      <4>1. [job[w] EXCEPT !.op = "lock"] \in JobType /\ Works([job[w] EXCEPT !.op = "lock"])
        BY <1>1, <3>1 DEF CheckPlayer, JobType, Works
      <4> QED BY <3>1, <4>1, IdleFields DEF CheckPlayer, Works
    <3>2. CASE CheckAll(w)
      <4>1. [Idle EXCEPT !.op = "submit"] \in JobType /\ Works([Idle EXCEPT !.op = "submit"])
        BY IdleFields DEF JobType, Works
      <4> QED BY <3>2, <4>1, IdleFields DEF CheckAll, Works
    <3> QED BY <1>3, <3>1, <3>2
  <2>2. UNCHANGED <<state, place, content, db, made, asked, saves>>
    BY <1>3 DEF CheckPlayer, CheckAll
  <2> QED BY <1>1, <2>1, <2>2, JobPut DEF TypeInv, QueueType, StampsOK, RowsOK, PlaceType, saves, state
<1> QED BY <1>2, <1>3 DEF PoolWork

LEMMA OnceStep == ASSUME TypeInv, OnceInv, [Next]_vars PROVE TypeInv' /\ OnceInv'
<1>1. TypeOK
  BY TypesHold
<1>2. CASE Handler \/ Closing
  BY <1>1, <1>2, TypeHandler, OnceHandler
<1>3. CASE \E th \in Threads : Work(th)
  BY <1>1, <1>3, TypeWork, OnceWork
<1>4. CASE \E w \in Workers : PoolWork(w)
  BY <1>1, <1>4, TypePool, OncePool
<1>5. CASE Crash
  <2>1. JobsOK' /\ QueueType'
    BY <1>5, IdleFields DEF Crash, JobsOK, QueueType, Works
  <2>2. StampsOK' /\ RowsOK'
    BY <1>5 DEF TypeInv, Crash, StampsOK, RowsOK
  <2>3. PlaceType'
    BY <1>5 DEF TypeInv, Crash, PlaceType
  <2>4. OnceInv'
    BY <1>5, Consts, IdleFields DEF Crash, OnceInv, InMemory
  <2> QED BY <2>1, <2>2, <2>3, <2>4 DEF TypeInv
<1>6. ASSUME NEW o \in Objects, Release(o) PROVE TypeInv' /\ OnceInv'
  <2>1. /\ place[o] = "gone" /\ place' = [place EXCEPT ![o] = "free"]
        /\ UNCHANGED <<state, content, db, made, asked, saves, job>>
    BY <1>6 DEF Release
  <2>2. TypeInv'
    BY <2>1 DEF TypeInv, JobsOK, QueueType, StampsOK, RowsOK, PlaceType, saves, state
  <2>3. \A p \in Objects : /\ place'[p] = "game" <=> place[p] = "game"
                           /\ place'[p] = "dead" <=> place[p] = "dead"
    BY <1>1, <2>1 DEF TypeOK
  <2>4. OnceInv'
    BY <2>1, <2>3 DEF OnceInv, InMemory, Absent, NotInGame
  <2> QED BY <2>2, <2>4
<1>7. CASE UNCHANGED vars
  BY <1>7 DEF TypeInv, vars, OnceInv, InMemory, Absent, NotInGame,
     JobsOK, QueueType, StampsOK, RowsOK, PlaceType
<1> QED BY <1>2, <1>3, <1>4, <1>5, <1>6, <1>7 DEF Next

LEMMA OnceStarts == Init => TypeInv /\ OnceInv
<1> SUFFICES ASSUME Init PROVE TypeInv /\ OnceInv
  OBVIOUS
<1>1. JobsOK /\ QueueType
  BY IdleFields DEF Init, JobsOK, QueueType, Works
<1>2. RowsOK
  BY DEF Init, RowsOK
<1>3. StampsOK /\ PlaceType
  BY DEF Init, StampsOK, PlaceType
<1>4. OnceInv
  BY Consts, IdleFields DEF Init, OnceInv, InMemory
<1> QED BY <1>1, <1>2, <1>3, <1>4 DEF TypeInv

LEMMA InvOnce == ASSUME TypeOK, OnceInv PROVE OneObject
<1>1. ASSUME NEW o \in Objects, NEW p \in Objects, CharOf(o) = CharOf(p), o # p,
             place[o] = "game"
      PROVE  place[p] \in {"free", "gone"} /\ ~(job[GameThread].obj = p)
  <2>1. InMemory(o) /\ ~InMemory(p) /\ place[p] \in {"free", "gone"}
    BY <1>1 DEF OnceInv, InMemory, TypeOK
  <2>2. ~(job[GameThread].obj = p)
    BY <1>1, <2>1 DEF OnceInv, Absent, NotInGame, InMemory
  <2> QED BY <2>1, <2>2
<1> QED BY <1>1 DEF OneObject

\* With or without toggleSaveAsync, whatever saves fail and whenever the process
\* is killed, a character is in the game or dead in one Player object only, and
\* never in a temporary one while it is in the game: the lookups of login and of
\* getPlayerByGUID come before a new object is loaded.
THEOREM OneObjectAlways == Spec => [](TypeOK /\ OneObject)
<1>1. TypeInv /\ OnceInv /\ [Next]_vars => TypeInv' /\ OnceInv'
  BY OnceStep
<1>2. TypeInv /\ OnceInv => TypeOK /\ OneObject
  BY InvOnce, TypesHold
<1> QED BY <1>1, <1>2, OnceStarts, PTL DEF Spec

-----------------------------------------------------------------------------
(* In order of the tables, whatever fails                                   *)

\* No toggleSaveAsync; saves may fail and the process may die at any step.  Either
\* nobody dies, or no offline delivery passes over a dead player.
OneCopy == SaveAsync = FALSE /\ (MayDie = FALSE \/ Offline = FALSE)

\* An object is ahead of its rows: a save of it takes nothing back, and it holds in
\* an earlier table whatever it holds in a later one.
Ahead(o) ==
    /\ \A t, u \in Tables : t <= u => content[o][u] \subseteq content[o][t]
    /\ \A t \in Tables : db[CharOf(o)][t] \subseteq content[o][t]

HandOK ==
    LET j == job[GameThread] IN
    /\ j.op # "check" /\ (j.op = "lock" => j.table = 1)
    /\ j.obj \in Objects /\ j.next = "free" => Absent(CharOf(j.obj))
    /\ j.next = "dead" => MayDie
    /\ j.op = "load" => \A t \in Tables :
          t < j.table => content[j.obj][t] = db[CharOf(j.obj)][t]
    /\ j.op \in {"lock", "save"} => Ahead(j.obj)

\* A save has stored the tables up to its place, as the object has them.
Written(th) == \A t \in Tables :
    t < job[th].table => db[CharOf(job[th].obj)][t] = content[job[th].obj][t]

RowsInOrder ==
    /\ TornInOrder
    /\ \A o \in Objects : InMemory(o) => Ahead(o)
    /\ \A o \in Objects : place[o] = "dead" => MayDie

OrderInv ==
    /\ QueueOK /\ WorkersOK /\ HandOK /\ RowsInOrder
    /\ \A th \in Threads : job[th].op = "save" => Written(th)

\* The pool has nothing, and the game thread no save in progress.
LEMMA OrderSettles ==
    ASSUME queue' = <<>>, \A w \in Workers : job'[w] = Idle,
           HandOK', RowsInOrder', job'[GameThread].op # "save"
    PROVE  OrderInv'
BY Consts, IdleFields DEF OrderInv, QueueOK, WorkersOK

LEMMA OrderRests ==
    ASSUME OrderInv, job[GameThread].op \notin {"submit", "await"}
    PROVE  queue = <<>> /\ \A w \in Workers : job[w] = Idle
BY DEF OrderInv, QueueOK, WorkersOK

\* Nothing but the places of objects changes, and nobody comes into memory.
LEMMA RowsMove ==
    ASSUME OrderInv, UNCHANGED <<content, db>>,
           \A o \in Objects : InMemory(o)' => InMemory(o),
           \A o \in Objects : place'[o] = "dead" => MayDie
    PROVE  RowsInOrder'
BY DEF OrderInv, RowsInOrder, TornInOrder, Ahead

LEMMA OrderBegins ==
    ASSUME TypeInv, OrderInv, job[GameThread].op \notin {"submit", "await"},
           UNCHANGED <<place, content, db, queue>>,
           NEW o \in Objects \cup {NoObject}, NEW op \in {"load", "lock", "kick", "submit"},
           NEW next \in {"stay", "game", "dead", "gone", "free"},
           Begin(GameThread, op, o, next), op = "lock" => Ahead(o), next = "dead" => MayDie,
           o \in Objects /\ next = "free" => Absent(CharOf(o))
    PROVE  OrderInv'
<1>1. TypeOK
  BY TypesHold
<1>2. /\ job'[GameThread].op = op /\ job'[GameThread].obj = o
      /\ job'[GameThread].next = next /\ job'[GameThread].table = 1
      /\ \A w \in Workers : job'[w] = job[w]
  BY <1>1, Begun
<1>3. queue' = <<>> /\ \A w \in Workers : job'[w] = Idle
  BY <1>2, OrderRests
<1>4. HandOK'
  BY <1>2, Consts DEF HandOK, Absent, InMemory, Ahead
<1>5. RowsInOrder'
  BY DEF OrderInv, RowsInOrder, TornInOrder, Ahead, InMemory
<1> QED BY <1>2, <1>3, <1>4, <1>5, OrderSettles

\* A change shows in every table at once.
LEMMA AheadChanged ==
    ASSUME TypeInv, NEW o \in Objects, NEW k \in Unused, Change(o, k), UNCHANGED db,
           NEW p \in Objects, Ahead(p)
    PROVE  Ahead(p)'
<1>1. content'[o] = [t \in Tables |-> content[o][t] \cup {k}]
      /\ \A q \in Objects \ {o} : content'[q] = content[q]
  BY DEF Change, TypeInv, RowsOK
<1> QED BY <1>1 DEF Ahead

LEMMA RowsChanged ==
    ASSUME TypeInv, OrderInv, NEW o \in Objects, NEW k \in Unused, Change(o, k),
           UNCHANGED <<db, place>>
    PROVE  RowsInOrder'
BY AheadChanged DEF OrderInv, RowsInOrder, TornInOrder, InMemory

LEMMA OrderHandler ==
    ASSUME TypeInv, OnceInv, OrderInv, OneCopy, Handler \/ Closing
    PROVE  OrderInv'
<1>1. job[GameThread].op \in {"idle", "kick"} /\ job[GameThread].obj \notin Objects
  <2>1. job[GameThread].op \in {"idle", "kick"}
    BY DEF Handler, Closing, scheduleAll, setGameState, Login, DeliverOffline,
       AcceptMarketOffer, Play, RequestSave, Logout, Die, Respawn, LeaveDead, KickDone, Kick,
       GameIdle
  <2> QED BY <2>1, NothingInHand
<1>2. queue = <<>> /\ \A w \in Workers : job[w] = Idle
  BY <1>1, OrderRests
<1>3. ASSUME UNCHANGED <<queue, job>>, RowsInOrder' PROVE OrderInv'
  <2>1. HandOK'
    BY <1>1, <1>3 DEF OrderInv, HandOK
  <2> QED BY <1>1, <1>2, <1>3, <2>1, OrderSettles
<1>4. CASE scheduleAll \/ setGameState \/ KickDone
  <2>1. UNCHANGED <<place, content, db, queue>>
    BY <1>4 DEF OneCopy, scheduleAll, setGameState, KickDone, saves
  <2>2. \/ UNCHANGED job
        \/ \E op \in {"kick", "submit"} : Begin(GameThread, op, NoObject, "stay")
    BY <1>4 DEF OneCopy, scheduleAll, setGameState, KickDone
  <2>3. CASE UNCHANGED job
    BY <1>3, <2>1, <2>3, RowsMove DEF OrderInv, RowsInOrder, InMemory
  <2>4. CASE \E op \in {"kick", "submit"} : Begin(GameThread, op, NoObject, "stay")
    BY <1>1, <2>1, <2>4, OrderBegins, Consts
  <2> QED BY <2>2, <2>3, <2>4
<1>5. ASSUME NEW c \in Chars, LoadTemporary(c), Absent(c) PROVE OrderInv'
  <2>1. PICK o \in Objects : Begin(GameThread, "load", o, "free") /\ CharOf(o) = c
    BY <1>5 DEF LoadTemporary, Fresh, Of
  <2> QED BY <1>1, <1>5, <2>1, OrderBegins DEF LoadTemporary, saves
<1>6. ASSUME NEW c \in Chars, Login(c) PROVE OrderInv'
  <2>1. PICK o \in Objects : Begin(GameThread, "load", o, "game") /\ CharOf(o) = c
    BY <1>6 DEF Login, Fresh, Of
  <2> QED BY <1>1, <1>6, <2>1, OrderBegins DEF Login, saves
<1>7. ASSUME NEW c \in Chars, DeliverOffline(c) PROVE OrderInv'
  <2>1. Absent(c)
    BY <1>7 DEF DeliverOffline, Of, Absent, InMemory, OneCopy, OrderInv, RowsInOrder
  <2> QED BY <1>5, <1>7, <2>1 DEF DeliverOffline
<1>8. ASSUME NEW o \in Objects, NEW k \in Unused, Change(o, k), UNCHANGED <<db, place, queue, job>>
      PROVE  OrderInv'
  BY <1>3, <1>8, RowsChanged
<1>9. ASSUME NEW c \in Chars, AcceptMarketOffer(c) PROVE OrderInv'
  <2>1. CASE Of(c, {"game", "dead"}) = {} /\ LoadTemporary(c)
    BY <1>5, <2>1 DEF Of, Absent, InMemory
  <2>2. CASE /\ \E o \in Of(c, {"dead"}), k \in Unused : Change(o, k)
             /\ UNCHANGED <<state, place, db, asked, saves, job>>
    BY <1>8, <2>2 DEF Of, saves
  <2> QED BY <1>9, <2>1, <2>2 DEF AcceptMarketOffer
<1>10. ASSUME NEW o \in Objects, RequestSave(o) \/ Logout(o) \/ Die(o) \/ Kick(o) PROVE OrderInv'
  <2>1. place[o] = "game" /\ UNCHANGED <<content, db>>
        /\ \E next \in {"stay", "gone", "dead"} : savePlayer(o, next) /\ (next = "dead" => MayDie)
    BY <1>10 DEF RequestSave, Logout, Die, Kick, Kicked, InGame
  <2>2. /\ UNCHANGED <<place, queue>>
        /\ \E next \in {"stay", "gone", "dead"} :
              Begin(GameThread, "lock", o, next) /\ (next = "dead" => MayDie)
    BY <2>1 DEF savePlayer, OneCopy, saves
  <2>3. Ahead(o)
    BY <2>1 DEF OrderInv, RowsInOrder, InMemory
  <2> QED BY <1>1, <2>1, <2>2, <2>3, OrderBegins
<1>11. ASSUME NEW o \in Objects, Respawn(o) \/ LeaveDead(o) PROVE OrderInv'
  <2>1. /\ place[o] = "dead" /\ UNCHANGED <<content, db, queue, job>>
        /\ \E to \in {"game", "gone"} : place' = [place EXCEPT ![o] = to]
    BY <1>11 DEF Respawn, LeaveDead, saves
  <2>2. \A p \in Objects : InMemory(p)' => InMemory(p)
    BY <2>1 DEF TypeInv, PlaceType, InMemory
  <2>3. \A p \in Objects : place'[p] = "dead" => MayDie
    BY <2>1 DEF TypeInv, PlaceType, OrderInv, RowsInOrder
  <2> QED BY <1>3, <2>1, <2>2, <2>3, RowsMove
<1>12. ASSUME NEW o \in Objects, Play(o) PROVE OrderInv'
  BY <1>8, <1>12 DEF Play, saves
<1> QED BY <1>4, <1>6, <1>7, <1>9, <1>10, <1>11, <1>12 DEF Handler, Closing

\* The pool works on parts of a saveAll, and only on those.
LEMMA OrderPool ==
    ASSUME TypeInv, OrderInv, NEW w \in Workers, PoolWork(w) PROVE OrderInv'
<1>1. CASE CheckPlayer(w) \/ CheckAll(w)
  BY <1>1, IdleFields DEF OrderInv, WorkersOK, CheckPlayer, CheckAll
<1>2. CASE Take(w)
  <2> DEFINE task == Head(queue)
             j == [Idle EXCEPT !.op = IF task.kind = "part" THEN "lock" ELSE "check",
                               !.obj = task.obj, !.stamp = task.stamp, !.by = task.by]
  <2>1. /\ queue # <<>> /\ queue \in Seq(TaskType) /\ queue' = Tail(queue)
        /\ job' = [job EXCEPT ![w] = j] /\ UNCHANGED <<place, content, db>>
    BY <1>2 DEF Take, TypeInv, QueueType
  <2>2. PartOK(task) /\ \A i \in DOMAIN Tail(queue) : PartOK(Tail(queue)[i])
    <3>1. 1 \in DOMAIN queue /\ task = queue[1]
          /\ \A i \in DOMAIN Tail(queue) : i + 1 \in DOMAIN queue /\ Tail(queue)[i] = queue[i + 1]
      BY <2>1
    <3>2. \A i \in DOMAIN queue : PartOK(queue[i])
      BY DEF OrderInv, QueueOK
    <3> QED BY <3>1, <3>2
  <2>3. /\ j.op = "lock" /\ j.obj = task.obj /\ j.by = task.by /\ j.next = "stay" /\ j.table = 1
    BY <2>2, IdleFields DEF JobType, PartOK
  <2>4. job[GameThread].op \in {"submit", "await"}
    BY <2>1 DEF OrderInv, QueueOK
  <2> HIDE DEF j, task
  <2>5. job'[w] = j /\ \A th \in Threads \ {w} : job'[th] = job[th]
    BY <2>1, Consts DEF TypeInv, JobsOK
  <2>6. job'[GameThread] = job[GameThread]
    BY <2>5, Consts
  <2>7. QueueOK' /\ WorkersOK'
    <3>1. QueueOK'
      BY <2>1, <2>2, <2>4, <2>6 DEF QueueOK, PartOK
    <3>2. WorkersOK'
      BY <2>1, <2>2, <2>3, <2>4, <2>5, <2>6, Consts DEF OrderInv, WorkersOK, PartOK
    <3> QED BY <3>1, <3>2
  <2>8. HandOK'
    BY <2>1, <2>6 DEF OrderInv, HandOK, Absent, InMemory, Ahead
  <2>9. RowsInOrder'
    BY <2>1, RowsMove DEF OrderInv, RowsInOrder, InMemory
  <2>10. \A th \in Threads : job'[th].op = "save" => Written(th)'
    BY <2>1, <2>3, <2>5 DEF OrderInv, Written
  <2> QED BY <2>7, <2>8, <2>9, <2>10 DEF OrderInv
<1> QED BY <1>1, <1>2 DEF PoolWork
\* Two threads that save a character save the same object.
LEMMA SaversAgree ==
    ASSUME TypeInv, OnceInv, OrderInv, NEW th \in Threads, NEW ti \in Threads,
           job[th].op = "save", job[ti].op = "save",
           CharOf(job[th].obj) = CharOf(job[ti].obj)
    PROVE  job[th].obj = job[ti].obj
<1>1. ASSUME NEW w \in Workers, job[w].op = "save"
      PROVE  /\ job[w].obj \in Objects /\ InMemory(job[w].obj)
             /\ job[GameThread].op \in {"submit", "await"}
  BY <1>1, IdleFields DEF OrderInv, WorkersOK, InMemory
<1>2. CASE th \in Workers /\ ti \in Workers
  BY <1>1, <1>2 DEF OnceInv
<1>3. CASE th = GameThread \/ ti = GameThread
  BY <1>1, <1>3, Consts
<1> QED BY <1>2, <1>3, Consts

\* What is being saved is ahead of its rows, and nobody else of that character is
\* in memory.
LEMMA SavesAhead ==
    ASSUME TypeInv, OnceInv, OrderInv, NEW th \in Threads, job[th].op = "save"
    PROVE  /\ job[th].obj \in Objects /\ Ahead(job[th].obj)
           /\ \A p \in Objects : InMemory(p) /\ CharOf(p) = CharOf(job[th].obj) => p = job[th].obj
<1> DEFINE o == job[th].obj
<1>1. o \in Objects
  BY DEF TypeInv, JobsOK, Works
<1>2. CASE th \in Workers
  <2>1. InMemory(o)
    BY <1>2, IdleFields DEF OrderInv, WorkersOK, InMemory
  <2> QED BY <1>1, <2>1 DEF OrderInv, RowsInOrder, OnceInv
<1>3. CASE th = GameThread
  <2>1. Ahead(o)
    BY <1>3 DEF OrderInv, HandOK
  <2>2. Absent(CharOf(o)) \/ InMemory(o)
    BY <1>1, <1>3 DEF OnceInv, OrderInv, HandOK, InMemory
  <2> QED BY <1>1, <2>1, <2>2 DEF OnceInv, Absent
<1> QED BY <1>2, <1>3, Consts

LEMMA OrderStored ==
    ASSUME TypeInv, OnceInv, OrderInv, NEW th \in Threads, SaveTable(th)
    PROVE  OrderInv' /\ \A c \in Chars, t \in Tables : db[c][t] \subseteq db'[c][t]
<1> DEFINE o == job[th].obj
           c == CharOf(o)
           n == job[th].table
<1>1. /\ job[th].op = "save" /\ n \in Tables /\ n \in Nat
      /\ db' = [db EXCEPT ![c][n] = content[o][n]]
      /\ job' = [job EXCEPT ![th].table = n + 1]
      /\ UNCHANGED <<place, content, queue>>
  BY Consts DEF SaveTable, saves
<1>2. /\ o \in Objects /\ c \in Chars /\ Ahead(o)
      /\ \A p \in Objects : InMemory(p) /\ CharOf(p) = c => p = o
  BY <1>1, SavesAhead, CharOfType
<1>3. Written(th)
  BY <1>1 DEF OrderInv
<1>4. /\ db'[c][n] = content[o][n] /\ \A t \in Tables : t # n => db'[c][t] = db[c][t]
      /\ \A d \in Chars : d # c => db'[d] = db[d]
  BY <1>1, <1>2 DEF TypeInv, RowsOK
<1>5. /\ job'[th].op = "save" /\ job'[th].obj = o /\ job'[th].table = n + 1
      /\ job'[th].by = job[th].by /\ job'[th].next = job[th].next
      /\ \A ti \in Threads \ {th} : job'[ti] = job[ti]
  BY <1>1 DEF TypeInv, JobsOK, JobType
<1>6. \A ti \in Threads : /\ job'[ti].op = job[ti].op /\ job'[ti].obj = job[ti].obj
                          /\ job'[ti].next = job[ti].next /\ job'[ti].by = job[ti].by
  BY <1>1, <1>5
<1>7. \A t \in Tables : /\ content[o][t] = content'[o][t]
                        /\ t < n => db[c][t] = content[o][t]
                        /\ n <= t => content[o][t] \subseteq content[o][n]
                        /\ t <= n => content[o][n] \subseteq content[o][t]
                        /\ db[c][t] \subseteq content[o][t]
  BY <1>1, <1>2, <1>3 DEF Ahead, Written
<1> HIDE DEF n, o, c
<1>8. TornInOrder'
  <2>1. TornInOrder
    BY DEF OrderInv, RowsInOrder
  <2>2. ASSUME NEW t \in Tables, NEW u \in Tables, t <= u PROVE db'[c][u] \subseteq db'[c][t]
    <3>1. t \in Nat /\ u \in Nat
      BY Consts
    <3>2. CASE u = n /\ t = n
      BY <3>2
    <3>3. CASE u = n /\ t # n
      BY <1>1, <1>4, <1>7, <2>2, <3>1, <3>3
    <3>4. CASE u # n /\ t = n
      BY <1>1, <1>4, <1>7, <2>2, <3>1, <3>4
    <3>5. CASE u # n /\ t # n
      BY <1>2, <1>4, <2>1, <2>2, <3>5 DEF TornInOrder
    <3> QED BY <3>2, <3>3, <3>4, <3>5
  <2>3. ASSUME NEW d \in Chars, d # c, NEW t \in Tables, NEW u \in Tables, t <= u
        PROVE  db'[d][u] \subseteq db'[d][t]
    BY <1>4, <2>1, <2>3 DEF TornInOrder
  <2> QED BY <2>2, <2>3 DEF TornInOrder
<1>9. ASSUME NEW q \in Objects, q = o PROVE Ahead(q)'
  BY <1>1, <1>2, <1>4, <1>7, <1>9 DEF Ahead, c
<1>10. RowsInOrder'
  <2>1. ASSUME NEW p \in Objects, InMemory(p)' PROVE Ahead(p)'
    <3>1. InMemory(p) /\ Ahead(p)
      BY <1>1, <2>1 DEF InMemory, OrderInv, RowsInOrder
    <3>2. CASE CharOf(p) = c
      BY <1>2, <1>9, <3>1, <3>2
    <3>3. CASE CharOf(p) # c
      BY <1>1, <1>4, <3>1, <3>3, CharOfType DEF Ahead
    <3> QED BY <3>2, <3>3
  <2>2. \A p \in Objects : place'[p] = "dead" => MayDie
    BY <1>1 DEF OrderInv, RowsInOrder
  <2> QED BY <1>8, <2>1, <2>2 DEF RowsInOrder
<1>11. QueueOK' /\ WorkersOK'
  <2>1. QueueOK'
    BY <1>1, <1>6, Consts DEF OrderInv, QueueOK, PartOK
  <2>2. \A w \in Workers \ {th} : job'[w] = job[w]
    BY <1>5, Consts
  <2>3. th \in Workers => job[th] # Idle
    BY <1>1, IdleFields
  <2> QED BY <1>1, <1>5, <1>6, <2>1, <2>2, <2>3, Consts DEF OrderInv, WorkersOK
<1>12. HandOK'
  <2>1. CASE th = GameThread
    <3>1. job[GameThread].obj = o
      BY <2>1 DEF o
    <3>2. /\ job'[GameThread].op = "save" /\ job'[GameThread].obj = o
          /\ job'[GameThread].next = job[GameThread].next
      BY <1>1, <1>5, <2>1
    <3>3. Ahead(job[GameThread].obj)'
      BY <1>2, <1>9, <3>2
    <3>4. job[GameThread].next = "free" => Absent(CharOf(o))
      BY <1>2, <3>1 DEF OrderInv, HandOK
    <3>5. job'[GameThread].next = "free" => Absent(CharOf(job[GameThread].obj))'
      BY <1>1, <3>2, <3>4 DEF Absent, InMemory
    <3>6. job'[GameThread].next = "dead" => MayDie
      BY <3>2 DEF OrderInv, HandOK
    <3> QED BY <3>2, <3>3, <3>5, <3>6 DEF HandOK
  <2>2. CASE th # GameThread
    <3>1. job'[GameThread] = job[GameThread] /\ job[GameThread].op \in {"submit", "await"}
      BY <1>1, <1>5, <2>2, Consts, IdleFields DEF OrderInv, WorkersOK
    <3> QED BY <1>1, <3>1 DEF OrderInv, HandOK, Absent, InMemory
  <2> QED BY <2>1, <2>2
<1>13. ASSUME NEW ti \in Threads, job'[ti].op = "save" PROVE Written(ti)'
  <2> DEFINE p == job[ti].obj
  <2>1. job[ti].op = "save" /\ Written(ti) /\ p \in Objects /\ job'[ti].obj = p
    BY <1>6, <1>13 DEF OrderInv, TypeInv, JobsOK, Works
  <2>2. CASE ti = th
    <3>1. p = o
      BY <2>2 DEF o
    <3>2. \A t \in Tables : t < n + 1 => db'[c][t] = content'[o][t]
      <4> TAKE t \in Tables
      <4>1. t \in Nat
        BY Consts
      <4> QED BY <1>1, <1>4, <1>7, <4>1
    <3> QED BY <1>5, <2>2, <3>2 DEF Written, c
  <2>3. CASE ti # th /\ CharOf(p) = c
    <3>1. p = o
      BY <1>1, <2>1, <2>3, SaversAgree DEF o, c
    <3> QED BY <1>1, <1>4, <1>5, <2>1, <2>3, <3>1 DEF Written
  <2>4. CASE ti # th /\ CharOf(p) # c
    <3>1. db'[CharOf(p)] = db[CharOf(p)]
      BY <1>4, <2>1, <2>4, CharOfType
    <3> QED BY <1>1, <1>5, <2>1, <2>4, <3>1 DEF Written
  <2> QED BY <2>2, <2>3, <2>4
<1>14. \A d \in Chars, t \in Tables : db[d][t] \subseteq db'[d][t]
  BY <1>1, <1>4, <1>7
<1> QED BY <1>10, <1>11, <1>12, <1>13, <1>14 DEF OrderInv
\* The steps of a thread that store no row, move nobody and load nothing.
LEMMA OrderWorks ==
    ASSUME TypeInv, OrderInv, NEW th \in Threads,
           SubmitDone(th) \/ StartSave(th) \/ (\E o \in Objects : Submit(th, o))
    PROVE  OrderInv'
<1>1. /\ UNCHANGED <<place, content, db>> /\ RowsInOrder'
  <2>1. UNCHANGED <<place, content, db>>
    BY DEF SubmitDone, StartSave, Submit
  <2> QED BY <2>1, RowsMove DEF OrderInv, RowsInOrder, InMemory
<1>2. job[th] \in JobType
  BY DEF TypeInv, JobsOK
<1>3. CASE StartSave(th)
  <2>1. /\ job[th].op = "lock" /\ job' = [job EXCEPT ![th].op = "save"] /\ UNCHANGED queue
    BY <1>3 DEF StartSave
  <2>2. /\ job'[th].op = "save" /\ job'[th].obj = job[th].obj /\ job'[th].table = job[th].table
        /\ job'[th].by = job[th].by /\ job'[th].next = job[th].next
        /\ \A ti \in Threads \ {th} : job'[ti] = job[ti]
    BY <1>2, <2>1 DEF TypeInv, JobsOK, JobType
  <2>3. job[th].table = 1
    BY <2>1, Consts, IdleFields DEF OrderInv, WorkersOK, HandOK
  <2>4. QueueOK'
    BY <1>1, <2>1, <2>2, Consts DEF OrderInv, QueueOK, PartOK
  <2>5. WorkersOK'
    <3>1. CASE th = GameThread
      <4>1. \A w \in Workers : job[w] = Idle
        BY <2>1, <3>1, OrderRests
      <4> QED BY <2>2, <3>1, <4>1, Consts DEF WorkersOK
    <3>2. CASE th \in Workers
      <4>1. job'[GameThread] = job[GameThread] /\ job[th] # Idle
        BY <2>1, <2>2, <3>2, Consts, IdleFields
      <4> QED BY <1>1, <2>1, <2>2, <3>2, <4>1, Consts DEF OrderInv, WorkersOK
    <3> QED BY <3>1, <3>2, Consts
  <2>6. HandOK'
    <3>1. CASE th = GameThread
      BY <1>1, <2>1, <2>2, <3>1 DEF OrderInv, HandOK, Absent, InMemory, Ahead
    <3>2. CASE th # GameThread
      BY <1>1, <2>2, <3>2, Consts DEF OrderInv, HandOK, Absent, InMemory, Ahead
    <3> QED BY <3>1, <3>2
  <2>7. ASSUME NEW ti \in Threads, job'[ti].op = "save" PROVE Written(ti)'
    <3>1. CASE ti = th
      BY <2>2, <2>3, <3>1, Consts DEF Written
    <3>2. CASE ti # th
      BY <1>1, <2>2, <2>7, <3>2 DEF OrderInv, Written
    <3> QED BY <3>1, <3>2
  <2> QED BY <1>1, <2>4, <2>5, <2>6, <2>7 DEF OrderInv
<1>4. CASE SubmitDone(th) \/ \E o \in Objects : Submit(th, o)
  <2>1. job[th].op = "submit" /\ th = GameThread
    <3>1. job[th].op = "submit"
      BY <1>4 DEF SubmitDone, Submit
    <3> QED BY <3>1, Consts, IdleFields DEF OrderInv, WorkersOK
  <2>2. /\ job'[th].op \in {"submit", "await"} /\ job'[th].obj = job[th].obj
        /\ job'[th].next = job[th].next
        /\ \A w \in Workers : job'[w] = job[w]
    <3>1. CASE SubmitDone(th)
      BY <1>2, <2>1, <3>1, Consts DEF SubmitDone, TypeInv, JobsOK, JobType
    <3>2. CASE \E o \in Objects : Submit(th, o)
      <4>1. PICK s : job' = [job EXCEPT ![th].seen = s]
        BY <3>2 DEF Submit
      <4> QED BY <1>2, <2>1, <4>1, Consts DEF TypeInv, JobsOK, JobType
    <3> QED BY <1>4, <3>1, <3>2
  <2>3. \A i \in DOMAIN queue' : PartOK(queue'[i])
    <3>1. CASE SubmitDone(th)
      BY <3>1 DEF SubmitDone, saves, OrderInv, QueueOK
    <3>2. CASE \E o \in Objects : Submit(th, o)
      <4>1. PICK o \in InGame : queue' = Append(queue, [kind |-> "part", obj |-> o, stamp |-> 0,
                                                        by |-> th])
        BY <3>2 DEF Submit
      <4> DEFINE task == [kind |-> "part", obj |-> o, stamp |-> 0, by |-> th]
      <4>2. PartOK(task)
        BY <2>1, <4>1 DEF PartOK, InGame
      <4> HIDE DEF task
      <4>3. queue \in Seq(TaskType) /\ queue' = Append(queue, task)
        BY <4>1 DEF TypeInv, QueueType, task
      <4>4. \A i \in DOMAIN queue' : queue'[i] = task \/ (i \in DOMAIN queue /\ queue'[i] = queue[i])
        BY <4>3
      <4> QED BY <4>2, <4>4 DEF OrderInv, QueueOK
    <3> QED BY <1>4, <3>1, <3>2
  <2>4. QueueOK' /\ WorkersOK'
    <3>1. QueueOK'
      BY <1>1, <2>1, <2>2, <2>3 DEF QueueOK, PartOK
    <3>2. WorkersOK'
      BY <1>1, <2>1, <2>2 DEF OrderInv, WorkersOK
    <3> QED BY <3>1, <3>2
  <2>5. HandOK'
    BY <1>1, <2>1, <2>2 DEF OrderInv, HandOK, Absent, InMemory
  <2>6. ASSUME NEW ti \in Threads, job'[ti].op = "save" PROVE Written(ti)'
    <3>1. job'[ti] = job[ti]
      BY <2>1, <2>2, <2>6, Consts
    <3> QED BY <1>1, <2>6, <3>1 DEF OrderInv, Written
  <2> QED BY <1>1, <2>4, <2>5, <2>6 DEF OrderInv
<1> QED BY <1>3, <1>4

\* The game thread ends a saveAll when no part of it is left, a load or a save.
LEMMA OrderGameEnds ==
    ASSUME TypeInv, OnceInv, OrderInv,
           SaveAllDone(GameThread) \/ LoadFails(GameThread) \/ EndSave(GameThread)
    PROVE  OrderInv'
<1> DEFINE o == job[GameThread].obj
<1>1. UNCHANGED <<content, db, queue>>
  BY DEF SaveAllDone, LoadFails, EndSave, saves
<1>2. queue = <<>> /\ \A w \in Workers : job[w] = Idle
  <2>1. CASE SaveAllDone(GameThread)
    <3>1. ~PartsOf(GameThread)
      BY <2>1 DEF SaveAllDone
    <3>2. \A w \in Workers : job[w] = Idle
      BY <3>1 DEF PartsOf, OrderInv, WorkersOK
    <3>3. DOMAIN queue = {}
      BY <3>1 DEF PartsOf, OrderInv, QueueOK, PartOK
    <3>4. queue = <<>>
      BY <3>3 DEF TypeInv, QueueType
    <3> QED BY <3>2, <3>4
  <2>2. CASE LoadFails(GameThread) \/ EndSave(GameThread)
    BY <2>2, OrderRests DEF LoadFails, EndSave
  <2> QED BY <2>1, <2>2
<1>3. /\ job'[GameThread].op \in {"idle", "kick"} /\ job'[GameThread].obj = NoObject
      /\ job'[GameThread].next = "stay" /\ \A w \in Workers : job'[w] = job[w]
  <2>1. PICK j : /\ job' = [job EXCEPT ![GameThread] = j]
                 /\ j.op \in {"idle", "kick"} /\ j.obj = NoObject /\ j.next = "stay"
    <3>1. /\ [Idle EXCEPT !.op = "kick"].op = "kick" /\ [Idle EXCEPT !.op = "kick"].obj = NoObject
          /\ [Idle EXCEPT !.op = "kick"].next = "stay"
      BY IdleFields DEF JobType
    <3> QED BY <3>1, IdleFields DEF SaveAllDone, LoadFails, EndSave
  <2> QED BY <2>1, Consts DEF TypeInv, JobsOK
<1>4. HandOK'
  BY <1>3, Consts DEF HandOK
<1>5. RowsInOrder'
  <2>1. CASE UNCHANGED place
    BY <1>1, <2>1, RowsMove DEF OrderInv, RowsInOrder, InMemory
  <2>2. CASE EndSave(GameThread)
    <3> DEFINE next == job[GameThread].next
    <3>1. job[GameThread].op = "save"
      BY <2>2 DEF EndSave
    <3>2. o \in Objects
      BY <3>1, Consts DEF TypeInv, JobsOK, Works
    <3>3. \/ next = "free"
          \/ next \in {"stay", "gone", "dead"} /\ place[o] = "game"
      BY <3>1, <3>2 DEF OnceInv
    <3>4. \A q \in Objects : place'[q] = IF q = o /\ next # "stay" THEN next ELSE place[q]
      <4>1. place' = [place EXCEPT ![o] = IF next = "stay" THEN @ ELSE next]
        BY <2>2 DEF EndSave
      <4> QED BY <3>2, <4>1 DEF TypeInv, PlaceType
    <3>5. \A q \in Objects : InMemory(q)' => InMemory(q)
      BY <3>3, <3>4 DEF InMemory
    <3>6. next = "dead" => MayDie
      BY DEF OrderInv, HandOK
    <3>7. \A q \in Objects : place'[q] = "dead" => MayDie
      BY <3>3, <3>4, <3>6 DEF OrderInv, RowsInOrder
    <3> QED BY <1>1, <3>5, <3>7, RowsMove
  <2> QED BY <2>1, <2>2 DEF SaveAllDone, LoadFails
<1> QED BY <1>1, <1>2, <1>3, <1>4, <1>5, OrderSettles
\* A worker's part of the saveAll ends: it has nothing more in hand.
LEMMA OrderPartEnds ==
    ASSUME TypeInv, OnceInv, OrderInv, NEW w \in Workers, EndSave(w)
    PROVE  OrderInv'
<1>1. /\ job[w].next = "stay" /\ UNCHANGED <<content, db, queue>>
      /\ job' = [job EXCEPT ![w] = Idle]
  BY Consts DEF EndSave, OnceInv, saves
<1>2. UNCHANGED place
  BY <1>1 DEF EndSave, TypeInv, PlaceType
<1>3. job'[w] = Idle /\ \A ti \in Threads \ {w} : job'[ti] = job[ti]
  BY <1>1, Consts DEF TypeInv, JobsOK
<1>4. job'[GameThread] = job[GameThread]
  BY <1>3, Consts
<1>5. QueueOK'
  BY <1>1, <1>2, <1>4 DEF OrderInv, QueueOK, PartOK
<1>6. WorkersOK'
  BY <1>2, <1>3, <1>4, Consts DEF OrderInv, WorkersOK
<1>7. HandOK'
  BY <1>1, <1>2, <1>4 DEF OrderInv, HandOK, Absent, InMemory, Ahead
<1>8. RowsInOrder'
  BY <1>1, <1>2, RowsMove DEF OrderInv, RowsInOrder, InMemory
<1>9. \A ti \in Threads : job'[ti].op = "save" => Written(ti)'
  BY <1>1, <1>3, IdleFields DEF OrderInv, Written
<1> QED BY <1>5, <1>6, <1>7, <1>8, <1>9 DEF OrderInv

\* A load copies the rows of a character nobody has in memory.
LEMMA OrderLoads ==
    ASSUME TypeInv, OnceInv, OrderInv, NEW th \in Threads, LoadTable(th) \/ Loaded(th)
    PROVE  OrderInv'
<1> DEFINE o == job[GameThread].obj
           n == job[GameThread].table
<1>1. th = GameThread /\ job[GameThread].op = "load"
  BY Consts DEF LoadTable, Loaded, OnceInv
<1>2. queue = <<>> /\ \A w \in Workers : job[w] = Idle
  BY <1>1, OrderRests
<1>3. o \in Objects /\ CharOf(o) \in Chars /\ Absent(CharOf(o)) /\ ~InMemory(o)
  <2>1. o \in Objects
    BY <1>1, Consts DEF TypeInv, JobsOK, Works
  <2>2. Absent(CharOf(o))
    BY <1>1, <2>1 DEF OnceInv, OrderInv, HandOK
  <2> QED BY <2>1, <2>2, CharOfType DEF Absent
<1>4. n \in 1..(LastTable + 1) /\ \A t \in Tables : t < n => content[o][t] = db[CharOf(o)][t]
  BY <1>1, Consts DEF TypeInv, JobsOK, JobType, OrderInv, HandOK
<1>5. /\ UNCHANGED <<db, queue>> /\ TornInOrder' /\ TornInOrder
  BY DEF LoadTable, Loaded, saves, OrderInv, RowsInOrder, TornInOrder
<1>6. job[GameThread].next = "game" \/ job[GameThread].next = "free"
  BY <1>1, <1>3 DEF OnceInv
<1>7. CASE LoadTable(th)
  <2>1. /\ content' = [content EXCEPT ![o][n] = db[CharOf(o)][n]]
        /\ job' = [job EXCEPT ![GameThread].table = n + 1]
        /\ UNCHANGED place /\ n \in Tables
    BY <1>1, <1>7 DEF LoadTable
  <2>2. /\ job'[GameThread].op = "load" /\ job'[GameThread].obj = o
        /\ job'[GameThread].table = n + 1
        /\ job'[GameThread].next = job[GameThread].next
        /\ \A w \in Workers : job'[w] = Idle
    BY <1>1, <1>2, <2>1, Consts DEF TypeInv, JobsOK, JobType
  <2>3. /\ content'[o][n] = db[CharOf(o)][n]
        /\ \A t \in Tables : t # n => content'[o][t] = content[o][t]
        /\ \A q \in Objects : q # o => content'[q] = content[q]
    BY <1>3, <2>1 DEF TypeInv, RowsOK
  <2> HIDE DEF o, n
  <2>4. HandOK'
    <3>1. \A t \in Tables : t < n + 1 => content'[o][t] = db[CharOf(o)][t]
      <4> TAKE t \in Tables
      <4>1. t \in Nat /\ n \in Nat
        BY <2>1, Consts
      <4> QED BY <1>4, <2>3, <4>1
    <3>2. job'[GameThread].next = "free" => Absent(CharOf(o))'
      BY <1>3, <2>1 DEF Absent, InMemory, o
    <3>3. Absent(CharOf(o))'
      <4>1. \A q \in Objects : InMemory(q)' => InMemory(q)
        BY <2>1 DEF InMemory
      <4>2. job'[GameThread].obj = job[GameThread].obj
        BY <2>2 DEF o
      <4> QED BY <1>3, <4>1, <4>2 DEF Absent, o
    <3> QED BY <1>5, <1>6, <2>2, <3>1, <3>3 DEF HandOK, o
  <2>5. RowsInOrder'
    <3>1. ASSUME NEW q \in Objects, InMemory(q)' PROVE Ahead(q)'
      <4>1. InMemory(q) /\ q # o
        BY <1>3, <2>1, <3>1 DEF InMemory
      <4> QED BY <1>5, <2>3, <4>1 DEF OrderInv, RowsInOrder, Ahead
    <3> QED BY <1>5, <2>1, <3>1 DEF OrderInv, RowsInOrder
  <2> QED BY <1>2, <1>5, <2>2, <2>4, <2>5, OrderSettles
<1>8. CASE Loaded(th)
  <2>1. n \notin Tables
    BY <1>1, <1>8 DEF Loaded
  <2> HIDE DEF n
  <2>2. \A t \in Tables : content[o][t] = db[CharOf(o)][t]
    <3> TAKE t \in Tables
    <3>1. t < n
      BY <1>4, <2>1, Consts
    <3> QED BY <1>4, <3>1
  <2>3. Ahead(o)
    BY <1>3, <1>5, <2>2 DEF Ahead, TornInOrder
  <2>4. CASE job[GameThread].next = "game"
    <3>1. /\ place' = [place EXCEPT ![o] = "game"] /\ job' = [job EXCEPT ![GameThread] = Idle]
          /\ UNCHANGED content
      BY <1>1, <1>8, <2>4 DEF Loaded
    <3>2. job'[GameThread] = Idle /\ \A w \in Workers : job'[w] = Idle
      BY <1>2, <3>1, Consts DEF TypeInv, JobsOK
    <3>3. HandOK'
      BY <3>2, IdleFields, Consts DEF HandOK
    <3>4. RowsInOrder'
      <4>1. \A q \in Objects : place'[q] = IF q = o THEN "game" ELSE place[q]
        BY <1>3, <3>1 DEF TypeInv, PlaceType
      <4> HIDE DEF o
      <4>2. ASSUME NEW q \in Objects, InMemory(q)' PROVE Ahead(q)'
        <5>1. Ahead(q)
          BY <2>3, <4>1, <4>2 DEF InMemory, OrderInv, RowsInOrder
        <5> QED BY <1>5, <3>1, <5>1 DEF Ahead
      <4> QED BY <1>5, <4>1, <4>2 DEF OrderInv, RowsInOrder
    <3> QED BY <1>2, <1>5, <3>2, <3>3, <3>4, OrderSettles, IdleFields
  <2>5. CASE job[GameThread].next = "free"
    <3>1. /\ UNCHANGED place /\ Begin(GameThread, "lock", o, "free")
          /\ \E k \in Unused : Change(o, k)
      BY <1>1, <1>8, <2>5 DEF Loaded
    <3>2. /\ job'[GameThread].op = "lock" /\ job'[GameThread].obj = o
          /\ job'[GameThread].next = "free" /\ job'[GameThread].table = 1
          /\ \A w \in Workers : job'[w] = Idle
      BY <1>2, <1>3, <3>1, Begun, TypesHold
    <3>3. RowsInOrder'
      BY <1>3, <1>5, <3>1, RowsChanged
    <3>4. \A q \in Objects : q = o => Ahead(q)'
      BY <1>3, <1>5, <2>3, <3>1, AheadChanged
    <3>5. HandOK'
      <4>1. Absent(CharOf(job[GameThread].obj))'
        BY <1>3, <3>1, <3>2 DEF Absent, InMemory
      <4>2. Ahead(job[GameThread].obj)'
        BY <1>3, <3>2, <3>4
      <4> QED BY <3>2, <4>1, <4>2 DEF HandOK
    <3> QED BY <1>2, <1>5, <3>2, <3>3, <3>5, OrderSettles
  <2> QED BY <1>6, <2>4, <2>5
<1> QED BY <1>7, <1>8

LEMMA OrderStep ==
    ASSUME TypeInv, OnceInv, OrderInv, OneCopy, [Next]_vars
    PROVE  OrderInv' /\ \A c \in Chars, t \in Tables : db[c][t] \subseteq db'[c][t]
<1>1. ASSUME UNCHANGED db PROVE \A c \in Chars, t \in Tables : db[c][t] \subseteq db'[c][t]
  BY <1>1
<1>2. CASE Handler \/ Closing
  <2>1. UNCHANGED db
    BY <1>2 DEF Handler, Closing, scheduleAll, setGameState, Login, DeliverOffline,
       AcceptMarketOffer, LoadTemporary, Play, RequestSave, Logout, Die, Respawn, LeaveDead,
       KickDone, Kick
  <2> QED BY <1>1, <1>2, <2>1, OrderHandler
<1>3. CASE Crash
  <2>1. /\ UNCHANGED <<content, db>> /\ queue' = <<>> /\ \A th \in Threads : job'[th] = Idle
        /\ \A o \in Objects : place'[o] = "free"
    BY <1>3 DEF Crash
  <2>2. HandOK'
    BY <2>1, IdleFields, Consts DEF HandOK
  <2>3. RowsInOrder'
    BY <2>1, RowsMove DEF InMemory
  <2> QED BY <1>1, <2>1, <2>2, <2>3, OrderSettles, IdleFields, Consts
<1>4. ASSUME NEW th \in Threads, Work(th)
      PROVE  OrderInv' /\ \A c \in Chars, t \in Tables : db[c][t] \subseteq db'[c][t]
  <2>1. CASE SaveTable(th)
    BY <2>1, OrderStored
  <2>2. CASE ~SaveTable(th)
    <3>1. UNCHANGED db
      BY <1>4, <2>2 DEF Work, SubmitDone, SaveAllDone, StartSave, EndSave, LoadTable, LoadFails,
         Loaded, Submit
    <3>2. CASE SubmitDone(th) \/ StartSave(th) \/ \E o \in Objects : Submit(th, o)
      BY <1>1, <3>1, <3>2, OrderWorks
    <3>3. CASE LoadTable(th) \/ Loaded(th)
      BY <1>1, <3>1, <3>3, OrderLoads
    <3>4. CASE SaveAllDone(th) \/ LoadFails(th) \/ EndSave(th)
      <4>1. CASE th = GameThread
        BY <1>1, <3>1, <3>4, <4>1, OrderGameEnds
      <4>2. CASE th \in Workers
        <5>1. EndSave(th)
          BY <3>4, <4>2, IdleFields DEF SaveAllDone, LoadFails, OrderInv, WorkersOK
        <5> QED BY <1>1, <3>1, <4>2, <5>1, OrderPartEnds
      <4> QED BY <4>1, <4>2, Consts
    <3> QED BY <1>4, <2>2, <3>2, <3>3, <3>4 DEF Work
  <2> QED BY <2>1, <2>2
<1>5. ASSUME NEW w \in Workers, PoolWork(w) PROVE OrderInv' /\ UNCHANGED db
  BY <1>5, OrderPool DEF PoolWork, Take, CheckPlayer, CheckAll
<1>6. ASSUME NEW o \in Objects, Release(o) PROVE OrderInv' /\ UNCHANGED db
  <2>1. /\ place[o] = "gone" /\ UNCHANGED <<content, db, queue, job>>
        /\ \A q \in Objects : place'[q] = IF q = o THEN "free" ELSE place[q]
    BY <1>6 DEF Release, TypeInv, PlaceType, saves
  <2>2. /\ \A q \in Objects : InMemory(q)' => InMemory(q)
        /\ \A q \in Objects : place[q] = "game" => place'[q] = "game"
        /\ \A q \in Objects : place'[q] = "dead" => MayDie
    BY <2>1 DEF InMemory, OrderInv, RowsInOrder
  <2>3. RowsInOrder'
    BY <2>1, <2>2, RowsMove
  <2>4. QueueOK' /\ WorkersOK'
    BY <2>1, <2>2 DEF OrderInv, QueueOK, WorkersOK, PartOK
  <2>5. HandOK'
    BY <2>1, <2>2 DEF OrderInv, HandOK, Absent, Ahead
  <2> QED BY <2>1, <2>3, <2>4, <2>5 DEF OrderInv, Written
<1>7. CASE UNCHANGED vars
  <2>1. RowsInOrder'
    BY <1>7, RowsMove DEF vars, OrderInv, RowsInOrder, InMemory
  <2> QED BY <1>1, <1>7, <2>1 DEF vars, OrderInv, QueueOK, WorkersOK, PartOK, HandOK, Absent,
          InMemory, Ahead, Written
<1> QED BY <1>1, <1>2, <1>3, <1>4, <1>5, <1>6, <1>7 DEF Next

LEMMA OrderStarts == Init => OrderInv
<1> SUFFICES ASSUME Init PROVE OrderInv
  OBVIOUS
<1>1. queue = <<>> /\ \A th \in Threads : job[th] = Idle
  BY DEF Init
<1>2. HandOK
  BY <1>1, IdleFields, Consts DEF HandOK
<1>3. RowsInOrder
  BY CharOfType DEF Init, RowsInOrder, TornInOrder, InMemory
<1>4. QueueOK /\ WorkersOK
  BY <1>1, Consts DEF QueueOK, WorkersOK
<1> QED BY <1>1, <1>2, <1>3, <1>4, IdleFields DEF OrderInv

\* However saves and loads fail and whenever the process dies, what savePlayerGuard
\* has left in the database is in the order of its tables, in the game and between
\* two runs of it: a load after a torn save, and the saves after that load, keep it.
THEOREM TornInOrderAlways == ASSUME OneCopy PROVE Spec => []TornInOrder
<1>1. TypeInv /\ OnceInv /\ OrderInv /\ [Next]_vars => TypeInv' /\ OnceInv' /\ OrderInv'
  BY OnceStep, OrderStep
<1>2. OrderInv => TornInOrder
  BY DEF OrderInv, RowsInOrder
<1> QED BY <1>1, <1>2, OnceStarts, OrderStarts, PTL DEF Spec

\* Nor does a save ever take back what an earlier one stored, of this run of the
\* process or of one that died: whoever saves holds all that the rows hold.
THEOREM NoRollback == ASSUME OneCopy PROVE Spec => NeverRollsBack
<1>1. TypeInv /\ OnceInv /\ OrderInv /\ [Next]_vars => TypeInv' /\ OnceInv' /\ OrderInv'
  BY OnceStep, OrderStep
<1>2. TypeInv /\ OnceInv /\ OrderInv /\ [Next]_vars =>
        [\A c \in Chars, t \in Tables : db[c][t] \subseteq db'[c][t]]_vars
  BY OrderStep
<1> QED BY <1>1, <1>2, OnceStarts, OrderStarts, PTL DEF Spec, NeverRollsBack
-----------------------------------------------------------------------------
(* An accepted request is covered, in every mode                            *)

\* No character has two Player objects, and no statement fails: a save that fails
\* drops its request, and the save of an old object erases the new one's stamp.
OneEach == MayFail = FALSE /\ \A o, p \in Objects : CharOf(o) = CharOf(p) => o = p

Pending(task, o) ==
    task.obj = o /\ (task.kind = "player" => task.stamp = playerMap[CharOf(o)])
Serves(th, o) ==
    /\ job[th].obj = o
    /\ \/ job[th].op = "check" /\ job[th].stamp = playerMap[CharOf(o)]
       \/ job[th].op = "lock"
       \/ /\ job[th].op = "save"
          /\ \A t \in 1..(job[th].table - 1) : asked[o] \subseteq db[CharOf(o)][t]
Stored(o) == \A t \in Tables : asked[o] \subseteq db[CharOf(o)][t]
Covered(o) ==
    \/ Stored(o)
    \/ \E i \in DOMAIN queue : Pending(queue[i], o)
    \/ \E th \in Threads : Serves(th, o)

\* A dead player may return with its request, and a save reads what the object
\* has when it comes to a table.
AskedOK == \A o \in Objects : InMemory(o) => \A t \in Tables : asked[o] \subseteq content[o][t]
FreshOK ==
    /\ \A th \in Threads : /\ job[th].op \in {"check", "lock"} => job[th].table = 1
                           /\ job[th].op = "load" => place[job[th].obj] = "free"
    /\ \A i \in DOMAIN queue : queue[i].kind = "all" => queue[i].obj = NoObject
CoverInv == AskedOK /\ FreshOK /\ \A o \in Objects : InMemory(o) => Covered(o)

\* What neither touches the object's rows and stamp nor the thread that serves it.
LEMMA CoverQuiet ==
    ASSUME NEW o \in Objects, Covered(o), asked'[o] = asked[o],
           playerMap'[CharOf(o)] = playerMap[CharOf(o)], db'[CharOf(o)] = db[CharOf(o)],
           \A i \in DOMAIN queue : i \in DOMAIN queue' /\ queue'[i] = queue[i],
           \A th \in Threads : Serves(th, o) => job'[th] = job[th]
    PROVE  Covered(o)'
<1>1. CASE Stored(o)
  BY <1>1 DEF Covered, Stored
<1>2. CASE \E i \in DOMAIN queue : Pending(queue[i], o)
  BY <1>2 DEF Covered, Pending
<1>3. CASE \E th \in Threads : Serves(th, o)
  BY <1>3 DEF Covered, Serves
<1> QED BY <1>1, <1>2, <1>3 DEF Covered

LEMMA QueueKept ==
    ASSUME TypeInv, UNCHANGED queue \/ \E task : queue' = Append(queue, task)
    PROVE  \A i \in DOMAIN queue : i \in DOMAIN queue' /\ queue'[i] = queue[i]
<1>1. queue \in Seq(TaskType)
  BY DEF TypeInv, QueueType
<1> QED BY <1>1

\* A step of one thread in which nobody comes into memory, no object changes, and
\* no request is made or withdrawn.
LEMMA CoverThread ==
    ASSUME TypeInv, CoverInv, NEW th \in Threads,
           UNCHANGED <<content, db, asked, playerMap>>,
           UNCHANGED queue \/ \E task \in TaskType :
              queue' = Append(queue, task) /\ (task.kind = "all" => task.obj = NoObject),
           \A o \in Objects : InMemory(o)' => InMemory(o),
           \A o \in Objects : place[o] = "free" => place'[o] = "free",
           \A ti \in Threads \ {th} : job'[ti] = job[ti],
           job'[th] = job[th] \/ job[th].op \notin {"check", "lock", "save"},
           job'[th].op \in {"check", "lock"} => job'[th].table = 1,
           job'[th].op = "load" => place'[job'[th].obj] = "free"
    PROVE  CoverInv'
<1>1. ASSUME NEW o \in Objects, InMemory(o)' PROVE Covered(o)'
  <2>1. Covered(o)
    BY <1>1 DEF CoverInv
  <2>2. \A ti \in Threads : Serves(ti, o) => job'[ti] = job[ti]
    BY DEF Serves
  <2> QED BY <2>1, <2>2, QueueKept, CoverQuiet
<1>2. AskedOK'
  BY DEF CoverInv, AskedOK
<1>3. FreshOK'
  <2>1. \A i \in DOMAIN queue' : queue'[i].kind = "all" => queue'[i].obj = NoObject
    <3>1. CASE UNCHANGED queue
      BY <3>1 DEF CoverInv, FreshOK
    <3>2. ASSUME NEW task \in TaskType, queue' = Append(queue, task),
                 task.kind = "all" => task.obj = NoObject
          PROVE  \A i \in DOMAIN queue' : queue'[i].kind = "all" => queue'[i].obj = NoObject
      <4>1. queue \in Seq(TaskType)
        BY DEF TypeInv, QueueType
      <4>2. \A i \in DOMAIN queue' : queue'[i] = task \/ (i \in DOMAIN queue /\ queue'[i] = queue[i])
        BY <3>2, <4>1
      <4> QED BY <3>2, <4>2 DEF CoverInv, FreshOK
    <3> QED BY <3>1, <3>2
  <2>2. ASSUME NEW ti \in Threads
        PROVE  /\ job'[ti].op \in {"check", "lock"} => job'[ti].table = 1
               /\ job'[ti].op = "load" => place'[job'[ti].obj] = "free"
    <3>1. CASE ti = th
      BY <3>1
    <3>2. CASE ti # th
      <4>1. job[ti].op = "load" => job[ti].obj \in Objects
        BY DEF TypeInv, JobsOK, Works
      <4> QED BY <3>2, <4>1 DEF CoverInv, FreshOK
    <3> QED BY <3>1, <3>2
  <2> QED BY <2>1, <2>2 DEF FreshOK
<1> QED BY <1>1, <1>2, <1>3 DEF CoverInv

\* The game thread begins something that is not a save of a player in memory.
LEMMA CoverBegins ==
    ASSUME TypeInv, CoverInv, job[GameThread].op \in {"idle", "kick"},
           UNCHANGED <<place, content, db, asked, playerMap, queue>>,
           NEW o \in Objects \cup {NoObject}, NEW op \in {"load", "kick", "submit"},
           NEW next \in {"stay", "game", "dead", "gone", "free"},
           Begin(GameThread, op, o, next), op = "load" => place[o] = "free"
    PROVE  CoverInv'
<1>1. /\ job'[GameThread].op = op /\ job'[GameThread].obj = o
      /\ \A w \in Workers : job'[w] = job[w]
  BY Begun, TypesHold
<1>2. \A ti \in Threads \ {GameThread} : job'[ti] = job[ti]
  BY <1>1, Consts
<1> QED BY <1>1, <1>2, Consts, CoverThread DEF InMemory

\* An object changes, and no request of its character with it.
LEMMA CoverChanged ==
    ASSUME TypeInv, CoverInv, NEW o \in Objects, NEW k \in Unused, Change(o, k),
           UNCHANGED <<place, db, asked, playerMap, queue, job>>
    PROVE  CoverInv'
<1>1. content' = [content EXCEPT ![o] = [t \in Tables |-> content[o][t] \cup {k}]]
  BY DEF Change
<1>2. \A p \in Objects : \A t \in Tables : content[p][t] \subseteq content'[p][t]
  <2> TAKE p \in Objects
  <2>1. CASE p = o
    BY <1>1, <2>1 DEF TypeInv, RowsOK
  <2>2. CASE p # o
    BY <1>1, <2>2 DEF TypeInv, RowsOK
  <2> QED BY <2>1, <2>2
<1>3. AskedOK'
  BY <1>2 DEF CoverInv, AskedOK, InMemory
<1>4. FreshOK'
  BY DEF CoverInv, FreshOK
<1>5. ASSUME NEW p \in Objects, InMemory(p)' PROVE Covered(p)'
  BY <1>5, CoverQuiet DEF CoverInv, InMemory
<1> QED BY <1>3, <1>4, <1>5 DEF CoverInv
\* savePlayer: the request it makes is covered by its task, or by the game thread.
LEMMA CoverSaves ==
    ASSUME TypeInv, CoverInv, OneEach, NEW o \in InGame, NEW next \in {"stay", "gone", "dead"},
           job[GameThread].op \in {"idle", "kick"},
           savePlayer(o, next), UNCHANGED <<state, content, db, made>>
    PROVE  CoverInv'
<1>1. /\ o \in Objects /\ CharOf(o) \in Chars /\ InMemory(o)
      /\ \A t \in Tables : Holds(o) \subseteq content[o][t]
      /\ asked' = [asked EXCEPT ![o] = Holds(o)]
  BY CharOfType DEF InGame, InMemory, Holds, savePlayer
<1>2. asked'[o] = Holds(o) /\ \A p \in Objects \ {o} : asked'[p] = asked[p]
  BY <1>1 DEF TypeInv, PlaceType
<1>3. AskedOK' \/ ~\A p \in Objects : InMemory(p)' => InMemory(p)
  BY <1>1, <1>2 DEF CoverInv, AskedOK
<1>4. CASE SaveAsync /\ gameState # "shutdown"
  <2> DEFINE task == [kind |-> "player", obj |-> o, stamp |-> now + 1, by |-> NoObject]
  <2>1. /\ playerMap' = [playerMap EXCEPT ![CharOf(o)] = now + 1]
        /\ queue' = Append(queue, task)
        /\ place' = [place EXCEPT ![o] = IF next = "stay" THEN @ ELSE next]
        /\ UNCHANGED job
    BY <1>4 DEF savePlayer, schedulePlayer
  <2>2. /\ playerMap'[CharOf(o)] = now + 1
        /\ \A d \in Chars \ {CharOf(o)} : playerMap'[d] = playerMap[d]
    BY <1>1, <2>1 DEF TypeInv, StampsOK
  <2>3. task.kind = "player" /\ task.obj = o /\ task.stamp = now + 1
    OBVIOUS
  <2> HIDE DEF task
  <2>4. queue \in Seq(TaskType)
    BY DEF TypeInv, QueueType
  <2>5. /\ Len(queue) + 1 \in DOMAIN queue' /\ queue'[Len(queue) + 1] = task
        /\ \A i \in DOMAIN queue' : queue'[i] = task \/ (i \in DOMAIN queue /\ queue'[i] = queue[i])
    BY <2>1, <2>4
  <2>6. \A p \in Objects : place'[p] = IF p = o /\ next # "stay" THEN next ELSE place[p]
    BY <1>1, <2>1 DEF TypeInv, PlaceType
  <2>7. \A p \in Objects : InMemory(p)' => InMemory(p)
    BY <1>1, <2>6 DEF InMemory
  <2>8. \A p \in Objects : place[p] = "free" => place'[p] = "free"
    BY <1>1, <2>6 DEF InGame
  <2>9. FreshOK'
    <3>1. \A i \in DOMAIN queue' : queue'[i].kind = "all" => queue'[i].obj = NoObject
      BY <2>3, <2>5 DEF CoverInv, FreshOK
    <3>2. \A th \in Threads : job[th].op = "load" => job[th].obj \in Objects
      BY DEF TypeInv, JobsOK, Works
    <3> QED BY <2>1, <2>8, <3>1, <3>2 DEF CoverInv, FreshOK
  <2>10. ASSUME NEW p \in Objects, InMemory(p)' PROVE Covered(p)'
    <3>1. CASE p = o
      <4>1. PICK i \in DOMAIN queue' : queue'[i].obj = o /\ queue'[i].stamp = playerMap'[CharOf(o)]
        BY <2>2, <2>3, <2>5
      <4>2. (\E k \in DOMAIN queue : Pending(queue[k], o))'
        BY <4>1 DEF Pending
      <4> QED BY <3>1, <4>2 DEF Covered
    <3>2. CASE p # o
      <4>1. CharOf(p) \in Chars \ {CharOf(o)} /\ Covered(p)
        BY <1>1, <2>7, <2>10, <3>2, CharOfType DEF OneEach, CoverInv
      <4>2. \A i \in DOMAIN queue : i \in DOMAIN queue' /\ queue'[i] = queue[i]
        BY <2>1, QueueKept
      <4> QED BY <1>2, <2>1, <2>2, <3>2, <4>1, <4>2, CoverQuiet
    <3> QED BY <3>1, <3>2
  <2> QED BY <1>3, <2>7, <2>9, <2>10 DEF CoverInv
<1>5. CASE ~(SaveAsync /\ gameState # "shutdown")
  <2>1. Begin(GameThread, "lock", o, next) /\ UNCHANGED <<place, playerMap, queue>>
    BY <1>5 DEF savePlayer, saves
  <2>2. /\ job'[GameThread].op = "lock" /\ job'[GameThread].obj = o /\ job'[GameThread].table = 1
        /\ \A w \in Workers : job'[w] = job[w]
    BY <1>1, <2>1, Begun, TypesHold
  <2>3. FreshOK'
    BY <2>1, <2>2, Consts DEF CoverInv, FreshOK
  <2>4. ASSUME NEW p \in Objects, InMemory(p)' PROVE Covered(p)'
    <3>1. CASE p = o
      BY <2>2, <3>1, Consts DEF Covered, Serves
    <3>2. CASE p # o
      <4>1. \A th \in Threads : Serves(th, p) => job'[th] = job[th]
        BY <2>2, Consts DEF Serves
      <4>2. Covered(p)
        BY <2>1, <2>4 DEF CoverInv, InMemory
      <4> QED BY <1>2, <2>1, <3>2, <4>1, <4>2, CoverQuiet
    <3> QED BY <3>1, <3>2
  <2> QED BY <1>3, <2>1, <2>3, <2>4 DEF CoverInv, InMemory
<1> QED BY <1>4, <1>5

LEMMA CoverHandler ==
    ASSUME TypeInv, CoverInv, OneEach, Handler \/ Closing PROVE CoverInv'
<1>1. job[GameThread].op \in {"idle", "kick"}
  BY DEF Handler, Closing, scheduleAll, setGameState, Login, DeliverOffline,
     AcceptMarketOffer, Play, RequestSave, Logout, Die, Respawn, LeaveDead, KickDone, Kick,
     GameIdle
<1>2. CASE scheduleAll
  <2> DEFINE task == [kind |-> "all", obj |-> NoObject, stamp |-> now + 1, by |-> NoObject]
  <2>1. UNCHANGED <<place, content, db, asked, playerMap>>
    BY <1>2 DEF scheduleAll
  <2>2. CASE queue' = Append(queue, task) /\ UNCHANGED job
    <3>1. task \in TaskType /\ task.obj = NoObject
      BY DEF TypeInv, TaskType, StampsOK
    <3>2. \A th \in Threads : /\ job[th].op \in {"check", "lock"} => job[th].table = 1
                              /\ job[th].op = "load" => place[job[th].obj] = "free"
      BY DEF CoverInv, FreshOK
    <3> HIDE DEF task
    <3> QED BY <2>1, <2>2, <3>1, <3>2, CoverThread, Consts DEF InMemory
  <2>3. CASE Begin(GameThread, "submit", NoObject, "stay") /\ UNCHANGED queue
    BY <1>1, <2>1, <2>3, CoverBegins
  <2> QED BY <1>2, <2>2, <2>3 DEF scheduleAll
<1>3. CASE setGameState \/ KickDone
  <2>1. UNCHANGED <<place, content, db, asked, playerMap, queue>>
    BY <1>3 DEF setGameState, KickDone, saves
  <2>2. \/ UNCHANGED job
        \/ \E op \in {"kick", "submit"} : Begin(GameThread, op, NoObject, "stay")
    BY <1>3 DEF setGameState, KickDone
  <2>3. CASE UNCHANGED job
    BY <2>1, <2>3, CoverQuiet DEF CoverInv, AskedOK, FreshOK, InMemory
  <2> QED BY <1>1, <2>1, <2>2, <2>3, CoverBegins, Consts
<1>4. ASSUME NEW o \in Objects, place[o] = "free", NEW next \in {"game", "free"},
             Begin(GameThread, "load", o, next),
             UNCHANGED <<state, place, content, db, made, asked, saves>>
      PROVE  CoverInv'
  BY <1>1, <1>4, CoverBegins DEF saves
<1>5. CASE \E d \in Chars : Login(d) \/ DeliverOffline(d)
  BY <1>4, <1>5 DEF Login, DeliverOffline, LoadTemporary, Fresh, Of
<1>6. ASSUME NEW o \in Objects, NEW k \in Unused, Change(o, k),
             UNCHANGED <<state, place, db, asked, saves, job>>
      PROVE  CoverInv'
  BY <1>6, CoverChanged DEF saves
<1>7. ASSUME NEW d \in Chars, AcceptMarketOffer(d) PROVE CoverInv'
  <2>1. CASE LoadTemporary(d)
    BY <1>4, <2>1 DEF LoadTemporary, Fresh, Of
  <2>2. CASE /\ \E o \in Of(d, {"dead"}), k \in Unused : Change(o, k)
             /\ UNCHANGED <<state, place, db, asked, saves, job>>
    BY <1>6, <2>2 DEF Of
  <2> QED BY <1>7, <2>1, <2>2 DEF AcceptMarketOffer
<1>8. ASSUME NEW o \in Objects, Play(o) PROVE CoverInv'
  BY <1>6, <1>8 DEF Play
<1>9. ASSUME NEW o \in Objects, RequestSave(o) \/ Logout(o) \/ Die(o) \/ Kick(o) PROVE CoverInv'
  <2>1. /\ o \in InGame /\ UNCHANGED <<state, content, db, made>>
        /\ \E next \in {"stay", "gone", "dead"} : savePlayer(o, next)
    BY <1>9 DEF RequestSave, Logout, Die, Kick, Kicked
  <2> QED BY <1>1, <2>1, CoverSaves
<1>10. ASSUME NEW o \in Objects, Respawn(o) \/ LeaveDead(o) PROVE CoverInv'
  <2>1. /\ place[o] = "dead" /\ UNCHANGED <<content, db, asked, playerMap, queue, job>>
        /\ \E to \in {"game", "gone"} : place' = [place EXCEPT ![o] = to]
    BY <1>10 DEF Respawn, LeaveDead, saves
  <2>2. /\ \A p \in Objects : InMemory(p)' => InMemory(p)
        /\ \A p \in Objects : place[p] = "free" => place'[p] = "free"
    BY <2>1 DEF TypeInv, PlaceType, InMemory
  <2>3. FreshOK
    BY DEF CoverInv
  <2>4. \A th \in Threads : job[th].op = "load" => job[th].obj \in Objects
    BY DEF TypeInv, JobsOK, Works
  <2>5. job'[GameThread].op \notin {"check", "lock", "load"}
    BY <1>1, <2>1
  <2> QED BY <2>1, <2>2, <2>5, CoverThread, Consts
<1> QED BY <1>2, <1>3, <1>5, <1>7, <1>8, <1>9, <1>10 DEF Handler, Closing

LEMMA CoverStarted ==
    ASSUME TypeInv, CoverInv, OneEach, NEW th \in Threads, StartSave(th) PROVE CoverInv'
<1> DEFINE o == job[th].obj
<1>1. /\ job[th].op = "lock" /\ job' = [job EXCEPT ![th].op = "save"]
      /\ playerMap' = [playerMap EXCEPT ![CharOf(o)] = 0]
      /\ UNCHANGED <<state, place, content, db, asked, queue>>
  BY DEF StartSave
<1>2. o \in Objects /\ CharOf(o) \in Chars
  BY <1>1, CharOfType DEF TypeInv, JobsOK, Works
<1>3. /\ job'[th].op = "save" /\ job'[th].obj = o /\ job'[th].table = 1
      /\ \A ti \in Threads \ {th} : job'[ti] = job[ti]
  BY <1>1 DEF TypeInv, JobsOK, JobType, CoverInv, FreshOK
<1> HIDE DEF o
<1>4. FreshOK'
  BY <1>1, <1>3 DEF CoverInv, FreshOK
<1>5. AskedOK'
  BY <1>1 DEF CoverInv, AskedOK, InMemory
<1>6. ASSUME NEW p \in Objects, InMemory(p)' PROVE Covered(p)'
  <2>1. CASE p = o
    <3>1. Serves(th, p)'
      BY <1>3, <2>1 DEF Serves
    <3> QED BY <3>1 DEF Covered
  <2>2. CASE p # o
    <3>1. CharOf(p) # CharOf(o) /\ Covered(p)
      BY <1>1, <1>2, <1>6, <2>2 DEF OneEach, CoverInv, InMemory
    <3>2. playerMap'[CharOf(p)] = playerMap[CharOf(p)]
      BY <1>1, <3>1, CharOfType DEF TypeInv, StampsOK
    <3>3. \A ti \in Threads : Serves(ti, p) => job'[ti] = job[ti]
      BY <1>3, <2>2 DEF Serves, o
    <3> QED BY <1>1, <3>1, <3>2, <3>3, CoverQuiet
  <2> QED BY <2>1, <2>2
<1> QED BY <1>4, <1>5, <1>6 DEF CoverInv

\* A save stores what the object has, which is at least what was asked for.
LEMMA CoverStored ==
    ASSUME TypeInv, CoverInv, OneEach, NEW th \in Threads, SaveTable(th) PROVE CoverInv'
<1>0. PICK o \in Objects : o = job[th].obj
  BY DEF SaveTable, TypeInv, JobsOK, Works
<1>2. PICK n \in Tables : n = job[th].table
  BY DEF SaveTable
<1>1. /\ job[th].op = "save" /\ n \in Nat /\ CharOf(o) \in Chars
      /\ db' = [db EXCEPT ![CharOf(o)][n] = content[o][n]]
      /\ job' = [job EXCEPT ![th].table = n + 1]
      /\ UNCHANGED <<state, place, content, asked, playerMap, queue>>
  BY <1>0, <1>2, Consts, CharOfType DEF SaveTable, saves
<1>3. /\ job'[th].op = "save" /\ job'[th].obj = o /\ job'[th].table = n + 1
      /\ \A ti \in Threads \ {th} : job'[ti] = job[ti]
  BY <1>0, <1>1 DEF TypeInv, JobsOK, JobType
<1>4. FreshOK'
  BY <1>1, <1>3 DEF CoverInv, FreshOK
<1>5. AskedOK'
  BY <1>1 DEF CoverInv, AskedOK, InMemory
<1>6. /\ db'[CharOf(o)][n] = content[o][n]
      /\ \A t \in Tables : t # n => db'[CharOf(o)][t] = db[CharOf(o)][t]
      /\ \A d \in Chars : d # CharOf(o) => db'[d] = db[d]
  BY <1>1 DEF TypeInv, RowsOK
<1>7. ASSUME NEW p \in Objects, InMemory(p)' PROVE Covered(p)'
  <2>1. InMemory(p) /\ Covered(p) /\ asked'[p] = asked[p]
    BY <1>1, <1>7 DEF CoverInv, InMemory
  <2>2. CASE p # o
    <3>1. CharOf(p) # CharOf(o)
      BY <2>2 DEF OneEach
    <3>2. \A ti \in Threads : Serves(ti, p) => job'[ti] = job[ti]
      BY <1>0, <1>3, <2>2 DEF Serves
    <3>3. db'[CharOf(p)] = db[CharOf(p)]
      BY <1>6, <3>1, CharOfType
    <3> QED BY <1>1, <2>1, <3>2, <3>3, CoverQuiet
  <2>3. CASE p = o
    <3>1. \A t \in Tables : asked[p] \subseteq db[CharOf(p)][t] => asked'[p] \subseteq db'[CharOf(p)][t]
      <4>1. asked[o] \subseteq content[o][n]
        BY <2>1, <2>3 DEF CoverInv, AskedOK
      <4> QED BY <1>6, <2>1, <2>3, <4>1
    <3>2. asked'[p] \subseteq db'[CharOf(p)][n]
      BY <1>6, <2>1, <2>3 DEF CoverInv, AskedOK
    <3>3. CASE Stored(p)
      BY <3>1, <3>3 DEF Covered, Stored
    <3>4. CASE \E i \in DOMAIN queue : Pending(queue[i], p)
      BY <1>1, <3>4 DEF Covered, Pending
    <3>5. ASSUME NEW ti \in Threads, Serves(ti, p) PROVE Serves(ti, p)'
      <4>1. CASE ti = th
        <5>1. \A t \in 1..(n - 1) : asked[p] \subseteq db[CharOf(p)][t]
          BY <1>2, <1>1, <3>5, <4>1 DEF Serves
        <5>2. \A t \in 1..((n + 1) - 1) : asked'[p] \subseteq db'[CharOf(p)][t]
          <6> TAKE t \in 1..((n + 1) - 1)
          <6>1. t = n \/ t \in 1..(n - 1)
            BY <1>1
          <6>2. t \in Tables
            BY <1>1, <6>1, Consts
          <6> QED BY <3>1, <3>2, <5>1, <6>1, <6>2
        <5> QED BY <1>3, <2>3, <4>1, <5>2 DEF Serves
      <4>2. CASE ti # th
        <5>1. job'[ti] = job[ti] /\ job[ti] \in JobType
          BY <1>3, <4>2 DEF TypeInv, JobsOK
        <5>2. \A t \in 1..(job[ti].table - 1) : t \in Tables
          BY <5>1, Consts DEF JobType
        <5> QED BY <1>1, <3>1, <3>5, <5>1, <5>2 DEF Serves
      <4> QED BY <4>1, <4>2
    <3> QED BY <2>1, <3>3, <3>4, <3>5 DEF Covered
  <2> QED BY <2>2, <2>3
<1> QED BY <1>4, <1>5, <1>7 DEF CoverInv

\* No statement fails, so a save ends with all of its tables.
LEMMA CoverEnded ==
    ASSUME TypeInv, OnceInv, CoverInv, OneEach, NEW th \in Threads, EndSave(th) PROVE CoverInv'
<1>0. PICK o \in Objects : o = job[th].obj
  BY DEF EndSave, TypeInv, JobsOK, Works
<1> DEFINE next == job[th].next
<1>1. /\ job[th].op = "save" /\ job[th].table \notin Tables
      /\ UNCHANGED <<content, db, asked, playerMap, queue>>
  BY DEF EndSave, saves, OneEach
<1>2. \A p \in Objects : place'[p] = IF p = o /\ next # "stay" THEN next ELSE place[p]
  BY <1>0 DEF EndSave, TypeInv, PlaceType
<1>3. \/ next \in {"stay", "free"}
      \/ next \in {"gone", "dead"} /\ place[o] = "game"
  BY <1>0, <1>1, Consts DEF OnceInv
<1> HIDE DEF next
<1>4. /\ \A p \in Objects : InMemory(p)' => InMemory(p)
      /\ \A p \in Objects : place[p] = "free" => place'[p] = "free"
  BY <1>2, <1>3 DEF InMemory
<1>5. /\ job'[th].op \in {"idle", "kick"}
      /\ \A ti \in Threads \ {th} : job'[ti] = job[ti]
  <2>1. PICK j : job' = [job EXCEPT ![th] = j] /\ j.op \in {"idle", "kick"}
    <3>1. [Idle EXCEPT !.op = "kick"].op = "kick"
      BY IdleFields DEF JobType
    <3> QED BY <3>1, IdleFields DEF EndSave
  <2> QED BY <2>1 DEF TypeInv, JobsOK
<1>6. FreshOK'
  <2>1. \A ti \in Threads : job[ti].op = "load" => job[ti].obj \in Objects
    BY DEF TypeInv, JobsOK, Works
  <2> QED BY <1>1, <1>4, <1>5, <2>1 DEF CoverInv, FreshOK
<1>7. AskedOK'
  BY <1>1, <1>4 DEF CoverInv, AskedOK
<1>8. ASSUME NEW p \in Objects, InMemory(p)' PROVE Covered(p)'
  <2>1. Covered(p)
    BY <1>4, <1>8 DEF CoverInv
  <2>2. CASE ~Serves(th, p)
    <3>1. \A ti \in Threads : Serves(ti, p) => job'[ti] = job[ti]
      BY <1>5, <2>2
    <3> QED BY <1>1, <2>1, <3>1, CoverQuiet
  <2>3. CASE Serves(th, p)
    <3>1. job[th].table = LastTable + 1
      BY <1>1, Consts DEF TypeInv, JobsOK, JobType
    <3>2. \A t \in Tables : t \in 1..(job[th].table - 1)
      BY <3>1, Consts
    <3>3. Stored(p)
      BY <1>1, <2>3, <3>2 DEF Serves, Stored
    <3> QED BY <1>1, <3>3 DEF Covered, Stored
  <2> QED BY <2>2, <2>3
<1> QED BY <1>6, <1>7, <1>8 DEF CoverInv

LEMMA CoverLoads ==
    ASSUME TypeInv, OnceInv, CoverInv, NEW th \in Threads, LoadTable(th) \/ Loaded(th)
    PROVE  CoverInv'
<1>0. PICK o \in Objects : o = job[th].obj
  BY DEF LoadTable, Loaded, TypeInv, JobsOK, Works
<1>1. /\ th = GameThread /\ job[th].op = "load" /\ place[o] = "free"
      /\ UNCHANGED <<db, playerMap, queue>>
  BY <1>0, Consts DEF LoadTable, Loaded, OnceInv, CoverInv, FreshOK, saves
<1>3. CASE LoadTable(th)
  <2>1. /\ content' = [content EXCEPT ![o][job[th].table] = db[CharOf(o)][job[th].table]]
        /\ job' = [job EXCEPT ![th].table = job[th].table + 1] /\ UNCHANGED <<place, asked>>
    BY <1>0, <1>3 DEF LoadTable
  <2>2. /\ job'[th].op = "load" /\ job'[th].obj = o
        /\ \A ti \in Threads \ {th} : job'[ti] = job[ti]
    BY <1>0, <1>1, <2>1 DEF TypeInv, JobsOK, JobType
  <2>3. \A p \in Objects \ {o} : content'[p] = content[p]
    BY <2>1 DEF TypeInv, RowsOK
  <2>4. FreshOK'
    BY <1>1, <2>1, <2>2 DEF CoverInv, FreshOK
  <2>5. AskedOK'
    BY <1>1, <2>1, <2>3 DEF CoverInv, AskedOK, InMemory
  <2>6. ASSUME NEW p \in Objects, InMemory(p)' PROVE Covered(p)'
    <3>1. \A ti \in Threads : Serves(ti, p) => job'[ti] = job[ti]
      BY <1>1, <2>2 DEF Serves
    <3>2. Covered(p)
      BY <2>1, <2>6 DEF CoverInv, InMemory
    <3> QED BY <1>1, <2>1, <3>1, <3>2, CoverQuiet
  <2> QED BY <2>4, <2>5, <2>6 DEF CoverInv
<1>4. CASE Loaded(th) /\ job[th].next = "game"
  <2>1. /\ place' = [place EXCEPT ![o] = "game"] /\ asked' = [asked EXCEPT ![o] = {}]
        /\ job' = [job EXCEPT ![th] = Idle] /\ UNCHANGED content
    BY <1>0, <1>4 DEF Loaded
  <2>2. job'[th] = Idle /\ \A ti \in Threads \ {th} : job'[ti] = job[ti]
    BY <2>1 DEF TypeInv, JobsOK
  <2>3. /\ asked'[o] = {} /\ place'[o] = "game"
        /\ \A p \in Objects \ {o} : asked'[p] = asked[p] /\ place'[p] = place[p]
    BY <2>1 DEF TypeInv, PlaceType
  <2>4. FreshOK'
    <3>1. \A ti \in Threads \ {th} : job[ti].op # "load"
      BY <1>1, Consts DEF OnceInv
    <3> QED BY <1>1, <2>2, <3>1, IdleFields DEF CoverInv, FreshOK
  <2>5. AskedOK'
    BY <2>1, <2>3 DEF CoverInv, AskedOK, InMemory
  <2>6. ASSUME NEW p \in Objects, InMemory(p)' PROVE Covered(p)'
    <3>1. CASE p = o
      BY <2>3, <3>1 DEF Covered, Stored
    <3>2. CASE p # o
      <4>1. \A ti \in Threads : Serves(ti, p) => job'[ti] = job[ti]
        BY <1>1, <2>2 DEF Serves
      <4>2. Covered(p)
        BY <2>3, <2>6, <3>2 DEF CoverInv, InMemory
      <4> QED BY <1>1, <2>3, <3>2, <4>1, <4>2, CoverQuiet
    <3> QED BY <3>1, <3>2
  <2> QED BY <2>4, <2>5, <2>6 DEF CoverInv
<1>5. CASE Loaded(th) /\ job[th].next # "game"
  <2>1. PICK k \in Unused : Change(o, k)
    BY <1>0, <1>5 DEF Loaded
  <2>2. Begin(GameThread, "lock", o, "free") /\ UNCHANGED <<place, asked>>
    BY <1>0, <1>1, <1>5 DEF Loaded
  <2>3. /\ job'[th].op = "lock" /\ job'[th].table = 1
        /\ \A ti \in Threads \ {th} : job'[ti] = job[ti]
    BY <1>1, <2>2, Begun, TypesHold, Consts
  <2>4. \A p \in Objects \ {o} : content'[p] = content[p]
    BY <2>1 DEF Change, TypeInv, RowsOK
  <2>5. FreshOK'
    BY <1>1, <2>2, <2>3 DEF CoverInv, FreshOK
  <2>6. AskedOK'
    BY <1>1, <2>2, <2>4 DEF CoverInv, AskedOK, InMemory
  <2>7. ASSUME NEW p \in Objects, InMemory(p)' PROVE Covered(p)'
    <3>1. \A ti \in Threads : Serves(ti, p) => job'[ti] = job[ti]
      BY <1>1, <2>3 DEF Serves
    <3>2. Covered(p)
      BY <2>2, <2>7 DEF CoverInv, InMemory
    <3> QED BY <1>1, <2>2, <3>1, <3>2, CoverQuiet
  <2> QED BY <2>5, <2>6, <2>7 DEF CoverInv
<1> QED BY <1>3, <1>4, <1>5
\* A task of the queue becomes the work of a thread: what it covers stays covered.
LEMMA CoverTaken ==
    ASSUME TypeInv, CoverInv, NEW w \in Workers, Take(w) PROVE CoverInv'
<1> DEFINE task == Head(queue)
           j == [Idle EXCEPT !.op = IF task.kind = "part" THEN "lock" ELSE "check",
                             !.obj = task.obj, !.stamp = task.stamp, !.by = task.by]
<1>1. /\ job[w].op = "idle" /\ queue # <<>> /\ queue \in Seq(TaskType)
      /\ queue' = Tail(queue) /\ job' = [job EXCEPT ![w] = j]
      /\ UNCHANGED <<place, content, db, asked, playerMap>>
  BY DEF Take, state, TypeInv, QueueType
<1>2. /\ task \in TaskType /\ 1 \in DOMAIN queue /\ task = queue[1]
      /\ \A i \in DOMAIN queue : i = 1 \/ (i - 1 \in DOMAIN queue' /\ queue'[i - 1] = queue[i])
      /\ \A i \in DOMAIN queue' : i + 1 \in DOMAIN queue /\ queue'[i] = queue[i + 1]
  BY <1>1
<1>3. /\ j.op = (IF task.kind = "part" THEN "lock" ELSE "check") /\ j.table = 1
      /\ j.obj = task.obj /\ j.stamp = task.stamp
  BY <1>2, IdleFields DEF TaskType, JobType
<1> HIDE DEF j, task
<1>4. w \in Threads /\ job'[w] = j /\ \A ti \in Threads \ {w} : job'[ti] = job[ti]
  BY <1>1, Consts DEF TypeInv, JobsOK
<1>5. FreshOK'
  <2>1. \A ti \in Threads : /\ job'[ti].op \in {"check", "lock"} => job'[ti].table = 1
                            /\ job'[ti].op = "load" => place'[job'[ti].obj] = "free"
    BY <1>1, <1>3, <1>4 DEF CoverInv, FreshOK
  <2>2. \A i \in DOMAIN queue' : queue'[i].kind = "all" => queue'[i].obj = NoObject
    BY <1>2 DEF CoverInv, FreshOK
  <2> QED BY <2>1, <2>2 DEF FreshOK
<1>6. AskedOK'
  BY <1>1 DEF CoverInv, AskedOK, InMemory
<1>7. ASSUME NEW p \in Objects, InMemory(p)' PROVE Covered(p)'
  <2>1. Covered(p)
    BY <1>1, <1>7 DEF CoverInv, InMemory
  <2>2. CASE Stored(p)
    BY <1>1, <2>2 DEF Covered, Stored
  <2>3. ASSUME NEW i \in DOMAIN queue, Pending(queue[i], p) PROVE Covered(p)'
    <3>1. CASE i = 1
      <4>1. task.obj = p /\ task.kind # "all"
        BY <1>2, <2>3, <3>1, Consts DEF Pending, CoverInv, FreshOK
      <4>2. task.kind = "player" => task.stamp = playerMap'[CharOf(p)]
        BY <1>1, <1>2, <2>3, <3>1 DEF Pending
      <4>3. task.kind \in {"player", "part"}
        BY <1>2, <4>1 DEF TaskType
      <4>4. Serves(w, p)'
        BY <1>3, <1>4, <4>1, <4>2, <4>3 DEF Serves
      <4> QED BY <1>4, <4>4 DEF Covered
    <3>2. CASE i # 1
      <4>1. PICK k \in DOMAIN queue' : queue'[k] = queue[i]
        BY <1>2, <3>2
      <4> QED BY <1>1, <2>3, <4>1 DEF Covered, Pending
    <3> QED BY <3>1, <3>2
  <2>4. ASSUME NEW ti \in Threads, Serves(ti, p) PROVE Covered(p)'
    <3>1. ti # w
      BY <1>1, <2>4 DEF Serves
    <3> QED BY <1>1, <1>4, <2>4, <3>1 DEF Covered, Serves
  <2> QED BY <2>1, <2>2, <2>3, <2>4 DEF Covered
<1> QED BY <1>5, <1>6, <1>7 DEF CoverInv

\* The task that has the last stamp, of an object in memory, goes on to the save.
LEMMA CoverChecked ==
    ASSUME TypeInv, CoverInv, NEW w \in Workers, CheckPlayer(w) \/ CheckAll(w) PROVE CoverInv'
<1>1. /\ job[w].op = "check" /\ w \in Threads
      /\ UNCHANGED <<state, place, content, db, made, asked, saves>>
      /\ job[w] \in JobType
  BY Consts DEF CheckPlayer, CheckAll, TypeInv, JobsOK
<1>2. PICK j : /\ job' = [job EXCEPT ![w] = j] /\ (j.op = "lock" => j.table = 1)
               /\ j.op \in {"idle", "lock", "submit"}
               /\ \A p \in Objects : InMemory(p) /\ Serves(w, p) => j.op = "lock" /\ j.obj = p
  <2>1. CASE CheckPlayer(w)
    <3> DEFINE l == [job[w] EXCEPT !.op = "lock"]
    <3>1. l.op = "lock" /\ l.obj = job[w].obj /\ l.table = 1
      BY <1>1 DEF JobType, CoverInv, FreshOK
    <3>2. job' = [job EXCEPT ![w] = IF Expired(w) \/ Superseded(w) THEN Idle ELSE l]
      BY <2>1 DEF CheckPlayer
    <3>3. ASSUME NEW p \in Objects, InMemory(p), Serves(w, p)
          PROVE  ~Expired(w) /\ ~Superseded(w) /\ job[w].obj = p
      BY <1>1, <3>3 DEF Serves, InMemory, Expired, Superseded
    <3> HIDE DEF l
    <3> QED BY <3>1, <3>2, <3>3, IdleFields
  <2>2. CASE CheckAll(w)
    <3>1. [Idle EXCEPT !.op = "submit"].op = "submit"
      BY IdleFields DEF JobType
    <3>2. \A p \in Objects : ~Serves(w, p)
      BY <2>2, Consts DEF CheckAll, Serves
    <3> QED BY <2>2, <3>1, <3>2, IdleFields DEF CheckAll
  <2> QED BY <2>1, <2>2
<1>3. job'[w] = j /\ \A ti \in Threads \ {w} : job'[ti] = job[ti]
  BY <1>1, <1>2 DEF TypeInv, JobsOK
<1>4. FreshOK'
  BY <1>1, <1>2, <1>3 DEF CoverInv, FreshOK, saves
<1>5. AskedOK'
  BY <1>1 DEF CoverInv, AskedOK, InMemory
<1>6. ASSUME NEW p \in Objects, InMemory(p)' PROVE Covered(p)'
  <2>1. InMemory(p) /\ Covered(p)
    BY <1>1, <1>6 DEF CoverInv, InMemory
  <2>2. CASE Serves(w, p)
    BY <1>1, <1>2, <1>3, <2>1, <2>2 DEF Covered, Serves
  <2>3. CASE ~Serves(w, p)
    BY <1>1, <1>3, <2>1, <2>3, CoverQuiet DEF saves
  <2> QED BY <2>2, <2>3
<1> QED BY <1>4, <1>5, <1>6 DEF CoverInv

LEMMA CoverSubmits ==
    ASSUME TypeInv, CoverInv, NEW th \in Threads, NEW o \in Objects, Submit(th, o)
    PROVE  CoverInv'
<1> DEFINE task == [kind |-> "part", obj |-> o, stamp |-> 0, by |-> th]
<1>1. /\ job[th].op = "submit" /\ place[o] = "game"
      /\ queue' = Append(queue, task) /\ queue \in Seq(TaskType)
      /\ asked' = [asked EXCEPT ![o] = Holds(o)]
      /\ UNCHANGED <<place, content, db, playerMap>>
  BY DEF Submit, InGame, TypeInv, QueueType
<1>2. /\ job'[th].op = "submit" /\ \A ti \in Threads \ {th} : job'[ti] = job[ti]
  <2>1. PICK s : job' = [job EXCEPT ![th].seen = s]
    BY DEF Submit
  <2> QED BY <1>1, <2>1 DEF TypeInv, JobsOK, JobType
<1>3. asked'[o] = Holds(o) /\ \A p \in Objects \ {o} : asked'[p] = asked[p]
  BY <1>1 DEF TypeInv, PlaceType
<1>4. task.kind = "part" /\ task.obj = o
  OBVIOUS
<1> HIDE DEF task
<1>5. /\ \E i \in DOMAIN queue' : queue'[i] = task
      /\ \A i \in DOMAIN queue' : queue'[i] = task \/ (i \in DOMAIN queue /\ queue'[i] = queue[i])
  <2>1. Len(queue) + 1 \in DOMAIN queue' /\ queue'[Len(queue) + 1] = task
    BY <1>1
  <2> QED BY <1>1, <2>1
<1>6. FreshOK'
  BY <1>1, <1>2, <1>4, <1>5 DEF CoverInv, FreshOK
<1>7. AskedOK'
  BY <1>1, <1>3 DEF CoverInv, AskedOK, InMemory, Holds
<1>8. ASSUME NEW p \in Objects, InMemory(p)' PROVE Covered(p)'
  <2>1. CASE p = o
    BY <1>4, <1>5, <2>1 DEF Covered, Pending
  <2>2. CASE p # o
    <3>1. \A ti \in Threads : Serves(ti, p) => job'[ti] = job[ti]
      BY <1>1, <1>2 DEF Serves
    <3>2. Covered(p)
      BY <1>1, <1>8 DEF CoverInv, InMemory
    <3> QED BY <1>1, <1>3, <2>2, <3>1, <3>2, QueueKept, CoverQuiet
  <2> QED BY <2>1, <2>2
<1> QED BY <1>6, <1>7, <1>8 DEF CoverInv

LEMMA CoverStep ==
    ASSUME TypeInv, OnceInv, CoverInv, OneEach, [Next]_vars PROVE CoverInv'
<1>1. CASE Handler \/ Closing
  BY <1>1, CoverHandler
<1>2. CASE Crash
  <2>1. /\ queue' = <<>> /\ (\A th \in Threads : job'[th] = Idle)
        /\ \A o \in Objects : ~InMemory(o)'
    BY <1>2 DEF Crash, InMemory
  <2> QED BY <2>1, IdleFields DEF CoverInv, AskedOK, FreshOK
<1>3. ASSUME NEW th \in Threads, Work(th) PROVE CoverInv'
  <2>1. CASE SubmitDone(th) \/ SaveAllDone(th) \/ LoadFails(th)
    <3>1. /\ job[th].op \in {"submit", "await", "load"}
          /\ UNCHANGED <<place, content, db, asked, playerMap, queue>>
      BY <2>1 DEF SubmitDone, SaveAllDone, LoadFails, saves
    <3>2. PICK j : job' = [job EXCEPT ![th] = j] /\ j.op \in {"await", "idle"}
      BY <2>1, IdleFields DEF SubmitDone, SaveAllDone, LoadFails, TypeInv, JobsOK, JobType
    <3>3. job'[th] = j /\ \A ti \in Threads \ {th} : job'[ti] = job[ti]
      BY <3>2 DEF TypeInv, JobsOK
    <3> QED BY <3>1, <3>2, <3>3, CoverThread DEF InMemory
  <2> QED BY <1>3, <2>1, CoverStarted, CoverStored, CoverEnded, CoverLoads, CoverSubmits DEF Work
<1>4. ASSUME NEW w \in Workers, PoolWork(w) PROVE CoverInv'
  BY <1>4, CoverTaken, CoverChecked DEF PoolWork
<1>5. ASSUME NEW o \in Objects, Release(o) PROVE CoverInv'
  <2>1. /\ place[o] = "gone" /\ UNCHANGED <<content, db, asked, playerMap, queue, job>>
        /\ \A q \in Objects : place'[q] = IF q = o THEN "free" ELSE place[q]
    BY <1>5 DEF Release, TypeInv, PlaceType, saves
  <2>2. /\ \A q \in Objects : InMemory(q)' => InMemory(q)
        /\ \A q \in Objects : place[q] = "free" => place'[q] = "free"
    BY <2>1 DEF InMemory
  <2>3. \A ti \in Threads : job[ti].op = "load" => job[ti].obj \in Objects
    BY DEF TypeInv, JobsOK, Works
  <2>4. FreshOK' /\ AskedOK'
    BY <2>1, <2>2, <2>3 DEF CoverInv, FreshOK, AskedOK
  <2>5. ASSUME NEW p \in Objects, InMemory(p)' PROVE Covered(p)'
    BY <2>1, <2>2, <2>5, CoverQuiet DEF CoverInv
  <2> QED BY <2>4, <2>5 DEF CoverInv
<1>6. CASE UNCHANGED vars
  <2>1. FreshOK' /\ AskedOK'
    BY <1>6 DEF vars, CoverInv, FreshOK, AskedOK, InMemory
  <2>2. ASSUME NEW p \in Objects, InMemory(p)' PROVE Covered(p)'
    BY <1>6, <2>2, CoverQuiet DEF vars, CoverInv, InMemory
  <2> QED BY <2>1, <2>2 DEF CoverInv
<1> QED BY <1>1, <1>2, <1>3, <1>4, <1>5, <1>6 DEF Next

LEMMA CoverStarts == Init => CoverInv
<1> SUFFICES ASSUME Init PROVE CoverInv
  OBVIOUS
<1>1. queue = <<>> /\ (\A th \in Threads : job[th] = Idle) /\ \A o \in Objects : ~InMemory(o)
  BY DEF Init, InMemory
<1> QED BY <1>1, IdleFields DEF CoverInv, AskedOK, FreshOK

\* With or without toggleSaveAsync, and whenever the process dies: what a player of
\* the game held when savePlayer or saveAll accepted it is stored, or a task of the
\* pool with the stamp of m_playerMap will store it, or a save in progress has still
\* to read it.  doSavePlayer may erase the stamp, because it has yet to read.
THEOREM RequestsCovered == ASSUME OneEach PROVE Spec => []RequestCovered
<1>1. TypeInv /\ OnceInv /\ CoverInv /\ [Next]_vars => TypeInv' /\ OnceInv' /\ CoverInv'
  BY OnceStep, CoverStep
<1>2. TypeInv /\ CoverInv => RequestCovered
  <2> SUFFICES ASSUME TypeInv, CoverInv, NEW o \in InGame
               PROVE  Covered(o)
    BY TypesHold DEF RequestCovered, Covered, Stored, Pending, Serves
  <2> QED BY DEF InGame, InMemory, CoverInv
<1> QED BY <1>1, <1>2, OnceStarts, CoverStarts, PTL DEF Spec
=============================================================================
