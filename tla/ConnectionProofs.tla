--------------------------- MODULE ConnectionProofs ---------------------------
(***************************************************************************)
(* A connection, for any number of packets and messages, with a client     *)
(* that sends, stalls or goes at any time, time-outs, kicks, and tasks     *)
(* that overtake or expire: one user of the input buffer and one of the    *)
(* queue's front (BuffersKept), messages sealed once and in order          *)
(* (SealedKept), and soft closes that drain the queue (SoftClosesFlush).   *)
(*                                                                         *)
(* The invariant counts.  Whoever may touch a buffer is an operation under *)
(* way, a completion not yet handled, a task or a step in progress: their  *)
(* number is one while the connection is open.  It is stated of a record d *)
(* rather than of the variable c, since every handler is a chain of        *)
(* functions on such records.                                              *)
(***************************************************************************)
EXTENDS Connection, ListsProofs

States == {"open", "identifying", "readings", "closed"}
Ops == ReadOps \cup {"worker", "write", "timeout"}
TaskNames == {"release", "sendLoginChallenge", "getCharacterList", "login", "packet"}
ConnectionType ==
    [state : States, managed : BOOLEAN, protocol : BOOLEAN, first : BOOLEAN,
     queue : Seq(Nat \ {0}), sent : Nat, sock : BOOLEAN, reads : Seq(ReadOps), writes : Seq(Nat),
     readTimer : BOOLEAN, writeTimer : BOOLEAN, ready : Seq(Completions(Ops)),
     tasks : Seq(TaskNames), due : SUBSET {"connect", "disconnect"}]
ProtocolType ==
    [player : {"none", "attached"}, acceptPackets : BOOLEAN, autosend : BOOLEAN,
     released : {"no", "yes", "expired"}]
WireType == [sealed : Seq(Nat), delivered : Nat, packets : Nat]

\* Completed reads, turns of the writer, and writes; tasks that hold a packet.
Heard(d) == Count(d.ready, Completions(ReadOps))
Working(d) == Count(d.ready, Completions({"worker", "write"}))
Wrote(d) == Count(d.ready, Completions({"write"}))
Packets(d) == Count(d.tasks, {"packet"})
Readers(d) == Len(d.reads) + Heard(d) + Packets(d)
Writers(d) == Len(d.writes) + Working(d)
Written(d) == Len(d.writes) + Wrote(d)
Challenges(d) == Count(d.tasks, {"sendLoginChallenge"})
Logins(d) == Count(d.tasks, {"login", "getCharacterList"})

\* Only a closed connection has no socket or is not managed.
Whole(d) == d.state # "closed" => d.sock /\ d.managed

\* The queue is what has been accepted and not yet written, n messages having
\* been sealed; sealing says whether onSendMessage is under way.
Queued(d, n, sealing) ==
    /\ Writers(d) + Ones(sealing) = Ones(d.queue # <<>>)
    /\ d.queue # <<>> =>
          /\ n + Len(d.queue) = d.sent + Written(d)
          /\ \A i \in 1 .. Len(d.queue) : d.queue[i] = (d.sent - Len(d.queue)) + i
    /\ d.queue = <<>> => n <= d.sent
    /\ d.queue = <<>> /\ d.state # "closed" => n = d.sent

\* What has been sealed is delivered or on its way, while the socket is open.
Flowing(d, n, delivered, gone) ==
    /\ delivered + Len(d.writes) <= n
    /\ d.sock /\ ~gone => delivered + Len(d.writes) = n

Core(d, n, sealing, delivered, gone) ==
    Whole(d) /\ Queued(d, n, sealing) /\ Flowing(d, n, delivered, gone)

\* What the server says by itself is said before the game can say anything, or
\* instead of it, or when the connection is closed.
Bounded(d, busy) ==
    /\ d.sent <= MaxSent + 2
    /\ kind = "login" => Challenges(d) = 0
    /\ d.state # "closed" =>
          /\ ~d.first => d.sent + Challenges(d) <= 1 /\ Logins(d) = 0 /\ d.due = {} /\ ~busy
          /\ d.first => Challenges(d) = 0
          /\ "disconnect" \in d.due => Logins(d) = 0 /\ "connect" \notin d.due /\ ~busy
          /\ d.first /\ "disconnect" \notin d.due => d.sent <= MaxSent + 1

Busy == p.acceptPackets \/ p.autosend
Sealing == io = "sealing"
Gone == peer = "gone"
SealedNow == Len(wire.sealed)

\* Everything but the connection.
Shape ==
    /\ p \in ProtocolType /\ wire \in WireType
    /\ kind \in {"none", "game", "login"} /\ io \in {"loop", "sealing", "posted"}
    /\ disp \in {"idle", "parsing"} /\ peer \in {"active", "stalled", "gone"}
    /\ wire.sealed = [i \in 1 .. SealedNow |-> i]

\* The buffer for input has one holder, or, closed, perhaps none.
Held(d, parsing) ==
    /\ Readers(d) + Ones(parsing) <= 1
    /\ d.state # "closed" => Readers(d) + Ones(parsing) = 1

\* Nothing has been accepted yet.
Untouched ==
    /\ c = [state |-> "open", managed |-> TRUE, protocol |-> FALSE, first |-> FALSE,
            queue |-> <<>>, sent |-> 0, sock |-> TRUE, reads |-> <<>>, writes |-> <<>>,
            readTimer |-> FALSE, writeTimer |-> FALSE, ready |-> <<>>, tasks |-> <<>>,
            due |-> {}]
    /\ ~p.acceptPackets /\ ~p.autosend /\ io = "loop" /\ disp = "idle"

ConnectionInv ==
    /\ Shape
    /\ c \in ConnectionType
    /\ Core(c, SealedNow, Sealing, wire.delivered, Gone)
    /\ Bounded(c, Busy)
    /\ kind # "none" => Held(c, disp = "parsing")
    /\ kind = "none" => Untouched
-----------------------------------------------------------------------------
(* What is counted. *)

LEMMA Member ==
    ASSUME NEW h \in Completions(Ops), NEW S PROVE h \in Completions(S) <=> h.op \in S
BY DEF Completions

LEMMA Fields ==
    ASSUME NEW d \in ConnectionType
    PROVE  /\ d.ready \in Seq(Completions(Ops)) /\ d.tasks \in Seq(TaskNames)
           /\ d.reads \in Seq(ReadOps) /\ d.writes \in Seq(Nat)
           /\ d.queue \in Seq(Nat) /\ d.queue \in Seq(Nat \ {0})
           /\ d.sent \in Nat /\ d.state \in States /\ d.due \subseteq {"connect", "disconnect"}
           /\ d.sock \in BOOLEAN /\ d.managed \in BOOLEAN /\ d.first \in BOOLEAN
           /\ d.protocol \in BOOLEAN
BY DEF ConnectionType

LEMMA Numbers ==
    ASSUME NEW d \in ConnectionType
    PROVE  /\ Heard(d) \in Nat /\ Working(d) \in Nat /\ Wrote(d) \in Nat /\ Packets(d) \in Nat
           /\ Challenges(d) \in Nat /\ Logins(d) \in Nat
           /\ Wrote(d) <= Working(d) /\ Len(d.writes) \in Nat /\ Len(d.reads) \in Nat
           /\ Readers(d) \in Nat /\ Writers(d) \in Nat /\ Written(d) \in Nat
<1>1. /\ Len(d.reads) \in Nat /\ Len(d.writes) \in Nat
      /\ Heard(d) \in Nat /\ Working(d) \in Nat /\ Wrote(d) \in Nat /\ Packets(d) \in Nat
      /\ Challenges(d) \in Nat /\ Logins(d) \in Nat
    BY Fields, CountType DEF Heard, Working, Wrote, Packets, Challenges, Logins
<1>2. Completions({"write"}) \subseteq Completions({"worker", "write"})
    BY DEF Completions
<1>3. Wrote(d) <= Working(d)
    BY <1>2, Fields, CountMore DEF Wrote, Working
<1> DEFINE reads == Len(d.reads)
           writes == Len(d.writes)
           heard == Heard(d)
           packets == Packets(d)
           working == Working(d)
           wrote == Wrote(d)
<1>4. reads + heard + packets \in Nat /\ writes + working \in Nat /\ writes + wrote \in Nat
    <2>1. /\ reads \in Nat /\ heard \in Nat /\ packets \in Nat
          /\ writes \in Nat /\ working \in Nat /\ wrote \in Nat
        BY <1>1
    <2> HIDE DEF reads, writes, heard, packets, working, wrote
    <2> QED BY ONLY <2>1, SMT
<1> QED BY <1>1, <1>3, <1>4 DEF Readers, Writers, Written

\* One more completed operation.
LEMMA PushedReady ==
    ASSUME NEW d \in ConnectionType, NEW h \in Completions(Ops), NEW S
    PROVE  Count(Append(d.ready, h), Completions(S))
           = Count(d.ready, Completions(S)) + Ones(h.op \in S)
<1>1. Count(Append(d.ready, h), Completions(S))
      = Count(d.ready, Completions(S)) + (IF h \in Completions(S) THEN 1 ELSE 0)
    BY Fields, CountAppend
<1> QED BY <1>1, Member DEF Ones

LEMMA Pushed ==
    ASSUME NEW d \in ConnectionType, NEW h \in Completions(Ops),
           NEW e, e = [d EXCEPT !.ready = Append(d.ready, h)]
    PROVE  /\ e \in ConnectionType
           /\ Readers(e) = Readers(d) + Ones(h.op \in ReadOps)
           /\ Writers(e) = Writers(d) + Ones(h.op \in {"worker", "write"})
           /\ Written(e) = Written(d) + Ones(h.op \in {"write"})
           /\ Challenges(e) = Challenges(d) /\ Logins(e) = Logins(d)
<1>1. /\ e \in ConnectionType /\ e.reads = d.reads /\ e.writes = d.writes /\ e.tasks = d.tasks
      /\ e.ready = Append(d.ready, h)
    <2>1. Append(d.ready, h) \in Seq(Completions(Ops))
        BY Fields
    <2> QED BY <2>1 DEF ConnectionType
<1>2. Heard(e) = Heard(d) + Ones(h.op \in ReadOps)
    BY <1>1, PushedReady DEF Heard
<1>3. Working(e) = Working(d) + Ones(h.op \in {"worker", "write"})
    BY <1>1, PushedReady DEF Working
<1>4. Wrote(e) = Wrote(d) + Ones(h.op \in {"write"})
    BY <1>1, PushedReady DEF Wrote
<1>5. Packets(e) = Packets(d) /\ Challenges(e) = Challenges(d) /\ Logins(e) = Logins(d)
    BY <1>1 DEF Packets, Challenges, Logins
<1> DEFINE reads == Len(d.reads)
           writes == Len(d.writes)
<1>6. /\ Heard(d) \in Nat /\ Working(d) \in Nat /\ Wrote(d) \in Nat /\ Packets(d) \in Nat
      /\ reads \in Nat /\ writes \in Nat
    BY Numbers
<1>7. /\ Readers(d) = reads + Heard(d) + Packets(d) /\ Readers(e) = reads + Heard(e) + Packets(e)
      /\ Writers(d) = writes + Working(d) /\ Writers(e) = writes + Working(e)
      /\ Written(d) = writes + Wrote(d) /\ Written(e) = writes + Wrote(e)
    BY <1>1 DEF Readers, Writers, Written
<1> HIDE DEF reads, writes
<1> DEFINE x == Ones(h.op \in ReadOps)
           y == Ones(h.op \in {"worker", "write"})
           z == Ones(h.op \in {"write"})
<1>8. x \in Nat /\ y \in Nat /\ z \in Nat
    BY DEF Ones
<1>9. Heard(e) = Heard(d) + x /\ Working(e) = Working(d) + y /\ Wrote(e) = Wrote(d) + z
    BY <1>2, <1>3, <1>4
<1> HIDE DEF x, y, z
<1>10. Readers(e) = Readers(d) + x
    BY <1>5, <1>6, <1>7, <1>8, <1>9
<1>11. Writers(e) = Writers(d) + y
    BY <1>6, <1>7, <1>8, <1>9
<1>12. Written(e) = Written(d) + z
    BY <1>6, <1>7, <1>8, <1>9
<1> QED BY <1>1, <1>5, <1>10, <1>11, <1>12 DEF x, y, z

LEMMA TailedReady ==
    ASSUME NEW d \in ConnectionType, d.ready # <<>>, NEW S
    PROVE  /\ Head(d.ready) \in Completions(Ops) /\ Tail(d.ready) \in Seq(Completions(Ops))
           /\ Count(d.ready, Completions(S))
              = Count(Tail(d.ready), Completions(S)) + Ones(Head(d.ready).op \in S)
<1> DEFINE s == d.ready
<1>1. s \in Seq(Completions(Ops)) /\ s # <<>>
    BY Fields
<1> HIDE DEF s
<1>2. Head(s) \in Completions(Ops) /\ Tail(s) \in Seq(Completions(Ops))
    BY <1>1
<1>3. Count(s, Completions(S))
      = Count(Tail(s), Completions(S)) + (IF Head(s) \in Completions(S) THEN 1 ELSE 0)
    BY <1>1, CountTail
<1>4. Count(s, Completions(S)) = Count(Tail(s), Completions(S)) + Ones(Head(s).op \in S)
    BY <1>2, <1>3, Member DEF Ones
<1> QED BY <1>2, <1>4 DEF s

\* One completed operation less.
LEMMA Tailed ==
    ASSUME NEW d \in ConnectionType, d.ready # <<>>,
           NEW e, e = [d EXCEPT !.ready = Tail(d.ready)]
    PROVE  /\ e \in ConnectionType /\ Head(d.ready) \in Completions(Ops)
           /\ Readers(d) = Readers(e) + Ones(Head(d.ready).op \in ReadOps)
           /\ Writers(d) = Writers(e) + Ones(Head(d.ready).op \in {"worker", "write"})
           /\ Written(d) = Written(e) + Ones(Head(d.ready).op \in {"write"})
           /\ Challenges(e) = Challenges(d) /\ Logins(e) = Logins(d)
<1> DEFINE h == Head(d.ready)
<1>1. /\ e \in ConnectionType /\ e.reads = d.reads /\ e.writes = d.writes /\ e.tasks = d.tasks
      /\ e.ready = Tail(d.ready) /\ h \in Completions(Ops)
    <2>1. Tail(d.ready) \in Seq(Completions(Ops)) /\ h \in Completions(Ops)
        BY TailedReady
    <2> HIDE DEF h
    <2> QED BY <2>1 DEF ConnectionType
<1>2. Heard(d) = Heard(e) + Ones(h.op \in ReadOps)
    BY <1>1, TailedReady DEF Heard
<1>3. Working(d) = Working(e) + Ones(h.op \in {"worker", "write"})
    BY <1>1, TailedReady DEF Working
<1>4. Wrote(d) = Wrote(e) + Ones(h.op \in {"write"})
    BY <1>1, TailedReady DEF Wrote
<1>5. Packets(e) = Packets(d) /\ Challenges(e) = Challenges(d) /\ Logins(e) = Logins(d)
    BY <1>1 DEF Packets, Challenges, Logins
<1> DEFINE reads == Len(d.reads)
           writes == Len(d.writes)
<1>6. /\ Heard(e) \in Nat /\ Working(e) \in Nat /\ Wrote(e) \in Nat /\ Packets(e) \in Nat
      /\ reads \in Nat /\ writes \in Nat
    BY <1>1, Numbers
<1>7. /\ Readers(d) = reads + Heard(d) + Packets(d) /\ Readers(e) = reads + Heard(e) + Packets(e)
      /\ Writers(d) = writes + Working(d) /\ Writers(e) = writes + Working(e)
      /\ Written(d) = writes + Wrote(d) /\ Written(e) = writes + Wrote(e)
    BY <1>1 DEF Readers, Writers, Written
<1> DEFINE x == Ones(h.op \in ReadOps)
           y == Ones(h.op \in {"worker", "write"})
           z == Ones(h.op \in {"write"})
<1>8. x \in Nat /\ y \in Nat /\ z \in Nat
    BY DEF Ones
<1>9. Heard(d) = Heard(e) + x /\ Working(d) = Working(e) + y /\ Wrote(d) = Wrote(e) + z
    BY <1>2, <1>3, <1>4
<1> HIDE DEF reads, writes, x, y, z
<1>10. Readers(d) = Readers(e) + x
    BY <1>5, <1>6, <1>7, <1>8, <1>9
<1>11. Writers(d) = Writers(e) + y
    BY <1>6, <1>7, <1>8, <1>9
<1>12. Written(d) = Written(e) + z
    BY <1>6, <1>7, <1>8, <1>9
<1> QED BY <1>1, <1>5, <1>10, <1>11, <1>12 DEF x, y, z

\* What a step may do to a connection that neither sends nor writes.
Like(d, e) ==
    /\ e \in ConnectionType
    /\ e.first = d.first /\ e.queue = d.queue /\ e.sent = d.sent /\ e.due = d.due
    /\ Challenges(e) = Challenges(d) /\ Logins(e) = Logins(d)
    /\ Writers(e) = Writers(d) /\ Written(e) = Written(d)
    /\ e.sock => d.sock /\ e.writes = d.writes
    /\ e.writes = d.writes \/ e.writes = <<>>
    /\ e.state # "closed" => d.state # "closed" /\ e.sock = d.sock /\ e.managed = d.managed

LEMMA LikeItself == ASSUME NEW d \in ConnectionType PROVE Like(d, d)
BY DEF Like

LEMMA LikeLike ==
    ASSUME NEW d, NEW e, NEW f, Like(d, e), Like(e, f) PROVE Like(d, f)
BY DEF Like

\* What is not counted: flags and timers.
LEMMA Flags ==
    ASSUME NEW d \in ConnectionType, NEW e \in ConnectionType,
           e.reads = d.reads, e.writes = d.writes, e.ready = d.ready, e.tasks = d.tasks
    PROVE  /\ Readers(e) = Readers(d) /\ Writers(e) = Writers(d) /\ Written(e) = Written(d)
           /\ Challenges(e) = Challenges(d) /\ Logins(e) = Logins(d)
BY DEF Readers, Writers, Written, Heard, Working, Wrote, Packets, Challenges, Logins

LEMMA Aborted ==
    ASSUME NEW d \in ConnectionType
    PROVE  LET reads == [i \in DOMAIN d.reads |-> Done(d.reads[i], FALSE)]
               writes == [i \in DOMAIN d.writes |-> Done("write", FALSE)]
           IN  /\ reads \in Seq(Completions(ReadOps)) /\ Len(reads) = Len(d.reads)
               /\ writes \in Seq(Completions({"write"})) /\ Len(writes) = Len(d.writes)
<1> DEFINE s == d.reads
           w == d.writes
<1>1. s \in Seq(ReadOps) /\ w \in Seq(Nat)
    BY Fields
<1> HIDE DEF s, w
<1>2. \A i \in DOMAIN s : Done(s[i], FALSE) \in Completions(ReadOps)
    BY <1>1 DEF Done, Completions
<1>3. Done("write", FALSE) \in Completions({"write"})
    BY DEF Done, Completions
<1>4. /\ [i \in DOMAIN s |-> Done(s[i], FALSE)] \in Seq(Completions(ReadOps))
      /\ Len([i \in DOMAIN s |-> Done(s[i], FALSE)]) = Len(s)
    <2>1. DOMAIN s = 1 .. Len(s) /\ Len(s) \in Nat
        BY <1>1
    <2> DEFINE f == [i \in 1 .. Len(s) |-> Done(s[i], FALSE)]
    <2>2. f \in [1 .. Len(s) -> Completions(ReadOps)]
        BY <1>2, <2>1
    <2>3. DOMAIN f = 1 .. Len(s)
        OBVIOUS
    <2> HIDE DEF f
    <2>4. f \in Seq(Completions(ReadOps)) /\ Len(f) = Len(s)
        BY <2>1, <2>2, <2>3
    <2> QED BY <2>1, <2>4 DEF f
<1>5. /\ [i \in DOMAIN w |-> Done("write", FALSE)] \in Seq(Completions({"write"}))
      /\ Len([i \in DOMAIN w |-> Done("write", FALSE)]) = Len(w)
    <2>1. DOMAIN w = 1 .. Len(w) /\ Len(w) \in Nat
        BY <1>1
    <2> DEFINE f == [i \in 1 .. Len(w) |-> Done("write", FALSE)]
    <2>2. f \in [1 .. Len(w) -> Completions({"write"})]
        BY <1>3
    <2>3. DOMAIN f = 1 .. Len(w)
        OBVIOUS
    <2> HIDE DEF f
    <2>4. f \in Seq(Completions({"write"})) /\ Len(f) = Len(w)
        BY <2>1, <2>2, <2>3
    <2> QED BY <2>1, <2>4 DEF f
<1> QED BY <1>4, <1>5 DEF s, w

LEMMA AbortedCount ==
    ASSUME NEW r \in Seq(Completions(Ops)), NEW a \in Seq(Completions(ReadOps)),
           NEW b \in Seq(Completions({"write"}))
    PROVE  /\ r \o a \o b \in Seq(Completions(Ops))
           /\ Count(r \o a \o b, Completions(ReadOps))
              = Count(r, Completions(ReadOps)) + Len(a)
           /\ Count(r \o a \o b, Completions({"worker", "write"}))
              = Count(r, Completions({"worker", "write"})) + Len(b)
           /\ Count(r \o a \o b, Completions({"write"}))
              = Count(r, Completions({"write"})) + Len(b)
<1> DEFINE q == r \o a
           Every(S) == Completions(S)
<1>1. /\ Completions(ReadOps) \subseteq Completions(Ops)
      /\ Completions({"write"}) \subseteq Completions(Ops)
      /\ Completions({"write"}) \subseteq Completions({"worker", "write"})
    BY DEF Completions, Ops
<1>2. /\ Completions(ReadOps) \cap Completions({"worker", "write"}) = {}
      /\ Completions(ReadOps) \cap Completions({"write"}) = {}
    BY DEF Completions, ReadOps
<1>3. a \in Seq(Completions(Ops)) /\ b \in Seq(Completions(Ops))
    BY <1>1
<1>4. q \in Seq(Completions(Ops)) /\ q \o b \in Seq(Completions(Ops))
    BY <1>3
<1> HIDE DEF q
<1>5. ASSUME NEW S PROVE Count(q, S) = Count(r, S) + Count(a, S)
    BY <1>3, CountConcat DEF q
<1>6. ASSUME NEW S PROVE Count(q \o b, S) = Count(q, S) + Count(b, S)
    BY <1>3, <1>4, CountConcat
<1>7. ASSUME NEW S PROVE Count(r, S) \in Nat
    BY CountType
<1>8. Len(a) \in Nat /\ Len(b) \in Nat
    OBVIOUS
<1>9. /\ Count(a, Completions(ReadOps)) = Len(a) /\ Count(b, Completions(ReadOps)) = 0
      /\ Count(a, Completions({"worker", "write"})) = 0
      /\ Count(b, Completions({"worker", "write"})) = Len(b)
      /\ Count(a, Completions({"write"})) = 0 /\ Count(b, Completions({"write"})) = Len(b)
    <2>1. Count(a, Completions(ReadOps)) = Len(a) /\ Count(b, Completions({"write"})) = Len(b)
        BY CountAll
    <2>2. Count(b, Completions({"worker", "write"})) = Len(b)
        BY <1>1, CountAll
    <2>3. /\ Count(a, Completions({"worker", "write"})) = 0
          /\ Count(a, Completions({"write"})) = 0
        BY <1>2, CountNone
    <2>4. Completions({"write"}) \cap Completions(ReadOps) = {}
        BY <1>2
    <2>5. Count(b, Completions(ReadOps)) = 0
        BY <2>4, CountNone
    <2> QED BY <2>1, <2>2, <2>3, <2>5
<1>10. Count(q \o b, Completions(ReadOps)) = Count(r, Completions(ReadOps)) + Len(a)
    BY <1>5, <1>6, <1>7, <1>8, <1>9
<1>11. Count(q \o b, Completions({"worker", "write"}))
       = Count(r, Completions({"worker", "write"})) + Len(b)
    BY <1>5, <1>6, <1>7, <1>8, <1>9
<1>12. Count(q \o b, Completions({"write"})) = Count(r, Completions({"write"})) + Len(b)
    BY <1>5, <1>6, <1>7, <1>8, <1>9
<1> QED BY <1>4, <1>10, <1>11, <1>12 DEF q

-----------------------------------------------------------------------------
(* The functions of Connection. *)

LEMMA SocketCloses ==
    ASSUME NEW d \in ConnectionType, d.state = "closed"
    PROVE  /\ Like(d, closeSocket(d)) /\ Readers(closeSocket(d)) = Readers(d)
           /\ closeSocket(d).state = "closed" /\ ~closeSocket(d).sock
           /\ closeSocket(d).managed = d.managed
<1>1. CASE ~d.sock
    BY <1>1, LikeItself DEF closeSocket
<1>2. CASE d.sock
    <2> DEFINE a == [i \in DOMAIN d.reads |-> Done(d.reads[i], FALSE)]
               b == [i \in DOMAIN d.writes |-> Done("write", FALSE)]
               e == closeSocket(d)
    <2>1. e = [d EXCEPT !.sock = FALSE, !.readTimer = FALSE, !.writeTimer = FALSE,
                        !.reads = <<>>, !.writes = <<>>, !.ready = d.ready \o a \o b]
        BY <1>2 DEF closeSocket
    <2>2. /\ a \in Seq(Completions(ReadOps)) /\ Len(a) = Len(d.reads)
          /\ b \in Seq(Completions({"write"})) /\ Len(b) = Len(d.writes)
        BY Aborted
    <2> HIDE DEF a, b
    <2>3. d.ready \o a \o b \in Seq(Completions(Ops))
        BY <2>2, Fields, AbortedCount
    <2> DEFINE r == d.ready \o a \o b
    <2> HIDE DEF r
    <2>4. /\ e \in ConnectionType /\ e.reads = <<>> /\ e.writes = <<>> /\ e.ready = r
          /\ e.tasks = d.tasks /\ e.first = d.first /\ e.queue = d.queue /\ e.sent = d.sent
          /\ e.due = d.due /\ e.state = d.state /\ e.managed = d.managed /\ ~e.sock
        <3>1. r \in Seq(Completions(Ops)) /\ <<>> \in Seq(ReadOps) /\ <<>> \in Seq(Nat)
            BY <2>3, EmptySeq DEF r
        <3>2. e = [d EXCEPT !.sock = FALSE, !.readTimer = FALSE, !.writeTimer = FALSE,
                            !.reads = <<>>, !.writes = <<>>, !.ready = r]
            BY <2>1 DEF r
        <3> HIDE DEF e
        <3> QED BY <3>1, <3>2 DEF ConnectionType
    <2> HIDE DEF e
    <2>5. Heard(e) = Heard(d) + Len(d.reads)
        BY <2>2, <2>4, Fields, AbortedCount DEF Heard, r
    <2>6. Working(e) = Working(d) + Len(d.writes)
        BY <2>2, <2>4, Fields, AbortedCount DEF Working, r
    <2>7. Wrote(e) = Wrote(d) + Len(d.writes)
        BY <2>2, <2>4, Fields, AbortedCount DEF Wrote, r
    <2>8. Packets(e) = Packets(d) /\ Challenges(e) = Challenges(d) /\ Logins(e) = Logins(d)
        BY <2>4 DEF Packets, Challenges, Logins
    <2> DEFINE reads == Len(d.reads)
               writes == Len(d.writes)
    <2>9. /\ Readers(d) = reads + Heard(d) + Packets(d) /\ Readers(e) = 0 + Heard(e) + Packets(e)
          /\ Writers(d) = writes + Working(d) /\ Writers(e) = 0 + Working(e)
          /\ Written(d) = writes + Wrote(d) /\ Written(e) = 0 + Wrote(e)
        <3>1. Len(e.reads) = 0 /\ Len(e.writes) = 0
            BY <2>4, EmptySeq
        <3> QED BY <3>1 DEF Readers, Writers, Written
    <2>10. /\ reads \in Nat /\ writes \in Nat
           /\ Heard(d) \in Nat /\ Packets(d) \in Nat /\ Working(d) \in Nat /\ Wrote(d) \in Nat
        BY Numbers
    <2>11. Heard(e) = Heard(d) + reads /\ Working(e) = Working(d) + writes
           /\ Wrote(e) = Wrote(d) + writes
        BY <2>5, <2>6, <2>7
    <2> HIDE DEF reads, writes
    <2>12. Readers(e) = Readers(d) /\ Writers(e) = Writers(d) /\ Written(e) = Written(d)
        BY <2>8, <2>9, <2>10, <2>11
    <2> QED BY <2>4, <2>8, <2>12 DEF Like, e
<1> QED BY <1>1, <1>2, Fields
Standing(d, e) == e.state = d.state /\ e.sock = d.sock /\ e.managed = d.managed

LEMMA Posts ==
    ASSUME NEW d \in ConnectionType, NEW task \in TaskNames
    PROVE  LET e == post(d, task) IN
           /\ e \in ConnectionType /\ Standing(d, e)
           /\ e.first = d.first /\ e.queue = d.queue /\ e.sent = d.sent /\ e.due = d.due
           /\ e.writes = d.writes /\ e.protocol = d.protocol
           /\ Writers(e) = Writers(d) /\ Written(e) = Written(d)
           /\ Readers(e) = Readers(d) + Ones(task = "packet")
           /\ Challenges(e) = Challenges(d) + Ones(task = "sendLoginChallenge")
           /\ Logins(e) = Logins(d) + Ones(task \in {"login", "getCharacterList"})
<1> DEFINE e == post(d, task)
           new == Append(d.tasks, task)
<1>1. new \in Seq(TaskNames)
    BY Fields
<1>2. \A S : Count(new, S) = Count(d.tasks, S) + (IF task \in S THEN 1 ELSE 0)
    BY Fields, CountAppend
<1> HIDE DEF new
<1>3. /\ e \in ConnectionType /\ Standing(d, e) /\ e.tasks = new /\ e.ready = d.ready
      /\ e.first = d.first /\ e.queue = d.queue /\ e.sent = d.sent /\ e.due = d.due
      /\ e.writes = d.writes /\ e.reads = d.reads /\ e.protocol = d.protocol
    BY <1>1 DEF post, ConnectionType, Standing, new
<1> HIDE DEF e
<1>4. Packets(e) = Packets(d) + Ones(task = "packet")
    BY <1>2, <1>3 DEF Packets, Ones
<1>5. Challenges(e) = Challenges(d) + Ones(task = "sendLoginChallenge")
    BY <1>2, <1>3 DEF Challenges, Ones
<1>6. Logins(e) = Logins(d) + Ones(task \in {"login", "getCharacterList"})
    BY <1>2, <1>3 DEF Logins, Ones
<1> DEFINE reads == Len(d.reads)
           x == Ones(task = "packet")
<1>7. /\ Readers(d) = reads + Heard(d) + Packets(d) /\ Readers(e) = reads + Heard(d) + Packets(e)
      /\ Writers(e) = Writers(d) /\ Written(e) = Written(d)
    BY <1>3 DEF Readers, Writers, Written, Heard, Working, Wrote
<1>8. reads \in Nat /\ Heard(d) \in Nat /\ Packets(d) \in Nat /\ x \in Nat
      /\ Packets(e) = Packets(d) + x
    BY <1>4, Numbers DEF Ones
<1> HIDE DEF reads, x
<1>9. Readers(e) = Readers(d) + x
    BY <1>7, <1>8
<1> QED BY <1>3, <1>5, <1>6, <1>7, <1>9 DEF e, x

LEMMA PostsRelease ==
    ASSUME NEW d \in ConnectionType
    PROVE  /\ Like(d, post(d, "release")) /\ Readers(post(d, "release")) = Readers(d)
           /\ Standing(d, post(d, "release"))
<1> DEFINE e == post(d, "release")
<1>1. "release" \in TaskNames /\ Ones("release" = "packet") = 0
      /\ Ones("release" = "sendLoginChallenge") = 0
      /\ Ones("release" \in {"login", "getCharacterList"}) = 0
    BY DEF TaskNames, Ones
<1>2. /\ e \in ConnectionType /\ Standing(d, e)
      /\ e.first = d.first /\ e.queue = d.queue /\ e.sent = d.sent /\ e.due = d.due
      /\ e.writes = d.writes /\ e.protocol = d.protocol
      /\ Writers(e) = Writers(d) /\ Written(e) = Written(d)
      /\ Readers(e) = Readers(d) + 0 /\ Challenges(e) = Challenges(d) + 0
      /\ Logins(e) = Logins(d) + 0
    BY <1>1, Posts
<1>3. Readers(d) \in Nat /\ Challenges(d) \in Nat /\ Logins(d) \in Nat
    BY Numbers
<1> HIDE DEF e
<1>4. Readers(e) = Readers(d) /\ Challenges(e) = Challenges(d) /\ Logins(e) = Logins(d)
    BY <1>2, <1>3
<1>5. Like(d, e)
    BY <1>2, <1>4 DEF Like, Standing
<1> QED BY <1>2, <1>4, <1>5 DEF e

LEMMA Closes ==
    ASSUME NEW d \in ConnectionType, NEW force \in BOOLEAN
    PROVE  LET e == close(d, force) IN
           /\ Like(d, e) /\ Readers(e) = Readers(d) /\ e.state = "closed"
           /\ d.sock /\ ~e.sock => d.state # "closed" /\ (d.queue = <<>> \/ force)
<1>1. CASE d.state = "closed"
    <2> DEFINE e == [d EXCEPT !.managed = FALSE]
    <2>1. /\ e \in ConnectionType /\ e.state = "closed" /\ e.sock = d.sock /\ e.first = d.first
          /\ e.queue = d.queue /\ e.sent = d.sent /\ e.due = d.due /\ e.reads = d.reads
          /\ e.writes = d.writes /\ e.ready = d.ready /\ e.tasks = d.tasks
        BY <1>1 DEF ConnectionType
    <2> HIDE DEF e
    <2>2. Like(d, e) /\ Readers(e) = Readers(d)
        BY <2>1, Flags DEF Like
    <2>3. close(d, force) = e
        BY <1>1 DEF close, e
    <2> QED BY <2>1, <2>2, <2>3, <1>1
<1>2. CASE d.state # "closed"
    <2> DEFINE f == IF d.protocol THEN post(d, "release") ELSE d
               e == [f EXCEPT !.managed = FALSE, !.state = "closed"]
    <2>1. Like(d, f) /\ Readers(f) = Readers(d) /\ Standing(d, f) /\ f \in ConnectionType
        BY LikeItself, PostsRelease DEF Like, Standing
    <2> HIDE DEF f
    <2>2. /\ e \in ConnectionType /\ e.state = "closed" /\ e.sock = f.sock /\ e.first = f.first
          /\ e.queue = f.queue /\ e.sent = f.sent /\ e.due = f.due /\ e.reads = f.reads
          /\ e.writes = f.writes /\ e.ready = f.ready /\ e.tasks = f.tasks
        BY <2>1 DEF ConnectionType, States
    <2>3. close(d, force) = IF d.queue = <<>> \/ force THEN closeSocket(e) ELSE e
        BY <1>2 DEF close, f
    <2> HIDE DEF e
    <2>4. Like(f, e) /\ Readers(e) = Readers(f)
        BY <2>1, <2>2, Flags DEF Like
    <2>5. Like(d, e) /\ Readers(e) = Readers(d)
        BY <2>1, <2>4, LikeLike
    <2>6. CASE d.queue = <<>> \/ force
        <3>1. /\ Like(e, closeSocket(e)) /\ Readers(closeSocket(e)) = Readers(e)
              /\ closeSocket(e).state = "closed"
            BY <2>2, SocketCloses
        <3>2. Like(d, closeSocket(e))
            BY <2>5, <3>1, LikeLike
        <3> QED BY <1>2, <2>3, <2>5, <2>6, <3>1, <3>2
    <2>7. CASE ~(d.queue = <<>> \/ force)
        <3>1. e.sock = d.sock /\ close(d, force) = e
            BY <2>1, <2>2, <2>3, <2>7 DEF Standing
        <3> QED BY <2>2, <2>5, <3>1
    <2> QED BY <2>6, <2>7
<1> QED BY <1>1, <1>2

LEMMA Arms ==
    ASSUME NEW d \in ConnectionType, NEW b \in BOOLEAN
    PROVE  LET e == [d EXCEPT !.readTimer = b] IN
           Like(d, e) /\ Readers(e) = Readers(d) /\ Standing(d, e) /\ e.sent = d.sent
<1> DEFINE e == [d EXCEPT !.readTimer = b]
<1>1. /\ e \in ConnectionType /\ e.state = d.state /\ e.sock = d.sock /\ e.first = d.first
      /\ e.queue = d.queue /\ e.sent = d.sent /\ e.due = d.due /\ e.reads = d.reads
      /\ e.writes = d.writes /\ e.ready = d.ready /\ e.tasks = d.tasks /\ e.managed = d.managed
    BY DEF ConnectionType
<1> HIDE DEF e
<1>2. Like(d, e) /\ Readers(e) = Readers(d) /\ Standing(d, e)
    BY <1>1, Flags DEF Like, Standing
<1> QED BY <1>1, <1>2 DEF e

LEMMA ReadsMore ==
    ASSUME NEW d \in ConnectionType, NEW op \in ReadOps
    PROVE  LET e == asyncRead(d, op) IN
           Like(d, e) /\ Readers(e) = Readers(d) + 1 /\ Standing(d, e)
<1>1. CASE d.sock
    <2> DEFINE new == Append(d.reads, op)
               e == [d EXCEPT !.reads = new]
    <2>1. new \in Seq(ReadOps) /\ Len(new) = Len(d.reads) + 1
        BY Fields
    <2> HIDE DEF new
    <2>2. /\ e \in ConnectionType /\ e.state = d.state /\ e.sock = d.sock /\ e.first = d.first
          /\ e.queue = d.queue /\ e.sent = d.sent /\ e.due = d.due /\ e.reads = new
          /\ e.writes = d.writes /\ e.ready = d.ready /\ e.tasks = d.tasks /\ e.managed = d.managed
        BY <2>1 DEF ConnectionType
    <2> HIDE DEF e
    <2>3. /\ Writers(e) = Writers(d) /\ Written(e) = Written(d)
          /\ Challenges(e) = Challenges(d) /\ Logins(e) = Logins(d)
          /\ Readers(d) = Len(d.reads) + Heard(d) + Packets(d)
          /\ Readers(e) = Len(new) + Heard(d) + Packets(d)
        BY <2>2 DEF Writers, Written, Working, Wrote, Challenges, Logins, Readers, Heard, Packets
    <2> DEFINE n == Len(d.reads)
               m == Len(new)
    <2>4. n \in Nat /\ Heard(d) \in Nat /\ Packets(d) \in Nat /\ m = n + 1
        BY <2>1, Numbers
    <2>5. Readers(e) = m + Heard(d) + Packets(d) /\ Readers(d) = n + Heard(d) + Packets(d)
        BY <2>3
    <2> HIDE DEF n, m
    <2>6. Readers(e) = Readers(d) + 1
        BY <2>4, <2>5
    <2>7. asyncRead(d, op) = e
        BY <1>1 DEF asyncRead, e, new
    <2> QED BY <2>2, <2>3, <2>6, <2>7 DEF Like, Standing
<1>2. CASE ~d.sock
    <2> DEFINE h == Done(op, FALSE)
               e == [d EXCEPT !.ready = Append(d.ready, h)]
    <2>1. /\ h \in Completions(Ops) /\ h.op \in ReadOps /\ h.op \notin {"worker", "write"}
          /\ h.op \notin {"write"}
        BY DEF Done, Completions, Ops, ReadOps
    <2>2. asyncRead(d, op) = e
        BY <1>2 DEF asyncRead
    <2> HIDE DEF h
    <2>3. /\ e.state = d.state /\ e.sock = d.sock /\ e.first = d.first
          /\ e.queue = d.queue /\ e.sent = d.sent /\ e.due = d.due
          /\ e.writes = d.writes /\ e.managed = d.managed
        BY DEF ConnectionType
    <2>4. /\ e \in ConnectionType
          /\ Readers(e) = Readers(d) + Ones(h.op \in ReadOps)
          /\ Writers(e) = Writers(d) + Ones(h.op \in {"worker", "write"})
          /\ Written(e) = Written(d) + Ones(h.op \in {"write"})
          /\ Challenges(e) = Challenges(d) /\ Logins(e) = Logins(d)
        BY <2>1, Pushed
    <2> HIDE DEF e
    <2>5. Readers(e) = Readers(d) + 1 /\ Writers(e) = Writers(d) + 0 /\ Written(e) = Written(d) + 0
        BY <2>1, <2>4 DEF Ones
    <2>6. Writers(d) \in Nat /\ Written(d) \in Nat
        BY Numbers
    <2>7. Writers(e) = Writers(d) /\ Written(e) = Written(d)
        BY <2>5, <2>6
    <2> QED BY <2>2, <2>3, <2>4, <2>5, <2>7 DEF Like, Standing
<1> QED BY <1>1, <1>2, Fields

LEMMA Sends ==
    ASSUME NEW d \in ConnectionType, Whole(d), d.state # "closed"
    PROVE  LET e == send(d) IN
           /\ e \in ConnectionType /\ Standing(d, e)
           /\ e.first = d.first /\ e.due = d.due /\ e.writes = d.writes
           /\ e.queue = Append(d.queue, d.sent + 1) /\ e.sent = d.sent + 1
           /\ Readers(e) = Readers(d) /\ Challenges(e) = Challenges(d) /\ Logins(e) = Logins(d)
           /\ Written(e) = Written(d) /\ Writers(e) = Writers(d) + Ones(d.queue = <<>>)
<1> DEFINE q == Append(d.queue, d.sent + 1)
           m == d.sent + 1
           f == [d EXCEPT !.queue = q, !.sent = m]
           h == Done("worker", TRUE)
           e == send(d)
<1>1. q \in Seq(Nat \ {0}) /\ m \in Nat
    <2>1. d.sent + 1 \in Nat \ {0} /\ d.queue \in Seq(Nat \ {0})
        BY Fields
    <2> QED BY <2>1
<1>2. e = IF d.queue # <<>> THEN f ELSE [f EXCEPT !.ready = Append(d.ready, h)]
    <2>1. d.sock
        BY DEF Whole
    <2>2. [d EXCEPT !.queue = Append(@, d.sent + 1), !.sent = @ + 1] = f
        BY DEF ConnectionType
    <2>3. f.ready = d.ready
        BY DEF ConnectionType
    <2> HIDE DEF f, h
    <2>4. e = LET g == f IN IF d.queue # <<>> THEN g
                 ELSE IF d.sock THEN [g EXCEPT !.ready = Append(@, h)] ELSE close(g, TRUE)
        BY <2>2 DEF send, h
    <2> QED BY <2>1, <2>3, <2>4
<1> HIDE DEF q, m
<1>3. /\ f \in ConnectionType /\ f.queue = q /\ f.sent = m /\ f.state = d.state
      /\ f.sock = d.sock /\ f.managed = d.managed /\ f.first = d.first /\ f.due = d.due
      /\ f.reads = d.reads /\ f.writes = d.writes /\ f.ready = d.ready /\ f.tasks = d.tasks
    BY <1>1 DEF ConnectionType
<1>4. /\ h \in Completions(Ops) /\ h.op \notin ReadOps /\ h.op \in {"worker", "write"}
      /\ h.op \notin {"write"}
    BY DEF Done, Completions, Ops, ReadOps
<1> HIDE DEF f, h
<1>5. /\ Readers(f) = Readers(d) /\ Writers(f) = Writers(d) /\ Written(f) = Written(d)
      /\ Challenges(f) = Challenges(d) /\ Logins(f) = Logins(d)
    BY <1>3, Flags
<1>6. Readers(d) \in Nat /\ Writers(d) \in Nat /\ Written(d) \in Nat
    BY Numbers
<1>7. CASE d.queue # <<>>
    <2>1. Writers(f) = Writers(d) + Ones(d.queue = <<>>)
        BY <1>5, <1>6, <1>7 DEF Ones
    <2>2. e = f
        BY <1>2, <1>7
    <2> HIDE DEF e
    <2> QED BY <1>3, <1>5, <2>1, <2>2 DEF Standing, q, m, e
<1>8. CASE d.queue = <<>>
    <2>1. e = [f EXCEPT !.ready = Append(f.ready, h)]
        BY <1>2, <1>3, <1>8
    <2> HIDE DEF e
    <2>2. /\ e \in ConnectionType
          /\ Readers(e) = Readers(f) + Ones(h.op \in ReadOps)
          /\ Writers(e) = Writers(f) + Ones(h.op \in {"worker", "write"})
          /\ Written(e) = Written(f) + Ones(h.op \in {"write"})
          /\ Challenges(e) = Challenges(f) /\ Logins(e) = Logins(f)
        BY <1>3, <1>4, <2>1, Pushed
    <2>3. /\ e.queue = q /\ e.sent = m /\ e.state = d.state /\ e.sock = d.sock
          /\ e.managed = d.managed /\ e.first = d.first /\ e.due = d.due /\ e.writes = d.writes
        BY <1>3, <2>1 DEF ConnectionType
    <2>4. /\ Readers(e) = Readers(d) + 0 /\ Writers(e) = Writers(d) + 1
          /\ Written(e) = Written(d) + 0
        BY <1>4, <1>5, <2>2 DEF Ones
    <2>5. Readers(e) = Readers(d) /\ Written(e) = Written(d)
        BY <1>6, <2>4
    <2>6. Writers(e) = Writers(d) + Ones(d.queue = <<>>)
        BY <1>8, <2>4 DEF Ones
    <2> QED BY <1>5, <2>2, <2>3, <2>5, <2>6 DEF Standing, q, m, e
<1> QED BY <1>7, <1>8

-----------------------------------------------------------------------------
(* What the functions do to the parts of the invariant. *)

LEMMA CoreLike ==
    ASSUME NEW d \in ConnectionType, NEW e, Like(d, e), NEW n \in Nat, NEW sealing,
           NEW delivered \in Nat, NEW gone, Core(d, n, sealing, delivered, gone)
    PROVE  Core(e, n, sealing, delivered, gone)
<1>1. Whole(e)
    BY DEF Core, Whole, Like
<1>2. Queued(e, n, sealing)
    <2>1. /\ e.queue = d.queue /\ e.sent = d.sent /\ Writers(e) = Writers(d)
          /\ Written(e) = Written(d) /\ (e.state # "closed" => d.state # "closed")
        BY DEF Like
    <2> QED BY <2>1 DEF Core, Queued
<1>3. Flowing(e, n, delivered, gone)
    <2>1. CASE e.writes = d.writes
        BY <2>1 DEF Core, Flowing, Like
    <2>2. CASE e.writes = <<>>
        <3>1. ~e.sock \/ e.writes = d.writes
            BY DEF Like
        <3>2. Len(<<>>) = 0 /\ Len(d.writes) \in Nat /\ delivered + Len(d.writes) <= n
            BY EmptySeq, Numbers DEF Core, Flowing
        <3>3. delivered + Len(<<>>) <= n
            BY <3>2
        <3> QED BY <2>1, <2>2, <3>1, <3>3 DEF Flowing
    <2> QED BY <2>1, <2>2 DEF Like
<1> QED BY <1>1, <1>2, <1>3 DEF Core

LEMMA BoundedLike ==
    ASSUME NEW d \in ConnectionType, NEW e, Like(d, e), NEW busy \in BOOLEAN, Bounded(d, busy)
    PROVE  Bounded(e, busy)
BY DEF Bounded, Like

LEMMA CoreSends ==
    ASSUME NEW d \in ConnectionType, NEW n \in Nat, NEW sealing \in BOOLEAN,
           NEW delivered \in Nat, NEW gone \in BOOLEAN, Core(d, n, sealing, delivered, gone)
    PROVE  LET e == send(d) IN
           /\ e \in ConnectionType /\ Core(e, n, sealing, delivered, gone) /\ Standing(d, e)
           /\ Readers(e) = Readers(d) /\ Challenges(e) = Challenges(d) /\ Logins(e) = Logins(d)
           /\ e.first = d.first /\ e.due = d.due
           /\ e.sent = IF d.state = "closed" THEN d.sent ELSE d.sent + 1
           /\ d.state # "closed" => e.queue # <<>>
<1>1. CASE d.state = "closed"
    BY <1>1 DEF send, Standing
<1>2. CASE d.state # "closed"
    <2> DEFINE e == send(d)
               k == Len(d.queue)
    <2>1. /\ e \in ConnectionType /\ Standing(d, e)
          /\ e.first = d.first /\ e.due = d.due /\ e.writes = d.writes
          /\ e.queue = Append(d.queue, d.sent + 1) /\ e.sent = d.sent + 1
          /\ Readers(e) = Readers(d) /\ Challenges(e) = Challenges(d) /\ Logins(e) = Logins(d)
          /\ Written(e) = Written(d) /\ Writers(e) = Writers(d) + Ones(d.queue = <<>>)
        BY <1>2, Sends DEF Core
    <2>2. /\ d.queue \in Seq(Nat) /\ k \in Nat /\ (d.queue = <<>> <=> k = 0) /\ d.sent \in Nat
          /\ Written(d) \in Nat /\ Writers(d) \in Nat /\ Written(d) <= Writers(d)
        <3>1. Wrote(d) <= Working(d) /\ Wrote(d) \in Nat /\ Working(d) \in Nat
              /\ Len(d.writes) \in Nat
            BY Numbers
        <3> DEFINE w == Len(d.writes)
        <3>2. Writers(d) = w + Working(d) /\ Written(d) = w + Wrote(d) /\ w \in Nat
            BY <3>1 DEF Writers, Written
        <3> HIDE DEF w
        <3>3. Written(d) <= Writers(d)
            BY <3>1, <3>2
        <3> QED BY <3>3, Fields, Numbers
    <2>3. /\ e.queue # <<>> /\ Len(e.queue) = k + 1 /\ e.queue[k + 1] = d.sent + 1
          /\ \A i \in 1 .. k : e.queue[i] = d.queue[i]
        BY <2>1, <2>2
    <2> HIDE DEF e, k
    <2>4. Whole(e)
        BY <2>1 DEF Core, Whole, Standing
    <2>5. Flowing(e, n, delivered, gone)
        BY <2>1 DEF Core, Flowing, Standing
    <2>6. CASE d.queue = <<>>
        <3>1. Writers(d) + Ones(sealing) = 0 /\ n = d.sent
            BY <1>2, <2>6 DEF Core, Queued, Ones
        <3>2. Writers(d) = 0 /\ Ones(sealing) = 0 /\ Written(d) = 0
            BY <2>2, <3>1 DEF Ones
        <3>3. Writers(e) + Ones(sealing) = Ones(e.queue # <<>>)
            BY <2>1, <2>3, <2>6, <3>2 DEF Ones
        <3>4. n + Len(e.queue) = e.sent + Written(e)
            BY <2>1, <2>2, <2>3, <2>6, <3>1, <3>2
        <3>5. \A i \in 1 .. Len(e.queue) : e.queue[i] = (e.sent - Len(e.queue)) + i
            BY <2>1, <2>2, <2>3, <2>6
        <3>6. Queued(e, n, sealing)
            BY <2>3, <3>3, <3>4, <3>5 DEF Queued
        <3> QED BY <1>2, <2>1, <2>3, <2>4, <2>5, <3>6 DEF Core, e
    <2>7. CASE d.queue # <<>>
        <3>1. Writers(d) + Ones(sealing) = 1 /\ n + k = d.sent + Written(d)
              /\ \A i \in 1 .. k : d.queue[i] = (d.sent - k) + i
            BY <2>7 DEF Core, Queued, Ones, k
        <3>2. Writers(e) = Writers(d)
            <4>1. Writers(e) = Writers(d) + 0
                BY <2>1, <2>7 DEF Ones
            <4> QED BY <2>2, <4>1
        <3>3. Writers(e) + Ones(sealing) = Ones(e.queue # <<>>)
            BY <2>3, <3>1, <3>2 DEF Ones
        <3>4. n + Len(e.queue) = e.sent + Written(e)
            <4>1. n + (k + 1) = (d.sent + 1) + Written(d)
                <5> DEFINE m == d.sent
                           w == Written(d)
                <5>1. m \in Nat /\ w \in Nat /\ n + k = m + w
                    BY <2>2, <3>1
                <5> HIDE DEF m, w
                <5>2. n + (k + 1) = (m + 1) + w
                    BY <2>2, <5>1
                <5> QED BY <5>2 DEF m, w
            <4> QED BY <2>1, <2>3, <4>1
        <3>5. \A i \in 1 .. Len(e.queue) : e.queue[i] = (e.sent - Len(e.queue)) + i
            <4>1. ASSUME NEW i \in 1 .. k + 1 PROVE e.queue[i] = ((d.sent + 1) - (k + 1)) + i
                <5>1. CASE i \in 1 .. k
                    <6>1. e.queue[i] = (d.sent - k) + i
                        BY <2>3, <3>1, <5>1
                    <6> DEFINE m == d.sent
                    <6>2. m \in Nat
                        BY <2>2
                    <6> HIDE DEF m
                    <6>3. (m - k) + i = ((m + 1) - (k + 1)) + i
                        BY <2>2, <6>2
                    <6> QED BY <6>1, <6>3 DEF m
                <5>2. CASE i = k + 1
                    <6> DEFINE m == d.sent
                    <6>1. m \in Nat
                        BY <2>2
                    <6> HIDE DEF m
                    <6>2. m + 1 = ((m + 1) - (k + 1)) + (k + 1)
                        BY <2>2, <6>1
                    <6>3. e.queue[k + 1] = m + 1
                        BY <2>3 DEF m
                    <6> QED BY <5>2, <6>2, <6>3 DEF m
                <5> QED BY <2>2, <5>1, <5>2
            <4>2. e.sent = d.sent + 1 /\ Len(e.queue) = k + 1
                BY <2>1, <2>3
            <4> SUFFICES ASSUME NEW i \in 1 .. Len(e.queue)
                         PROVE  e.queue[i] = (e.sent - Len(e.queue)) + i
                OBVIOUS
            <4>3. i \in 1 .. k + 1
                BY <4>2
            <4>4. e.queue[i] = ((d.sent + 1) - (k + 1)) + i
                BY <4>1, <4>3
            <4>5. e.queue[i] = (e.sent - Len(e.queue)) + i
                BY <4>2, <4>4, Zenon
            <4> QED BY <4>5
        <3>6. Queued(e, n, sealing)
            BY <2>3, <3>3, <3>4, <3>5 DEF Queued
        <3> QED BY <1>2, <2>1, <2>3, <2>4, <2>5, <3>6 DEF Core, e
    <2> QED BY <2>6, <2>7
<1> QED BY <1>1, <1>2

LEMMA Disconnects ==
    ASSUME NEW d \in ConnectionType, NEW n \in Nat, NEW sealing \in BOOLEAN,
           NEW delivered \in Nat, NEW gone \in BOOLEAN, Core(d, n, sealing, delivered, gone)
    PROVE  LET e == disconnectClient(d) IN
           /\ e \in ConnectionType /\ Core(e, n, sealing, delivered, gone)
           /\ e.state = "closed" /\ e.sock = d.sock /\ Readers(e) = Readers(d)
           /\ e.sent = IF d.state = "closed" THEN d.sent ELSE d.sent + 1
<1> DEFINE f == send(d)
           e == disconnectClient(d)
<1>1. /\ f \in ConnectionType /\ Core(f, n, sealing, delivered, gone) /\ Standing(d, f)
      /\ Readers(f) = Readers(d)
      /\ f.sent = IF d.state = "closed" THEN d.sent ELSE d.sent + 1
      /\ d.state # "closed" => f.queue # <<>>
    BY CoreSends
<1>2. e = close(f, FALSE)
    BY DEF disconnectClient
<1> HIDE DEF f, e
<1>3. /\ Like(f, e) /\ Readers(e) = Readers(f) /\ e.state = "closed"
      /\ f.sock /\ ~e.sock => f.state # "closed" /\ (f.queue = <<>> \/ FALSE)
    BY <1>1, <1>2, Closes
<1>4. e \in ConnectionType /\ e.sent = f.sent /\ (e.sock => f.sock)
    BY <1>3 DEF Like
<1>5. Core(e, n, sealing, delivered, gone)
    BY <1>1, <1>3, CoreLike
<1>6. e.sock = d.sock
    BY <1>1, <1>3, <1>4, Fields DEF Standing
<1> QED BY <1>1, <1>3, <1>4, <1>5, <1>6 DEF e

LEMMA DisconnectsTasks ==
    ASSUME NEW d \in ConnectionType, Whole(d)
    PROVE  Challenges(disconnectClient(d)) = Challenges(d)
<1> DEFINE f == send(d)
<1>1. f \in ConnectionType /\ Challenges(f) = Challenges(d)
    <2>1. d.state = "closed" => f = d
        BY DEF send
    <2> QED BY <2>1, Sends
<1>2. disconnectClient(d) = close(f, FALSE)
    BY DEF disconnectClient
<1> HIDE DEF f
<1>3. Like(f, close(f, FALSE))
    BY <1>1, Closes
<1> QED BY <1>1, <1>2, <1>3 DEF Like

\* What reads on, or has closed the connection.
Reread(d, e) ==
    /\ Like(d, e) /\ Readers(e) <= Readers(d) + 1
    /\ e.state # "closed" => Readers(e) = Readers(d) + 1
    /\ d.state = "closed" => e.sock = d.sock

LEMMA RereadLike ==
    ASSUME NEW d, NEW e, NEW f, Like(d, e), Readers(e) = Readers(d), Standing(d, e), Reread(e, f)
    PROVE  Reread(d, f)
BY LikeLike DEF Reread, Standing

LEMMA RereadClosed ==
    ASSUME NEW d \in ConnectionType, NEW force \in BOOLEAN
    PROVE  Reread(d, close(d, force))
<1> DEFINE e == close(d, force)
<1>1. /\ Like(d, e) /\ Readers(e) = Readers(d) /\ e.state = "closed"
      /\ d.sock /\ ~e.sock => d.state # "closed" /\ (d.queue = <<>> \/ force)
    BY Closes
<1> HIDE DEF e
<1>2. e \in ConnectionType /\ (e.sock => d.sock)
    BY <1>1 DEF Like
<1>3. Readers(e) <= Readers(d) + 1
    BY <1>1, Numbers
<1>4. d.state = "closed" => e.sock = d.sock
    BY <1>1, <1>2, Fields
<1> QED BY <1>1, <1>3, <1>4 DEF Reread, e

LEMMA RereadRead ==
    ASSUME NEW d \in ConnectionType, NEW op \in ReadOps
    PROVE  Reread(d, asyncRead(d, op)) /\ Reread(d, asyncRead(armed(d), op))
<1>1. ASSUME NEW f \in ConnectionType PROVE Reread(f, asyncRead(f, op))
    <2>1. /\ Like(f, asyncRead(f, op)) /\ Readers(asyncRead(f, op)) = Readers(f) + 1
          /\ Standing(f, asyncRead(f, op))
        BY <1>1, ReadsMore
    <2>2. Readers(f) \in Nat
        BY <1>1, Numbers
    <2> QED BY <2>1, <2>2 DEF Reread, Standing
<1>2. /\ armed(d) \in ConnectionType /\ Like(d, armed(d)) /\ Readers(armed(d)) = Readers(d)
      /\ Standing(d, armed(d))
    BY Arms DEF armed, Like
<1> QED BY <1>1, <1>2, RereadLike

LEMMA Opens ==
    ASSUME NEW d \in ConnectionType, d.state # "closed", NEW s \in {"open", "readings"}
    PROVE  LET e == [d EXCEPT !.state = s] IN
           /\ Like(d, e) /\ e \in ConnectionType /\ Readers(e) = Readers(d)
           /\ e.sock = d.sock /\ e.state # "closed"
<1> DEFINE e == [d EXCEPT !.state = s]
<1>1. /\ e \in ConnectionType /\ e.state = s /\ e.sock = d.sock /\ e.first = d.first
      /\ e.queue = d.queue /\ e.sent = d.sent /\ e.due = d.due /\ e.reads = d.reads
      /\ e.writes = d.writes /\ e.ready = d.ready /\ e.tasks = d.tasks /\ e.managed = d.managed
    BY DEF ConnectionType, States
<1> HIDE DEF e
<1>2. Like(d, e) /\ Readers(e) = Readers(d)
    BY <1>1, Flags DEF Like
<1> QED BY <1>1, <1>2 DEF e

LEMMA RereadOpened ==
    ASSUME NEW d \in ConnectionType, d.state # "closed", NEW s \in {"open", "readings"},
           NEW f, Reread([d EXCEPT !.state = s], f)
    PROVE  Reread(d, f)
<1> DEFINE e == [d EXCEPT !.state = s]
<1>1. /\ Like(d, e) /\ e \in ConnectionType /\ Readers(e) = Readers(d) /\ e.sock = d.sock
      /\ e.state # "closed"
    BY Opens
<1>2. Reread(e, f)
    OBVIOUS
<1> HIDE DEF e
<1> QED BY <1>1, <1>2, LikeLike DEF Reread

LEMMA HeaderParsed ==
    ASSUME NEW d \in ConnectionType, NEW ok \in BOOLEAN, NEW f \in parseHeader(d, ok)
    PROVE  Reread(d, f)
<1> DEFINE e == [d EXCEPT !.readTimer = FALSE]
<1>1. Like(d, e) /\ Readers(e) = Readers(d) /\ Standing(d, e) /\ e \in ConnectionType
    BY Arms DEF Like
<1>2. \/ f \in {close(e, TRUE), close(e, FALSE), asyncRead(armed(e), "body")}
      \/ f = e /\ e.state = "closed"
    BY DEF parseHeader
<1> HIDE DEF e
<1>3. CASE f \in {close(e, TRUE), close(e, FALSE), asyncRead(armed(e), "body")}
    <2>1. "body" \in ReadOps
        BY DEF ReadOps
    <2>2. Reread(e, close(e, TRUE)) /\ Reread(e, close(e, FALSE))
          /\ Reread(e, asyncRead(armed(e), "body"))
        BY <1>1, <2>1, RereadClosed, RereadRead
    <2>3. Reread(e, f)
        BY <1>3, <2>2
    <2> QED BY <1>1, <2>3, RereadLike
<1>4. CASE f = e /\ e.state = "closed"
    <2>1. Readers(e) <= Readers(e) + 1
        BY <1>1, Numbers
    <2>2. Reread(e, f)
        BY <1>1, <1>4, <2>1, LikeItself DEF Reread
    <2> QED BY <1>1, <2>2, RereadLike
<1> QED BY <1>2, <1>3, <1>4

LEMMA ProxyParsed ==
    ASSUME NEW d \in ConnectionType, NEW ok \in BOOLEAN,
           NEW f \in parseProxyIdentification(d, ok)
    PROVE  Reread(d, f)
<1> DEFINE e == [d EXCEPT !.readTimer = FALSE]
           o == [e EXCEPT !.state = "open"]
           r == [e EXCEPT !.state = "readings"]
<1>1. Like(d, e) /\ Readers(e) = Readers(d) /\ Standing(d, e) /\ e \in ConnectionType
    BY Arms DEF Like
<1>2. \/ f = close(e, TRUE)
      \/ e.state # "closed" /\ f \in parseHeader(o, TRUE)
      \/ e.state # "closed" /\ f = asyncRead(armed(r), "proxy")
      \/ e.state # "closed" /\ f = acceptInternal(o, "header")
    BY DEF parseProxyIdentification
<1> HIDE DEF e
<1>3. CASE f = close(e, TRUE)
    BY <1>1, <1>3, RereadClosed, RereadLike
<1>4. ASSUME e.state # "closed", f \in parseHeader(o, TRUE) PROVE Reread(d, f)
    <2>1. o \in ConnectionType
        BY <1>1, <1>4, Opens
    <2>2. Reread(o, f)
        <3> HIDE DEF o
        <3> QED BY <1>4, <2>1, HeaderParsed
    <2>3. Reread(e, f)
        BY <1>1, <1>4, <2>2, RereadOpened
    <2> QED BY <1>1, <2>3, RereadLike
<1>5. ASSUME e.state # "closed", f = asyncRead(armed(r), "proxy") PROVE Reread(d, f)
    <2>1. r \in ConnectionType /\ "proxy" \in ReadOps
        BY <1>1, <1>5, Opens DEF ReadOps
    <2>2. Reread(r, f)
        <3> HIDE DEF r
        <3> QED BY <1>5, <2>1, RereadRead
    <2>3. Reread(e, f)
        BY <1>1, <1>5, <2>2, RereadOpened
    <2> QED BY <1>1, <2>3, RereadLike
<1>6. ASSUME e.state # "closed", f = acceptInternal(o, "header") PROVE Reread(d, f)
    <2>1. o \in ConnectionType /\ "header" \in ReadOps
        BY <1>1, <1>6, Opens DEF ReadOps
    <2>2. Reread(o, f)
        <3> HIDE DEF o
        <3> QED BY <1>6, <2>1, RereadRead DEF acceptInternal
    <2>3. Reread(e, f)
        BY <1>1, <1>6, <2>2, RereadOpened
    <2> QED BY <1>1, <2>3, RereadLike
<1> QED BY <1>2, <1>3, <1>4, <1>5, <1>6

LEMMA CoreFlags ==
    ASSUME NEW d \in ConnectionType, NEW e \in ConnectionType, Standing(d, e),
           e.queue = d.queue, e.sent = d.sent, e.reads = d.reads, e.writes = d.writes,
           e.ready = d.ready, e.tasks = d.tasks, NEW n, NEW sealing, NEW delivered, NEW gone,
           Core(d, n, sealing, delivered, gone)
    PROVE  Core(e, n, sealing, delivered, gone)
<1>1. Writers(e) = Writers(d) /\ Written(e) = Written(d)
    BY Flags
<1> QED BY <1>1 DEF Core, Whole, Queued, Flowing, Standing

LEMMA BoundedClosed ==
    ASSUME NEW d, d.state = "closed", d.sent <= MaxSent + 2, kind = "login" => Challenges(d) = 0,
           NEW busy
    PROVE  Bounded(d, busy)
BY DEF Bounded

\* A refusal with a late disconnect.
RefusedLate(e) == [send(e) EXCEPT !.due = @ \cup {"disconnect"}]

LEMMA SendsLast ==
    ASSUME NEW e \in ConnectionType, e.state # "closed", e.due = {},
           NEW n \in Nat, NEW sealing \in BOOLEAN, NEW delivered \in Nat, NEW gone \in BOOLEAN,
           Core(e, n, sealing, delivered, gone)
    PROVE  LET g == RefusedLate(e) IN
           /\ g \in ConnectionType /\ Core(g, n, sealing, delivered, gone) /\ Standing(e, g)
           /\ Readers(g) = Readers(e) /\ Challenges(g) = Challenges(e) /\ Logins(g) = Logins(e)
           /\ g.first = e.first /\ g.due = {"disconnect"} /\ g.sent = e.sent + 1
<1> DEFINE g == RefusedLate(e)
<1> DEFINE f == send(e)
<1>1. /\ f \in ConnectionType /\ Core(f, n, sealing, delivered, gone) /\ Standing(e, f)
      /\ Readers(f) = Readers(e) /\ Challenges(f) = Challenges(e) /\ Logins(f) = Logins(e)
      /\ f.first = e.first /\ f.due = e.due
      /\ f.sent = IF e.state = "closed" THEN e.sent ELSE e.sent + 1
    BY CoreSends
<1> HIDE DEF f
<1>2. g = [f EXCEPT !.due = {"disconnect"}]
    <2>1. f.due \cup {"disconnect"} = {"disconnect"}
        BY <1>1
    <2>2. g = [f EXCEPT !.due = f.due \cup {"disconnect"}]
        BY DEF f, RefusedLate
    <2> HIDE DEF g
    <2> QED BY <2>1, <2>2
<1> HIDE DEF g
<1>3. /\ g \in ConnectionType /\ Standing(f, g) /\ g.first = f.first
      /\ g.queue = f.queue /\ g.sent = f.sent /\ g.reads = f.reads /\ g.writes = f.writes
      /\ g.ready = f.ready /\ g.tasks = f.tasks /\ g.due = {"disconnect"}
    BY <1>1, <1>2 DEF ConnectionType, Standing
<1>5. /\ Readers(g) = Readers(f) /\ Challenges(g) = Challenges(f) /\ Logins(g) = Logins(f)
    BY <1>1, <1>3, Flags
<1>6. Core(g, n, sealing, delivered, gone)
    BY <1>1, <1>3, CoreFlags
<1>7. Standing(e, g)
    BY <1>1, <1>3 DEF Standing
<1> QED BY <1>1, <1>3, <1>5, <1>6, <1>7 DEF g

\* onRecvFirstMessage of a connection that has had no other message.
Fresh(e) ==
    /\ e.first /\ e.sent + Challenges(e) <= 1 /\ Logins(e) = 0
    /\ kind = "login" => Challenges(e) = 0

Answered(e, g, n, sealing, delivered, gone) ==
    /\ g \in ConnectionType /\ Core(g, n, sealing, delivered, gone)
    /\ Bounded(g, FALSE) /\ Readers(g) = Readers(e)

LEMMA FirstMessage ==
    ASSUME NEW e \in ConnectionType, e.state # "closed", e.due = {}, Fresh(e),
           NEW n \in Nat, NEW sealing \in BOOLEAN, NEW delivered \in Nat, NEW gone \in BOOLEAN,
           Core(e, n, sealing, delivered, gone)
    PROVE  \A g \in onRecvFirstMessage(e) : Answered(e, g, n, sealing, delivered, gone)
<1> TAKE g \in onRecvFirstMessage(e)
<1> USE DEF Answered
<1>0. e.sent \in Nat /\ Challenges(e) \in Nat /\ MaxSent \in Nat /\ Logins(e) \in Nat
      /\ Readers(e) \in Nat
    BY Fields, Numbers, ConnectionAssumption DEF ConnectionAssumption
<1>f. /\ e.first = TRUE /\ e.sent + Challenges(e) <= 1 /\ Logins(e) = 0
      /\ kind = "login" => Challenges(e) = 0
    BY Fields DEF Fresh
<1>1. \/ g = close(e, FALSE)
      \/ g = disconnectClient(e)
      \/ kind = "login" /\ g = post(e, "getCharacterList")
      \/ kind # "login" /\ e.sent # 0 /\ g = post(e, "login")
      \/ kind # "login" /\ e.sent # 0 /\ g = RefusedLate(e)
    BY DEF onRecvFirstMessage, RefusedLate
<1>2. CASE g = close(e, FALSE)
    <2>1. Like(e, g) /\ Readers(g) = Readers(e) /\ g.state = "closed"
        BY <1>2, Closes
    <2>2. g \in ConnectionType /\ g.sent = e.sent /\ Challenges(g) = Challenges(e)
        BY <2>1 DEF Like
    <2>3. g.sent <= MaxSent + 2
        BY <1>0, <1>f, <2>2
    <2>4. Core(g, n, sealing, delivered, gone)
        BY <2>1, CoreLike
    <2> QED BY <1>f, <2>1, <2>2, <2>3, <2>4, BoundedClosed
<1>3. CASE g = disconnectClient(e)
    <2>1. /\ g \in ConnectionType /\ Core(g, n, sealing, delivered, gone)
          /\ g.state = "closed" /\ Readers(g) = Readers(e) /\ g.sent = e.sent + 1
        BY <1>3, Disconnects
    <2>2. g.sent <= MaxSent + 2
        <3> DEFINE s == e.sent
        <3>1. s \in Nat /\ s <= 1 /\ g.sent = s + 1
            BY <1>0, <1>f, <2>1
        <3> HIDE DEF s
        <3> QED BY <1>0, <1>f, <3>1
    <2>3. Challenges(g) = Challenges(e)
        BY <1>3, DisconnectsTasks DEF Core
    <2> QED BY <1>f, <2>1, <2>2, <2>3, BoundedClosed
<1>4. ASSUME NEW task \in {"getCharacterList", "login"}, g = post(e, task), Challenges(e) = 0
      PROVE  /\ g \in ConnectionType /\ Core(g, n, sealing, delivered, gone)
             /\ Bounded(g, FALSE) /\ Readers(g) = Readers(e)
    <2>1. task \in TaskNames /\ Ones(task = "packet") = 0 /\ Ones(task = "sendLoginChallenge") = 0
        BY DEF TaskNames, Ones
    <2>2. /\ g \in ConnectionType /\ Standing(e, g)
          /\ g.first = e.first /\ g.queue = e.queue /\ g.sent = e.sent /\ g.due = e.due
          /\ g.writes = e.writes /\ Writers(g) = Writers(e) /\ Written(g) = Written(e)
          /\ Readers(g) = Readers(e) + 0 /\ Challenges(g) = Challenges(e) + 0
        <3>1. /\ g \in ConnectionType /\ Standing(e, g)
              /\ g.first = e.first /\ g.queue = e.queue /\ g.sent = e.sent /\ g.due = e.due
              /\ g.writes = e.writes /\ Writers(g) = Writers(e) /\ Written(g) = Written(e)
              /\ Readers(g) = Readers(e) + Ones(task = "packet")
              /\ Challenges(g) = Challenges(e) + Ones(task = "sendLoginChallenge")
            BY <1>4, <2>1, Posts
        <3> QED BY <2>1, <3>1
    <2>3. Readers(g) = Readers(e) /\ Challenges(g) = 0
        BY <1>0, <1>f, <1>4, <2>2
    <2>4. Core(g, n, sealing, delivered, gone)
        BY <2>2 DEF Core, Whole, Queued, Flowing, Standing
    <2>5. g.sent <= MaxSent + 2 /\ g.sent <= MaxSent + 1
        <3> DEFINE s == e.sent
        <3>1. s \in Nat /\ s <= 1 /\ g.sent = s
            BY <1>0, <1>f, <2>2
        <3> HIDE DEF s
        <3> QED BY <1>0, <1>f, <3>1
    <2>6. Bounded(g, FALSE)
        BY <1>f, <2>2, <2>3, <2>5 DEF Bounded, Standing
    <2> QED BY <2>2, <2>3, <2>4, <2>6
<1>5. CASE kind # "login" /\ e.sent # 0 /\ g = RefusedLate(e)
    <2>1. /\ g \in ConnectionType /\ Core(g, n, sealing, delivered, gone) /\ Standing(e, g)
          /\ Readers(g) = Readers(e) /\ Challenges(g) = Challenges(e) /\ Logins(g) = Logins(e)
          /\ g.first = e.first /\ g.due = {"disconnect"} /\ g.sent = e.sent + 1
        <3> DEFINE h == RefusedLate(e)
        <3>1. /\ h \in ConnectionType /\ Core(h, n, sealing, delivered, gone) /\ Standing(e, h)
              /\ Readers(h) = Readers(e) /\ Challenges(h) = Challenges(e)
              /\ Logins(h) = Logins(e)
              /\ h.first = e.first /\ h.due = {"disconnect"} /\ h.sent = e.sent + 1
            BY SendsLast
        <3>2. g = h
            BY <1>5
        <3> HIDE DEF h
        <3> QED BY <3>1, <3>2
    <2>2. e.sent = 1 /\ Challenges(e) = 0
        BY <1>0, <1>f, <1>5
    <2>3. g.sent <= MaxSent + 2 /\ Challenges(g) = 0 /\ Logins(g) = 0
        BY <1>0, <1>f, <2>1, <2>2
    <2>4. Bounded(g, FALSE)
        BY <1>f, <2>1, <2>3 DEF Bounded
    <2> QED BY <2>1, <2>4
<1>6. e.sent # 0 => Challenges(e) = 0
    <2> DEFINE m == e.sent
               k == Challenges(e)
    <2>1. m \in Nat /\ k \in Nat /\ m + k <= 1
        BY <1>0, <1>f
    <2> HIDE DEF m, k
    <2>2. m # 0 => k = 0
        BY <2>1
    <2> QED BY <2>2 DEF m, k
<1>7. CASE kind = "login" /\ g = post(e, "getCharacterList")
    <2>1. Challenges(e) = 0
        BY <1>f, <1>7
    <2> QED BY <1>4, <1>7, <2>1
<1>8. CASE kind # "login" /\ e.sent # 0 /\ g = post(e, "login")
    <2>1. Challenges(e) = 0
        BY <1>6, <1>8
    <2> QED BY <1>4, <1>8, <2>1
<1> QED BY <1>1, <1>2, <1>3, <1>5, <1>7, <1>8

-----------------------------------------------------------------------------
(* The parts of the invariant that a step of the rest of the program leaves. *)

\* A connection between two calls of its functions.
Good(d) ==
    /\ d \in ConnectionType /\ Core(d, SealedNow, Sealing, wire.delivered, Gone)
    /\ d.sent <= MaxSent + 2
    /\ kind = "login" => Challenges(d) = 0

\* There is room for a last message.
Speakable(d) == d.state # "closed" => d.sent <= MaxSent + 1

LEMMA Parameters ==
    ASSUME Shape
    PROVE  /\ SealedNow \in Nat /\ Sealing \in BOOLEAN /\ wire.delivered \in Nat
           /\ Gone \in BOOLEAN /\ Busy \in BOOLEAN
BY DEF Shape, SealedNow, Sealing, Gone, Busy, WireType, ProtocolType

LEMMA GoodNow == ASSUME ConnectionInv PROVE Good(c)
BY DEF ConnectionInv, Good, Bounded

LEMMA GoodLike ==
    ASSUME Shape, NEW d, NEW e, Good(d), Like(d, e) PROVE Good(e)
<1>1. e \in ConnectionType /\ e.sent = d.sent /\ Challenges(e) = Challenges(d)
    BY DEF Like
<1>2. d \in ConnectionType /\ Core(d, SealedNow, Sealing, wire.delivered, Gone)
    BY DEF Good
<1>3. Core(e, SealedNow, Sealing, wire.delivered, Gone)
    BY <1>2, Parameters, CoreLike
<1> QED BY <1>1, <1>3 DEF Good

LEMMA GoodClosed ==
    ASSUME NEW d, Good(d), d.state = "closed", NEW busy PROVE Bounded(d, busy)
BY DEF Good, Bounded

LEMMA GoodDisconnects ==
    ASSUME Shape, NEW d, Good(d), Speakable(d)
    PROVE  /\ Good(disconnectClient(d)) /\ disconnectClient(d).state = "closed"
           /\ disconnectClient(d).sock = d.sock
           /\ Readers(disconnectClient(d)) = Readers(d)
<1> DEFINE e == disconnectClient(d)
<1>1. d \in ConnectionType /\ Core(d, SealedNow, Sealing, wire.delivered, Gone)
    BY DEF Good
<1>2. /\ e \in ConnectionType /\ Core(e, SealedNow, Sealing, wire.delivered, Gone)
      /\ e.state = "closed" /\ e.sock = d.sock /\ Readers(e) = Readers(d)
      /\ e.sent = IF d.state = "closed" THEN d.sent ELSE d.sent + 1
    BY <1>1, Parameters, Disconnects
<1>3. Challenges(e) = Challenges(d)
    BY <1>1, DisconnectsTasks DEF Core
<1> HIDE DEF e
<1>4. e.sent <= MaxSent + 2
    <2> DEFINE m == d.sent
    <2>1. m \in Nat /\ MaxSent \in Nat
        BY <1>1, Fields, ConnectionAssumption DEF ConnectionAssumption
    <2>2. CASE d.state = "closed"
        BY <1>2, <2>2 DEF Good
    <2>3. CASE d.state # "closed"
        <3>1. e.sent = m + 1 /\ m <= MaxSent + 1
            BY <1>2, <2>3 DEF Speakable
        <3> HIDE DEF m
        <3> QED BY <2>1, <3>1
    <2> QED BY <2>2, <2>3
<1> QED BY <1>2, <1>3, <1>4 DEF Good, e

LEMMA GoodSends ==
    ASSUME Shape, NEW d, Good(d), Speakable(d)
    PROVE  LET e == send(d) IN
           /\ Good(e) /\ Readers(e) = Readers(d) /\ e.state = d.state
           /\ Challenges(e) = Challenges(d) /\ Logins(e) = Logins(d)
           /\ e.first = d.first /\ e.due = d.due
           /\ e.sent = IF d.state = "closed" THEN d.sent ELSE d.sent + 1
<1> DEFINE e == send(d)
<1>1. d \in ConnectionType /\ Core(d, SealedNow, Sealing, wire.delivered, Gone)
    BY DEF Good
<1>2. /\ e \in ConnectionType /\ Core(e, SealedNow, Sealing, wire.delivered, Gone)
      /\ Standing(d, e) /\ Readers(e) = Readers(d)
      /\ Challenges(e) = Challenges(d) /\ Logins(e) = Logins(d)
      /\ e.first = d.first /\ e.due = d.due
      /\ e.sent = IF d.state = "closed" THEN d.sent ELSE d.sent + 1
    BY <1>1, Parameters, CoreSends
<1> HIDE DEF e
<1>3. e.sent <= MaxSent + 2
    <2> DEFINE m == d.sent
    <2>1. m \in Nat /\ MaxSent \in Nat
        BY <1>1, Fields, ConnectionAssumption DEF ConnectionAssumption
    <2>2. CASE d.state = "closed"
        BY <1>2, <2>2 DEF Good
    <2>3. CASE d.state # "closed"
        <3>1. e.sent = m + 1 /\ m <= MaxSent + 1
            BY <1>2, <2>3 DEF Speakable
        <3> HIDE DEF m
        <3> QED BY <2>1, <3>1
    <2> QED BY <2>2, <2>3
<1> QED BY <1>2, <1>3 DEF Good, Standing, e

\* A connection that nobody keeps is closed.
LEMMA KeptAlive == ASSUME ConnectionInv, ~Alive PROVE c.state = "closed"
BY DEF ConnectionInv, Core, Whole, Alive

\* Nothing happens before a connection is accepted.
LEMMA Touched ==
    ASSUME ConnectionInv,
           \/ c.tasks # <<>> \/ c.due # {} \/ c.ready # <<>> \/ c.reads # <<>>
           \/ c.writes # <<>> \/ c.readTimer \/ c.writeTimer \/ io # "loop"
           \/ disp # "idle" \/ Busy
    PROVE  kind # "none" /\ Held(c, disp = "parsing")
BY DEF ConnectionInv, Untouched, Busy

\* What is left to show of a step that seals and delivers nothing.
LEMMA Continues ==
    ASSUME ConnectionInv, kind # "none",
           kind' = kind, peer' = peer, wire' = wire, Sealing' = Sealing,
           io' \in {"loop", "sealing", "posted"}, disp' \in {"idle", "parsing"},
           p' \in ProtocolType, Good(c'), Bounded(c', Busy'), Held(c', disp' = "parsing")
    PROVE  ConnectionInv'
<1>1. Shape'
    BY DEF ConnectionInv, Shape, SealedNow
<1>2. Core(c', SealedNow', Sealing', wire'.delivered, Gone')
    <2>1. SealedNow' = SealedNow /\ Gone' = Gone /\ wire'.delivered = wire.delivered
        BY DEF SealedNow, Gone
    <2> QED BY <2>1 DEF Good
<1>3. c' \in ConnectionType
    BY DEF Good
<1>4. Bounded(c, Busy)'
    BY DEF Bounded
<1> QED BY <1>1, <1>2, <1>3, <1>4 DEF ConnectionInv

-----------------------------------------------------------------------------
(* The completion handlers of reads. *)

LEMMA FirstMessageNow ==
    ASSUME Shape, NEW e \in ConnectionType, e.state # "closed", e.due = {}, Fresh(e),
           Core(e, SealedNow, Sealing, wire.delivered, Gone), NEW h \in onRecvFirstMessage(e)
    PROVE  /\ h \in ConnectionType /\ Core(h, SealedNow, Sealing, wire.delivered, Gone)
           /\ Bounded(h, FALSE) /\ Readers(h) = Readers(e)
<1>1. /\ SealedNow \in Nat /\ Sealing \in BOOLEAN /\ wire.delivered \in Nat /\ Gone \in BOOLEAN
    BY Parameters
<1>2. Answered(e, h, SealedNow, Sealing, wire.delivered, Gone)
    BY <1>1, FirstMessage
<1> QED BY <1>2 DEF Answered

LEMMA FirstParsed ==
    ASSUME Shape, NEW d, Good(d), d.state # "closed", ~d.first, Bounded(d, Busy),
           NEW g \in firstPacket(d)
    PROVE  /\ Good(g) /\ Bounded(g, Busy) /\ Readers(g) <= Readers(d) + 1
           /\ g.state # "closed" => Readers(g) = Readers(d) + 1
<1> DEFINE f == [d EXCEPT !.first = TRUE]
           e == [d EXCEPT !.first = TRUE, !.protocol = TRUE]
<1>1. /\ d \in ConnectionType /\ Core(d, SealedNow, Sealing, wire.delivered, Gone)
      /\ kind = "login" => Challenges(d) = 0
    BY DEF Good
<1>2. d.sent + Challenges(d) <= 1 /\ Logins(d) = 0 /\ d.due = {} /\ Busy = FALSE
    <2>1. d.first \in BOOLEAN
        BY <1>1, Fields
    <2> QED BY <2>1, Parameters DEF Bounded
<1>3. \/ \E h \in onRecvFirstMessage(e) : g = asyncRead(armed(h), "header")
      \/ g = close(f, TRUE)
    BY DEF firstPacket
<1>4. /\ f \in ConnectionType /\ Standing(d, f) /\ f.queue = d.queue /\ f.sent = d.sent
      /\ f.reads = d.reads /\ f.writes = d.writes /\ f.ready = d.ready /\ f.tasks = d.tasks
    BY <1>1 DEF ConnectionType, Standing
<1>5. /\ e \in ConnectionType /\ Standing(d, e) /\ e.queue = d.queue /\ e.sent = d.sent
      /\ e.reads = d.reads /\ e.writes = d.writes /\ e.ready = d.ready /\ e.tasks = d.tasks
      /\ e.first = TRUE /\ e.due = {}
    BY <1>1, <1>2 DEF ConnectionType, Standing
<1> HIDE DEF e, f
<1>6. CASE g = close(f, TRUE)
    <2>1. Challenges(f) = Challenges(d) /\ Readers(f) = Readers(d)
        BY <1>1, <1>4, Flags
    <2>2. Core(f, SealedNow, Sealing, wire.delivered, Gone)
        BY <1>1, <1>4, CoreFlags
    <2>3. Good(f)
        BY <1>4, <2>1, <2>2 DEF Good
    <2>4. /\ Like(f, close(f, TRUE)) /\ Readers(close(f, TRUE)) = Readers(f)
          /\ close(f, TRUE).state = "closed"
        BY <1>4, Closes
    <2>5. Good(g) /\ g.state = "closed"
        BY <1>6, <2>3, <2>4, GoodLike
    <2>6. Readers(g) <= Readers(d) + 1
        <3>1. Readers(g) = Readers(d) /\ Readers(d) \in Nat
            BY <1>1, <1>6, <2>1, <2>4, Numbers
        <3> QED BY <3>1
    <2> QED BY <2>5, <2>6, GoodClosed
<1>7. ASSUME NEW h \in onRecvFirstMessage(e), g = asyncRead(armed(h), "header")
      PROVE  /\ Good(g) /\ Bounded(g, Busy) /\ Readers(g) <= Readers(d) + 1
             /\ g.state # "closed" => Readers(g) = Readers(d) + 1
    <2>1. Challenges(e) = Challenges(d) /\ Readers(e) = Readers(d) /\ Logins(e) = Logins(d)
        BY <1>1, <1>5, Flags
    <2>2. Core(e, SealedNow, Sealing, wire.delivered, Gone)
        BY <1>1, <1>5, CoreFlags
    <2>3. Fresh(e) /\ e.state # "closed"
        BY <1>1, <1>2, <1>5, <2>1 DEF Fresh, Standing
    <2>4. /\ h \in ConnectionType /\ Core(h, SealedNow, Sealing, wire.delivered, Gone)
          /\ Bounded(h, FALSE) /\ Readers(h) = Readers(e)
        BY <1>5, <2>2, <2>3, FirstMessageNow
    <2>5. Good(h) /\ Bounded(h, Busy)
        BY <1>2, <2>4 DEF Good, Bounded
    <2>6. Reread(h, g)
        BY <1>7, <2>4, RereadRead DEF ReadOps
    <2>7. Like(h, g) /\ Readers(g) <= Readers(h) + 1
          /\ (g.state # "closed" => Readers(g) = Readers(h) + 1)
        BY <2>6 DEF Reread
    <2>8. Good(g) /\ Bounded(g, Busy)
        BY <2>4, <2>5, <2>7, Parameters, GoodLike, BoundedLike
    <2> QED BY <2>1, <2>4, <2>7, <2>8
<1> QED BY <1>3, <1>6, <1>7

\* The handler of a read takes over the buffer.
LEMMA TakesBuffer ==
    ASSUME ConnectionInv, NEW op \in ReadOps, Handles(op)
    PROVE  /\ Like(c, Taken) /\ Standing(c, Taken) /\ Good(Taken) /\ Bounded(Taken, Busy)
           /\ Readers(Taken) = 0 /\ disp = "idle" /\ kind # "none" /\ Ok \in BOOLEAN
           /\ io = "loop"
<1> DEFINE e == Taken
           h == Head(c.ready)
<1>1. c \in ConnectionType /\ c.ready # <<>> /\ h.op = op /\ io = "loop"
    BY DEF ConnectionInv, Handles
<1>2. e = [c EXCEPT !.ready = Tail(c.ready)]
    BY DEF Taken
<1>3. /\ e \in ConnectionType /\ h \in Completions(Ops)
      /\ Readers(c) = Readers(e) + Ones(h.op \in ReadOps)
      /\ Writers(c) = Writers(e) + Ones(h.op \in {"worker", "write"})
      /\ Written(c) = Written(e) + Ones(h.op \in {"write"})
      /\ Challenges(e) = Challenges(c) /\ Logins(e) = Logins(c)
    BY <1>1, <1>2, Tailed
<1>4. /\ e.state = c.state /\ e.sock = c.sock /\ e.first = c.first
      /\ e.queue = c.queue /\ e.sent = c.sent /\ e.due = c.due
      /\ e.writes = c.writes /\ e.managed = c.managed
    BY <1>1, <1>2 DEF ConnectionType
<1>5. Ok \in BOOLEAN
    BY <1>3 DEF Ok, Completions
<1> HIDE DEF e
<1>6. /\ Readers(c) = Readers(e) + 1 /\ Writers(c) = Writers(e) + 0
      /\ Written(c) = Written(e) + 0
    <2>1. h.op \in ReadOps /\ h.op \notin {"worker", "write"} /\ h.op \notin {"write"}
        BY <1>1 DEF ReadOps
    <2> QED BY <1>3, <2>1 DEF Ones
<1>7. Readers(e) \in Nat /\ Writers(e) \in Nat /\ Written(e) \in Nat
    BY <1>3, Numbers
<1>8. Writers(e) = Writers(c) /\ Written(e) = Written(c)
    BY <1>6, <1>7
<1>9. Like(c, e)
    BY <1>3, <1>4, <1>8 DEF Like
<1>10. kind # "none" /\ Held(c, disp = "parsing")
    BY <1>1, Touched
<1>11. Readers(e) = 0 /\ disp # "parsing"
    <2> DEFINE x == Ones(disp = "parsing")
    <2>1. Readers(e) + 1 + x <= 1
        BY <1>6, <1>10 DEF Held
    <2>2. x \in Nat
        BY DEF Ones
    <2> HIDE DEF x
    <2>3. Readers(e) = 0 /\ x = 0
        BY <1>7, <2>1, <2>2
    <2> QED BY <2>3 DEF x, Ones
<1>12. Good(e) /\ Bounded(e, Busy)
    <2>1. Shape /\ Bounded(c, Busy)
        BY DEF ConnectionInv
    <2> QED BY <1>1, <1>9, <2>1, GoodNow, GoodLike, BoundedLike, Parameters
<1>13. disp = "idle"
    BY <1>11 DEF ConnectionInv, Shape
<1> QED BY <1>1, <1>4, <1>5, <1>9, <1>10, <1>11, <1>12, <1>13 DEF e, Standing

LEMMA HeldIdle ==
    ASSUME NEW d \in ConnectionType, Readers(d) <= 1, d.state # "closed" => Readers(d) = 1
    PROVE  Held(d, FALSE)
<1>1. Readers(d) \in Nat
    BY Numbers
<1>2. Readers(d) + Ones(FALSE) = Readers(d)
    <2>1. Ones(FALSE) = 0
        BY DEF Ones
    <2> DEFINE r == Readers(d)
    <2>2. r + 0 = r
        <3>1. r \in Nat
            BY <1>1
        <3> HIDE DEF r
        <3> QED BY <3>1
    <2> HIDE DEF r
    <2>3. r + Ones(FALSE) = r
        BY <2>1, <2>2, Zenon
    <2> QED BY <2>3 DEF r
<1> DEFINE t == Readers(d) + Ones(FALSE)
<1>3. t <= 1 /\ (d.state # "closed" => t = 1)
    <2>1. t = Readers(d)
        BY <1>2
    <2> HIDE DEF t
    <2> QED BY <2>1
<1> QED BY <1>3, Zenon DEF Held

\* It reads on, or has closed the connection.
LEMMA HandsOn ==
    ASSUME ConnectionInv, NEW e, Good(e), Bounded(e, Busy), Readers(e) = 0,
           disp = "idle", kind # "none", Reread(e, c'), UNCHANGED <<kind, p, io, disp, peer, wire>>
    PROVE  ConnectionInv'
<1>1. Shape
    BY DEF ConnectionInv
<1>2. e \in ConnectionType /\ Like(e, c')
    BY DEF Good, Reread
<1>3. Good(c') /\ Bounded(c', Busy)
    BY <1>1, <1>2, Parameters, GoodLike, BoundedLike
<1>4. Held(c', FALSE)
    <2>1. c' \in ConnectionType /\ Readers(c') <= 1 /\ (c'.state # "closed" => Readers(c') = 1)
        BY DEF Reread, Like
    <2> QED BY <2>1, HeldIdle
<1>5. Held(c', disp' = "parsing")
    <2>1. (disp' = "parsing") = FALSE
        OBVIOUS
    <2> QED BY <1>4, <2>1
<1>6. Busy' = Busy /\ Sealing' = Sealing
    BY DEF Busy, Sealing
<1> QED BY <1>1, <1>3, <1>5, <1>6, Continues DEF Shape

LEMMA HandleProxyKeeps == ASSUME ConnectionInv, HandleProxy PROVE ConnectionInv'
<1>1. /\ Good(Taken) /\ Bounded(Taken, Busy)
      /\ Readers(Taken) = 0 /\ disp = "idle" /\ kind # "none" /\ Ok \in BOOLEAN
    BY TakesBuffer DEF HandleProxy, ReadOps
<1>2. Reread(Taken, c')
    BY <1>1, ProxyParsed DEF HandleProxy, Good
<1> QED BY <1>1, <1>2, HandsOn DEF HandleProxy

LEMMA HandleHeaderKeeps == ASSUME ConnectionInv, HandleHeader PROVE ConnectionInv'
<1>1. /\ Good(Taken) /\ Bounded(Taken, Busy)
      /\ Readers(Taken) = 0 /\ disp = "idle" /\ kind # "none" /\ Ok \in BOOLEAN
    BY TakesBuffer DEF HandleHeader, ReadOps
<1>2. Reread(Taken, c')
    BY <1>1, HeaderParsed DEF HandleHeader, Good
<1> QED BY <1>1, <1>2, HandsOn DEF HandleHeader

LEMMA PostsPacket ==
    ASSUME NEW d \in ConnectionType
    PROVE  /\ Like(d, post(d, "packet")) /\ Readers(post(d, "packet")) = Readers(d) + 1
           /\ Standing(d, post(d, "packet"))
<1> DEFINE e == post(d, "packet")
<1>1. "packet" \in TaskNames /\ Ones("packet" = "packet") = 1
      /\ Ones("packet" = "sendLoginChallenge") = 0
      /\ Ones("packet" \in {"login", "getCharacterList"}) = 0
    BY DEF TaskNames, Ones
<1>2. /\ e \in ConnectionType /\ Standing(d, e)
      /\ e.first = d.first /\ e.queue = d.queue /\ e.sent = d.sent /\ e.due = d.due
      /\ e.writes = d.writes /\ e.protocol = d.protocol
      /\ Writers(e) = Writers(d) /\ Written(e) = Written(d)
      /\ Readers(e) = Readers(d) + 1 /\ Challenges(e) = Challenges(d) + 0
      /\ Logins(e) = Logins(d) + 0
    BY <1>1, Posts
<1>3. Challenges(d) \in Nat /\ Logins(d) \in Nat
    BY Numbers
<1> HIDE DEF e
<1>4. Challenges(e) = Challenges(d) /\ Logins(e) = Logins(d)
    BY <1>2, <1>3
<1>5. Like(d, e)
    BY <1>2, <1>4 DEF Like, Standing
<1> QED BY <1>2, <1>5 DEF e

\* The same with what the handler knows of a connection after one of its calls.
LEMMA HandsOver ==
    ASSUME ConnectionInv, Good(c'), Bounded(c', Busy), Readers(c') <= 1,
           c'.state # "closed" => Readers(c') = 1,
           disp = "idle", kind # "none", io = "loop", io' \in {"loop", "posted"},
           UNCHANGED <<kind, p, disp, peer, wire>>
    PROVE  ConnectionInv'
<1>1. Held(c', FALSE)
    BY HeldIdle DEF Good
<1>2. Held(c', disp' = "parsing")
    <2>1. (disp' = "parsing") = FALSE
        OBVIOUS
    <2> QED BY <1>1, <2>1
<1>3. Busy' = Busy /\ Sealing' = Sealing
    BY DEF Busy, Sealing
<1> QED BY <1>2, <1>3, Continues DEF Shape, ConnectionInv

LEMMA parsePacketKeeps == ASSUME ConnectionInv, parsePacket PROVE ConnectionInv'
<1> DEFINE e == [Taken EXCEPT !.readTimer = FALSE]
<1>1. /\ Good(Taken) /\ Bounded(Taken, Busy) /\ Standing(c, Taken)
      /\ Readers(Taken) = 0 /\ disp = "idle" /\ kind # "none" /\ Ok \in BOOLEAN
      /\ Taken \in ConnectionType /\ Taken.first = c.first /\ io = "loop"
    BY TakesBuffer DEF parsePacket, ReadOps, Good, Like
<1>2. /\ Like(Taken, e) /\ Readers(e) = Readers(Taken) /\ Standing(Taken, e)
      /\ e \in ConnectionType /\ e.first = c.first
    BY <1>1, Arms DEF Like
<1>3. UNCHANGED <<kind, p, disp, peer, wire>> /\ Shape
    BY DEF parsePacket, ConnectionInv
<1>4. \/ c' = close(e, TRUE) /\ UNCHANGED io
      \/ c.state # "closed" /\ ~c.first /\ c' \in firstPacket(e) /\ UNCHANGED io
      \/ c' = asyncRead(armed(e), "header") /\ UNCHANGED io
      \/ c' = post(e, "packet") /\ io' = "posted"
    BY DEF parsePacket
<1> HIDE DEF e
<1>5. Good(e) /\ Bounded(e, Busy) /\ Readers(e) = 0
    BY <1>1, <1>2, <1>3, GoodLike, BoundedLike, Parameters
<1>6. CASE c' = close(e, TRUE) /\ UNCHANGED io
    <2>1. Reread(e, c')
        BY <1>2, <1>6, RereadClosed
    <2> QED BY <1>1, <1>3, <1>5, <1>6, <2>1, HandsOn
<1>7. CASE c.state # "closed" /\ ~c.first /\ c' \in firstPacket(e) /\ UNCHANGED io
    <2>1. e.state # "closed" /\ ~e.first
        BY <1>1, <1>2, <1>7 DEF Standing
    <2>2. /\ Good(c') /\ Bounded(c', Busy) /\ Readers(c') <= Readers(e) + 1
          /\ c'.state # "closed" => Readers(c') = Readers(e) + 1
        BY <1>3, <1>5, <1>7, <2>1, FirstParsed
    <2>3. Readers(c') <= 1 /\ (c'.state # "closed" => Readers(c') = 1)
        BY <1>5, <2>2
    <2> QED BY <1>1, <1>3, <1>7, <2>2, <2>3, HandsOver
<1>8. CASE c' = asyncRead(armed(e), "header") /\ UNCHANGED io
    <2>1. Reread(e, c')
        BY <1>2, <1>8, RereadRead DEF ReadOps
    <2> QED BY <1>1, <1>3, <1>5, <1>8, <2>1, HandsOn
<1>9. CASE c' = post(e, "packet") /\ io' = "posted"
    <2>1. Like(e, c') /\ Readers(c') = Readers(e) + 1
        BY <1>2, <1>9, PostsPacket
    <2>2. Good(c') /\ Bounded(c', Busy)
        BY <1>2, <1>3, <1>5, <2>1, GoodLike, BoundedLike, Parameters
    <2>3. Readers(c') = 1
        BY <1>5, <2>1
    <2> QED BY <1>1, <1>3, <1>9, <2>2, <2>3, HandsOver
<1> QED BY <1>4, <1>6, <1>7, <1>8, <1>9

-----------------------------------------------------------------------------
(* Steps that change flags, or close. *)

\* A step after which the connection is like before, with as many readers.
LEMMA ContinuesLike ==
    ASSUME ConnectionInv, kind # "none", Held(c, disp = "parsing"),
           Like(c, c'), Readers(c') = Readers(c), p' \in ProtocolType, Busy' => Busy,
           Sealing' = Sealing, io' \in {"loop", "sealing", "posted"},
           UNCHANGED <<kind, disp, peer, wire>>
    PROVE  ConnectionInv'
<1>1. Shape /\ c \in ConnectionType /\ Bounded(c, Busy) /\ Good(c)
    BY GoodNow DEF ConnectionInv
<1>2. Good(c') /\ Bounded(c', Busy)
    BY <1>1, GoodLike, BoundedLike, Parameters
<1>3. Bounded(c', Busy')
    BY <1>2 DEF Bounded
<1>4. Held(c', disp = "parsing")
    BY DEF Held, Like
<1> QED BY <1>1, <1>2, <1>3, <1>4, Continues DEF Shape

LEMMA FinishPacketKeeps == ASSUME ConnectionInv, FinishPacket PROVE ConnectionInv'
<1>1. c \in ConnectionType /\ kind # "none" /\ Held(c, disp = "parsing")
    BY Touched DEF FinishPacket, ConnectionInv
<1>2. Like(c, c') /\ Readers(c') = Readers(c)
    BY <1>1, Arms DEF FinishPacket, parsePacketEnd, armed
<1>3. Sealing' = Sealing /\ Busy' = Busy
    BY DEF FinishPacket, Sealing, Busy
<1> QED BY <1>1, <1>2, <1>3, ContinuesLike DEF FinishPacket, ConnectionInv, Shape

\* Taking a timeout off the completed operations.
LEMMA TakesTimeout ==
    ASSUME ConnectionInv, Handles("timeout")
    PROVE  /\ Like(c, Taken) /\ Standing(c, Taken) /\ Readers(Taken) = Readers(c)
<1> DEFINE e == Taken
           h == Head(c.ready)
<1>1. c \in ConnectionType /\ c.ready # <<>> /\ h.op = "timeout"
    BY DEF ConnectionInv, Handles
<1>2. e = [c EXCEPT !.ready = Tail(c.ready)]
    BY DEF Taken
<1>3. /\ e \in ConnectionType
      /\ Readers(c) = Readers(e) + Ones(h.op \in ReadOps)
      /\ Writers(c) = Writers(e) + Ones(h.op \in {"worker", "write"})
      /\ Written(c) = Written(e) + Ones(h.op \in {"write"})
      /\ Challenges(e) = Challenges(c) /\ Logins(e) = Logins(c)
    BY <1>1, <1>2, Tailed
<1>4. /\ e.state = c.state /\ e.sock = c.sock /\ e.first = c.first
      /\ e.queue = c.queue /\ e.sent = c.sent /\ e.due = c.due
      /\ e.writes = c.writes /\ e.managed = c.managed
    BY <1>1, <1>2 DEF ConnectionType
<1> HIDE DEF e
<1>5. /\ Readers(c) = Readers(e) + 0 /\ Writers(c) = Writers(e) + 0
      /\ Written(c) = Written(e) + 0
    <2>1. h.op \notin ReadOps /\ h.op \notin {"worker", "write"} /\ h.op \notin {"write"}
        BY <1>1 DEF ReadOps
    <2> QED BY <1>3, <2>1 DEF Ones
<1>6. Readers(e) \in Nat /\ Writers(e) \in Nat /\ Written(e) \in Nat
    BY <1>3, Numbers
<1>7. Readers(e) = Readers(c) /\ Writers(e) = Writers(c) /\ Written(e) = Written(c)
    BY <1>5, <1>6
<1>8. Like(c, e)
    BY <1>3, <1>4, <1>7 DEF Like
<1> QED BY <1>4, <1>7, <1>8 DEF e, Standing

LEMMA HandleTimeoutKeeps == ASSUME ConnectionInv, HandleTimeout PROVE ConnectionInv'
<1>1. c \in ConnectionType /\ kind # "none" /\ Held(c, disp = "parsing")
    BY Touched DEF HandleTimeout, Handles, ConnectionInv
<1>2. Like(c, Taken) /\ Readers(Taken) = Readers(c) /\ Taken \in ConnectionType
    BY TakesTimeout DEF HandleTimeout, Like
<1>3. Like(Taken, close(Taken, TRUE)) /\ Readers(close(Taken, TRUE)) = Readers(Taken)
    BY <1>2, Closes
<1>4. Like(c, c') /\ Readers(c') = Readers(c)
    BY <1>2, <1>3, LikeLike DEF HandleTimeout
<1>5. Sealing' = Sealing /\ Busy' = Busy
    BY DEF HandleTimeout, Sealing, Busy
<1> QED BY <1>1, <1>4, <1>5, ContinuesLike DEF HandleTimeout, ConnectionInv, Shape

\* A wait that ends.
LEMMA TimerKeeps ==
    ASSUME ConnectionInv, ReadTimerEnds \/ WriteTimerEnds PROVE ConnectionInv'
<1> DEFINE h == Done("timeout", TRUE)
           d == IF ReadTimerEnds THEN [c EXCEPT !.readTimer = FALSE]
                ELSE [c EXCEPT !.writeTimer = FALSE]
<1>1. c \in ConnectionType /\ kind # "none" /\ Held(c, disp = "parsing")
    BY Touched DEF ReadTimerEnds, WriteTimerEnds, ConnectionInv
<1>2. /\ d \in ConnectionType /\ d.state = c.state /\ d.sock = c.sock /\ d.first = c.first
      /\ d.queue = c.queue /\ d.sent = c.sent /\ d.due = c.due /\ d.reads = c.reads
      /\ d.writes = c.writes /\ d.ready = c.ready /\ d.tasks = c.tasks /\ d.managed = c.managed
    BY <1>1 DEF ConnectionType
<1>3. c' = [d EXCEPT !.ready = Append(d.ready, h)]
    <2>1. CASE ReadTimerEnds
        <3>1. d = [c EXCEPT !.readTimer = FALSE]
            BY <2>1
        <3>2. c' = [c EXCEPT !.readTimer = FALSE, !.ready = Append(@, h)]
            BY <2>1 DEF ReadTimerEnds
        <3> HIDE DEF d, h
        <3> QED BY <1>1, <3>1, <3>2 DEF ConnectionType
    <2>2. CASE ~ReadTimerEnds
        <3>1. d = [c EXCEPT !.writeTimer = FALSE]
            BY <2>2
        <3>2. c' = [c EXCEPT !.writeTimer = FALSE, !.ready = Append(@, h)]
            BY <2>2 DEF WriteTimerEnds
        <3> HIDE DEF d, h
        <3> QED BY <1>1, <3>1, <3>2 DEF ConnectionType
    <2> QED BY <2>1, <2>2
<1>4. /\ h \in Completions(Ops) /\ h.op \notin ReadOps /\ h.op \notin {"worker", "write"}
      /\ h.op \notin {"write"}
    BY DEF Done, Completions, Ops, ReadOps
<1> HIDE DEF d, h
<1> DEFINE e == c'
<1>5. /\ e \in ConnectionType
      /\ Readers(e) = Readers(d) + Ones(h.op \in ReadOps)
      /\ Writers(e) = Writers(d) + Ones(h.op \in {"worker", "write"})
      /\ Written(e) = Written(d) + Ones(h.op \in {"write"})
      /\ Challenges(e) = Challenges(d) /\ Logins(e) = Logins(d)
    BY <1>2, <1>3, <1>4, Pushed
<1>6. /\ e.state = d.state /\ e.sock = d.sock /\ e.first = d.first
      /\ e.queue = d.queue /\ e.sent = d.sent /\ e.due = d.due
      /\ e.writes = d.writes /\ e.managed = d.managed
    BY <1>2, <1>3 DEF ConnectionType
<1> HIDE DEF e
<1>7. Readers(e) = Readers(d) + 0 /\ Writers(e) = Writers(d) + 0 /\ Written(e) = Written(d) + 0
    BY <1>4, <1>5 DEF Ones
<1>8. Readers(d) \in Nat /\ Writers(d) \in Nat /\ Written(d) \in Nat
    BY <1>2, Numbers
<1>9. Readers(e) = Readers(d) /\ Writers(e) = Writers(d) /\ Written(e) = Written(d)
    BY <1>7, <1>8
<1>10. /\ Readers(d) = Readers(c) /\ Writers(d) = Writers(c) /\ Written(d) = Written(c)
       /\ Challenges(d) = Challenges(c) /\ Logins(d) = Logins(c)
    BY <1>1, <1>2, Flags
<1>11. Like(c, e)
    BY <1>2, <1>5, <1>6, <1>9, <1>10 DEF Like
<1>12. Like(c, c') /\ Readers(c') = Readers(c)
    BY <1>9, <1>10, <1>11 DEF e
<1>13. UNCHANGED <<kind, p, io, disp, peer, wire>>
    BY DEF ReadTimerEnds, WriteTimerEnds
<1>14. Sealing' = Sealing /\ Busy' = Busy
    BY <1>13 DEF Sealing, Busy
<1> QED BY <1>1, <1>12, <1>13, <1>14, ContinuesLike DEF ConnectionInv, Shape

-----------------------------------------------------------------------------
(* The dispatcher's tasks. *)

\* What a task leaves when it is taken off the queue.
LEMMA TaskTaken ==
    ASSUME ConnectionInv, NEW i \in DOMAIN c.tasks
    PROVE  LET e == Without(i)
               t == c.tasks[i]
           IN  /\ Good(e) /\ Standing(c, e) /\ e.first = c.first /\ e.sent = c.sent
               /\ e.due = c.due /\ e.queue = c.queue /\ e.writes = c.writes
               /\ Readers(c) = Readers(e) + Ones(t = "packet")
               /\ Challenges(c) = Challenges(e) + Ones(t = "sendLoginChallenge")
               /\ Logins(c) = Logins(e) + Ones(t \in {"login", "getCharacterList"})
<1> DEFINE e == Without(i)
           t == c.tasks[i]
           rest == RemoveAt(c.tasks, i)
<1>1. c \in ConnectionType
    BY DEF ConnectionInv
<1>2. rest \in Seq(TaskNames)
    BY <1>1, Fields, CountRemoveAt
<1>3. \A S : Count(c.tasks, S) = Count(rest, S) + (IF t \in S THEN 1 ELSE 0)
    BY <1>1, Fields, CountRemoveAt
<1>4. e = [c EXCEPT !.tasks = rest]
    BY DEF Without
<1> HIDE DEF rest, t, e
<1>5. /\ e \in ConnectionType /\ Standing(c, e) /\ e.tasks = rest /\ e.ready = c.ready
      /\ e.first = c.first /\ e.queue = c.queue /\ e.sent = c.sent /\ e.due = c.due
      /\ e.writes = c.writes /\ e.reads = c.reads
    BY <1>1, <1>2, <1>4 DEF ConnectionType, Standing
<1>6. Packets(c) = Packets(e) + Ones(t = "packet")
    BY <1>3, <1>5 DEF Packets, Ones
<1>7. Challenges(c) = Challenges(e) + Ones(t = "sendLoginChallenge")
    BY <1>3, <1>5 DEF Challenges, Ones
<1>8. Logins(c) = Logins(e) + Ones(t \in {"login", "getCharacterList"})
    BY <1>3, <1>5 DEF Logins, Ones
<1> DEFINE reads == Len(c.reads)
           x == Ones(t = "packet")
           y == Ones(t = "sendLoginChallenge")
<1>9. /\ Readers(c) = reads + Heard(c) + Packets(c) /\ Readers(e) = reads + Heard(c) + Packets(e)
      /\ Writers(e) = Writers(c) /\ Written(e) = Written(c)
    BY <1>5 DEF Readers, Writers, Written, Heard, Working, Wrote
<1>10. /\ reads \in Nat /\ Heard(c) \in Nat /\ Packets(e) \in Nat /\ x \in Nat
       /\ Packets(c) = Packets(e) + x /\ Challenges(c) = Challenges(e) + y /\ y \in Nat
       /\ Challenges(e) \in Nat
    BY <1>1, <1>5, <1>6, <1>7, Numbers DEF Ones
<1> HIDE DEF reads, x, y
<1>11. Readers(c) = Readers(e) + x
    BY <1>9, <1>10
<1>12. Good(e)
    <2>1. Core(e, SealedNow, Sealing, wire.delivered, Gone)
        <3>1. Core(c, SealedNow, Sealing, wire.delivered, Gone)
            BY DEF ConnectionInv
        <3> QED BY <1>5, <1>9, <3>1 DEF Core, Whole, Queued, Flowing, Standing
    <2>2. Challenges(c) = 0 => Challenges(e) = 0
        BY <1>10
    <2>3. Good(c)
        BY GoodNow
    <2> QED BY <1>5, <2>1, <2>2, <2>3 DEF Good
<1> QED BY <1>5, <1>7, <1>8, <1>11, <1>12 DEF e, t, x

\* A connection whose client is logging in, or in the game.
Entered(d) ==
    d.state # "closed" =>
       /\ d.first /\ "disconnect" \notin d.due /\ d.sent <= MaxSent + 1 /\ Challenges(d) = 0

LEMMA HasEntered ==
    ASSUME ConnectionInv, Logins(c) # 0 \/ "connect" \in c.due \/ Busy
    PROVE  Entered(c)
BY DEF ConnectionInv, Bounded, Entered

LEMMA EnteredBounded ==
    ASSUME NEW d, Good(d), Entered(d), NEW busy PROVE Bounded(d, busy) /\ Speakable(d)
BY DEF Good, Entered, Bounded, Speakable

\* Without its task, the client is where it was.
LEMMA LoginTaken ==
    ASSUME ConnectionInv, NEW i \in DOMAIN c.tasks,
           c.tasks[i] \in {"login", "getCharacterList"} \/ Busy
    PROVE  Entered(Without(i))
<1> DEFINE e == Without(i)
           t == c.tasks[i]
<1>1. /\ Good(e) /\ Standing(c, e) /\ e.first = c.first /\ e.sent = c.sent
      /\ e.due = c.due
      /\ Challenges(c) = Challenges(e) + Ones(t = "sendLoginChallenge")
      /\ Logins(c) = Logins(e) + Ones(t \in {"login", "getCharacterList"})
    BY TaskTaken
<1>2. Logins(e) \in Nat /\ Challenges(e) \in Nat
    BY <1>1, Numbers DEF Good
<1> HIDE DEF e, t
<1>3. t \in {"login", "getCharacterList"} => Logins(c) # 0
    <2>1. t \in {"login", "getCharacterList"} => Logins(c) = Logins(e) + 1
        BY <1>1 DEF Ones
    <2> QED BY <1>2, <2>1
<1>4. Entered(c)
    BY <1>3, HasEntered DEF t
<1>5. Challenges(c) = 0 => Challenges(e) = 0
    <2> DEFINE y == Ones(t = "sendLoginChallenge")
    <2>1. y \in Nat /\ Challenges(c) = Challenges(e) + y
        BY <1>1 DEF Ones
    <2> HIDE DEF y
    <2> QED BY <1>2, <2>1
<1> QED BY <1>1, <1>4, <1>5 DEF Entered, Standing, e

\* A task that is no packet hands no buffer over.
LEMMA ContinuesTask ==
    ASSUME ConnectionInv, NEW i, NEW task \in TaskNames \ {"packet"}, Runs(i, task),
           Good(c'), Bounded(c', Busy'), Readers(c') = Readers(Without(i)),
           c'.state # "closed" => c.state # "closed", p' \in ProtocolType,
           UNCHANGED <<kind, io, disp, peer, wire>>
    PROVE  ConnectionInv'
<1> DEFINE e == Without(i)
<1>1. i \in DOMAIN c.tasks /\ c.tasks[i] = task
    BY DEF Runs
<1>2. kind # "none" /\ Held(c, disp = "parsing")
    <2>1. c.tasks # <<>>
        BY <1>1
    <2> QED BY <2>1, Touched
<1>3. Readers(c) = Readers(e) + 0 /\ Readers(e) \in Nat
    <2>1. Readers(c) = Readers(e) + Ones(task = "packet") /\ e \in ConnectionType
        BY <1>1, TaskTaken DEF Good
    <2>2. Ones(task = "packet") = 0
        BY DEF Ones
    <2> QED BY <2>1, <2>2, Numbers
<1>4. Readers(c') = Readers(c)
    BY <1>3
<1>5. Held(c', disp = "parsing")
    BY <1>2, <1>4 DEF Held
<1>6. Sealing' = Sealing
    BY DEF Sealing
<1> QED BY <1>2, <1>5, <1>6, Continues DEF ConnectionInv, Shape

LEMMA sendLoginChallengeKeeps ==
    ASSUME ConnectionInv, NEW i, sendLoginChallenge(i) PROVE ConnectionInv'
<1> DEFINE e == Without(i)
<1>1. /\ i \in DOMAIN c.tasks /\ c.tasks[i] = "sendLoginChallenge"
      /\ UNCHANGED <<kind, p, io, disp, peer, wire>> /\ Shape
      /\ c' = IF Alive THEN send(e) ELSE e
    BY DEF sendLoginChallenge, Runs, Sent, ConnectionInv
<1>2. /\ Good(e) /\ Standing(c, e) /\ e.first = c.first /\ e.sent = c.sent /\ e.due = c.due
      /\ Challenges(c) = Challenges(e) + Ones("sendLoginChallenge" = "sendLoginChallenge")
      /\ Logins(c) = Logins(e) + Ones("sendLoginChallenge" \in {"login", "getCharacterList"})
    BY <1>1, TaskTaken
<1>3. Challenges(c) = Challenges(e) + 1 /\ Logins(c) = Logins(e) + 0
    BY <1>2 DEF Ones
<1>4. Challenges(e) \in Nat /\ Logins(e) \in Nat /\ e.sent \in Nat
    BY <1>2, Numbers, Fields DEF Good
<1> HIDE DEF e
<1>5. Logins(c) = Logins(e) /\ Challenges(c) # 0
    BY <1>3, <1>4
<1>6. e.state # "closed" =>
         /\ e.first = FALSE /\ e.sent = 0 /\ Challenges(e) = 0 /\ Logins(e) = 0 /\ e.due = {}
         /\ ~Busy
    <2> HAVE e.state # "closed"
    <2>1. /\ ~c.first => c.sent + Challenges(c) <= 1 /\ Logins(c) = 0 /\ c.due = {} /\ ~Busy
          /\ c.first => Challenges(c) = 0
        BY <1>2 DEF ConnectionInv, Bounded, Standing
    <2>2. c.first = FALSE
        BY <1>5, <2>1, Fields DEF ConnectionInv
    <2> DEFINE m == c.sent
               k == Challenges(e)
    <2>3. m \in Nat /\ k \in Nat /\ m + (k + 1) <= 1
        BY <1>2, <1>3, <1>4, <2>1, <2>2
    <2> HIDE DEF m, k
    <2>4. m = 0 /\ k = 0
        BY <2>3
    <2> QED BY <1>2, <1>5, <2>1, <2>2, <2>4 DEF m, k
<1>7. Speakable(e)
    BY <1>6, ConnectionAssumption DEF Speakable, ConnectionAssumption
<1>8. /\ Good(c') /\ Readers(c') = Readers(e) /\ c'.state = e.state
      /\ Challenges(c') = Challenges(e) /\ Logins(c') = Logins(e)
      /\ c'.first = e.first /\ c'.due = e.due
      /\ c'.state # "closed" => c'.sent <= 1
    <2>1. CASE Alive
        <3>1. /\ Good(c') /\ Readers(c') = Readers(e) /\ c'.state = e.state
              /\ Challenges(c') = Challenges(e) /\ Logins(c') = Logins(e)
              /\ c'.first = e.first /\ c'.due = e.due
              /\ c'.sent = IF e.state = "closed" THEN e.sent ELSE e.sent + 1
            BY <1>1, <1>2, <1>7, <2>1, GoodSends
        <3> QED BY <1>6, <3>1
    <2>2. CASE ~Alive
        BY <1>1, <1>2, <1>6, <2>2
    <2> QED BY <2>1, <2>2
<1>9. Bounded(c', Busy')
    <2>1. CASE c'.state = "closed"
        BY <1>8, <2>1, GoodClosed
    <2>2. CASE c'.state # "closed"
        <3>1. /\ c'.first = FALSE /\ c'.sent <= 1 /\ Challenges(c') = 0 /\ Logins(c') = 0
              /\ c'.due = {} /\ ~Busy'
            BY <1>1, <1>6, <1>8, <2>2 DEF Busy
        <3>2. c'.sent \in Nat /\ c'.sent + 0 <= 1
            BY <1>8, <3>1, Fields DEF Good
        <3> QED BY <1>8, <3>1, <3>2 DEF Bounded, Good
    <2> QED BY <2>1, <2>2
<1>10. c'.state # "closed" => c.state # "closed"
    BY <1>2, <1>8 DEF Standing
<1>11. Runs(i, "sendLoginChallenge") /\ p' \in ProtocolType
    BY <1>1 DEF sendLoginChallenge, Shape
<1> QED BY <1>1, <1>8, <1>9, <1>10, <1>11, ContinuesTask DEF TaskNames, e

\* A refusal closes the connection, or it was closed.
LEMMA Refuses ==
    ASSUME ConnectionInv, NEW d, Good(d), Speakable(d), d.state = c.state
    PROVE  /\ Good(Refused(d)) /\ Refused(d).state = "closed"
           /\ Readers(Refused(d)) = Readers(d) /\ Refused(d).sock = d.sock
<1>1. CASE Alive
    BY <1>1, GoodDisconnects DEF Refused, ConnectionInv
<1>2. CASE ~Alive
    BY <1>2, KeptAlive DEF Refused
<1> QED BY <1>1, <1>2

LEMMA TaskRefuses ==
    ASSUME ConnectionInv, NEW i, NEW task \in {"login", "getCharacterList"}, Runs(i, task),
           c' = Refused(Without(i)), p' \in ProtocolType,
           UNCHANGED <<kind, io, disp, peer, wire>>
    PROVE  ConnectionInv'
<1> DEFINE e == Without(i)
<1>1. i \in DOMAIN c.tasks /\ c.tasks[i] = task
    BY DEF Runs
<1>2. Good(e) /\ e.state = c.state
    BY <1>1, TaskTaken DEF Standing
<1>3. Speakable(e)
    BY <1>1, <1>2, LoginTaken, EnteredBounded
<1>4. Good(c') /\ c'.state = "closed" /\ Readers(c') = Readers(e)
    BY <1>2, <1>3, Refuses
<1>5. Bounded(c', Busy')
    BY <1>4, GoodClosed
<1> QED BY <1>4, <1>5, ContinuesTask DEF TaskNames

LEMMA getCharacterListKeeps ==
    ASSUME ConnectionInv, NEW i, getCharacterList(i) PROVE ConnectionInv'
<1>1. p' \in ProtocolType
    BY DEF getCharacterList, ConnectionInv, Shape
<1> QED BY <1>1, TaskRefuses DEF getCharacterList

LEMMA loginRefusedKeeps ==
    ASSUME ConnectionInv, NEW i, loginRefused(i) PROVE ConnectionInv'
<1>1. p' \in ProtocolType
    BY DEF loginRefused, ConnectionInv, Shape, ProtocolType
<1> QED BY <1>1, TaskRefuses DEF loginRefused

\* A login that succeeds: its client has entered, whatever is remembered for later.
LEMMA EntersDue ==
    ASSUME Shape, NEW d, Good(d), Entered(d), NEW due \in SUBSET {"connect"},
           NEW e, e = [d EXCEPT !.due = @ \cup due]
    PROVE  /\ Good(e) /\ Entered(e) /\ Readers(e) = Readers(d) /\ e.state = d.state
<1>1. d \in ConnectionType /\ Core(d, SealedNow, Sealing, wire.delivered, Gone)
    BY DEF Good
<1>2. /\ e \in ConnectionType /\ Standing(d, e) /\ e.queue = d.queue /\ e.sent = d.sent
      /\ e.reads = d.reads /\ e.writes = d.writes /\ e.ready = d.ready /\ e.tasks = d.tasks
      /\ e.first = d.first /\ ("disconnect" \in e.due <=> "disconnect" \in d.due)
    <2>1. d.due \cup due \subseteq {"connect", "disconnect"}
        BY <1>1, Fields
    <2>2. e = [d EXCEPT !.due = d.due \cup due]
        OBVIOUS
    <2>3. e \in ConnectionType /\ e.due = d.due \cup due
        BY <1>1, <2>1, <2>2 DEF ConnectionType
    <2> QED BY <1>1, <2>2, <2>3 DEF ConnectionType, Standing
<1>3. Readers(e) = Readers(d) /\ Challenges(e) = Challenges(d)
    BY <1>1, <1>2, Flags
<1>4. Core(e, SealedNow, Sealing, wire.delivered, Gone)
    BY <1>1, <1>2, CoreFlags
<1>5. Good(e)
    BY <1>2, <1>3, <1>4 DEF Good
<1>6. Entered(e)
    BY <1>2, <1>3 DEF Entered, Standing
<1> QED BY <1>2, <1>3, <1>5, <1>6 DEF Standing

LEMMA loginPlacedKeeps ==
    ASSUME ConnectionInv, NEW i, loginPlaced(i) PROVE ConnectionInv'
<1>1. /\ i \in DOMAIN c.tasks /\ c.tasks[i] = "login" /\ Runs(i, "login")
      /\ c' = Without(i) /\ UNCHANGED <<kind, io, disp, peer, wire>>
    BY DEF loginPlaced, Runs
<1>2. p' \in ProtocolType
    BY DEF loginPlaced, ConnectionInv, Shape, ProtocolType
<1>3. Good(c') /\ c'.state = c.state
    BY <1>1, TaskTaken DEF Standing
<1>4. Entered(c')
    BY <1>1, LoginTaken
<1>5. Bounded(c', Busy')
    BY <1>3, <1>4, EnteredBounded
<1>6. Readers(c') = Readers(Without(i))
    BY <1>1
<1> QED BY <1>1, <1>2, <1>3, <1>5, <1>6, ContinuesTask DEF TaskNames

LEMMA loginConnectsKeeps ==
    ASSUME ConnectionInv, NEW i, loginConnects(i) PROVE ConnectionInv'
<1> DEFINE e == Without(i)
<1>1. /\ i \in DOMAIN c.tasks /\ c.tasks[i] = "login" /\ Runs(i, "login")
      /\ UNCHANGED <<kind, io, disp, peer, wire>> /\ Shape
      /\ c' = [e EXCEPT !.due = @ \cup {"connect"}] \/ c' = e
    BY DEF loginConnects, Runs, ConnectionInv
<1>2. p' \in ProtocolType
    <2>1. p \in ProtocolType /\ connected \in ProtocolType
        BY DEF ConnectionInv, Shape, ProtocolType, connected
    <2> QED BY <2>1 DEF loginConnects, ProtocolType
<1>3. Good(e) /\ e.state = c.state /\ Entered(e)
    BY <1>1, TaskTaken, LoginTaken DEF Standing
<1> HIDE DEF e
<1>4. Good(c') /\ c'.state = c.state /\ Entered(c') /\ Readers(c') = Readers(e)
    <2>1. CASE c' = [e EXCEPT !.due = @ \cup {"connect"}]
        <3>1. {"connect"} \in SUBSET {"connect"}
            OBVIOUS
        <3> QED BY <1>1, <1>3, <2>1, <3>1, EntersDue
    <2>2. CASE c' = e
        BY <1>3, <2>2
    <2> QED BY <1>1, <2>1, <2>2
<1>5. Bounded(c', Busy')
    BY <1>4, EnteredBounded
<1> QED BY <1>1, <1>2, <1>4, <1>5, ContinuesTask DEF TaskNames, e

\* A task that is due, or a call of the game, leaves the readers as they are.
LEMMA ContinuesCall ==
    ASSUME ConnectionInv, kind # "none", Held(c, disp = "parsing"),
           Good(c'), Bounded(c', Busy'), Readers(c') = Readers(c),
           c'.state # "closed" => c.state # "closed", p' \in ProtocolType,
           UNCHANGED <<kind, io, disp, peer, wire>>
    PROVE  ConnectionInv'
<1>1. Held(c', disp = "parsing")
    BY DEF Held
<1>2. Sealing' = Sealing
    BY DEF Sealing
<1> QED BY <1>1, <1>2, Continues DEF ConnectionInv, Shape

\* What is due is taken.
LEMMA DueTaken ==
    ASSUME ConnectionInv, NEW due, NEW d, d = [c EXCEPT !.due = @ \ {due}]
    PROVE  /\ Good(d) /\ Standing(c, d) /\ Readers(d) = Readers(c)
           /\ Entered(c) => Entered(d)
<1>1. c \in ConnectionType /\ Core(c, SealedNow, Sealing, wire.delivered, Gone) /\ Good(c)
    BY GoodNow DEF ConnectionInv
<1>2. /\ d \in ConnectionType /\ Standing(c, d) /\ d.queue = c.queue /\ d.sent = c.sent
      /\ d.reads = c.reads /\ d.writes = c.writes /\ d.ready = c.ready /\ d.tasks = c.tasks
      /\ d.first = c.first /\ ("disconnect" \in d.due => "disconnect" \in c.due)
    <2>1. c.due \ {due} \subseteq {"connect", "disconnect"}
        BY <1>1, Fields
    <2>2. d = [c EXCEPT !.due = c.due \ {due}]
        OBVIOUS
    <2>3. d \in ConnectionType /\ d.due = c.due \ {due}
        BY <1>1, <2>1, <2>2 DEF ConnectionType
    <2> QED BY <1>1, <2>2, <2>3 DEF ConnectionType, Standing
<1>3. Readers(d) = Readers(c) /\ Challenges(d) = Challenges(c)
    BY <1>1, <1>2, Flags
<1>4. Core(d, SealedNow, Sealing, wire.delivered, Gone)
    BY <1>1, <1>2, CoreFlags
<1>5. Good(d)
    BY <1>1, <1>2, <1>3, <1>4 DEF Good
<1>6. Entered(c) => Entered(d)
    BY <1>2, <1>3 DEF Entered, Standing
<1> QED BY <1>2, <1>3, <1>5, <1>6

LEMMA connectKeeps == ASSUME ConnectionInv, connect PROVE ConnectionInv'
<1> DEFINE d == [c EXCEPT !.due = @ \ {"connect"}]
<1>1. /\ "connect" \in c.due /\ UNCHANGED <<kind, io, disp, peer, wire>>
      /\ c' = Refused(d) \/ c' = d
    BY DEF connect
<1>2. kind # "none" /\ Held(c, disp = "parsing") /\ Entered(c)
    BY <1>1, Touched, HasEntered
<1>3. Good(d) /\ Standing(c, d) /\ Readers(d) = Readers(c) /\ Entered(d)
    BY <1>2, DueTaken
<1>4. p' \in ProtocolType
    <2>1. p \in ProtocolType /\ connected \in ProtocolType
        BY DEF ConnectionInv, Shape, ProtocolType, connected
    <2> QED BY <2>1 DEF connect
<1> HIDE DEF d
<1>5. CASE c' = Refused(d)
    <2>1. Good(c') /\ c'.state = "closed" /\ Readers(c') = Readers(d)
        BY <1>3, <1>5, Refuses, EnteredBounded DEF Standing
    <2> QED BY <1>1, <1>2, <1>3, <1>4, <2>1, GoodClosed, ContinuesCall
<1>6. CASE c' = d
    <2>1. Bounded(c', Busy')
        BY <1>3, <1>6, EnteredBounded
    <2>2. Good(c') /\ c'.state = c.state /\ Readers(c') = Readers(c)
        BY <1>3, <1>6 DEF Standing
    <2> QED BY <1>1, <1>2, <1>4, <2>1, <2>2, ContinuesCall
<1> QED BY <1>1, <1>5, <1>6

\* A soft close of whoever still has the connection.
LEMMA DisconnectedClosed ==
    ASSUME ConnectionInv, NEW d, Good(d), d.state = c.state
    PROVE  /\ Good(Disconnected(d)) /\ Disconnected(d).state = "closed"
           /\ Readers(Disconnected(d)) = Readers(d)
<1>1. CASE Alive
    <2>1. /\ Like(d, close(d, FALSE)) /\ Readers(close(d, FALSE)) = Readers(d)
          /\ close(d, FALSE).state = "closed"
        BY Closes DEF Good
    <2> QED BY <1>1, <2>1, GoodLike DEF Disconnected, ConnectionInv
<1>2. CASE ~Alive
    BY <1>2, KeptAlive DEF Disconnected
<1> QED BY <1>1, <1>2

LEMMA lateDisconnectKeeps == ASSUME ConnectionInv, lateDisconnect PROVE ConnectionInv'
<1> DEFINE d == [c EXCEPT !.due = @ \ {"disconnect"}]
<1>1. /\ "disconnect" \in c.due /\ UNCHANGED <<kind, p, io, disp, peer, wire>>
      /\ c' = Disconnected(d)
    BY DEF lateDisconnect
<1>2. kind # "none" /\ Held(c, disp = "parsing")
    BY <1>1, Touched
<1>3. Good(d) /\ Standing(c, d) /\ Readers(d) = Readers(c)
    BY DueTaken
<1> HIDE DEF d
<1>4. Good(c') /\ c'.state = "closed" /\ Readers(c') = Readers(c)
    BY <1>1, <1>3, DisconnectedClosed DEF Standing
<1> QED BY <1>1, <1>2, <1>4, GoodClosed, ContinuesCall DEF ConnectionInv, Shape

\* The buffer for input passes to the task that parses it.
LEMMA parseKeeps == ASSUME ConnectionInv, NEW i, parse(i) PROVE ConnectionInv'
<1> DEFINE e == Without(i)
<1>1. /\ i \in DOMAIN c.tasks /\ c.tasks[i] = "packet" /\ disp = "idle"
      /\ UNCHANGED <<kind, p, io, peer, wire>> /\ Shape
      /\ \/ c' = e
         \/ Alive /\ Busy /\ c' \in {Disconnected(e), Refused(e)}
      /\ disp' = IF Alive THEN "parsing" ELSE disp
    BY DEF parse, Runs, Busy, ConnectionInv
<1>2. /\ Good(e) /\ Standing(c, e) /\ e.first = c.first /\ e.sent = c.sent /\ e.due = c.due
      /\ Readers(c) = Readers(e) + Ones("packet" = "packet")
      /\ Challenges(c) = Challenges(e) + Ones("packet" = "sendLoginChallenge")
      /\ Logins(c) = Logins(e) + Ones("packet" \in {"login", "getCharacterList"})
    BY <1>1, TaskTaken
<1>3. Readers(e) \in Nat /\ Challenges(e) \in Nat /\ Logins(e) \in Nat
    BY <1>2, Numbers DEF Good
<1>4. kind # "none" /\ Held(c, disp = "parsing")
    <2>1. c.tasks # <<>>
        BY <1>1
    <2> QED BY <2>1, Touched
<1> HIDE DEF e
<1>5. Readers(c) = Readers(e) + 1 /\ Challenges(c) = Challenges(e) /\ Logins(c) = Logins(e)
    <2>1. /\ Readers(c) = Readers(e) + 1 /\ Challenges(c) = Challenges(e) + 0
          /\ Logins(c) = Logins(e) + 0
        BY <1>2 DEF Ones
    <2> QED BY <1>3, <2>1
<1>6. Readers(e) = 0
    <2> DEFINE x == Ones(disp = "parsing")
    <2>1. x \in Nat /\ Readers(c) + x <= 1
        BY <1>4 DEF Held, Ones
    <2> HIDE DEF x
    <2> QED BY <1>3, <1>5, <2>1
<1>7. /\ Good(c') /\ Readers(c') = 0 /\ Bounded(c', Busy')
      /\ c'.state # "closed" => c.state # "closed"
    <2>1. Busy' = Busy
        BY <1>1 DEF Busy
    <2>2. CASE c' = e
        <3>1. Bounded(e, Busy)
            BY <1>2, <1>5 DEF ConnectionInv, Bounded, Standing
        <3> QED BY <1>2, <1>6, <2>1, <2>2, <3>1 DEF Standing
    <2>3. CASE Busy /\ c' \in {Disconnected(e), Refused(e)}
        <3>1. Entered(e)
            BY <1>1, <2>3, LoginTaken DEF e
        <3>2. Speakable(e) /\ e.state = c.state
            BY <1>2, <3>1, EnteredBounded DEF Standing
        <3>3. Good(c') /\ c'.state = "closed" /\ Readers(c') = Readers(e)
            BY <1>2, <2>3, <3>2, Refuses, DisconnectedClosed
        <3> QED BY <1>6, <3>3, GoodClosed
    <2> QED BY <1>1, <2>2, <2>3
<1>8. Held(c', disp' = "parsing")
    <2>1. CASE Alive
        <3> DEFINE x == Ones(disp' = "parsing")
                   r == Readers(c')
        <3>1. x = 1 /\ r = 0
            BY <1>1, <1>7, <2>1 DEF Ones
        <3> HIDE DEF x, r
        <3>2. r + x <= 1 /\ r + x = 1
            BY <3>1
        <3> QED BY <3>2, Zenon DEF Held, x, r
    <2>2. CASE ~Alive
        <3>1. disp' = "idle" /\ c.state = "closed"
            BY <1>1, <2>2, KeptAlive
        <3>4. c'.state = "closed"
            BY <1>7, <3>1
        <3>5. Readers(c') <= 1
            BY <1>7
        <3>2. Held(c', FALSE)
            BY <1>7, <3>4, <3>5, HeldIdle DEF Good
        <3>3. (disp' = "parsing") = FALSE
            BY <3>1
        <3> QED BY <3>2, <3>3
    <2> QED BY <2>1, <2>2
<1>9. Sealing' = Sealing /\ disp' \in {"idle", "parsing"}
    BY <1>1 DEF Sealing
<1> QED BY <1>1, <1>4, <1>7, <1>8, <1>9, Continues DEF Shape

LEMMA ResumeKeeps == ASSUME ConnectionInv, Resume PROVE ConnectionInv'
<1>1. /\ disp = "parsing" /\ disp' = "idle" /\ c \in ConnectionType /\ Shape
      /\ UNCHANGED <<kind, p, io, peer, wire>> /\ Bounded(c, Busy)
    BY DEF Resume, ConnectionInv
<1>2. kind # "none" /\ Held(c, disp = "parsing")
    BY <1>1, Touched
<1>3. Reread(c, c')
    BY <1>1, RereadRead DEF Resume, resumeWork, acceptInternal, ReadOps
<1>4. Good(c') /\ Bounded(c', Busy)
    BY <1>1, <1>3, GoodNow, GoodLike, BoundedLike, Parameters DEF Reread
<1>5. Readers(c) = 0
    <2>1. (disp = "parsing") = TRUE /\ Ones(TRUE) = 1
        BY <1>1 DEF Ones
    <2>2. Readers(c) + 1 <= 1
        BY <1>2, <2>1 DEF Held
    <2>3. Readers(c) \in Nat
        BY <1>1, Numbers
    <2> QED BY <2>2, <2>3
<1>6. Held(c', FALSE)
    <2>1. Readers(c') <= 1 /\ (c'.state # "closed" => Readers(c') = 1)
        BY <1>3, <1>5 DEF Reread
    <2> QED BY <1>4, <2>1, HeldIdle DEF Good
<1>7. Held(c', disp' = "parsing")
    <2>1. (disp' = "parsing") = FALSE
        BY <1>1
    <2> QED BY <1>6, <2>1
<1>8. Busy' = Busy /\ Sealing' = Sealing
    BY <1>1 DEF Busy, Sealing
<1> QED BY <1>1, <1>2, <1>4, <1>7, <1>8, Continues DEF Shape

\* Tasks that leave the connection alone.
LEMMA releaseKeeps ==
    ASSUME ConnectionInv, NEW i, release(i) \/ Expire(i) PROVE ConnectionInv'
<1> DEFINE e == Without(i)
<1>1. PICK task \in {"release", "sendLoginChallenge"} : Runs(i, task)
    BY DEF release, Expire
<1>2. /\ i \in DOMAIN c.tasks /\ c.tasks[i] = task /\ c' = e
      /\ UNCHANGED <<kind, io, disp, peer, wire>>
    BY <1>1 DEF release, Expire, Runs
<1>3. p' \in ProtocolType /\ (Busy' => Busy)
    BY DEF release, Expire, released, ConnectionInv, Shape, ProtocolType, Busy
<1>4. /\ Good(e) /\ Standing(c, e) /\ e.first = c.first /\ e.sent = c.sent /\ e.due = c.due
      /\ Challenges(c) = Challenges(e) + Ones(task = "sendLoginChallenge")
      /\ Logins(c) = Logins(e) + Ones(task \in {"login", "getCharacterList"})
    BY <1>2, TaskTaken
<1>5. /\ Challenges(e) \in Nat /\ Logins(e) \in Nat /\ c.sent \in Nat
      /\ Ones(task = "sendLoginChallenge") \in Nat
      /\ Ones(task \in {"login", "getCharacterList"}) = 0
    BY <1>4, Numbers, Fields DEF Good, ConnectionInv, Ones
<1> HIDE DEF e
<1>6. /\ Logins(e) = Logins(c) /\ (Challenges(c) = 0 => Challenges(e) = 0)
      /\ (c.sent + Challenges(c) <= 1 => c.sent + Challenges(e) <= 1)
    <2> DEFINE x == Ones(task = "sendLoginChallenge")
               m == c.sent
    <2>1. /\ x \in Nat /\ m \in Nat /\ Challenges(c) = Challenges(e) + x
          /\ Logins(c) = Logins(e) + 0
        BY <1>4, <1>5
    <2> HIDE DEF x, m
    <2>2. /\ Logins(e) = Logins(c) /\ (Challenges(c) = 0 => Challenges(e) = 0)
          /\ (m + Challenges(c) <= 1 => m + Challenges(e) <= 1)
        BY <1>5, <2>1
    <2> QED BY <2>2 DEF m
<1>7. Bounded(e, Busy')
    BY <1>3, <1>4, <1>6 DEF ConnectionInv, Bounded, Standing
<1>8. c'.state # "closed" => c.state # "closed"
    BY <1>2, <1>4 DEF Standing
<1>9. Good(c') /\ Bounded(c', Busy') /\ Readers(c') = Readers(Without(i))
    BY <1>2, <1>4, <1>7 DEF e
<1> QED BY <1>1, <1>2, <1>3, <1>8, <1>9, ContinuesTask DEF TaskNames

LEMMA sendAllKeeps == ASSUME ConnectionInv, sendAll PROVE ConnectionInv'
<1>1. /\ Busy /\ c.sent < MaxSent /\ UNCHANGED <<kind, p, io, disp, peer, wire>> /\ Shape
      /\ c' = IF Alive THEN send(c) ELSE c
    BY DEF sendAll, Busy, Sent, ConnectionInv
<1>2. kind # "none" /\ Held(c, disp = "parsing") /\ Entered(c) /\ Good(c)
    BY <1>1, Touched, HasEntered, GoodNow
<1>3. Speakable(c)
    BY <1>2, EnteredBounded
<1>4. c.sent \in Nat /\ MaxSent \in Nat
    BY Fields, ConnectionAssumption DEF ConnectionInv, ConnectionAssumption
<1>5. CASE Alive
    <2>1. /\ Good(c') /\ Readers(c') = Readers(c) /\ c'.state = c.state
          /\ Challenges(c') = Challenges(c) /\ c'.first = c.first /\ c'.due = c.due
          /\ c'.sent = IF c.state = "closed" THEN c.sent ELSE c.sent + 1
        BY <1>1, <1>2, <1>3, <1>5, GoodSends
    <2>2. c'.state # "closed" => c'.sent <= MaxSent + 1
        <3> DEFINE m == c.sent
        <3>1. m \in Nat /\ m < MaxSent
            BY <1>1, <1>4
        <3>2. c'.state # "closed" => c'.sent = m + 1
            BY <2>1
        <3> HIDE DEF m
        <3>3. m + 1 <= MaxSent + 1
            BY <1>4, <3>1
        <3> QED BY <3>2, <3>3
    <2>3. Entered(c')
        BY <1>2, <2>1, <2>2 DEF Entered
    <2>4. Bounded(c', Busy')
        BY <2>1, <2>3, EnteredBounded
    <2> QED BY <1>1, <1>2, <2>1, <2>4, ContinuesCall DEF Shape
<1>6. CASE ~Alive
    <2>1. c' = c
        BY <1>1, <1>6
    <2>2. Good(c') /\ Bounded(c', Busy') /\ Readers(c') = Readers(c) /\ c'.state = c.state
        BY <1>2, <2>1, EnteredBounded
    <2> QED BY <1>1, <1>2, <2>2, ContinuesCall DEF Shape
<1> QED BY <1>5, <1>6

LEMMA KickKeeps == ASSUME ConnectionInv, Kick PROVE ConnectionInv'
<1>1. /\ Busy /\ UNCHANGED <<kind, p, io, disp, peer, wire>>
      /\ c' \in {Disconnected(c), Refused(c)}
    BY DEF Kick, Busy
<1>2. kind # "none" /\ Held(c, disp = "parsing") /\ Entered(c) /\ Good(c)
    BY <1>1, Touched, HasEntered, GoodNow
<1>3. Speakable(c)
    BY <1>2, EnteredBounded
<1>4. Good(c') /\ c'.state = "closed" /\ Readers(c') = Readers(c)
    BY <1>1, <1>2, <1>3, Refuses, DisconnectedClosed
<1> QED BY <1>1, <1>2, <1>4, GoodClosed, ContinuesCall DEF ConnectionInv, Shape

LEMMA TakenOverKeeps == ASSUME ConnectionInv, TakenOver PROVE ConnectionInv'
<1>1. Busy /\ UNCHANGED <<kind, c, io, disp, peer, wire>>
    BY DEF TakenOver, Busy
<1>2. p' \in ProtocolType /\ Busy' = Busy
    BY DEF TakenOver, ConnectionInv, Shape, ProtocolType, Busy
<1>3. kind # "none" /\ Held(c, disp = "parsing") /\ Good(c)
    BY <1>1, Touched, GoodNow
<1>4. Good(c') /\ Bounded(c', Busy') /\ Readers(c') = Readers(c) /\ c'.state = c.state
    BY <1>1, <1>2, <1>3 DEF ConnectionInv
<1> QED BY <1>1, <1>2, <1>3, <1>4, ContinuesCall

-----------------------------------------------------------------------------
(* The writer: internalWorker, onSendMessage, async_write, onWriteOperation. *)

\* What Bounded depends on.
Quiet(d, e) ==
    /\ e \in ConnectionType
    /\ e.sent = d.sent /\ e.due = d.due /\ e.first = d.first
    /\ Challenges(e) = Challenges(d) /\ Logins(e) = Logins(d) /\ Readers(e) = Readers(d)
    /\ e.state # "closed" => d.state # "closed"

LEMMA QuietLike ==
    ASSUME NEW d, NEW e, Like(d, e), Readers(e) = Readers(d) PROVE Quiet(d, e)
BY DEF Like, Quiet

LEMMA QuietQuiet ==
    ASSUME NEW d, NEW e, NEW f, Quiet(d, e), Quiet(e, f) PROVE Quiet(d, f)
BY DEF Quiet

\* What is left to show of a step of the writer, or of the outside world.
LEMMA ContinuesWriter ==
    ASSUME ConnectionInv, kind # "none", Held(c, disp = "parsing"), Quiet(c, c'),
           Core(c', SealedNow', Sealing', wire'.delivered, Gone'),
           io' \in {"loop", "sealing", "posted"}, peer' \in {"active", "stalled", "gone"},
           wire' \in WireType, wire'.sealed = [i \in 1 .. SealedNow' |-> i],
           UNCHANGED <<kind, p, disp>>
    PROVE  ConnectionInv'
<1>1. Shape'
    BY DEF ConnectionInv, Shape, SealedNow
<1>2. Bounded(c, Busy)'
    <2>1. Busy' = Busy
        BY DEF Busy
    <2>2. Bounded(c', Busy)
        BY DEF ConnectionInv, Bounded, Quiet
    <2> QED BY <2>1, <2>2 DEF Bounded
<1>3. Held(c', disp = "parsing")
    BY DEF Held, Quiet
<1>4. Held(c', disp' = "parsing") /\ c' \in ConnectionType
    BY <1>3 DEF Quiet
<1> QED BY <1>1, <1>2, <1>4 DEF ConnectionInv

\* Taking a turn of the writer off the completed operations.
LEMMA TakesTurn ==
    ASSUME ConnectionInv, NEW op \in {"worker", "write"}, Handles(op)
    PROVE  /\ Quiet(c, Taken) /\ Standing(c, Taken)
           /\ Taken.queue = c.queue /\ Taken.writes = c.writes /\ Taken.writes = <<>>
           /\ c.queue # <<>> /\ Writers(Taken) = 0 /\ Written(Taken) = 0
           /\ Written(c) = Ones(op = "write") /\ io = "loop" /\ Ok \in BOOLEAN
           /\ kind # "none" /\ Held(c, disp = "parsing")
<1> DEFINE e == Taken
           h == Head(c.ready)
<1>1. c \in ConnectionType /\ c.ready # <<>> /\ h.op = op /\ io = "loop"
    BY DEF ConnectionInv, Handles
<1>2. e = [c EXCEPT !.ready = Tail(c.ready)]
    BY DEF Taken
<1>3. /\ e \in ConnectionType /\ h \in Completions(Ops)
      /\ Readers(c) = Readers(e) + Ones(h.op \in ReadOps)
      /\ Writers(c) = Writers(e) + Ones(h.op \in {"worker", "write"})
      /\ Written(c) = Written(e) + Ones(h.op \in {"write"})
      /\ Challenges(e) = Challenges(c) /\ Logins(e) = Logins(c)
    BY <1>1, <1>2, Tailed
<1>4. /\ e.state = c.state /\ e.sock = c.sock /\ e.first = c.first
      /\ e.queue = c.queue /\ e.sent = c.sent /\ e.due = c.due
      /\ e.writes = c.writes /\ e.managed = c.managed
    BY <1>1, <1>2 DEF ConnectionType
<1>5. Ok \in BOOLEAN
    BY <1>3 DEF Ok, Completions
<1> HIDE DEF e
<1>6. /\ Readers(c) = Readers(e) + 0 /\ Writers(c) = Writers(e) + 1
      /\ Written(c) = Written(e) + Ones(op = "write")
    <2>1. h.op \notin ReadOps /\ h.op \in {"worker", "write"}
          /\ (h.op \in {"write"} <=> op = "write")
        BY <1>1 DEF ReadOps
    <2> QED BY <1>3, <2>1 DEF Ones
<1>7. /\ Readers(e) \in Nat /\ Writers(e) \in Nat /\ Written(e) \in Nat /\ Wrote(e) \in Nat
      /\ Len(e.writes) \in Nat /\ Working(e) \in Nat /\ Wrote(e) <= Working(e)
    BY <1>3, Numbers
<1>8. Readers(e) = Readers(c)
    BY <1>6, <1>7
<1>9. Writers(e) = 0 /\ c.queue # <<>>
    <2> DEFINE x == Ones(Sealing)
               y == Ones(c.queue # <<>>)
    <2>1. x \in Nat /\ y \in {0, 1} /\ Writers(c) + x = y
        BY DEF ConnectionInv, Core, Queued, Ones
    <2> HIDE DEF x, y
    <2>2. Writers(e) = 0 /\ y = 1
        BY <1>6, <1>7, <2>1
    <2> QED BY <2>2 DEF y, Ones
<1>10. Written(e) = 0 /\ Len(e.writes) = 0
    <2> DEFINE w == Len(e.writes)
    <2>1. w \in Nat /\ Writers(e) = w + Working(e) /\ Written(e) = w + Wrote(e)
        BY <1>7 DEF Writers, Written
    <2> HIDE DEF w
    <2>2. w = 0 /\ Written(e) = 0
        BY <1>7, <1>9, <2>1
    <2> QED BY <2>2 DEF w
<1>11. e.writes = <<>>
    <2>1. e.writes \in Seq(Nat)
        BY <1>3, Fields
    <2> QED BY <1>10, <2>1, EmptySeq
<1>12. Written(c) = Ones(op = "write")
    <2> DEFINE x == Ones(op = "write")
    <2>1. x \in Nat /\ Written(c) = Written(e) + x
        BY <1>6 DEF Ones
    <2> HIDE DEF x
    <2>2. Written(c) = x
        BY <1>10, <2>1
    <2> QED BY <2>2 DEF x
<1>13. kind # "none" /\ Held(c, disp = "parsing")
    BY <1>1, Touched
<1>14. Quiet(c, e)
    BY <1>3, <1>4, <1>8 DEF Quiet
<1> QED BY <1>1, <1>4, <1>5, <1>9, <1>10, <1>11, <1>12, <1>13, <1>14 DEF e, Standing

LEMMA internalWorkerKeeps == ASSUME ConnectionInv, internalWorker PROVE ConnectionInv'
<1> DEFINE e == Taken
<1>1. /\ Quiet(c, e) /\ Standing(c, e)
      /\ e.queue = c.queue /\ e.writes = c.writes
      /\ c.queue # <<>> /\ Writers(e) = 0 /\ Written(e) = 0 /\ io = "loop"
      /\ Written(c) = Ones("worker" = "write")
      /\ kind # "none" /\ Held(c, disp = "parsing")
    BY TakesTurn DEF internalWorker
<1>2. c' = e /\ io' = "sealing" /\ UNCHANGED <<kind, p, disp, peer, wire>>
    BY <1>1 DEF internalWorker
<1>3. /\ SealedNow' = SealedNow /\ Gone' = Gone /\ wire'.delivered = wire.delivered
      /\ Sealing' = TRUE
    BY <1>2 DEF SealedNow, Gone, Sealing
<1>4. /\ Whole(c) /\ Queued(c, SealedNow, Sealing)
      /\ Flowing(c, SealedNow, wire.delivered, Gone) /\ Shape /\ c \in ConnectionType
    BY DEF ConnectionInv, Core
<1> HIDE DEF e
<1>5. Written(c) = 0 /\ e.sent = c.sent
    BY <1>1 DEF Ones, Quiet
<1>6. Whole(e) /\ Flowing(e, SealedNow, wire.delivered, Gone)
    BY <1>1, <1>4 DEF Whole, Flowing, Standing
<1>7. Queued(e, SealedNow, TRUE)
    <2>1. Writers(e) + Ones(TRUE) = Ones(e.queue # <<>>)
        BY <1>1 DEF Ones
    <2> QED BY <1>1, <1>4, <1>5, <2>1 DEF Queued
<1>8. Core(c', SealedNow', Sealing', wire'.delivered, Gone')
    BY <1>2, <1>3, <1>6, <1>7 DEF Core
<1>9. /\ wire' \in WireType /\ wire'.sealed = [i \in 1 .. SealedNow' |-> i]
      /\ peer' \in {"active", "stalled", "gone"}
    BY <1>2, <1>3, <1>4 DEF Shape
<1> QED BY <1>1, <1>2, <1>8, <1>9, ContinuesWriter

LEMMA NumberedAppend ==
    ASSUME NEW n \in Nat, NEW s \in Seq(Nat), Len(s) = n, s = [i \in 1 .. n |-> i]
    PROVE  /\ Append(s, n + 1) \in Seq(Nat) /\ Len(Append(s, n + 1)) = n + 1
           /\ Append(s, n + 1) = [i \in 1 .. n + 1 |-> i]
<1> DEFINE t == Append(s, n + 1)
<1>1. t \in Seq(Nat) /\ Len(t) = n + 1 /\ DOMAIN t = 1 .. n + 1
    OBVIOUS
<1>2. ASSUME NEW i \in 1 .. n + 1 PROVE t[i] = i
    <2>1. CASE i = n + 1
        BY <2>1
    <2>2. CASE i # n + 1
        <3>1. i \in 1 .. n
            BY <2>2
        <3>2. s[i] = i
            BY <3>1
        <3> QED BY <3>1, <3>2
    <2> QED BY <2>1, <2>2
<1>3. t = [i \in 1 .. n + 1 |-> t[i]]
    BY <1>1
<1> HIDE DEF t
<1>4. t = [i \in 1 .. n + 1 |-> i]
    BY <1>2, <1>3
<1> QED BY <1>1, <1>4 DEF t

LEMMA SealKeeps == ASSUME ConnectionInv, Seal PROVE ConnectionInv'
<1> DEFINE q == c.queue
           m == c.sent
           n == SealedNow
           k == Len(q)
           w == Len(c.writes)
           b == wire.delivered
<1>1. /\ io = "sealing" /\ io' = "loop" /\ UNCHANGED <<kind, p, disp, peer>>
      /\ wire' = [wire EXCEPT !.sealed = Append(wire.sealed, Head(q))]
      /\ c' = asyncWrite([c EXCEPT !.writeTimer = TRUE])
    BY DEF Seal
<1>2. /\ Whole(c) /\ Queued(c, n, Sealing) /\ Flowing(c, n, b, Gone) /\ Shape
      /\ c \in ConnectionType /\ Sealing = TRUE /\ Ones(Sealing) = 1
    BY <1>1 DEF ConnectionInv, Core, Sealing, Ones
<1>3. kind # "none" /\ Held(c, disp = "parsing")
    BY <1>1, Touched
<1>4. /\ q \in Seq(Nat) /\ m \in Nat /\ n \in Nat /\ b \in Nat /\ Written(c) \in Nat
      /\ Writers(c) \in Nat /\ w \in Nat /\ Working(c) \in Nat /\ Wrote(c) \in Nat
      /\ Wrote(c) <= Working(c)
    BY <1>2, Fields, Numbers, Parameters
<1>5. q # <<>> /\ Writers(c) = 0
    <2> DEFINE y == Ones(q # <<>>)
    <2>1. y \in {0, 1} /\ Writers(c) + 1 = y
        BY <1>2 DEF Queued, Ones
    <2> HIDE DEF y
    <2>2. Writers(c) = 0 /\ y = 1
        BY <1>4, <2>1
    <2> QED BY <2>2 DEF y, Ones
<1>6. Written(c) = 0 /\ w = 0
    <2>1. Writers(c) = w + Working(c) /\ Written(c) = w + Wrote(c)
        BY DEF Writers, Written
    <2> HIDE DEF w
    <2> QED BY <1>4, <1>5, <2>1
<1>7. k \in Nat /\ k > 0 /\ Head(q) = q[1] /\ n + k = m + 0 /\ q[1] = (m - k) + 1
    <2>1. k \in Nat /\ k > 0 /\ Head(q) = q[1]
        BY <1>4, <1>5
    <2>2. n + Len(c.queue) = c.sent + Written(c)
          /\ \A i \in 1 .. Len(c.queue) : c.queue[i] = (c.sent - Len(c.queue)) + i
        BY <1>2, <1>5 DEF Queued
    <2>3. 1 \in 1 .. k
        BY <2>1
    <2> QED BY <1>6, <2>1, <2>2, <2>3
<1>8. Head(q) = n + 1
    <2> HIDE DEF q, m, n, k
    <2> QED BY <1>4, <1>7
\* The history.
<1>9. /\ wire' \in WireType /\ SealedNow' = n + 1 /\ wire'.delivered = b
      /\ wire'.sealed = [i \in 1 .. SealedNow' |-> i]
    <2> DEFINE s == wire.sealed
    <2>1. s \in Seq(Nat) /\ s = [i \in 1 .. n |-> i] /\ wire \in WireType /\ n = Len(s)
        BY <1>2 DEF Shape, WireType, SealedNow
    <2>2. wire' = [wire EXCEPT !.sealed = Append(s, n + 1)]
        BY <1>1, <1>8
    <2> HIDE DEF n, s
    <2>3. n \in Nat
        BY <1>4
    <2>4. /\ Append(s, n + 1) \in Seq(Nat) /\ Len(Append(s, n + 1)) = n + 1
          /\ Append(s, n + 1) = [i \in 1 .. n + 1 |-> i]
        BY <2>1, <2>3, NumberedAppend
    <2>5. /\ wire' \in WireType /\ wire'.sealed = Append(s, n + 1)
          /\ wire'.delivered = wire.delivered
        BY <2>1, <2>2, <2>4 DEF WireType
    <2>6. SealedNow' = n + 1
        BY <2>4, <2>5 DEF SealedNow
    <2> QED BY <2>4, <2>5, <2>6
\* The connection.
<1> DEFINE d == [c EXCEPT !.writeTimer = TRUE]
           e == c'
<1>10. /\ d \in ConnectionType /\ d.state = c.state /\ d.sock = c.sock /\ d.first = c.first
       /\ d.queue = q /\ d.sent = m /\ d.due = c.due /\ d.reads = c.reads
       /\ d.writes = c.writes /\ d.ready = c.ready /\ d.tasks = c.tasks /\ d.managed = c.managed
    BY <1>2 DEF ConnectionType
<1>11. /\ Readers(d) = Readers(c) /\ Challenges(d) = Challenges(c) /\ Logins(d) = Logins(c)
       /\ Writers(d) = 0 /\ Written(d) = 0
    BY <1>2, <1>5, <1>6, <1>10, Flags
<1>12. e = asyncWrite(d)
    BY <1>1
<1> HIDE DEF d, e
<1>13. /\ e \in ConnectionType /\ e.state = d.state /\ e.sock = d.sock /\ e.first = d.first
       /\ e.queue = q /\ e.sent = m /\ e.due = d.due /\ e.managed = d.managed
       /\ Readers(e) = Readers(d) /\ Challenges(e) = Challenges(d) /\ Logins(e) = Logins(d)
       /\ Writers(e) = 1 /\ Written(e) = 1
       /\ IF d.sock THEN Len(e.writes) = 1 ELSE Len(e.writes) = 0
    <2>1. CASE d.sock
        <3> DEFINE new == Append(d.writes, Head(d.queue))
        <3>1. Head(d.queue) \in Nat
            BY <1>4, <1>5, <1>10
        <3>2. new \in Seq(Nat) /\ Len(new) = 1
            BY <1>4, <1>6, <1>10, <3>1, Fields
        <3> HIDE DEF new
        <3>3. e = [d EXCEPT !.writes = new]
            BY <1>12, <2>1 DEF asyncWrite, new
        <3>4. /\ e \in ConnectionType /\ e.state = d.state /\ e.sock = d.sock
              /\ e.first = d.first
              /\ e.queue = d.queue /\ e.sent = d.sent /\ e.due = d.due /\ e.reads = d.reads
              /\ e.writes = new /\ e.ready = d.ready /\ e.tasks = d.tasks
              /\ e.managed = d.managed
            BY <1>10, <3>2, <3>3 DEF ConnectionType
        <3>5. /\ Working(e) = Working(d) /\ Wrote(e) = Wrote(d) /\ Readers(e) = Readers(d)
              /\ Challenges(e) = Challenges(d) /\ Logins(e) = Logins(d)
            BY <3>4 DEF Working, Wrote, Readers, Challenges, Logins, Heard, Packets
        <3>6. Working(d) = 0 /\ Wrote(d) = 0
            <4> DEFINE u == Len(d.writes)
            <4>1. /\ u \in Nat /\ Working(d) \in Nat /\ Wrote(d) \in Nat
                  /\ u + Working(d) = 0 /\ u + Wrote(d) = 0
                BY <1>10, <1>11, Numbers DEF Writers, Written
            <4> HIDE DEF u
            <4> QED BY <4>1
        <3>7. Writers(e) = 1 /\ Written(e) = 1
            <4>1. Len(e.writes) = 1
                BY <3>2, <3>4
            <4> QED BY <3>5, <3>6, <4>1 DEF Writers, Written
        <3> QED BY <1>10, <2>1, <3>2, <3>4, <3>5, <3>7
    <2>2. CASE ~d.sock
        <3> DEFINE h == Done("write", FALSE)
        <3>1. e = [d EXCEPT !.ready = Append(d.ready, h)]
            BY <1>12, <2>2 DEF asyncWrite
        <3>2. h \in Completions(Ops) /\ h.op = "write"
            BY DEF Done, Completions, Ops
        <3> HIDE DEF h
        <3>3. /\ e \in ConnectionType
              /\ Readers(e) = Readers(d) + Ones(h.op \in ReadOps)
              /\ Writers(e) = Writers(d) + Ones(h.op \in {"worker", "write"})
              /\ Written(e) = Written(d) + Ones(h.op \in {"write"})
              /\ Challenges(e) = Challenges(d) /\ Logins(e) = Logins(d)
            BY <1>10, <3>1, <3>2, Pushed
        <3>4. /\ e.state = d.state /\ e.sock = d.sock
              /\ e.first = d.first /\ e.queue = d.queue /\ e.sent = d.sent /\ e.due = d.due
              /\ e.writes = d.writes /\ e.managed = d.managed
            BY <1>10, <3>1 DEF ConnectionType
        <3>5. /\ Readers(e) = Readers(d) + 0 /\ Writers(e) = 0 + 1 /\ Written(e) = 0 + 1
            <4>1. h.op \notin ReadOps
                BY <3>2 DEF ReadOps
            <4> QED BY <1>11, <3>2, <3>3, <4>1 DEF Ones
        <3>6. Readers(d) \in Nat
            BY <1>10, Numbers
        <3>7. Readers(e) = Readers(d) /\ Writers(e) = 1 /\ Written(e) = 1
            BY <3>5, <3>6
        <3>8. Len(e.writes) = 0
            BY <1>6, <1>10, <3>4
        <3> QED BY <1>10, <2>2, <3>3, <3>4, <3>7, <3>8
    <2> QED BY <2>1, <2>2
<1>14. Quiet(c, e)
    BY <1>10, <1>11, <1>13 DEF Quiet
<1>15. Whole(e)
    BY <1>2, <1>10, <1>13 DEF Whole
<1>16. Queued(e, n + 1, FALSE)
    <2>1. Writers(e) + Ones(FALSE) = Ones(e.queue # <<>>)
        BY <1>5, <1>13 DEF Ones
    <2>2. (n + 1) + k = m + 1
        <3> HIDE DEF n, k, m
        <3> QED BY <1>4, <1>7
    <2>3. \A i \in 1 .. Len(c.queue) : c.queue[i] = (c.sent - Len(c.queue)) + i
        BY <1>2, <1>5 DEF Queued
    <2> QED BY <1>5, <1>13, <2>1, <2>2, <2>3 DEF Queued
<1>17. Flowing(e, n + 1, b, Gone)
    <2> DEFINE v == Len(e.writes)
    <2>1. b + 0 <= n /\ (c.sock /\ ~Gone => b + 0 = n)
        BY <1>2, <1>6 DEF Flowing
    <2>2. /\ d.sock => v = 1
          /\ ~d.sock => v = 0
          /\ e.sock = d.sock /\ d.sock = c.sock
        BY <1>10, <1>13
    <2> HIDE DEF v, n, b
    <2>3. b + v <= n + 1 /\ (e.sock /\ ~Gone => b + v = n + 1)
        BY <1>4, <2>1, <2>2
    <2> QED BY <2>3 DEF Flowing, v
<1>18. Gone' = Gone /\ Sealing' = FALSE
    BY <1>1 DEF Gone, Sealing
<1>19. Core(c', SealedNow', Sealing', wire'.delivered, Gone')
    BY <1>9, <1>15, <1>16, <1>17, <1>18 DEF Core, e
<1>20. io' \in {"loop", "sealing", "posted"} /\ peer' \in {"active", "stalled", "gone"}
    BY <1>1, <1>2 DEF Shape
<1> QED BY <1>1, <1>3, <1>9, <1>14, <1>19, <1>20, ContinuesWriter DEF e

LEMMA onWriteOperationKeeps == ASSUME ConnectionInv, onWriteOperation PROVE ConnectionInv'
<1> DEFINE t == Taken
           e == [t EXCEPT !.writeTimer = FALSE]
           q == c.queue
           m == c.sent
           n == SealedNow
           k == Len(q)
           b == wire.delivered
<1>1. /\ Quiet(c, t) /\ Standing(c, t)
      /\ t.queue = q /\ t.writes = <<>> /\ c.writes = <<>>
      /\ q # <<>> /\ Writers(t) = 0 /\ Written(t) = 0 /\ io = "loop" /\ Ok \in BOOLEAN
      /\ Written(c) = Ones("write" = "write")
      /\ kind # "none" /\ Held(c, disp = "parsing")
    BY TakesTurn DEF onWriteOperation
<1>2. /\ UNCHANGED <<kind, p, disp, peer, wire>>
      /\ \/ ~Ok /\ c' = close([e EXCEPT !.queue = <<>>], TRUE) /\ io' = "loop"
         \/ /\ Ok /\ c' = Popped(e)
            /\ io' = IF Len(c.queue) > 1 THEN "sealing" ELSE "loop"
    BY <1>1 DEF onWriteOperation
<1>3. /\ SealedNow' = n /\ Gone' = Gone /\ wire'.delivered = b
    BY <1>2 DEF SealedNow, Gone
<1>4. /\ Whole(c) /\ Queued(c, n, Sealing) /\ Flowing(c, n, b, Gone) /\ Shape
      /\ c \in ConnectionType
    BY DEF ConnectionInv, Core
<1>5. /\ q \in Seq(Nat) /\ m \in Nat /\ n \in Nat /\ b \in Nat /\ k \in Nat /\ k > 0
      /\ Tail(q) \in Seq(Nat \ {0}) /\ Len(Tail(q)) = k - 1
      /\ \A i \in 1 .. k - 1 : Tail(q)[i] = q[i + 1]
    <2>1. /\ q \in Seq(Nat) /\ q \in Seq(Nat \ {0})
          /\ m \in Nat /\ n \in Nat /\ b \in Nat
        BY <1>4, Fields, Parameters
    <2> HIDE DEF q, m, n, b
    <2> QED BY <1>1, <2>1
<1>6. /\ n + k = m + 1
      /\ \A i \in 1 .. k : q[i] = (m - k) + i
    <2>1. n + Len(c.queue) = c.sent + Written(c)
          /\ \A i \in 1 .. Len(c.queue) : c.queue[i] = (c.sent - Len(c.queue)) + i
        BY <1>1, <1>4 DEF Queued
    <2>2. Written(c) = 1
        BY <1>1 DEF Ones
    <2> QED BY <2>1, <2>2
<1>7. /\ e \in ConnectionType /\ e.state = t.state /\ e.sock = t.sock /\ e.first = t.first
      /\ e.queue = t.queue /\ e.sent = t.sent /\ e.due = t.due /\ e.reads = t.reads
      /\ e.writes = t.writes /\ e.ready = t.ready /\ e.tasks = t.tasks /\ e.managed = t.managed
    BY <1>1 DEF ConnectionType, Quiet
<1> HIDE DEF t, e
<1>8. /\ Readers(e) = Readers(t) /\ Challenges(e) = Challenges(t) /\ Logins(e) = Logins(t)
      /\ Writers(e) = 0 /\ Written(e) = 0
    BY <1>1, <1>7, Flags DEF Quiet
\* What is left of the queue.
<1>9. ASSUME NEW r \in Seq(Nat \ {0}), NEW f, f = [e EXCEPT !.queue = r]
      PROVE  /\ f \in ConnectionType /\ Quiet(c, f) /\ f.queue = r /\ f.sent = m
             /\ f.writes = <<>> /\ Writers(f) = 0 /\ Written(f) = 0
             /\ f.state = c.state /\ f.sock = c.sock /\ f.managed = c.managed
    <2>1. /\ f \in ConnectionType /\ f.state = e.state /\ f.sock = e.sock /\ f.first = e.first
          /\ f.queue = r /\ f.sent = e.sent /\ f.due = e.due /\ f.reads = e.reads
          /\ f.writes = e.writes /\ f.ready = e.ready /\ f.tasks = e.tasks
          /\ f.managed = e.managed
        BY <1>7, <1>9 DEF ConnectionType
    <2>2. /\ Readers(f) = Readers(e) /\ Challenges(f) = Challenges(e) /\ Logins(f) = Logins(e)
          /\ Writers(f) = 0 /\ Written(f) = 0
        BY <1>7, <1>8, <2>1, Flags
    <2>3. Quiet(c, f)
        BY <1>1, <1>7, <1>8, <2>1, <2>2 DEF Quiet
    <2> QED BY <1>1, <1>7, <2>1, <2>2, <2>3 DEF Quiet, Standing
<1>10. Len(<<>>) = 0 /\ <<>> \in Seq(Nat \ {0})
    BY EmptySeq
<1>11. /\ wire' \in WireType /\ wire'.sealed = [i \in 1 .. SealedNow' |-> i]
       /\ peer' \in {"active", "stalled", "gone"} /\ io' \in {"loop", "sealing", "posted"}
    BY <1>2, <1>3, <1>4 DEF Shape
<1>12. CASE ~Ok /\ c' = close([e EXCEPT !.queue = <<>>], TRUE) /\ io' = "loop"
    <2> DEFINE f == [e EXCEPT !.queue = <<>>]
               g == close(f, TRUE)
    <2>1. /\ f \in ConnectionType /\ Quiet(c, f) /\ f.queue = <<>> /\ f.sent = m
          /\ f.writes = <<>> /\ Writers(f) = 0 /\ Written(f) = 0
          /\ f.state = c.state /\ f.sock = c.sock /\ f.managed = c.managed
        BY <1>9, <1>10
    <2> HIDE DEF f
    <2>2. Like(f, g) /\ Readers(g) = Readers(f) /\ g.state = "closed"
        BY <2>1, Closes
    <2> HIDE DEF g
    <2>3. Quiet(c, g)
        BY <2>1, <2>2, QuietLike, QuietQuiet
    <2>4. g.queue = <<>> /\ g.sent = m /\ g.writes = <<>> /\ Writers(g) = 0
          /\ (g.sock => c.sock)
        BY <2>1, <2>2 DEF Like
    <2>5. n <= m
        <3> HIDE DEF n, m, k
        <3> QED BY <1>5, <1>6
    <2>6. Queued(g, n, FALSE)
        <3>1. Writers(g) + Ones(FALSE) = Ones(g.queue # <<>>)
            BY <2>4 DEF Ones
        <3> QED BY <2>2, <2>4, <2>5, <3>1 DEF Queued
    <2>7. Flowing(g, n, b, Gone) /\ Whole(g)
        BY <1>1, <1>4, <2>2, <2>4 DEF Flowing, Whole
    <2>8. Sealing' = FALSE
        BY <1>12 DEF Sealing
    <2>9. Core(c', SealedNow', Sealing', wire'.delivered, Gone') /\ Quiet(c, c')
        BY <1>3, <1>12, <2>3, <2>6, <2>7, <2>8 DEF Core, f, g
    <2> QED BY <1>1, <1>2, <1>11, <2>9, ContinuesWriter
<1>13. CASE /\ Ok /\ c' = Popped(e)
            /\ io' = IF Len(c.queue) > 1 THEN "sealing" ELSE "loop"
    <2> DEFINE f == [e EXCEPT !.queue = Tail(q)]
               rest == Len(f.queue)
    <2>1. /\ f \in ConnectionType /\ Quiet(c, f) /\ f.queue = Tail(q) /\ f.sent = m
          /\ f.writes = <<>> /\ Writers(f) = 0 /\ Written(f) = 0
          /\ f.state = c.state /\ f.sock = c.sock /\ f.managed = c.managed
        BY <1>5, <1>9
    <2>2. c' = IF f.queue = <<>> /\ f.state = "closed" THEN closeSocket(f) ELSE f
        <3>1. e.queue = q
            BY <1>1, <1>7
        <3> QED BY <1>13, <3>1 DEF Popped
    <2> HIDE DEF f
    <2>3. rest = k - 1 /\ (f.queue = <<>> <=> k = 1)
        <3>1. f.queue \in Seq(Nat) /\ rest = k - 1
            BY <1>5, <2>1
        <3>2. f.queue = <<>> <=> rest = 0
            BY <3>1, EmptySeq
        <3> HIDE DEF k, rest
        <3> QED BY <1>5, <3>1, <3>2
    <2>4. Sealing' = (k > 1)
        BY <1>13 DEF Sealing
    <2>5. Queued(f, n, k > 1)
        <3>1. Writers(f) + Ones(k > 1) = Ones(f.queue # <<>>)
            <4>1. f.queue # <<>> <=> k > 1
                <5> HIDE DEF k
                <5> QED BY <1>5, <2>3
            <4> QED BY <2>1, <4>1 DEF Ones
        <3>2. n + rest = m + 0 /\ (f.queue = <<>> => n = m)
            <4> HIDE DEF n, m, k, rest
            <4> QED BY <1>5, <1>6, <2>3
        <3>3. ASSUME NEW i \in 1 .. rest PROVE f.queue[i] = (m - rest) + i
            <4>1. i \in 1 .. k - 1 /\ i \in Nat
                BY <2>3, <3>3
            <4>2. f.queue[i] = q[i + 1]
                BY <1>5, <2>1, <4>1
            <4>3. i + 1 \in 1 .. k
                BY <1>5, <4>1
            <4>4. q[i + 1] = (m - k) + (i + 1)
                BY <1>6, <4>3
            <4>5. (m - k) + (i + 1) = (m - rest) + i
                <5> HIDE DEF m, k, rest
                <5> QED BY <1>5, <2>3, <4>1
            <4> QED BY <4>2, <4>4, <4>5, Zenon
        <3>4. /\ n + Len(f.queue) = f.sent + Written(f)
              /\ \A i \in 1 .. Len(f.queue) : f.queue[i] = (f.sent - Len(f.queue)) + i
            <4>1. f.sent = m /\ Written(f) = 0
                BY <2>1
            <4>2. n + Len(f.queue) = f.sent + Written(f)
                BY <3>2, <4>1
            <4>3. \A i \in 1 .. Len(f.queue) : f.queue[i] = (f.sent - Len(f.queue)) + i
                BY <3>3, <4>1
            <4> QED BY <4>2, <4>3
        <3>5. f.queue = <<>> => n <= f.sent /\ n = f.sent
            <4>1. n <= n
                BY <1>5
            <4> QED BY <2>1, <3>2, <4>1
        <3> QED BY <3>1, <3>4, <3>5 DEF Queued
    <2>6. Whole(f) /\ Flowing(f, n, b, Gone)
        BY <1>1, <1>4, <2>1 DEF Whole, Flowing
    <2>7. Core(f, n, k > 1, b, Gone)
        BY <2>5, <2>6 DEF Core
    <2>8. Core(c', n, k > 1, b, Gone) /\ Quiet(c, c')
        <3>1. CASE f.queue = <<>> /\ f.state = "closed"
            <4>1. Like(f, closeSocket(f)) /\ Readers(closeSocket(f)) = Readers(f)
                BY <2>1, <3>1, SocketCloses
            <4>2. Quiet(c, closeSocket(f))
                BY <2>1, <4>1, QuietLike, QuietQuiet
            <4>3. Core(closeSocket(f), n, k > 1, b, Gone)
                BY <1>5, <2>1, <2>7, <4>1, CoreLike
            <4> QED BY <2>2, <3>1, <4>2, <4>3
        <3>2. CASE ~(f.queue = <<>> /\ f.state = "closed")
            BY <2>1, <2>2, <2>7, <3>2
        <3> QED BY <3>1, <3>2
    <2>9. Core(c', SealedNow', Sealing', wire'.delivered, Gone')
        BY <1>3, <2>4, <2>8
    <2> QED BY <1>1, <1>2, <1>11, <2>8, <2>9, ContinuesWriter
<1> QED BY <1>2, <1>12, <1>13

-----------------------------------------------------------------------------
(* The outside world. *)

LEMMA ReadEndsKeeps ==
    ASSUME ConnectionInv, ReadCompletes \/ ReadFails PROVE ConnectionInv'
<1> DEFINE s == c.reads
           op == Head(s)
           d == [c EXCEPT !.reads = Tail(s)]
           e == c'
<1>1. /\ s # <<>> /\ UNCHANGED <<kind, p, io, disp, peer>> /\ Shape /\ c \in ConnectionType
      /\ Core(c, SealedNow, Sealing, wire.delivered, Gone)
    BY DEF ReadCompletes, ReadFails, ConnectionInv
<1>2. PICK v \in BOOLEAN : c' = Received(Done(Head(c.reads), v))
    BY DEF ReadCompletes, ReadFails
<1>3. kind # "none" /\ Held(c, disp = "parsing")
    BY <1>1, Touched
<1>4. /\ wire' \in WireType /\ wire'.sealed = wire.sealed /\ wire'.delivered = wire.delivered
    <2>1. wire' = wire \/ wire' = [wire EXCEPT !.packets = @ + 1]
        BY DEF ReadCompletes, ReadFails
    <2>2. wire \in WireType /\ wire.packets \in Nat
        BY <1>1 DEF Shape, WireType
    <2>3. CASE wire' = wire
        BY <2>2, <2>3
    <2>4. CASE wire' = [wire EXCEPT !.packets = @ + 1]
        <3> DEFINE x == wire.packets + 1
        <3>1. x \in Nat /\ wire' = [wire EXCEPT !.packets = x]
            BY <2>2, <2>4
        <3> HIDE DEF x
        <3> QED BY <2>2, <3>1 DEF WireType
    <2> QED BY <2>1, <2>3, <2>4
<1>5. s \in Seq(ReadOps) /\ op \in ReadOps /\ Tail(s) \in Seq(ReadOps) /\ Len(s) = Len(Tail(s)) + 1
    <2>1. s \in Seq(ReadOps)
        BY <1>1, Fields
    <2> HIDE DEF s
    <2> QED BY <1>1, <2>1
<1> DEFINE g == Done(op, v)
<1>6. g \in Completions(Ops) /\ g.op \in ReadOps /\ g.op \notin {"worker", "write"}
      /\ g.op \notin {"write"}
    <2> HIDE DEF op
    <2> QED BY <1>5 DEF Done, Completions, Ops, ReadOps
<1>7. /\ d \in ConnectionType /\ d.state = c.state /\ d.sock = c.sock /\ d.first = c.first
      /\ d.queue = c.queue /\ d.sent = c.sent /\ d.due = c.due /\ d.reads = Tail(s)
      /\ d.writes = c.writes /\ d.ready = c.ready /\ d.tasks = c.tasks /\ d.managed = c.managed
    <2> DEFINE new == Tail(s)
    <2>1. new \in Seq(ReadOps) /\ d = [c EXCEPT !.reads = new]
        BY <1>5
    <2> HIDE DEF new, d
    <2>2. /\ d \in ConnectionType /\ d.state = c.state /\ d.sock = c.sock /\ d.first = c.first
          /\ d.queue = c.queue /\ d.sent = c.sent /\ d.due = c.due /\ d.reads = new
          /\ d.writes = c.writes /\ d.ready = c.ready /\ d.tasks = c.tasks
          /\ d.managed = c.managed
        BY <1>1, <2>1 DEF ConnectionType
    <2> QED BY <2>2 DEF new
<1>8. e = [d EXCEPT !.ready = Append(d.ready, g)]
    <2>1. e = [c EXCEPT !.reads = Tail(s), !.ready = Append(@, g)]
        BY <1>2 DEF Received
    <2> HIDE DEF g
    <2> QED BY <1>1, <1>7, <2>1 DEF ConnectionType
<1> HIDE DEF d, e, g
<1>9. /\ e \in ConnectionType
      /\ Readers(e) = Readers(d) + Ones(g.op \in ReadOps)
      /\ Writers(e) = Writers(d) + Ones(g.op \in {"worker", "write"})
      /\ Written(e) = Written(d) + Ones(g.op \in {"write"})
      /\ Challenges(e) = Challenges(d) /\ Logins(e) = Logins(d)
    BY <1>6, <1>7, <1>8, Pushed
<1>10. /\ e.state = d.state /\ e.sock = d.sock /\ e.first = d.first
       /\ e.queue = d.queue /\ e.sent = d.sent /\ e.due = d.due
       /\ e.writes = d.writes /\ e.managed = d.managed
    BY <1>7, <1>8 DEF ConnectionType
<1>11. /\ Readers(e) = Readers(d) + 1 /\ Writers(e) = Writers(d) + 0
       /\ Written(e) = Written(d) + 0
    BY <1>6, <1>9 DEF Ones
<1>12. /\ Writers(d) = Writers(c) /\ Written(d) = Written(c) /\ Challenges(d) = Challenges(c)
       /\ Logins(d) = Logins(c) /\ Heard(d) = Heard(c) /\ Packets(d) = Packets(c)
    BY <1>7 DEF Writers, Written, Working, Wrote, Challenges, Logins, Heard, Packets
<1>13. /\ Writers(d) \in Nat /\ Written(d) \in Nat /\ Heard(c) \in Nat /\ Packets(c) \in Nat
    BY <1>1, <1>7, Numbers
<1>14. Readers(c) = Readers(d) + 1
    <2> DEFINE x == Len(s)
               y == Len(Tail(s))
    <2>1. Readers(c) = x + Heard(c) + Packets(c) /\ Readers(d) = y + Heard(c) + Packets(c)
        BY <1>7, <1>12 DEF Readers
    <2>2. x = y + 1 /\ y \in Nat
        BY <1>5
    <2> HIDE DEF x, y
    <2> QED BY <1>13, <2>1, <2>2
<1>15. Writers(e) = Writers(c) /\ Written(e) = Written(c) /\ Readers(e) = Readers(c)
    BY <1>11, <1>12, <1>13, <1>14
<1>16. Like(c, e) /\ Quiet(c, e)
    BY <1>7, <1>9, <1>10, <1>12, <1>15, QuietLike DEF Like
<1>17. Core(e, SealedNow, Sealing, wire.delivered, Gone)
    BY <1>1, <1>16, Parameters, CoreLike
<1>18. SealedNow' = SealedNow /\ Gone' = Gone /\ Sealing' = Sealing
    BY <1>1, <1>4 DEF SealedNow, Gone, Sealing
<1>19. Core(c', SealedNow', Sealing', wire'.delivered, Gone') /\ Quiet(c, c')
    BY <1>4, <1>16, <1>17, <1>18 DEF e
<1>20. /\ wire'.sealed = [i \in 1 .. SealedNow' |-> i]
       /\ io' \in {"loop", "sealing", "posted"} /\ peer' \in {"active", "stalled", "gone"}
    BY <1>1, <1>4, <1>18 DEF Shape
<1> QED BY <1>1, <1>3, <1>4, <1>19, <1>20, ContinuesWriter

LEMMA WriteCompletesKeeps == ASSUME ConnectionInv, WriteCompletes PROVE ConnectionInv'
<1> DEFINE s == c.writes
           new == Tail(s)
           h == Done("write", peer = "active")
           d == [c EXCEPT !.writes = new]
           e == c'
           n == SealedNow
           b == wire.delivered
<1>1. /\ s # <<>> /\ peer # "stalled" /\ UNCHANGED <<kind, p, io, disp, peer>>
      /\ Shape /\ c \in ConnectionType
      /\ Whole(c) /\ Queued(c, n, Sealing) /\ Flowing(c, n, b, Gone)
      /\ wire' = IF peer = "active" THEN [wire EXCEPT !.delivered = b + 1] ELSE wire
      /\ e = [c EXCEPT !.writes = new, !.ready = Append(@, h)]
    BY DEF WriteCompletes, ConnectionInv, Core
<1>2. kind # "none" /\ Held(c, disp = "parsing")
    BY <1>1, Touched
<1>3. new \in Seq(Nat) /\ Len(s) = Len(new) + 1 /\ Len(new) \in Nat
    <2>1. s \in Seq(Nat)
        BY <1>1, Fields
    <2> HIDE DEF s
    <2> QED BY <1>1, <2>1
<1>4. h \in Completions(Ops) /\ h.op = "write"
    BY DEF Done, Completions, Ops
<1> HIDE DEF new, h
<1>5. /\ d \in ConnectionType /\ d.state = c.state /\ d.sock = c.sock /\ d.first = c.first
      /\ d.queue = c.queue /\ d.sent = c.sent /\ d.due = c.due /\ d.reads = c.reads
      /\ d.writes = new /\ d.ready = c.ready /\ d.tasks = c.tasks /\ d.managed = c.managed
    BY <1>1, <1>3 DEF ConnectionType
<1>6. e = [d EXCEPT !.ready = Append(d.ready, h)]
    BY <1>1, <1>5 DEF ConnectionType
<1> HIDE DEF d, e
<1>7. /\ e \in ConnectionType
      /\ Readers(e) = Readers(d) + Ones(h.op \in ReadOps)
      /\ Writers(e) = Writers(d) + Ones(h.op \in {"worker", "write"})
      /\ Written(e) = Written(d) + Ones(h.op \in {"write"})
      /\ Challenges(e) = Challenges(d) /\ Logins(e) = Logins(d)
    BY <1>4, <1>5, <1>6, Pushed
<1>8. /\ e.state = d.state /\ e.sock = d.sock /\ e.first = d.first
      /\ e.queue = d.queue /\ e.sent = d.sent /\ e.due = d.due
      /\ e.writes = new /\ e.managed = d.managed
    BY <1>5, <1>6 DEF ConnectionType
<1>9. /\ Readers(e) = Readers(d) + 0 /\ Writers(e) = Writers(d) + 1
      /\ Written(e) = Written(d) + 1
    <2>1. h.op \notin ReadOps
        BY <1>4 DEF ReadOps
    <2> QED BY <1>4, <1>7, <2>1 DEF Ones
<1>10. /\ Readers(d) = Readers(c) /\ Challenges(d) = Challenges(c) /\ Logins(d) = Logins(c)
       /\ Working(d) = Working(c) /\ Wrote(d) = Wrote(c)
    BY <1>5 DEF Readers, Working, Wrote, Challenges, Logins, Heard, Packets
<1>11. Writers(e) = Writers(c) /\ Written(e) = Written(c) /\ Readers(e) = Readers(c)
    <2> DEFINE x == Len(s)
               y == Len(new)
    <2>1. /\ Writers(c) = x + Working(c) /\ Writers(d) = y + Working(c)
          /\ Written(c) = x + Wrote(c) /\ Written(d) = y + Wrote(c)
        BY <1>5, <1>10 DEF Writers, Written
    <2>2. x = y + 1 /\ y \in Nat /\ Working(c) \in Nat /\ Wrote(c) \in Nat /\ Readers(d) \in Nat
        BY <1>1, <1>3, <1>5, Numbers
    <2> HIDE DEF x, y
    <2>3. Writers(e) = Writers(c)
        BY <1>9, <2>1, <2>2
    <2>4. Written(e) = Written(c)
        BY <1>9, <2>1, <2>2
    <2>5. Readers(e) = Readers(c)
        BY <1>9, <1>10, <2>2
    <2> QED BY <2>3, <2>4, <2>5
<1>12. Quiet(c, e)
    BY <1>5, <1>7, <1>8, <1>10, <1>11 DEF Quiet
<1>13. n \in Nat /\ b \in Nat /\ wire \in WireType
    BY <1>1, Parameters DEF Shape
<1>14. /\ wire' \in WireType /\ wire'.sealed = wire.sealed
       /\ wire'.delivered = IF peer = "active" THEN b + 1 ELSE b
    <2>1. CASE peer = "active"
        <3> DEFINE x == b + 1
        <3>1. x \in Nat /\ wire' = [wire EXCEPT !.delivered = x]
            BY <1>1, <1>13, <2>1
        <3> HIDE DEF x, b
        <3>2. wire' \in WireType /\ wire'.sealed = wire.sealed /\ wire'.delivered = x
            BY <1>13, <3>1 DEF WireType
        <3> QED BY <2>1, <3>2 DEF x
    <2>2. CASE peer # "active"
        BY <1>1, <1>13, <2>2
    <2> QED BY <2>1, <2>2
<1>15. SealedNow' = n /\ Gone' = Gone /\ Sealing' = Sealing
    BY <1>1, <1>14 DEF SealedNow, Gone, Sealing
<1>16. Whole(e) /\ Queued(e, n, Sealing)
    BY <1>1, <1>5, <1>8, <1>11 DEF Whole, Queued
<1>17. Flowing(e, n, wire'.delivered, Gone)
    <2> DEFINE x == Len(s)
               y == Len(e.writes)
               a == wire'.delivered
    <2>1. b + x <= n /\ (c.sock /\ ~Gone => b + x = n)
        BY <1>1 DEF Flowing
    <2>2. x = y + 1 /\ y \in Nat /\ e.sock = c.sock
        BY <1>3, <1>5, <1>8
    <2>3. a = b + 1 \/ (a = b /\ Gone)
        BY <1>1, <1>14 DEF Gone, Shape
    <2> HIDE DEF x, y, a, b, n
    <2>4. a + y <= n /\ (e.sock /\ ~Gone => a + y = n)
        BY <1>13, <2>1, <2>2, <2>3
    <2> QED BY <2>4 DEF Flowing, a, y
<1>18. Core(c', SealedNow', Sealing', wire'.delivered, Gone') /\ Quiet(c, c')
    BY <1>12, <1>15, <1>16, <1>17 DEF Core, e
<1>19. /\ wire'.sealed = [i \in 1 .. SealedNow' |-> i]
       /\ io' \in {"loop", "sealing", "posted"} /\ peer' \in {"active", "stalled", "gone"}
    BY <1>1, <1>14, <1>15 DEF Shape
<1> QED BY <1>1, <1>2, <1>14, <1>18, <1>19, ContinuesWriter

LEMMA PeerKeeps ==
    ASSUME ConnectionInv, PeerStalls \/ PeerGoes PROVE ConnectionInv'
<1>1. /\ UNCHANGED <<kind, c, p, io, disp, wire>> /\ (Gone => Gone')
      /\ peer' \in {"active", "stalled", "gone"}
    BY DEF PeerStalls, PeerGoes, Gone
<1>2. SealedNow' = SealedNow /\ Sealing' = Sealing /\ Busy' = Busy
    BY <1>1 DEF SealedNow, Sealing, Busy
<1>3. Shape'
    BY <1>1 DEF ConnectionInv, Shape, SealedNow
<1>4. Core(c, SealedNow, Sealing, wire.delivered, Gone')
    <2>1. Core(c, SealedNow, Sealing, wire.delivered, Gone)
        BY DEF ConnectionInv
    <2> QED BY <1>1, <2>1 DEF Core, Flowing
<1>5. Core(c', SealedNow', Sealing', wire'.delivered, Gone')
    BY <1>1, <1>2, <1>4
<1>6. /\ c' \in ConnectionType
      /\ kind' # "none" => Held(c', disp' = "parsing")
      /\ kind' = "none" => Untouched'
    BY <1>1 DEF ConnectionInv, Untouched
<1>7. Bounded(c, Busy)'
    <2>1. Bounded(c, Busy)
        BY DEF ConnectionInv
    <2> QED BY <1>1, <1>2, <2>1 DEF Bounded
<1> QED BY <1>3, <1>5, <1>6, <1>7 DEF ConnectionInv

\* A connection that has only been constructed.
LEMMA NothingYet ==
    ASSUME c \in ConnectionType, c.reads = <<>>, c.writes = <<>>, c.ready = <<>>, c.tasks = <<>>
    PROVE  /\ Readers(c) = 0 /\ Writers(c) = 0 /\ Written(c) = 0
           /\ Challenges(c) = 0 /\ Logins(c) = 0
<1>1. \A S : Count(<<>>, S) = 0
    BY CountEmpty
<1>2. Len(<<>>) = 0
    BY EmptySeq
<1> QED BY <1>1, <1>2 DEF Readers, Writers, Written, Challenges, Logins, Heard, Working, Wrote, Packets

LEMMA AcceptKeeps == ASSUME ConnectionInv, Accept PROVE ConnectionInv'
<1>1. /\ kind = "none" /\ UNCHANGED <<p, io, disp, peer, wire>> /\ Untouched /\ Shape
      /\ c \in ConnectionType /\ Good(c) /\ kind' \in {"game", "login"}
    BY GoodNow DEF Accept, ConnectionInv
<1>2. /\ c.reads = <<>> /\ c.writes = <<>> /\ c.ready = <<>> /\ c.tasks = <<>>
      /\ c.state = "open" /\ c.first = FALSE /\ c.sent = 0 /\ c.due = {} /\ disp = "idle"
      /\ Busy = FALSE
    BY <1>1 DEF Untouched, Busy
<1>3. /\ Readers(c) = 0 /\ Challenges(c) = 0 /\ Logins(c) = 0
    BY <1>1, <1>2, NothingYet
<1>4. SealedNow' = SealedNow /\ Sealing' = Sealing /\ Busy' = FALSE /\ Gone' = Gone
    BY <1>1, <1>2 DEF SealedNow, Sealing, Busy, Gone
<1>5. Shape'
    BY <1>1 DEF Shape, SealedNow
<1>6. MaxSent \in Nat
    BY ConnectionAssumption DEF ConnectionAssumption
\* What there is to show of the connection.
<1>7. ASSUME Good(c'), kind' = "login" => Challenges(c') = 0, c'.sent = 0,
             \/ c'.state = "closed" /\ Readers(c') = 0
             \/ /\ Readers(c') = 1 /\ c'.due = {} /\ c'.first = FALSE
                /\ Logins(c') = 0 /\ Challenges(c') \in {0, 1}
      PROVE  ConnectionInv'
    <2>1. c'.sent <= MaxSent + 2
        BY <1>6, <1>7
    <2>2. Bounded(c, Busy)'
        <3>1. CASE c'.state = "closed"
            BY <1>7, <2>1, <3>1 DEF Bounded
        <3>2. CASE c'.state # "closed"
            <4>1. c'.sent + Challenges(c') <= 1
                BY <1>7, <3>2
            <4> QED BY <1>4, <1>7, <2>1, <3>2, <4>1 DEF Bounded
        <3> QED BY <3>1, <3>2
    <2>3. Held(c', FALSE)
        <3>1. c' \in ConnectionType
            BY <1>7 DEF Good
        <3>2. Readers(c') <= 1 /\ (c'.state # "closed" => Readers(c') = 1)
            BY <1>7
        <3> QED BY <3>1, <3>2, HeldIdle
    <2>4. Held(c', disp' = "parsing")
        <3>1. (disp' = "parsing") = FALSE
            BY <1>1, <1>2
        <3> QED BY <2>3, <3>1
    <2>5. c' \in ConnectionType /\ Core(c', SealedNow', Sealing', wire'.delivered, Gone')
        BY <1>1, <1>4, <1>7 DEF Good
    <2> QED BY <1>1, <1>5, <2>2, <2>4, <2>5 DEF ConnectionInv
<1>8. CASE c' = close(c, TRUE)
    <2>1. Like(c, c') /\ Readers(c') = Readers(c) /\ c'.state = "closed"
        BY <1>1, <1>8, Closes
    <2>2. Good(c')
        BY <1>1, <2>1, GoodLike
    <2>3. c'.sent = 0 /\ Challenges(c') = 0 /\ Readers(c') = 0
        BY <1>2, <1>3, <2>1 DEF Like
    <2> QED BY <1>7, <2>1, <2>2, <2>3
<1>9. CASE c' = acceptInternal(c, "header")
    <2>1. Reread(c, c')
        BY <1>1, <1>9, RereadRead DEF acceptInternal, ReadOps
    <2>2. Good(c')
        BY <1>1, <2>1, GoodLike DEF Reread
    <2>3. c'.sent = 0 /\ Challenges(c') = 0 /\ Logins(c') = 0 /\ c'.due = {} /\ c'.first = FALSE
        BY <1>2, <1>3, <2>1 DEF Reread, Like
    <2>4. Readers(c') = 1
        <3>1. Readers(asyncRead(armed(c), "header")) = Readers(armed(c)) + 1
            <4>1. armed(c) \in ConnectionType
                BY <1>1, Arms DEF armed, Like
            <4> QED BY <4>1, ReadsMore DEF ReadOps
        <3>2. Readers(armed(c)) = 0
            BY <1>1, <1>3, Arms DEF armed
        <3> QED BY <1>9, <3>1, <3>2 DEF acceptInternal
    <2> QED BY <1>7, <2>2, <2>3, <2>4
<1>10. CASE /\ c' = acceptInternal(post([c EXCEPT !.state = "identifying", !.protocol = TRUE],
                                       "sendLoginChallenge"), "proxy")
            /\ kind' = "game"
    <2> DEFINE d == [c EXCEPT !.state = "identifying", !.protocol = TRUE]
               f == post(d, "sendLoginChallenge")
    <2>1. /\ d \in ConnectionType /\ d.state = "identifying" /\ d.sock = c.sock
          /\ d.first = c.first /\ d.queue = c.queue /\ d.sent = c.sent /\ d.due = c.due
          /\ d.reads = c.reads /\ d.writes = c.writes /\ d.ready = c.ready
          /\ d.tasks = c.tasks /\ d.managed = c.managed
        BY <1>1 DEF ConnectionType, States
    <2> HIDE DEF d
    <2>2. Like(c, d) /\ Readers(d) = Readers(c)
        BY <1>1, <1>2, <2>1, Flags DEF Like
    <2>3. Good(d)
        BY <1>1, <2>2, GoodLike
    <2>4. "sendLoginChallenge" \in TaskNames /\ Ones("sendLoginChallenge" = "packet") = 0
          /\ Ones("sendLoginChallenge" = "sendLoginChallenge") = 1
          /\ Ones("sendLoginChallenge" \in {"login", "getCharacterList"}) = 0
        BY DEF TaskNames, Ones
    <2>5. /\ f \in ConnectionType /\ Standing(d, f)
          /\ f.first = d.first /\ f.queue = d.queue /\ f.sent = d.sent /\ f.due = d.due
          /\ f.writes = d.writes
          /\ Writers(f) = Writers(d) /\ Written(f) = Written(d)
          /\ Readers(f) = Readers(d) + 0 /\ Challenges(f) = Challenges(d) + 1
          /\ Logins(f) = Logins(d) + 0
        BY <2>1, <2>4, Posts
    <2> HIDE DEF f
    <2>6. Readers(f) = 0 /\ Challenges(f) = 1 /\ Logins(f) = 0
        <3>1. Challenges(d) = 0 /\ Logins(d) = 0 /\ Readers(d) = 0
            BY <1>3, <2>2 DEF Like
        <3> QED BY <2>5, <3>1
    <2>7. Core(f, SealedNow, Sealing, wire.delivered, Gone)
        BY <2>3, <2>5 DEF Good, Core, Whole, Queued, Flowing, Standing
    <2>8. c' = asyncRead(armed(f), "proxy")
        BY <1>10 DEF acceptInternal, f, d
    <2>9. Like(f, c')
        BY <2>5, <2>8, RereadRead DEF Reread, ReadOps
    <2>10. Readers(c') = 1
        <3>1. Readers(asyncRead(armed(f), "proxy")) = Readers(armed(f)) + 1
            <4>1. armed(f) \in ConnectionType
                BY <2>5, Arms DEF armed, Like
            <4> QED BY <4>1, ReadsMore DEF ReadOps
        <3>2. Readers(armed(f)) = 0
            BY <2>5, <2>6, Arms DEF armed
        <3> QED BY <2>8, <3>1, <3>2
    <2>11. Core(c', SealedNow, Sealing, wire.delivered, Gone)
        BY <1>1, <2>5, <2>7, <2>9, Parameters, CoreLike
    <2>12. /\ c' \in ConnectionType /\ c'.sent = 0 /\ Challenges(c') = 1 /\ Logins(c') = 0
           /\ c'.due = {} /\ c'.first = FALSE
        BY <1>2, <2>1, <2>5, <2>6, <2>9 DEF Like
    <2>13. Good(c')
        BY <1>1, <1>6, <2>11, <2>12 DEF Good
    <2> QED BY <1>7, <1>10, <2>10, <2>12, <2>13
<1> QED BY <1>8, <1>9, <1>10 DEF Accept

-----------------------------------------------------------------------------
(* The theorems. *)

LEMMA ConnectionStart == ASSUME Init PROVE ConnectionInv
<1>1. Shape
    <2>1. wire.sealed = <<>> /\ Len(<<>>) = 0 /\ <<>> \in Seq(Nat)
        BY EmptySeq DEF Init
    <2>2. <<>> = [i \in 1 .. 0 |-> i]
        OBVIOUS
    <2> QED BY <2>1, <2>2 DEF Init, Shape, ProtocolType, WireType, SealedNow
<1>2. /\ c \in ConnectionType /\ Untouched /\ c.queue = <<>> /\ c.sent = 0
      /\ c.reads = <<>> /\ c.writes = <<>> /\ c.ready = <<>> /\ c.tasks = <<>>
      /\ c.state = "open" /\ c.sock /\ c.managed /\ c.first = FALSE /\ c.due = {}
    BY EmptySeq DEF Init, ConnectionType, States, Untouched
<1>3. /\ Writers(c) = 0 /\ Written(c) = 0 /\ Challenges(c) = 0 /\ Logins(c) = 0
    BY <1>2, NothingYet
<1>4. SealedNow = 0 /\ Sealing = FALSE /\ Busy = FALSE /\ wire.delivered = 0 /\ kind = "none"
    BY EmptySeq DEF Init, SealedNow, Sealing, Busy
<1>5. Core(c, SealedNow, Sealing, wire.delivered, Gone)
    <2>1. Queued(c, 0, FALSE)
        <3>1. Writers(c) + Ones(FALSE) = Ones(c.queue # <<>>)
            BY <1>2, <1>3 DEF Ones
        <3>2. c.queue = <<>> /\ 0 <= c.sent /\ 0 = c.sent
            BY <1>2
        <3> QED BY <3>1, <3>2 DEF Queued
    <2>2. Flowing(c, 0, 0, Gone) /\ Whole(c)
        BY <1>2, EmptySeq DEF Flowing, Whole
    <2> QED BY <1>4, <2>1, <2>2 DEF Core
<1>6. Bounded(c, Busy)
    <2>1. 0 <= MaxSent + 2
        BY ConnectionAssumption DEF ConnectionAssumption
    <2> QED BY <1>2, <1>3, <1>4, <2>1 DEF Bounded
<1> QED BY <1>1, <1>2, <1>4, <1>5, <1>6 DEF ConnectionInv

LEMMA ConnectionStep == ASSUME ConnectionInv, [Next]_vars PROVE ConnectionInv'
<1>1. CASE Accept
    BY <1>1, AcceptKeeps
<1>2. CASE Handler
    BY <1>2, HandleProxyKeeps, HandleHeaderKeeps, parsePacketKeeps, FinishPacketKeeps,
       HandleTimeoutKeeps, internalWorkerKeeps, SealKeeps, onWriteOperationKeeps DEF Handler
<1>3. CASE Task
    BY <1>3, sendLoginChallengeKeeps, getCharacterListKeeps, loginRefusedKeeps,
       loginPlacedKeeps, loginConnectsKeeps, parseKeeps, releaseKeeps, ResumeKeeps,
       connectKeeps, lateDisconnectKeeps DEF Task
<1>4. CASE ReadCompletes \/ ReadFails \/ WriteCompletes \/ ReadTimerEnds \/ WriteTimerEnds
           \/ PeerStalls \/ PeerGoes
    BY <1>4, ReadEndsKeeps, WriteCompletesKeeps, TimerKeeps, PeerKeeps
<1>5. CASE sendAll \/ Kick \/ TakenOver
    BY <1>5, sendAllKeeps, KickKeeps, TakenOverKeeps
<1>6. CASE UNCHANGED vars
    <2>1. UNCHANGED <<kind, c, p, io, disp, peer, wire>>
        BY <1>6 DEF vars
    <2>2. /\ SealedNow' = SealedNow /\ Sealing' = Sealing /\ Gone' = Gone /\ Busy' = Busy
          /\ Shape' = Shape /\ Untouched' = Untouched
        BY <2>1 DEF SealedNow, Sealing, Gone, Busy, Shape, Untouched
    <2>3. Bounded(c, Busy)'
        <3>1. Bounded(c, Busy)
            BY DEF ConnectionInv
        <3> QED BY <2>1, <2>2, <3>1 DEF Bounded
    <2>4. Core(c', SealedNow', Sealing', wire'.delivered, Gone')
        BY <2>1, <2>2 DEF ConnectionInv
    <2>5. /\ c' \in ConnectionType /\ Shape' /\ (kind' = "none" => Untouched')
          /\ kind' # "none" => Held(c', disp' = "parsing")
        BY <2>1, <2>2 DEF ConnectionInv
    <2> QED BY <2>3, <2>4, <2>5 DEF ConnectionInv
<1> QED BY <1>1, <1>2, <1>3, <1>4, <1>5, <1>6 DEF Next

\* The inductive invariant of a connection: what is queued, sealed, written and
\* delivered adds up, the buffer for input has one holder, and what the server
\* says by itself is bounded.
THEOREM ConnectionKept == Spec => []ConnectionInv
<1>1. Init => ConnectionInv
    BY ConnectionStart
<1>2. ConnectionInv /\ [Next]_vars => ConnectionInv'
    BY ConnectionStep
<1> QED BY <1>1, <1>2, PTL DEF Spec

\* Every number that comes out of the counts.
LEMMA OneTurn ==
    ASSUME ConnectionInv
    PROVE  /\ c \in ConnectionType /\ c.sent \in Nat /\ SealedNow \in Nat /\ wire.delivered \in Nat
           /\ Written(c) \in Nat /\ Written(c) <= 1
           /\ c.queue = <<>> => Written(c) = 0 /\ Len(c.writes) = 0
<1> DEFINE x == Ones(Sealing)
           y == Ones(c.queue # <<>>)
           w == Len(c.writes)
<1>1. c \in ConnectionType /\ Queued(c, SealedNow, Sealing) /\ Shape
    BY DEF ConnectionInv, Core
<1>2. x \in Nat /\ y \in {0, 1} /\ Writers(c) + x = y /\ (c.queue = <<>> => y = 0)
    BY <1>1 DEF Queued, Ones
<1>3. /\ w \in Nat /\ Working(c) \in Nat /\ Wrote(c) \in Nat /\ Wrote(c) <= Working(c)
      /\ c.sent \in Nat /\ SealedNow \in Nat /\ wire.delivered \in Nat
    BY <1>1, Fields, Numbers, Parameters
<1>4. Writers(c) = w + Working(c) /\ Written(c) = w + Wrote(c)
    BY DEF Writers, Written
<1> HIDE DEF x, y, w
<1>5. Written(c) \in Nat /\ Written(c) <= 1 /\ (y = 0 => Written(c) = 0 /\ w = 0)
    BY <1>2, <1>3, <1>4
<1> QED BY <1>1, <1>2, <1>3, <1>5 DEF w

LEMMA TypeOfInv == ASSUME ConnectionInv PROVE TypeOK
<1>1. Shape /\ c \in ConnectionType /\ c.sent <= MaxSent + 2 /\ MaxSent \in Nat
    BY ConnectionAssumption DEF ConnectionInv, Bounded, ConnectionAssumption
<1>2. ASSUME NEW i \in DOMAIN c.queue PROVE c.queue[i] \in 1 .. c.sent
    <2> DEFINE q == c.queue
               k == Len(q)
               m == c.sent
    <2>1. q \in Seq(Nat \ {0}) /\ m \in Nat
        BY <1>1, Fields
    <2>2. q # <<>> /\ i \in 1 .. k /\ k \in Nat /\ q[i] \in Nat \ {0}
        <3> HIDE DEF m
        <3> QED BY <1>2, <2>1
    <2>3. q[i] = (m - k) + i
        BY <2>2 DEF ConnectionInv, Core, Queued
    <2>4. q[i] <= m
        <3> DEFINE z == q[i]
        <3>1. z = (m - k) + i
            BY <2>3
        <3> HIDE DEF q, k, m, z
        <3>2. z <= m
            BY <2>1, <2>2, <3>1
        <3> QED BY <3>2 DEF z
    <2> DEFINE z == q[i]
    <2>5. z \in Nat \ {0} /\ z <= m
        BY <2>2, <2>4
    <2> HIDE DEF q, z, m, k
    <2>6. z \in 1 .. m
        BY <2>1, <2>5
    <2> QED BY <2>6 DEF z, m, q
<1>3. \A i \in DOMAIN c.reads : c.reads[i] \in ReadOps
    BY <1>1 DEF ConnectionType
<1>4. \A i \in DOMAIN c.ready : c.ready[i].op \in ReadOps \cup {"worker", "write", "timeout"}
    <2>1. \A i \in DOMAIN c.ready : c.ready[i] \in Completions(Ops)
        BY <1>1, Fields
    <2> QED BY <2>1 DEF Completions, Ops
<1>5. c.sent \in 0 .. MaxSent + 2
    <2> DEFINE m == c.sent
    <2>1. m \in Nat /\ m <= MaxSent + 2
        BY <1>1, Fields
    <2> HIDE DEF m
    <2>2. m \in 0 .. MaxSent + 2
        BY <1>1, <2>1
    <2> QED BY <2>2 DEF m
<1>6. c.state \in States /\ c.due \subseteq {"connect", "disconnect"}
    BY <1>1, Fields
<1> QED BY <1>1, <1>2, <1>3, <1>4, <1>5, <1>6 DEF TypeOK, Shape, States, ProtocolType

LEMMA OwnersOfInv == ASSUME ConnectionInv PROVE OneReader /\ OneWriter
<1>1. c \in ConnectionType /\ Queued(c, SealedNow, Sealing)
    BY DEF ConnectionInv, Core
<1>2. OneReader
    <2>1. Readers(c) + Ones(disp = "parsing") <= 1
          /\ (kind # "none" /\ c.state # "closed" => Readers(c) + Ones(disp = "parsing") = 1)
        <3>1. CASE kind # "none"
            BY <3>1 DEF ConnectionInv, Held
        <3>2. CASE kind = "none"
            <4>1. /\ c.reads = <<>> /\ c.writes = <<>> /\ c.ready = <<>> /\ c.tasks = <<>>
                  /\ disp = "idle"
                BY <3>2 DEF ConnectionInv, Untouched
            <4>2. Readers(c) = 0
                BY <1>1, <4>1, NothingYet
            <4>3. Ones(disp = "parsing") = 0
                BY <4>1 DEF Ones
            <4> QED BY <3>2, <4>2, <4>3
        <3> QED BY <3>1, <3>2
    <2> QED BY <2>1 DEF OneReader, Readers, Heard, Packets
<1>3. OneWriter
    <2> DEFINE w == Len(c.writes)
               x == Ones(Sealing)
               y == Ones(c.queue # <<>>)
    <2>1. w + Working(c) + x = y /\ w \in Nat /\ Working(c) \in Nat /\ x \in Nat
        BY <1>1, Numbers DEF Queued, Writers, Ones
    <2> HIDE DEF w, x, y
    <2>2. Working(c) + w + x = y
        BY <2>1
    <2> QED BY <2>2 DEF w, x, y, OneWriter, Working, Sealing
<1> QED BY <1>2, <1>3

\* The buffer for input and the buffer for output each have one user, whoever
\* reads, parses, sends or closes: m_msg of Connection and messageQueue.front().
THEOREM BuffersKept == Spec => []BuffersOwned
<1>1. ConnectionInv => BuffersOwned
    BY TypeOfInv, OwnersOfInv DEF BuffersOwned
<1> QED BY <1>1, ConnectionKept, PTL

\* Every accepted message is sealed once and in the order of send, and nothing is
\* delivered that was not sealed: internalWorker and onSendMessage.
THEOREM SealedKept == Spec => []SealedInOrder
<1>1. ASSUME ConnectionInv PROVE SealedInOrder
    <2> DEFINE n == SealedNow
               m == c.sent
               k == Len(c.queue)
               b == wire.delivered
               w == Len(c.writes)
    <2>1. /\ c \in ConnectionType /\ m \in Nat /\ n \in Nat /\ b \in Nat
          /\ Written(c) \in Nat /\ Written(c) <= 1
        BY <1>1, OneTurn
    <2>2. /\ wire.sealed = [i \in 1 .. n |-> i] /\ wire.sealed \in Seq(Nat)
        BY <1>1 DEF ConnectionInv, Shape, WireType
    <2>3. DOMAIN wire.sealed = 1 .. n
        BY <2>2
    <2>4. b <= n
        <3>1. b + w <= n /\ w \in Nat
            BY <1>1, <2>1, Numbers DEF ConnectionInv, Core, Flowing
        <3> HIDE DEF b, n, w
        <3> QED BY <2>1, <3>1
    <2>5. n <= m
        <3>1. CASE c.queue = <<>>
            BY <1>1, <3>1 DEF ConnectionInv, Core, Queued
        <3>2. CASE c.queue # <<>>
            <4>1. n + k = m + Written(c)
                BY <1>1, <3>2 DEF ConnectionInv, Core, Queued
            <4>2. k \in Nat /\ k > 0
                <5>1. c.queue \in Seq(Nat)
                    BY <2>1, Fields
                <5> QED BY <3>2, <5>1, EmptySeq
            <4> HIDE DEF n, m, k
            <4> QED BY <2>1, <4>1, <4>2
        <3> QED BY <3>1, <3>2
    <2>6. wire.sealed = [i \in DOMAIN wire.sealed |-> i]
        BY <2>2, <2>3
    <2> QED BY <2>4, <2>5, <2>6 DEF SealedInOrder, SealedNow
<1> QED BY <1>1, ConnectionKept, PTL

-----------------------------------------------------------------------------
(* When the socket is closed. *)

LEMMA DisconnectedSock ==
    ASSUME NEW d, Good(d), d.sock, ~Disconnected(d).sock
    PROVE  d.state # "closed" /\ d.queue = <<>>
<1>1. Disconnected(d) = close(d, FALSE)
    BY DEF Disconnected
<1> QED BY <1>1, Closes DEF Good

LEMMA RefusedSock ==
    ASSUME Shape, NEW d, Good(d) PROVE Refused(d).sock = d.sock
<1>1. disconnectClient(d).sock = d.sock
    BY Parameters, Disconnects DEF Good
<1> QED BY <1>1 DEF Refused

LEMMA SentSock == ASSUME Shape, NEW d, Good(d) PROVE Sent(d).sock = d.sock
<1>1. Standing(d, send(d))
    BY Parameters, CoreSends DEF Good
<1> QED BY <1>1 DEF Sent, Standing

\* A task and a kick close the socket only of an open connection that has
\* nothing left to write.
LEMMA TaskDrains ==
    ASSUME ConnectionInv, Task \/ Kick, c.sock, ~c'.sock
    PROVE  c.state # "closed" /\ c.queue = <<>>
<1>1. Shape /\ Good(c) /\ c \in ConnectionType
    BY GoodNow DEF ConnectionInv
<1>2. ASSUME NEW i \in DOMAIN c.tasks
      PROVE  Good(Without(i)) /\ Standing(c, Without(i)) /\ Without(i).queue = c.queue
    BY TaskTaken
<1>3. ASSUME NEW due
      PROVE  LET d == [c EXCEPT !.due = @ \ {due}] IN
             Good(d) /\ Standing(c, d) /\ d.queue = c.queue
    <2> DEFINE d == [c EXCEPT !.due = @ \ {due}]
    <2>1. Good(d) /\ Standing(c, d)
        BY DueTaken
    <2>2. d.queue = c.queue
        BY <1>1 DEF ConnectionType
    <2> QED BY <2>1, <2>2
<1>4. ASSUME NEW d, Good(d), Standing(c, d), d.queue = c.queue, c' \in {d, Sent(d), Refused(d), Disconnected(d)}
      PROVE  c.state # "closed" /\ c.queue = <<>>
    <2>1. d.sock = c.sock /\ d.state = c.state
        BY <1>4 DEF Standing
    <2>2. c' # d /\ c' # Sent(d) /\ c' # Refused(d)
        BY <1>1, <1>4, <2>1, RefusedSock, SentSock
    <2> QED BY <1>4, <2>1, <2>2, DisconnectedSock
<1>5. ASSUME NEW i \in DOMAIN c.tasks,
             \/ sendLoginChallenge(i) \/ getCharacterList(i) \/ loginRefused(i)
             \/ loginPlaced(i) \/ parse(i) \/ release(i) \/ Expire(i)
      PROVE  c.state # "closed" /\ c.queue = <<>>
    <2>1. c' \in {Without(i), Sent(Without(i)), Refused(Without(i)), Disconnected(Without(i))}
        BY <1>5 DEF sendLoginChallenge, getCharacterList, loginRefused, loginPlaced, parse,
                    release, Expire
    <2> QED BY <1>2, <1>4, <2>1
<1>6. ASSUME NEW i \in DOMAIN c.tasks, loginConnects(i) PROVE FALSE
    <2> DEFINE e == Without(i)
    <2>1. e.sock = c.sock /\ e \in ConnectionType
        BY <1>2 DEF Standing, Good
    <2>2. c' = [e EXCEPT !.due = @ \cup {"connect"}] \/ c' = e
        BY <1>6 DEF loginConnects
    <2> HIDE DEF e
    <2>3. c'.sock = e.sock
        BY <2>1, <2>2 DEF ConnectionType
    <2> QED BY <2>1, <2>3
<1>7. CASE connect
    <2> DEFINE d == [c EXCEPT !.due = @ \ {"connect"}]
    <2>1. c' \in {d, Refused(d)}
        BY <1>7 DEF connect
    <2>2. Good(d) /\ Standing(c, d) /\ d.queue = c.queue
        BY <1>3
    <2> HIDE DEF d
    <2> QED BY <1>4, <2>1, <2>2
<1>8. CASE lateDisconnect
    <2> DEFINE d == [c EXCEPT !.due = @ \ {"disconnect"}]
    <2>1. c' = Disconnected(d)
        BY <1>8 DEF lateDisconnect
    <2>2. Good(d) /\ Standing(c, d) /\ d.queue = c.queue
        BY <1>3
    <2> HIDE DEF d
    <2> QED BY <1>4, <2>1, <2>2
<1>9. CASE Resume
    <2>1. Standing(c, armed(c)) /\ armed(c) \in ConnectionType
        BY <1>1, Arms DEF armed, Like
    <2>2. c' = asyncRead(armed(c), "header")
        BY <1>9 DEF Resume, resumeWork, acceptInternal
    <2>3. Standing(armed(c), c')
        BY <2>1, <2>2, ReadsMore DEF ReadOps
    <2> QED BY <2>1, <2>3 DEF Standing
<1>10. CASE Kick
    <2>1. c' \in {Refused(c), Disconnected(c)} /\ Standing(c, c)
        BY <1>10 DEF Kick, Standing
    <2> QED BY <1>1, <1>4, <2>1
<1>11. CASE Task
    BY <1>5, <1>6, <1>7, <1>8, <1>9, <1>11 DEF Task
<1> QED BY <1>10, <1>11

\* Nothing else closes the socket of a connection that was closed before.
LEMMA ClosedKeepsSock ==
    ASSUME ConnectionInv, c.state = "closed", c.sock,
           \/ Accept \/ HandleProxy \/ HandleHeader \/ parsePacket \/ FinishPacket
           \/ HandleTimeout \/ internalWorker \/ Seal
           \/ ReadCompletes \/ ReadFails \/ WriteCompletes \/ ReadTimerEnds \/ WriteTimerEnds
           \/ PeerStalls \/ PeerGoes \/ sendAll \/ TakenOver
    PROVE  c'.sock
<1>1. Shape /\ Good(c) /\ c \in ConnectionType
    BY GoodNow DEF ConnectionInv
<1>2. CASE Accept
    BY <1>2 DEF Accept, ConnectionInv, Untouched
<1>3. CASE HandleProxy \/ HandleHeader \/ parsePacket
    <2> DEFINE e == [Taken EXCEPT !.readTimer = FALSE]
    <2>1. Good(Taken) /\ Standing(c, Taken) /\ Ok \in BOOLEAN
        BY <1>3, TakesBuffer DEF HandleProxy, HandleHeader, parsePacket, ReadOps
    <2>2. Standing(Taken, e) /\ e \in ConnectionType
        BY <2>1, Arms DEF Good, Like
    <2>3. Taken.state = "closed" /\ Taken.sock /\ e.state = "closed" /\ e.sock
        BY <2>1, <2>2 DEF Standing
    <2>4. Reread(Taken, c') \/ Reread(e, c')
        <3>1. CASE HandleProxy
            BY <2>1, <3>1, ProxyParsed DEF HandleProxy, Good
        <3>2. CASE HandleHeader
            BY <2>1, <3>2, HeaderParsed DEF HandleHeader, Good
        <3>3. CASE parsePacket
            <4>1. c' = close(e, TRUE)
                BY <3>3 DEF parsePacket
            <4> HIDE DEF e
            <4> QED BY <2>2, <4>1, RereadClosed
        <3> QED BY <1>3, <3>1, <3>2, <3>3
    <2> HIDE DEF e
    <2> QED BY <2>3, <2>4 DEF Reread
<1>4. CASE FinishPacket
    BY <1>1, <1>4, Arms DEF FinishPacket, parsePacketEnd, armed, Standing
<1>5. CASE HandleTimeout
    <2>1. Standing(c, Taken) /\ Taken \in ConnectionType
        BY <1>5, TakesTimeout DEF HandleTimeout, Like
    <2>2. Reread(Taken, close(Taken, TRUE))
        BY <2>1, RereadClosed
    <2>3. close(Taken, TRUE).sock /\ Taken.sock
        BY <2>1, <2>2 DEF Reread, Standing
    <2> QED BY <1>5, <2>3 DEF HandleTimeout
<1>6. CASE internalWorker
    <2>1. Standing(c, Taken) /\ c.queue # <<>>
        BY <1>6, TakesTurn DEF internalWorker
    <2>2. c' = Taken
        BY <1>6, <2>1 DEF internalWorker
    <2> QED BY <2>1, <2>2 DEF Standing
<1>7. CASE Seal
    <2> DEFINE d == [c EXCEPT !.writeTimer = TRUE]
    <2>1. d \in ConnectionType /\ d.sock
        BY <1>1 DEF ConnectionType
    <2>2. c' = asyncWrite(d)
        BY <1>7 DEF Seal
    <2> HIDE DEF d
    <2> QED BY <2>1, <2>2 DEF asyncWrite, ConnectionType
<1>8. CASE ReadCompletes \/ ReadFails \/ WriteCompletes \/ ReadTimerEnds \/ WriteTimerEnds
    BY <1>1, <1>8 DEF ReadCompletes, ReadFails, WriteCompletes, ReadTimerEnds, WriteTimerEnds,
                      Received, ConnectionType
<1>9. CASE PeerStalls \/ PeerGoes \/ TakenOver
    BY <1>9 DEF PeerStalls, PeerGoes, TakenOver
<1>10. CASE sendAll
    BY <1>1, <1>10, SentSock DEF sendAll
<1> QED BY <1>2, <1>3, <1>4, <1>5, <1>6, <1>7, <1>8, <1>9, <1>10

\* Without a queue, everything that was accepted has been delivered.
LEMMA Drained ==
    ASSUME ConnectionInv, c.sock, c.state # "closed", c.queue = <<>>
    PROVE  wire.delivered = c.sent \/ peer = "gone"
<1> DEFINE b == wire.delivered
           n == SealedNow
           w == Len(c.writes)
<1>1. w = 0 /\ b \in Nat /\ n = c.sent
    BY OneTurn DEF ConnectionInv, Core, Queued
<1>2. ~Gone => b + w = n
    BY DEF ConnectionInv, Core, Flowing
<1> HIDE DEF b, n, w
<1>3. ~Gone => b = n
    BY <1>1, <1>2
<1> QED BY <1>1, <1>3 DEF Gone, b

\* onWriteOperation closes the socket of a closed connection with its last message.
LEMMA LastWritten ==
    ASSUME ConnectionInv, onWriteOperation, c.state = "closed", c.sock, ~c'.sock
    PROVE  wire.delivered = c.sent \/ peer = "gone"
<1> DEFINE t == Taken
           e == [t EXCEPT !.writeTimer = FALSE]
           q == c.queue
           m == c.sent
           n == SealedNow
           k == Len(q)
           b == wire.delivered
<1>1. /\ t \in ConnectionType /\ Standing(c, t)
      /\ t.queue = q /\ t.writes = <<>> /\ c.writes = <<>> /\ q # <<>>
      /\ Written(c) = Ones("write" = "write")
    BY TakesTurn DEF onWriteOperation, Quiet
<1>2. \/ c' = close([e EXCEPT !.queue = <<>>], TRUE)
      \/ c' = Popped(e)
    BY DEF onWriteOperation
<1> HIDE DEF t
<1>3. e \in ConnectionType /\ e.state = "closed" /\ e.sock /\ e.queue = q
    BY <1>1 DEF ConnectionType, Standing
<1> HIDE DEF e
<1>4. c' # close([e EXCEPT !.queue = <<>>], TRUE)
    <2> DEFINE f == [e EXCEPT !.queue = <<>>]
    <2>1. f.state = "closed" /\ f.sock /\ f \in ConnectionType
        BY <1>3, EmptySeq DEF ConnectionType
    <2> HIDE DEF f
    <2>2. close(f, TRUE).sock
        BY <2>1, RereadClosed DEF Reread
    <2> QED BY <2>2 DEF f
<1>5. /\ q \in Seq(Nat) /\ m \in Nat /\ n \in Nat /\ b \in Nat /\ k \in Nat
    BY Fields, Parameters DEF ConnectionInv
<1>6. Tail(q) = <<>>
    <2> DEFINE f == [e EXCEPT !.queue = Tail(q)]
    <2>1. f.queue = Tail(q) /\ f.sock
        BY <1>3 DEF ConnectionType
    <2>2. c' = IF f.queue = <<>> /\ f.state = "closed" THEN closeSocket(f) ELSE f
        BY <1>2, <1>3, <1>4 DEF Popped
    <2> HIDE DEF f
    <2> QED BY <2>1, <2>2
<1>7. k = 1
    <2>1. q \in Seq(Nat) /\ q # <<>> /\ Tail(q) = <<>>
        BY <1>1, <1>5, <1>6
    <2> HIDE DEF q
    <2>2. Len(Tail(q)) = Len(q) - 1
        BY <2>1
    <2>3. Len(Tail(q)) = 0
        BY <2>1, EmptySeq
    <2>4. Len(q) \in Nat
        BY <2>1
    <2> DEFINE r == Len(Tail(q))
    <2> HIDE DEF r, k
    <2>5. r = k - 1 /\ r = 0 /\ k \in Nat
        BY <2>2, <2>3, <2>4 DEF r, k
    <2> QED BY <2>5
<1>8. n + k = m + 1
    <2>1. Written(c) = 1
        BY <1>1 DEF Ones
    <2> QED BY <1>1, <2>1 DEF ConnectionInv, Core, Queued
<1>9. ~Gone => b + 0 = n
    <2>1. Len(c.writes) = 0
        BY <1>1, EmptySeq
    <2> QED BY <2>1 DEF ConnectionInv, Core, Flowing
<1> HIDE DEF m, n, k, b
<1>10. ~Gone => b = m
    BY <1>5, <1>7, <1>8, <1>9
<1> QED BY <1>10 DEF Gone, b, m

\* A soft close, which is how the game ends a connection, lets its queue drain:
\* close(FORCE_CLOSE = false), internalWorker and onWriteOperation.
THEOREM SoftClosesFlush == Spec => SoftCloseFlushes
<1>1. ASSUME ConnectionInv, [Next]_vars, c.sock, ~c'.sock,
             c.state = "closed" \/ Task \/ Kick
      PROVE  wire.delivered = c.sent \/ peer = "gone"
    <2>1. CASE Task \/ Kick
        BY <1>1, <2>1, TaskDrains, Drained
    <2>2. CASE c.state = "closed" /\ ~(Task \/ Kick)
        <3>1. c' # c
            BY <1>1
        <3>2. CASE onWriteOperation
            BY <1>1, <2>2, <3>2, LastWritten
        <3>3. CASE ~onWriteOperation
            BY <1>1, <2>2, <3>1, <3>3, ClosedKeepsSock DEF Next, Handler, vars
        <3> QED BY <3>2, <3>3
    <2> QED BY <1>1, <2>1, <2>2
<1>2. ConnectionInv /\ [Next]_vars =>
      [c.sock /\ ~c'.sock /\ (c.state = "closed" \/ Task \/ Kick) =>
          wire.delivered = c.sent \/ peer = "gone"]_vars
    BY <1>1
<1>3. Spec => [][c.sock /\ ~c'.sock /\ (c.state = "closed" \/ Task \/ Kick) =>
                    wire.delivered = c.sent \/ peer = "gone"]_vars
    BY <1>2, ConnectionKept, PTL DEF Spec
<1> QED BY <1>3 DEF SoftCloseFlushes
=============================================================================
