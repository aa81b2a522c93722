----------------------------- MODULE Connection -----------------------------
(***************************************************************************)
(* One TCP connection with its protocol object, from accept to the end of  *)
(* both: server/network/connection/connection.cpp, the parts of Protocol,  *)
(* ProtocolGame and ProtocolLogin that send, receive, log in, disconnect   *)
(* and release, and OutputMessagePool.                                     *)
(*                                                                         *)
(* Two threads meet here.  The thread of the io_service runs completion    *)
(* handlers, first completed first; each is one step, under connectionLock *)
(* up to where it unlocks (onSendMessage) or where the dispatcher can      *)
(* touch the connection without the lock (resumeWork, while parsePacket    *)
(* has not returned).  The dispatcher runs one task after the other.       *)
(*                                                                         *)
(* What Connection's functions do to a connection is an operator that maps *)
(* the record of one to another, or to the set of those possible, because  *)
(* they call each other under one recursive lock.                          *)
(***************************************************************************)
EXTENDS Lists

CONSTANTS
    MaxPackets,  \* bound: packets the client sends
    MaxSent,     \* bound: the game sends nothing by itself beyond it
    InOrder,     \* tasks of this connection never overtake each other
    Punctual     \* no task waits longer than CONNECTION_WRITE_TIMEOUT

ASSUME ConnectionAssumption ==
    /\ MaxPackets \in Nat /\ MaxSent \in Nat
    /\ InOrder \in BOOLEAN /\ Punctual \in BOOLEAN

VARIABLES
    kind,  \* the service that accepted the connection: "none", "game", "login"
    c,     \* the Connection
    p,     \* the Protocol
    io,    \* the io_service's thread: "loop", "sealing" (in onSendMessage),
           \* "posted" (parsePacket after onRecvMessage posted its event)
    disp,  \* the dispatcher: "idle", "parsing" (sendRecvMessageCallback's event)
    peer,  \* the client: "active", "stalled" (neither reads nor sends), "gone"
    wire   \* history: messages sealed by onSendMessage, delivered, received

vars == <<kind, c, p, io, disp, peer, wire>>

ReadOps == {"proxy", "header", "body"}
Done(op, ok) == [op |-> op, ok |-> ok]

Init ==
    /\ kind = "none" /\ io = "loop" /\ disp = "idle" /\ peer = "active"
    /\ c = [state |-> "open",    \* connectionState
            managed |-> TRUE,    \* ConnectionManager::connections has it
            protocol |-> FALSE, first |-> FALSE,  \* protocol, receivedFirst
            queue |-> <<>>,      \* messageQueue: the numbers of the messages
            sent |-> 0,          \* messages accepted by send
            sock |-> TRUE,       \* socket.is_open()
            reads |-> <<>>, writes |-> <<>>,      \* operations under way
            readTimer |-> FALSE, writeTimer |-> FALSE,  \* waits under way
            ready |-> <<>>,      \* completed operations, to be handled
            tasks |-> <<>>,      \* the dispatcher's serial tasks of this connection
            due |-> {}]          \* and its scheduled ones
    /\ p = [player |-> "none",   \* "attached": it has one whose client it is
            acceptPackets |-> FALSE, autosend |-> FALSE,
            released |-> "no"]   \* "yes", or "expired": release() never runs
    /\ wire = [sealed |-> <<>>, delivered |-> 0, packets |-> 0]

-----------------------------------------------------------------------------
(* Functions of Connection. *)

post(d, task) == [d EXCEPT !.tasks = Append(@, task)]

\* What is under way ends with operation_aborted; waits that ended so do nothing.
closeSocket(d) ==
    IF ~d.sock THEN d
    ELSE [d EXCEPT !.sock = FALSE, !.readTimer = FALSE, !.writeTimer = FALSE,
                   !.reads = <<>>, !.writes = <<>>,
                   !.ready = @ \o [i \in DOMAIN d.reads |-> Done(d.reads[i], FALSE)]
                               \o [i \in DOMAIN d.writes |-> Done("write", FALSE)]]

close_DropsQueue(d, force) ==
    IF d.state = "closed" THEN [d EXCEPT !.managed = FALSE]
    ELSE closeSocket([(IF d.protocol THEN post(d, "release") ELSE d)
                      EXCEPT !.managed = FALSE, !.state = "closed"])
close_ReleasesAtOnce(d, force) ==
    LET e == [d EXCEPT !.managed = FALSE, !.state = "closed"] IN
    IF d.state # "closed" /\ (d.queue = <<>> \/ force)
    THEN closeSocket(IF d.protocol THEN post(e, "release") ELSE e) ELSE e
close(d, force) ==
    IF d.state = "closed" THEN [d EXCEPT !.managed = FALSE]
    ELSE LET e == [IF d.protocol THEN post(d, "release") ELSE d
                   EXCEPT !.managed = FALSE, !.state = "closed"]
         IN IF d.queue = <<>> \/ force THEN closeSocket(e) ELSE e

\* An operation on a closed socket completes at once, with an error.
asyncRead(d, op) ==
    IF d.sock THEN [d EXCEPT !.reads = Append(@, op)]
    ELSE [d EXCEPT !.ready = Append(@, Done(op, FALSE))]
asyncWrite(d) ==
    IF d.sock THEN [d EXCEPT !.writes = Append(@, Head(d.queue))]
    ELSE [d EXCEPT !.ready = Append(@, Done("write", FALSE))]

\* expires_from_now ends the wait before, if any, and async_wait begins one.
armed(d) == [d EXCEPT !.readTimer = TRUE]

acceptInternal(d, op) == asyncRead(armed(d), op)

send_WorkerForEach(d) ==
    IF d.state = "closed" THEN d
    ELSE [d EXCEPT !.queue = Append(@, d.sent + 1), !.sent = @ + 1,
                   !.ready = Append(@, Done("worker", TRUE))]
send_AfterClose(d) ==
    [d EXCEPT !.queue = Append(@, d.sent + 1), !.sent = @ + 1,
              !.ready = IF d.queue = <<>> THEN Append(@, Done("worker", TRUE)) ELSE @]
send(d) ==
    IF d.state = "closed" THEN d
    ELSE LET e == [d EXCEPT !.queue = Append(@, d.sent + 1), !.sent = @ + 1]
         IN IF d.queue # <<>> THEN e
            ELSE IF d.sock THEN [e EXCEPT !.ready = Append(@, Done("worker", TRUE))]
            ELSE close(e, TRUE)

disconnectClient(d) == close(send(d), FALSE)

\* Too many packets per second, a size out of range, or on to the body.
parseHeader(d, ok) ==
    LET e == [d EXCEPT !.readTimer = FALSE] IN
    IF ~ok THEN {close(e, TRUE)}
    ELSE IF e.state = "closed" THEN {e}
    ELSE {close(e, FALSE), close(e, TRUE), asyncRead(armed(e), "body")}

\* A first message that is the server's name comes from a proxy.
parseProxyIdentification(d, ok) ==
    LET e == [d EXCEPT !.readTimer = FALSE] IN
    IF ~ok \/ e.state = "closed" THEN {close(e, TRUE)}
    ELSE IF e.state = "identifying"
    THEN parseHeader([e EXCEPT !.state = "open"], TRUE)
         \cup {asyncRead(armed([e EXCEPT !.state = "readings"]), "proxy"),
               acceptInternal([e EXCEPT !.state = "open"], "header")}
    ELSE {acceptInternal([e EXCEPT !.state = "open"], "header"), close(e, TRUE)}

\* ProtocolGame and ProtocolLogin: refused silently or with a message, refused
\* with a message and a late disconnect, or on to the dispatcher.
onRecvFirstMessage(d) ==
    {close(d, FALSE), disconnectClient(d)}
    \cup IF kind = "login" THEN {post(d, "getCharacterList")}
         ELSE IF d.sent = 0 THEN {}  \* it has to answer the challenge
         ELSE {post(d, "login"), [send(d) EXCEPT !.due = @ \cup {"disconnect"}]}

firstPacket(d) ==
    LET e == [d EXCEPT !.first = TRUE, !.protocol = TRUE]
        parsed == {asyncRead(armed(f), "header") : f \in onRecvFirstMessage(e)}
    IN IF d.protocol THEN parsed
       ELSE parsed \cup {close([d EXCEPT !.first = TRUE], TRUE)}

-----------------------------------------------------------------------------
(* Somebody's shared_ptr keeps the connection: the manager, an operation    *)
(* under way or completed, or a function that runs.  Timers hold weak ones. *)

Alive ==
    \/ c.managed \/ io # "loop" \/ disp = "parsing"
    \/ c.reads # <<>> \/ c.writes # <<>>
    \/ \E i \in DOMAIN c.ready : c.ready[i].op # "timeout"

Accept ==
    /\ kind = "none"
    /\ \/ kind' = "game"
          /\ c' = acceptInternal(post([c EXCEPT !.state = "identifying", !.protocol = TRUE],
                                      "sendLoginChallenge"), "proxy")
       \/ kind' = "login" /\ c' = acceptInternal(c, "header")
       \/ kind' \in {"game", "login"} /\ c' = close(c, TRUE)  \* banned, or gone
    /\ UNCHANGED <<p, io, disp, peer, wire>>

(* The io_service: the outside world completes what is under way. *)

Received(h) == [c EXCEPT !.reads = Tail(@), !.ready = Append(@, h)]
ReadCompletes ==
    /\ c.reads # <<>> /\ peer = "active"
    /\ Head(c.reads) = "body" => wire.packets < MaxPackets
    /\ c' = Received(Done(Head(c.reads), TRUE))
    /\ wire' = IF Head(c.reads) = "body" THEN [wire EXCEPT !.packets = @ + 1] ELSE wire
    /\ UNCHANGED <<kind, p, io, disp, peer>>

ReadFails ==
    /\ c.reads # <<>> /\ peer = "gone"
    /\ c' = Received(Done(Head(c.reads), FALSE))
    /\ UNCHANGED <<kind, p, io, disp, peer, wire>>

WriteCompletes ==
    /\ c.writes # <<>> /\ peer # "stalled"
    /\ c' = [c EXCEPT !.writes = Tail(@), !.ready = Append(@, Done("write", peer = "active"))]
    /\ wire' = IF peer = "active" THEN [wire EXCEPT !.delivered = @ + 1] ELSE wire
    /\ UNCHANGED <<kind, p, io, disp, peer>>

ReadTimerEnds ==
    /\ c.readTimer /\ Alive
    /\ c' = [c EXCEPT !.readTimer = FALSE, !.ready = Append(@, Done("timeout", TRUE))]
    /\ UNCHANGED <<kind, p, io, disp, peer, wire>>

WriteTimerEnds ==
    /\ c.writeTimer /\ Alive
    /\ c' = [c EXCEPT !.writeTimer = FALSE, !.ready = Append(@, Done("timeout", TRUE))]
    /\ UNCHANGED <<kind, p, io, disp, peer, wire>>

\* What a client does after the socket is closed makes no difference.
PeerStalls ==
    /\ c.sock /\ peer = "active" /\ peer' = "stalled"
    /\ UNCHANGED <<kind, c, p, io, disp, wire>>
PeerGoes ==
    /\ c.sock /\ peer # "gone" /\ peer' = "gone"
    /\ UNCHANGED <<kind, c, p, io, disp, wire>>

-----------------------------------------------------------------------------
(* The io_service: completion handlers. *)

Handles(op) == io = "loop" /\ c.ready # <<>> /\ Head(c.ready).op = op
Ok == Head(c.ready).ok
Taken == [c EXCEPT !.ready = Tail(@)]

HandleProxy ==
    /\ Handles("proxy") /\ c' \in parseProxyIdentification(Taken, Ok)
    /\ UNCHANGED <<kind, p, io, disp, peer, wire>>

HandleHeader ==
    /\ Handles("header") /\ c' \in parseHeader(Taken, Ok)
    /\ UNCHANGED <<kind, p, io, disp, peer, wire>>

\* parsePacket; onRecvMessage skips a packet whose checksum or encryption is wrong.
parsePacket ==
    /\ Handles("body")
    /\ LET e == [Taken EXCEPT !.readTimer = FALSE] IN
       IF ~Ok \/ c.state = "closed" THEN c' = close(e, TRUE) /\ UNCHANGED io
       ELSE IF ~c.first THEN c' \in firstPacket(e) /\ UNCHANGED io
       ELSE \/ c' = asyncRead(armed(e), "header") /\ UNCHANGED io
            \/ c' = post(e, "packet") /\ io' = "posted"
    /\ UNCHANGED <<kind, p, disp, peer, wire>>

\* Its end where the packet was posted: skipReadingNextPacket.
parsePacketEnd_Reads == asyncRead(armed(c), "header")
parsePacketEnd == armed(c)
FinishPacket ==
    /\ io = "posted" /\ io' = "loop" /\ c' = parsePacketEnd
    /\ UNCHANGED <<kind, p, disp, peer, wire>>

HandleTimeout ==
    /\ Handles("timeout")
    /\ c' = IF Alive THEN close(Taken, TRUE) ELSE Taken
    /\ UNCHANGED <<kind, p, io, disp, peer, wire>>

internalWorker ==
    /\ Handles("worker")
    /\ IF c.queue # <<>> THEN c' = Taken /\ io' = "sealing"
       ELSE c' = (IF c.state = "closed" THEN closeSocket(Taken) ELSE Taken) /\ UNCHANGED io
    /\ UNCHANGED <<kind, p, disp, peer, wire>>

\* onSendMessage, then internalSend with the lock again.
Seal ==
    /\ io = "sealing" /\ io' = "loop"
    /\ wire' = [wire EXCEPT !.sealed = Append(@, Head(c.queue))]
    /\ c' = asyncWrite([c EXCEPT !.writeTimer = TRUE])
    /\ UNCHANGED <<kind, p, disp, peer>>

Popped_Keeps(d) == d
Popped_NeverCloses(d) == [d EXCEPT !.queue = Tail(@)]
Popped(d) ==
    LET e == [d EXCEPT !.queue = Tail(@)] IN
    IF e.queue = <<>> /\ e.state = "closed" THEN closeSocket(e) ELSE e

onWriteOperation ==
    /\ Handles("write")
    /\ LET e == [Taken EXCEPT !.writeTimer = FALSE] IN
       IF ~Ok THEN c' = close([e EXCEPT !.queue = <<>>], TRUE) /\ UNCHANGED io
       ELSE /\ c' = Popped(e)
            /\ io' = IF Len(c.queue) > 1 THEN "sealing" ELSE io
    /\ UNCHANGED <<kind, p, disp, peer, wire>>

-----------------------------------------------------------------------------
(* The dispatcher.  close and send wait for connectionLock. *)

LockFree == io # "posted"

Runs(i, task) ==
    /\ disp = "idle" /\ i \in DOMAIN c.tasks /\ c.tasks[i] = task
    /\ InOrder => i = 1
Without(i) == [c EXCEPT !.tasks = RemoveAt(@, i)]

\* Protocol holds a weak_ptr to its connection.
Sent(d) == IF Alive THEN send(d) ELSE d
Disconnected(d) == IF Alive THEN close(d, FALSE) ELSE d
Refused(d) == IF Alive THEN disconnectClient(d) ELSE d

sendLoginChallenge(i) ==
    /\ Runs(i, "sendLoginChallenge") /\ LockFree
    /\ c' = Sent(Without(i))
    /\ UNCHANGED <<kind, p, io, disp, peer, wire>>

getCharacterList(i) ==
    /\ Runs(i, "getCharacterList") /\ LockFree
    /\ c' = Refused(Without(i))
    /\ UNCHANGED <<kind, p, io, disp, peer, wire>>

\* Refused because of the account, the waiting list, ...: the new Player stays
\* in "player".  Refused because the character is in the game: it has none.
loginRefused(i) ==
    /\ Runs(i, "login") /\ LockFree
    /\ c' = Refused(Without(i))
    /\ \/ p' = [p EXCEPT !.player = "attached"]
       \/ UNCHANGED p
    /\ UNCHANGED <<kind, io, disp, peer, wire>>

loginPlaced(i) ==
    /\ Runs(i, "login")
    /\ c' = Without(i)
    /\ p' = [p EXCEPT !.player = "attached", !.acceptPackets = TRUE, !.autosend = TRUE]
    /\ UNCHANGED <<kind, io, disp, peer, wire>>

\* The character is in the game: at once, or a second after its client was closed.
connected == [p EXCEPT !.player = "attached", !.acceptPackets = TRUE]
loginConnects(i) ==
    /\ Runs(i, "login")
    /\ \/ c' = [Without(i) EXCEPT !.due = @ \cup {"connect"}]
          /\ p' = [p EXCEPT !.autosend = TRUE]
       \/ c' = Without(i)
          /\ p' = [(IF Alive THEN connected ELSE p) EXCEPT !.autosend = TRUE]
    /\ UNCHANGED <<kind, io, disp, peer, wire>>

connect ==
    /\ disp = "idle" /\ "connect" \in c.due
    /\ LET d == [c EXCEPT !.due = @ \ {"connect"}] IN
       \/ LockFree /\ c' = Refused(d) /\ UNCHANGED p  \* left the game meanwhile
       \/ c' = d /\ p' = IF Alive THEN connected ELSE p
    /\ UNCHANGED <<kind, io, disp, peer, wire>>

lateDisconnect ==
    /\ disp = "idle" /\ "disconnect" \in c.due /\ LockFree
    /\ c' = Disconnected([c EXCEPT !.due = @ \ {"disconnect"}])
    /\ UNCHANGED <<kind, p, io, disp, peer, wire>>

\* The event of sendRecvMessageCallback: parsePacket, which may log out, ...
parse(i) ==
    /\ Runs(i, "packet")
    /\ \/ c' = Without(i)
       \/ /\ Alive /\ p.acceptPackets /\ LockFree
          /\ c' \in {Disconnected(Without(i)), Refused(Without(i))}
    /\ disp' = IF Alive THEN "parsing" ELSE disp
    /\ UNCHANGED <<kind, p, io, peer, wire>>

\* ... then resumeWork, without the lock and whatever the state.
resumeWork_Unarmed(d) == asyncRead([d EXCEPT !.readTimer = FALSE], "header")
resumeWork(d) == acceptInternal(d, "header")
Resume ==
    /\ disp = "parsing" /\ disp' = "idle"
    /\ c' = resumeWork(c)
    /\ UNCHANGED <<kind, p, io, peer, wire>>

\* ProtocolGame::release.
released ==
    [p EXCEPT !.released = "yes", !.autosend = FALSE, !.player = "none"]
release(i) ==
    /\ Runs(i, "release")
    /\ c' = Without(i) /\ p' = released
    /\ UNCHANGED <<kind, io, disp, peer, wire>>

\* The two tasks that are posted with an expiration.
Expire(i) ==
    /\ ~Punctual
    /\ \/ Runs(i, "sendLoginChallenge") /\ UNCHANGED p
       \/ Runs(i, "release") /\ p' = [p EXCEPT !.released = "expired"]
    /\ c' = Without(i)
    /\ UNCHANGED <<kind, io, disp, peer, wire>>

\* OutputMessagePool::sendAll, with something in the buffer.
sendAll ==
    /\ disp = "idle" /\ p.autosend /\ LockFree /\ c.sent < MaxSent
    /\ c' = Sent(c)
    /\ UNCHANGED <<kind, p, io, disp, peer, wire>>

\* By a game rule, by an administrator, or by another login of the character,
\* whose onRecvFirstMessage runs on the thread of the io_service.
Kick ==
    /\ disp = "idle" \/ io = "loop"
    /\ LockFree /\ p.player = "attached" /\ p.acceptPackets
    /\ c' \in {Disconnected(c), Refused(c)}
    /\ UNCHANGED <<kind, p, io, disp, peer, wire>>

\* connect of the protocol that closed this one.
TakenOver ==
    /\ disp = "idle" /\ p.player = "attached" /\ p.acceptPackets /\ c.state = "closed"
    /\ p' = [p EXCEPT !.player = "none"]
    /\ UNCHANGED <<kind, c, io, disp, peer, wire>>

-----------------------------------------------------------------------------

Handler ==
    \/ HandleProxy \/ HandleHeader \/ parsePacket \/ FinishPacket
    \/ HandleTimeout \/ internalWorker \/ Seal \/ onWriteOperation

Task ==
    \/ \E i \in DOMAIN c.tasks :
          \/ sendLoginChallenge(i) \/ getCharacterList(i)
          \/ loginRefused(i) \/ loginPlaced(i) \/ loginConnects(i)
          \/ parse(i) \/ release(i) \/ Expire(i)
    \/ Resume \/ connect \/ lateDisconnect

Next ==
    \/ Accept \/ Handler \/ Task
    \/ ReadCompletes \/ ReadFails \/ WriteCompletes \/ ReadTimerEnds \/ WriteTimerEnds
    \/ PeerStalls \/ PeerGoes
    \/ sendAll \/ Kick \/ TakenOver

\* Both threads go on, timers end, and TCP reports a lost client and delivers to
\* one that reads.  No client has to send, and the game has to do nothing.
Fairness ==
    /\ WF_vars(Handler) /\ WF_vars(Task)
    /\ WF_vars(ReadFails) /\ WF_vars(WriteCompletes)
    /\ WF_vars(ReadTimerEnds) /\ WF_vars(WriteTimerEnds)

Spec == Init /\ [][Next]_vars /\ Fairness

-----------------------------------------------------------------------------
(* Properties. *)

\* Each message of the server's own is sent at most once: the challenge, a
\* refusal, a kick; and everything else is of its type.
TypeOK ==
    /\ kind \in {"none", "game", "login"} /\ io \in {"loop", "sealing", "posted"}
    /\ disp \in {"idle", "parsing"} /\ peer \in {"active", "stalled", "gone"}
    /\ c.state \in {"open", "identifying", "readings", "closed"}
    /\ c.sent \in 0 .. MaxSent + 2
    /\ \A i \in DOMAIN c.queue : c.queue[i] \in 1 .. c.sent
    /\ \A i \in DOMAIN c.reads : c.reads[i] \in ReadOps
    /\ \A i \in DOMAIN c.ready :
          c.ready[i].op \in ReadOps \cup {"worker", "write", "timeout"}
    /\ c.due \subseteq {"connect", "disconnect"}
    /\ p.player \in {"none", "attached"}
    /\ p.released \in {"no", "yes", "expired"}

Completions(ops) == [op : ops, ok : BOOLEAN]
Ones(condition) == IF condition THEN 1 ELSE 0

\* m_msg, the one buffer for input, belongs to one reader at a time: a read, its
\* handler, or the task that parses it (skipReadingNextPacket and resumeWork hand
\* it over); and an open connection always has one, so that it is never deaf.
OneReader ==
    LET readers == Len(c.reads) + Count(c.ready, Completions(ReadOps))
                   + Count(c.tasks, {"packet"}) + Ones(disp = "parsing")
    IN /\ readers <= 1
       /\ kind # "none" /\ c.state # "closed" => readers = 1

\* Messages are queued exactly while one of internalWorker, onSendMessage,
\* async_write and onWriteOperation is on its way for the first of them, so none is
\* written twice at a time and none is forgotten.
OneWriter ==
    Count(c.ready, Completions({"worker", "write"}))
    + Len(c.writes) + Ones(io = "sealing") = Ones(c.queue # <<>>)

\* Each of the two buffers has its one user, whoever closes, sends or parses.
BuffersOwned == TypeOK /\ OneReader /\ OneWriter

\* onSendMessage, which numbers and encrypts in place and without the lock, gets
\* every accepted message once and in order, and nothing is delivered before.
SealedInOrder ==
    /\ wire.sealed = [i \in DOMAIN wire.sealed |-> i]
    /\ wire.delivered <= Len(wire.sealed) /\ Len(wire.sealed) <= c.sent

\* close(false), which is how the game ends a connection, lets the queue drain: in
\* it and after it the socket closes only when every message accepted was
\* delivered, unless the client is gone.
SoftCloseFlushes ==
    [][c.sock /\ ~c'.sock /\ (c.state = "closed" \/ Task \/ Kick) =>
          wire.delivered = c.sent \/ peer = "gone"]_vars

\* However a client stops sending, also while its last packet waits for the
\* dispatcher, some read timer is left to close the connection.
SilentClientDropped == kind # "none" ~> c.state = "closed"

\* A closed connection gives its socket back, unless its client keeps it open
\* and reads nothing: after a soft close, no timeout closes it.
SocketFreed == c.state = "closed" ~> ~c.sock \/ ~Alive \/ peer = "stalled"

\* The protocol of a closed connection is released, unless the dispatcher was so
\* late that the event expired.
ReleasedInTheEnd ==
    c.state = "closed" /\ c.protocol ~> p.released # "no"

\* A protocol that has been released keeps no player: nobody would detach it.
NoGhost == p.released = "yes" => p.player # "attached"
=============================================================================
