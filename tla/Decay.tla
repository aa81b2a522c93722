------------------------------- MODULE Decay -------------------------------
(***************************************************************************)
(* Items that decay: class Decay (items/decay/decay.cpp), which keeps them *)
(* in a map ordered by the time they end and one timer for the first of    *)
(* them, with what a transformation does to an item (items/item.cpp,       *)
(* game/game.cpp).  All of it runs on the dispatcher, one call a step.     *)
(* Transformations into an item of another class, which make a new object, *)
(* and what scripts do when an item decays are left out.                   *)
(***************************************************************************)
EXTENDS Lists

CONSTANTS
    Items,
    Type,      \* the kinds of items: [time, decayTo, stopTime], and into: what
               \* they are made when put on, taken off, lit or put out
    Made,      \* the kinds that are made and put into the world
    Never,     \* -1 as a decayTo; cast to an id, one that getItemType answers
               \* with the first, empty entry
    Vanish,    \* 0 as a decayTo
    Unset,      \* an attribute or a timer that is not there
    MinTicks,  \* SCHEDULER_MINTICKS
    MaxTime    \* bound of the clock

Kinds == DOMAIN Type
MaxLife == Max({Type[k].time : k \in Kinds} \cup {1})
Stamps == 0..(MaxTime + MaxLife)

\* What has a time and nothing to decay to: a few rings and fires.
Lasting(k) == Type[k].time > 0 /\ Type[k].decayTo = Never

\* Of items.xml: no kind with a time and stopTime has another to decay to, none decays to
\* itself, and what lasts is made of nothing but what lasts.
ASSUME DecayAssumption ==
    /\ IsFiniteSet(Kinds) /\ Made \subseteq Kinds \ {Never} /\ Never \in Kinds /\ Vanish \notin Kinds
    /\ Unset \notin Kinds \cup Nat /\ Unset \notin {"true", "pending", "stopping", "false"}
    /\ Type \in [Kinds -> [time : Nat, decayTo : Kinds \cup {Vanish},
                         stopTime : BOOLEAN, into : SUBSET Kinds]]
    /\ Type[Never] = [time |-> 0, decayTo |-> Never, stopTime |-> FALSE, into |-> {}]
    /\ \A k \in Kinds :
          /\ Type[k].stopTime => Type[k].time = 0 \/ Type[k].decayTo \in {Never, Vanish}
          /\ Type[k].time > 0 => Type[k].decayTo # k
          /\ ~Lasting(k) => \A to \in (Type[k].into \cup {Type[k].decayTo}) \cap Kinds : ~Lasting(to)
    /\ MaxTime \in Nat /\ MinTicks \in Nat \ {0}

VARIABLES
    now,    \* OTSYS_TIME()
    decay   \* item: the items and their attributes; map: decayMap; event: when the
            \* event that eventId names is due; strays: when others, forgotten, are

decayVars == <<now, decay>>

Nowhere == [kind |-> Unset, state |-> Unset, duration |-> Unset, stamp |-> Unset]

DecayInit ==
    /\ now = 0
    /\ decay = [item |-> [i \in Items |-> Nowhere], map |-> [t \in Stamps |-> <<>>],
                event |-> Unset, strays |-> {}]

canDecay(f) == f.kind # Unset /\ Type[f.kind].decayTo # Never /\ Type[f.kind].time > 0

\* getDuration, with a missing attribute read as 0.
Duration(f) ==
    IF f.state \in {"true", "stopping"}
    THEN IF f.stamp # Unset /\ f.stamp > now THEN f.stamp - now ELSE 0
    ELSE IF f.duration = Unset THEN 0 ELSE f.duration

Deadlines(d) == {t \in Stamps : d.map[t] # <<>>}
FirstDeadline(d) == Min(Deadlines(d))

-----------------------------------------------------------------------------
(* Stopping and starting                                                    *)

Unlisted_TheLast(d, i) ==
    [d EXCEPT !.map[d.item[i].stamp] = Front(@)]

\* The last one takes the place of i.
Unlisted(d, i) ==
    LET list == d.map[d.item[i].stamp]
        at   == CHOOSE n \in DOMAIN list : list[n] = i
    IN  [d EXCEPT !.map[d.item[i].stamp] = Front([list EXCEPT ![at] = Last(list)])]

\* An item that is listed keeps what is left to it, and its stamp.
stopDecay(d, i) ==
    LET f    == d.item[i]
        list == IF f.stamp = Unset THEN <<>> ELSE d.map[f.stamp]
    IN  CASE f.state = Unset -> d
          [] f.state # Unset /\ f.stamp = Unset -> [d EXCEPT !.item[i].state = Unset]
          [] f.state # Unset /\ i \in ToSet(list) ->
                [Unlisted(d, i) EXCEPT
                    !.item[i].state = Unset,
                    !.item[i].duration = IF f.duration = Unset THEN Unset ELSE Duration(f)]
          [] f.state # Unset /\ f.stamp # Unset /\ i \notin ToSet(list) ->
                IF Len(list) = 1 THEN d ELSE [d EXCEPT !.item[i].stamp = Unset]

Later(time) == now + Max({MinTicks, time})

Scheduled_FirstOnly(d, stamp) ==
    IF Deadlines(d) = {}
    THEN [d EXCEPT !.event = Later(stamp - now), !.strays = @ \cup ({d.event} \ {Unset})]
    ELSE d

\* A new timer when there is nothing else in the map, which leaves an old one
\* pending, or when this item is to be the first one, instead of the old one.
Scheduled(d, stamp) ==
    IF Deadlines(d) = {}
    THEN [d EXCEPT !.event = Later(stamp - now), !.strays = @ \cup ({d.event} \ {Unset})]
    ELSE IF stamp < FirstDeadline(d) THEN [d EXCEPT !.event = Later(stamp - now)]
    ELSE d

Begun(d, i) ==
    LET stamp == now + d.item[i].duration
        d1    == IF d.item[i].stamp = Unset THEN d ELSE stopDecay(d, i)
    IN  [Scheduled(d1, stamp) EXCEPT
            !.item[i].state = "true", !.item[i].stamp = stamp,
            !.map[stamp] = Append(@, i)]

\* startDecay of an item that does not decay at once.
Started(d, i) ==
    LET f == d.item[i]
    IN  IF f.state = "stopping" \/ (~canDecay(f) /\ f.state = "true") THEN stopDecay(d, i)
        ELSE IF ~canDecay(f) \/ f.state = "true" \/ f.duration = Unset THEN d
        ELSE Begun(d, i)

-----------------------------------------------------------------------------
(* Transforming and decaying                                                *)

\* Item::setID.
setID(f, kind) ==
    LET t == Type[kind]
        stops == t.time = 0 /\ ~t.stopTime /\ t.decayTo = Never
        fresh == t.time > 0 /\ (f.duration = Unset \/ ~Type[f.kind].stopTime)
    IN  [f EXCEPT !.kind = kind,
                  !.state = IF fresh THEN "pending"
                            ELSE IF stops /\ @ # Unset THEN "stopping" ELSE @,
                  !.duration = IF fresh THEN t.time ELSE IF stops THEN Unset ELSE @]

\* transformItem: what has no time left becomes at once what the new kind
\* decays to, an unknown item when that kind does not decay.
IdAfter(f, kind) ==
    IF f.state \in {"true", "pending", "stopping"} /\ Duration(f) <= 1
       /\ Type[kind].decayTo # Vanish
    THEN Type[kind].decayTo ELSE kind

transformItem(d, i, kind) ==
    IF d.item[i].kind = kind THEN d
    ELSE Started([d EXCEPT !.item[i] = setID(@, IdAfter(@, kind))], i)

\* internalRemoveItem; what is left of the object is not looked at again.
Removed(d, i) == [stopDecay(d, i) EXCEPT !.item[i] = Nowhere]

internalDecayItem(d, i) ==
    LET to == Type[d.item[i].kind].decayTo
    IN  IF to = Vanish THEN Removed(d, i) ELSE transformItem(d, i, to)

startDecay(d, i) ==
    LET f == d.item[i]
    IN  IF canDecay(f) /\ f.state \notin {"true", "stopping"} /\ f.duration = 0
        THEN internalDecayItem(d, i) ELSE Started(d, i)

\* The body of checkDecay's second loop.
Ended(d, i) ==
    LET f  == d.item[i]
        d1 == [d EXCEPT !.item[i].state = "false", !.item[i].stamp = Unset]
    IN  IF canDecay(f) THEN internalDecayItem(d1, i)
        ELSE [d1 EXCEPT !.item[i].duration = Duration(f)]

\* Those whose time has come, the first deadline first.
Due(d) ==
    LET upTo[t \in 0..now] == IF t = 0 THEN d.map[0] ELSE upTo[t - 1] \o d.map[t]
    IN  upTo[now]

Erased(d) == [d EXCEPT !.map = [t \in Stamps |-> IF t <= now THEN <<>> ELSE @[t]]]

AllEnded(d, list) ==
    LET after[n \in 0..Len(list)] == IF n = 0 THEN d ELSE Ended(after[n - 1], list[n])
    IN  after[Len(list)]

checkDecay_NotAgain(d) == AllEnded(Erased(d), Due(d))

\* The last step is a timer for the first of those that were left before anything decayed.
checkDecay(d) ==
    LET done == AllEnded(Erased(d), Due(d))
        rest == Deadlines(Erased(d))
    IN  IF rest = {} THEN done
        ELSE [done EXCEPT !.event = Later(Min(rest) - now),
                          !.strays = @ \cup ({done.event} \ {Unset})]

-----------------------------------------------------------------------------
(* Steps                                                                    *)

\* An item is made and put somewhere.
Appear(i, kind) ==
    /\ decay.item[i] = Nowhere
    /\ decay' = startDecay([decay EXCEPT !.item[i] =
          [Nowhere EXCEPT !.kind = kind,
                          !.duration = IF Type[kind].time > 0 THEN Type[kind].time ELSE Unset]], i)
    /\ UNCHANGED now

TakeAway(i) ==
    /\ decay.item[i] # Nowhere /\ decay' = Removed(decay, i) /\ UNCHANGED now

Transform(i, kind) ==
    /\ decay.item[i] # Nowhere /\ kind \in Type[decay.item[i].kind].into
    /\ decay' = transformItem(decay, i, kind) /\ UNCHANGED now

\* item:setAttribute(ITEM_ATTRIBUTE_DURATION, time).
SetDuration(i, time) ==
    /\ decay.item[i] # Nowhere
    /\ decay' = startDecay([decay EXCEPT !.item[i].state = "pending",
                                         !.item[i].duration = time], i)
    /\ UNCHANGED now

\* Its owner is saved, leaves and comes back: serializeAttr, ~Player, readAttr.
Reload(i) ==
    LET f == decay.item[i]
    IN  /\ f # Nowhere
        /\ decay' = startDecay([Removed(decay, i) EXCEPT !.item[i] =
              [Nowhere EXCEPT
                 !.kind = f.kind,
                 !.state = IF f.state \in {"true", "pending"} THEN "pending" ELSE Unset,
                 !.duration = IF f.duration = Unset THEN Unset ELSE Duration(f)]], i)
        /\ UNCHANGED now

\* A timer runs out; the dispatcher may be late.
TimerFires ==
    /\ \E t \in ({decay.event} \ {Unset}) \cup decay.strays :
          /\ t <= now
          /\ \/ t = decay.event /\ decay' = checkDecay([decay EXCEPT !.event = Unset])
             \/ t \in decay.strays /\ decay' = checkDecay([decay EXCEPT !.strays = @ \ {t}])
    /\ UNCHANGED now

ClockTicks == now < MaxTime /\ now' = now + 1 /\ UNCHANGED decay

DecayNext ==
    \/ \E i \in Items :
          \/ TakeAway(i) \/ Reload(i)
          \/ \E kind \in Made : Appear(i, kind)
          \/ \E kind \in Kinds : Transform(i, kind)
          \/ \E time \in {0, 1} : SetDuration(i, time)
    \/ TimerFires \/ ClockTicks

DecaySpec == DecayInit /\ [][DecayNext]_decayVars

-----------------------------------------------------------------------------
(* Properties *)

DecayTypeOK ==
    /\ now \in 0..MaxTime
    /\ decay.map \in [Stamps -> Seq(Items)]
    /\ decay.event \in Nat \cup {Unset} /\ decay.strays \subseteq Nat
    /\ decay.item \in [Items ->
          [kind : Kinds \cup {Unset}, state : {Unset, "true", "pending", "stopping", "false"},
           duration : {Unset} \cup 0..MaxLife, stamp : Stamps \cup {Unset}]]

\* An item that says it is decaying is in the map, once and at the time it says,
\* and no other item is: so it ends once, however it was transformed, removed,
\* loaded again or set by a script before.
DecayingIsListed ==
    /\ DecayTypeOK
    /\ \A i \in Items, t \in Stamps :
          Cardinality({n \in DOMAIN decay.map[t] : decay.map[t][n] = i})
          = IF decay.item[i].state = "true" /\ decay.item[i].stamp = t THEN 1 ELSE 0

\* There is a timer for the first of them, whichever was started, stopped or
\* has ended in the meantime.
NeverLate ==
    Deadlines(decay) # {} =>
        \E t \in {decay.event} \cup decay.strays : t # Unset /\ t <= FirstDeadline(decay) + MinTicks

\* What decays is listed, and something will look at the list in time.
DecaysInTime == DecayingIsListed /\ NeverLate
=============================================================================
