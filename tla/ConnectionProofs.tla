-------------------------- MODULE ConnectionProofs -------------------------
(***************************************************************************)
(* Safety of a client's connection, for any number of callers, sockets,    *)
(* calls and pushes.                                                       *)
(***************************************************************************)
EXTENDS BedConnection, SequenceTheorems, TLAPS

LEMMA Constants ==
    /\ Socket \subseteq Nat /\ None \notin Socket /\ None \notin Actor
    /\ Loop \in Actor /\ Report \in Actor /\ Loop # Report /\ Caller \subseteq Actor
    /\ \A c \in Caller : c # Loop /\ c # Report
BY ConnectionAssumption DEF Socket, Actor

\* The coroutines beside the loop.
Task == Caller \cup {Report}

---------------------------------------------------------------------------
(***************************************************************************)
(* The states of a coroutine.  It has only ever been given its own reply.  *)
(***************************************************************************)
OwnState == {t \in ActorState : t.own}

Typed == TypeOK /\ OwnReply

LEMMA TypedStates == Typed => actor \in [Actor -> OwnState]
BY DEF Typed, TypeOK, OwnReply, OwnState

\* A coroutine in a new place, with the socket it uses from there on.
Placed(t, place, s) == [t EXCEPT !.at = place, !.socket = s]

Places == {"idle", "dial", "sent", "recv", "failed", "ensure", "reporting", "awaiting",
           "closing", "top", "redial", "read", "probe"}

LEMMA PlacedFields ==
    ASSUME NEW t \in OwnState, NEW place \in Places, NEW s \in Socket \cup {None}
    PROVE  LET u == Placed(t, place, s)
           IN  /\ u \in OwnState /\ u.at = place /\ u.socket = s
               /\ u.op = t.op /\ u.n = t.n /\ u.id = t.id
BY DEF OwnState, ActorState, Placed, Places

LEMMA EndedFields ==
    ASSUME NEW t \in OwnState
    PROVE  /\ Ended(t) \in OwnState /\ Ended(t).at = "idle" /\ Ended(t).op = "call"
           /\ Ended(t).socket = None /\ Ended(t).n = t.n
BY DEF OwnState, ActorState, Ended, Op

LEMMA AtTopFields ==
    ASSUME NEW t \in OwnState
    PROVE  /\ AtTop(t) \in OwnState /\ AtTop(t).at = "top" /\ AtTop(t).op = "call"
           /\ AtTop(t).socket = None /\ AtTop(t).n = t.n
BY DEF OwnState, ActorState, AtTop, Op

LEMMA AskedFields ==
    ASSUME Typed, NEW t \in OwnState, NEW op \in Op
    PROVE  /\ Asked(t, op) \in OwnState /\ Asked(t, op).at = "lock" /\ Asked(t, op).op = op
           /\ Asked(t, op).socket = None /\ t.n \in Nat /\ Asked(t, op).n = t.n + 1
           /\ ids \in Nat /\ Asked(t, op).id = ids + 1
<1> DEFINE next == t.n + 1
           id == ids + 1
<1>1. t.n \in Nat /\ next \in Nat /\ ids \in Nat /\ id \in Nat
    BY DEF OwnState, ActorState, Typed, TypeOK
<1>2. Asked(t, op) = [t EXCEPT !.at = "lock", !.op = op, !.n = next, !.id = id, !.socket = None]
    BY DEF Asked, NextId, OwnState, ActorState
<1> HIDE DEF next, id
<1>3. /\ Asked(t, op) \in OwnState /\ Asked(t, op).at = "lock" /\ Asked(t, op).op = op
      /\ Asked(t, op).socket = None /\ Asked(t, op).n = next /\ Asked(t, op).id = id
    BY <1>1, <1>2 DEF OwnState, ActorState
<1> QED
    BY <1>1, <1>3 DEF next, id

\* One coroutine becomes t.
Becomes(a, t) ==
    /\ actor' \in [Actor -> OwnState]
    /\ actor'[a] = t
    /\ \A b \in Actor : b # a => actor'[b] = actor[b]

LEMMA OneBecomes ==
    ASSUME Typed, NEW a \in Actor, NEW t \in OwnState, actor' = [actor EXCEPT ![a] = t]
    PROVE  Becomes(a, t)
BY TypedStates DEF Becomes

\* A task becomes t and the loop becomes u.
BothBecome(c, t, u) ==
    /\ actor' \in [Actor -> OwnState]
    /\ actor'[c] = t /\ actor'[Loop] = u
    /\ \A b \in Actor : (b # c /\ b # Loop) => actor'[b] = actor[b]

LEMMA TwoBecome ==
    ASSUME Typed, NEW c \in Task, NEW t \in OwnState, NEW u \in OwnState,
           actor' = [actor EXCEPT ![c] = t, ![Loop] = u]
    PROVE  BothBecome(c, t, u)
BY TypedStates, Constants DEF BothBecome, Task

LEMMA TypedAfter ==
    ASSUME actor' \in [Actor -> OwnState],
           ws' \in Socket \cup {None}, lock' \in Actor \cup {None}, ids' \in Nat,
           client' \in [subscribed : BOOLEAN, handler : BOOLEAN, hooked : BOOLEAN],
           sock' \in [Socket -> {"unused", "open", "closed"}],
           inbox' \in [Socket -> Seq(Message)],
           reader' \in [Socket -> Actor \cup {None}],
           requests' \subseteq [socket : Socket, id : Nat, by : Actor, n : Nat, op : Op],
           subs' \subseteq Socket, pushes' \in 0 .. MaxPushes, stopping' \in BOOLEAN,
           redialed' \subseteq Socket, reported' \subseteq Socket, refused' \subseteq Socket,
           closed' \in {"no", "closing", "closed"}
    PROVE  Typed'
<1>1. actor' \in [Actor -> ActorState] /\ \A a \in Actor : actor'[a].own
    BY DEF OwnState
<1> QED
    BY <1>1 DEF Typed, TypeOK, OwnReply

---------------------------------------------------------------------------
(***************************************************************************)
(* The steps, by what they leave of each coroutine.                        *)
(***************************************************************************)
LEMMA NewSocketFacts ==
    ASSUME CanDial
    PROVE  NewSocket \in Socket /\ sock[NewSocket] = "unused"
BY DEF CanDial, NewSocket

LEMMA OpenedFacts ==
    ASSUME Typed, NEW a, Opened(a)
    PROVE  /\ NewSocket \in Socket /\ sock[NewSocket] = "unused"
           /\ sock' \in [Socket -> {"unused", "open", "closed"}]
           /\ sock'[NewSocket] = "open"
           /\ \A s \in Socket : s # NewSocket => sock'[s] = sock[s]
           /\ redialed' \subseteq Socket
           /\ redialed' = IF a = Loop THEN redialed \cup {NewSocket} ELSE redialed
           /\ reported' \subseteq Socket
           /\ reported' = IF a = Report THEN reported \cup {NewSocket} ELSE reported
<1>1. NewSocket \in Socket /\ sock[NewSocket] = "unused"
    BY NewSocketFacts DEF Opened
<1> HIDE DEF NewSocket
<1> QED
    BY <1>1 DEF Opened, Typed, TypeOK

LEMMA ShutFacts ==
    ASSUME Typed, NEW s \in Socket \cup {None}, Shut(s)
    PROVE  /\ sock' \in [Socket -> {"unused", "open", "closed"}]
           /\ s # None => sock'[s] = "closed"
           /\ \A x \in Socket : x # s => sock'[x] = sock[x]
           /\ requests' = {r \in requests : r.socket # s}
           /\ requests' \subseteq [socket : Socket, id : Nat, by : Actor, n : Nat, op : Op]
           /\ subs' = subs \ {s} /\ subs' \subseteq Socket
BY Constants DEF Shut, Typed, TypeOK

LEMMA UnreadType ==
    ASSUME Typed, NEW left
    PROVE  Unread(left) \in [Socket -> Actor \cup {None}]
BY DEF Typed, TypeOK, Unread

\* The loop is stopped, by a task that becomes t or by itself.
LEMMA Stopping ==
    ASSUME Typed, NEW a \in Actor, NEW t \in OwnState, a = Loop => ~stopping,
           actor' = StoppedLoop([actor EXCEPT ![a] = t])
    PROVE  /\ stopping => Becomes(a, t)
           /\ ~stopping /\ a # Loop => BothBecome(a, t, Ended(actor[Loop]))
           /\ a = Loop => Becomes(Loop, Ended(t))
<1>1. Loop \in Actor /\ actor[Loop] \in OwnState
    BY TypedStates, Constants
<1> DEFINE states == [actor EXCEPT ![a] = t]
<1>2. /\ states \in [Actor -> OwnState] /\ states[a] = t
      /\ \A b \in Actor : b # a => states[b] = actor[b]
    BY TypedStates
<1> HIDE DEF states
<1>3. actor' = [b \in Actor |-> IF b \in Stoppable THEN Ended(states[b]) ELSE states[b]]
    BY DEF StoppedLoop, states
<1>4. CASE stopping
    <2>1. actor' = states
        BY <1>2, <1>3, <1>4 DEF Stoppable
    <2> QED
        BY <1>2, <1>4, <2>1 DEF Becomes
<1>5. CASE ~stopping
    <2>1. Stoppable = {Loop} /\ Ended(states[Loop]) \in OwnState
        BY <1>1, <1>2, <1>5, EndedFields DEF Stoppable
    <2>2. /\ actor' \in [Actor -> OwnState] /\ actor'[Loop] = Ended(states[Loop])
          /\ \A b \in Actor : b # Loop => actor'[b] = states[b]
        BY <1>1, <1>2, <1>3, <2>1
    <2> QED
        BY <1>1, <1>2, <1>5, <2>2 DEF Becomes, BothBecome
<1> QED
    BY <1>4, <1>5

\* A coroutine that goes to the lock has a new id, and keeps it within send().
Named(a, place) ==
    /\ place = "lock" => actor'[a].id = ids + 1
    /\ place \in {"dial", "sent", "recv", "failed"} => actor'[a].id = actor[a].id

\* A coroutine goes to a place, and the others stay where they are.
Goes(a, place, op, n, s) ==
    /\ actor' \in [Actor -> OwnState] /\ Named(a, place)
    /\ actor'[a].at = place /\ actor'[a].op = op /\ actor'[a].n = n /\ actor'[a].socket = s
    /\ \A b \in Actor : b # a => actor'[b] = actor[b]

\* A task goes to a place, and the loop to the top or to its end.
BothGo(c, place, op, n, loop) ==
    /\ actor' \in [Actor -> OwnState] /\ Named(c, place)
    /\ actor'[c].at = place /\ actor'[c].op = op /\ actor'[c].n = n
    /\ actor'[Loop].at = loop /\ actor'[Loop].op = "call" /\ actor'[Loop].n = actor[Loop].n
    /\ \A b \in Actor : (b # c /\ b # Loop) => actor'[b] = actor[b]

LEMMA GoesPlaced ==
    ASSUME Typed, NEW a \in Actor, NEW place \in Places, NEW s \in Socket \cup {None},
           \/ actor' = [actor EXCEPT ![a].at = place, ![a].socket = s]
           \/ actor' = [actor EXCEPT ![a].at = place] /\ s = actor[a].socket
    PROVE  Goes(a, place, actor[a].op, actor[a].n, s)
<1>1. actor[a] \in OwnState
    BY TypedStates
<1>2. actor' = [actor EXCEPT ![a] = Placed(actor[a], place, s)]
    BY <1>1, TypedStates DEF Placed, OwnState, ActorState
<1>3. Placed(actor[a], place, s) \in OwnState
    BY <1>1, PlacedFields
<1>4. Becomes(a, Placed(actor[a], place, s))
    BY <1>2, <1>3, OneBecomes
<1>5. Placed(actor[a], place, s).id = actor[a].id
    BY <1>1, PlacedFields
<1>6. place # "lock"
    BY DEF Places
<1> QED
    BY <1>1, <1>4, <1>5, <1>6, PlacedFields DEF Becomes, Goes, Named

LEMMA GoesEnded ==
    ASSUME Typed, NEW a \in Actor, actor' = [actor EXCEPT ![a] = Ended(actor[a])]
    PROVE  Goes(a, "idle", "call", actor[a].n, None)
<1>1. actor[a] \in OwnState
    BY TypedStates
<1>2. Becomes(a, Ended(actor[a]))
    BY <1>1, EndedFields, OneBecomes
<1> QED
    BY <1>1, <1>2, EndedFields DEF Becomes, Goes, Named

LEMMA GoesAtTop ==
    ASSUME Typed, NEW a \in Actor, actor' = [actor EXCEPT ![a] = AtTop(actor[a])]
    PROVE  Goes(a, "top", "call", actor[a].n, None)
<1>1. actor[a] \in OwnState
    BY TypedStates
<1>2. Becomes(a, AtTop(actor[a]))
    BY <1>1, AtTopFields, OneBecomes
<1> QED
    BY <1>1, <1>2, AtTopFields DEF Becomes, Goes, Named

LEMMA GoesAsked ==
    ASSUME Typed, NEW a \in Actor, NEW op \in Op,
           actor' = [actor EXCEPT ![a] = Asked(actor[a], op)]
    PROVE  actor[a].n \in Nat /\ Goes(a, "lock", op, actor[a].n + 1, None)
<1>1. actor[a] \in OwnState
    BY TypedStates
<1>2. Becomes(a, Asked(actor[a], op))
    BY <1>1, AskedFields, OneBecomes
<1>3. actor[a].n \in Nat /\ Asked(actor[a], op).n = actor[a].n + 1
    BY <1>1, AskedFields
<1>4. actor'[a].n = actor[a].n + 1 /\ actor'[a].id = ids + 1
    BY <1>1, <1>2, <1>3, AskedFields DEF Becomes
<1> QED
    BY <1>1, <1>2, <1>3, <1>4, AskedFields DEF Becomes, Goes, Named

\* A coroutine ends, and the loop with it, unless aclose() has taken it over.
LEMMA GoesWithLoop ==
    ASSUME Typed, NEW a \in Actor, a = Loop => ~stopping,
           actor' = StoppedLoop([actor EXCEPT ![a] = Ended(actor[a])])
    PROVE  /\ stopping => Goes(a, "idle", "call", actor[a].n, None)
           /\ ~stopping /\ a # Loop => BothGo(a, "idle", "call", actor[a].n, "idle")
           /\ a = Loop => Goes(Loop, "idle", "call", actor[Loop].n, None)
<1>1. actor[a] \in OwnState /\ actor[Loop] \in OwnState
    BY TypedStates, Constants
<1>2. /\ Ended(actor[a]) \in OwnState
      /\ stopping => Becomes(a, Ended(actor[a]))
      /\ ~stopping /\ a # Loop => BothBecome(a, Ended(actor[a]), Ended(actor[Loop]))
      /\ a = Loop => Becomes(Loop, Ended(Ended(actor[a])))
    BY <1>1, EndedFields, Stopping
<1>3. /\ Ended(actor[a]).at = "idle" /\ Ended(actor[a]).op = "call"
      /\ Ended(actor[a]).n = actor[a].n /\ Ended(actor[a]).socket = None
      /\ Ended(actor[Loop]).at = "idle" /\ Ended(actor[Loop]).op = "call"
      /\ Ended(actor[Loop]).n = actor[Loop].n
    BY <1>1, EndedFields
<1>4. LET u == Ended(Ended(actor[a]))
      IN  u.at = "idle" /\ u.op = "call" /\ u.n = actor[a].n /\ u.socket = None
    BY <1>2, <1>3, EndedFields
<1>5. CASE stopping
    BY <1>2, <1>3, <1>5 DEF Becomes, Goes, Named
<1>6. CASE ~stopping /\ a # Loop
    <2>1. BothBecome(a, Ended(actor[a]), Ended(actor[Loop]))
        BY <1>2, <1>6
    <2> QED
        BY <1>3, <1>6, <2>1 DEF BothBecome, BothGo, Named
<1>7. CASE a = Loop
    <2>1. Becomes(a, Ended(Ended(actor[a])))
        BY <1>2, <1>7
    <2> QED
        BY <1>4, <1>7, <2>1 DEF Becomes, Goes, Named
<1> QED
    BY <1>5, <1>6, <1>7

\* The report may begin to probe the terminal.
ReportMayProbe ==
    \/ actor'[Report] = actor[Report]
    \/ /\ actor[Report].at = "idle" /\ actor'[Report].at = "probe"
       /\ actor'[Report].op = actor[Report].op /\ actor'[Report].n = actor[Report].n

\* A coroutine goes to a place, beside the report.
GoesBesideReport(a, place, op, n, s) ==
    /\ actor' \in [Actor -> OwnState] /\ Named(a, place) /\ ReportMayProbe
    /\ actor'[a].at = place /\ actor'[a].op = op /\ actor'[a].n = n /\ actor'[a].socket = s
    /\ \A b \in Actor : (b # a /\ b # Report) => actor'[b] = actor[b]

LEMMA BecomesBesideReport ==
    ASSUME Typed, NEW a \in Actor, a # Report, NEW t \in OwnState,
           actor' = WithReport([actor EXCEPT ![a] = t])
    PROVE  /\ actor' \in [Actor -> OwnState] /\ actor'[a] = t /\ ReportMayProbe
           /\ \A b \in Actor : (b # a /\ b # Report) => actor'[b] = actor[b]
<1>1. Report \in Actor /\ actor \in [Actor -> OwnState] /\ actor[Report] \in OwnState
    BY TypedStates, Constants
<1> DEFINE states == [actor EXCEPT ![a] = t]
<1>2. /\ states \in [Actor -> OwnState] /\ states[a] = t
      /\ \A b \in Actor : b # a => states[b] = actor[b]
    BY <1>1
<1> HIDE DEF states
<1>3. CASE At(Report, {"idle"})
    <2>1. actor' = [states EXCEPT ![Report].at = "probe"]
        BY <1>3 DEF WithReport, states
    <2>2. actor' = [states EXCEPT ![Report] = [actor[Report] EXCEPT !.at = "probe"]]
        BY <1>1, <1>2, <2>1
    <2>3. /\ [actor[Report] EXCEPT !.at = "probe"] \in OwnState
          /\ [actor[Report] EXCEPT !.at = "probe"].at = "probe"
          /\ [actor[Report] EXCEPT !.at = "probe"].op = actor[Report].op
          /\ [actor[Report] EXCEPT !.at = "probe"].n = actor[Report].n
        BY <1>1 DEF OwnState, ActorState
    <2> DEFINE u == [actor[Report] EXCEPT !.at = "probe"]
    <2> HIDE DEF u
    <2>4. /\ actor' \in [Actor -> OwnState] /\ actor'[Report] = u
          /\ \A b \in Actor : b # Report => actor'[b] = states[b]
        BY <1>1, <1>2, <2>2, <2>3 DEF u
    <2>5. ReportMayProbe
        BY <1>3, <2>3, <2>4 DEF ReportMayProbe, At, u
    <2> QED
        BY <1>2, <2>4, <2>5
<1>4. CASE ~At(Report, {"idle"})
    <2>1. actor' = states
        BY <1>4 DEF WithReport, states
    <2> QED
        BY <1>1, <1>2, <2>1 DEF ReportMayProbe
<1> QED
    BY <1>3, <1>4

LEMMA BeginFacts ==
    ASSUME Typed, NEW c \in Caller, NEW op \in {"call", "subscribe", "unsubscribe"}, Begin(c, op)
    PROVE  /\ Typed' /\ actor[c].n \in Nat /\ ids' = ids + 1
           /\ Goes(c, "lock", op, actor[c].n + 1, None)
<1>1. actor[c].n \in Nat /\ Goes(c, "lock", op, actor[c].n + 1, None)
    BY GoesAsked, Constants DEF Begin, Op
<1>2. ids' = ids + 1 /\ ids' \in Nat
    BY DEF Begin, Typed, TypeOK
<1>3. Typed'
    BY <1>1, <1>2, TypedAfter DEF Goes, Begin, Typed, TypeOK, daemonVars, dialVars
<1> QED
    BY <1>1, <1>2, <1>3

LEMMA SubmittedFacts ==
    ASSUME Typed, NEW a \in Actor, NEW s \in Socket, Submitted(a, s)
    PROVE  /\ Goes(a, "sent", actor[a].op, actor[a].n, s)
           /\ requests' = requests \cup
                {[socket |-> s, id |-> actor[a].id, by |-> a, n |-> actor[a].n, op |-> actor[a].op]}
           /\ requests' \subseteq [socket : Socket, id : Nat, by : Actor, n : Nat, op : Op]
<1>1. Goes(a, "sent", actor[a].op, actor[a].n, s)
    BY GoesPlaced DEF Submitted, Places
<1>2. actor[a].n \in Nat /\ actor[a].op \in Op /\ actor[a].id \in Nat
    BY DEF Typed, TypeOK, ActorState
<1> QED
    BY <1>1, <1>2 DEF Submitted, Typed, TypeOK

LEMMA AcquireFacts ==
    ASSUME Typed, NEW a \in Actor, Acquire(a)
    PROVE  /\ Typed'
           /\ \/ Usable /\ Submitted(a, ws) /\ ws \in Socket
              \/ /\ ~Usable /\ requests' = requests
                 /\ Goes(a, "dial", actor[a].op, actor[a].n, actor[a].socket)
<1>1. ws \in Socket \cup {None} /\ actor[a].socket \in Socket \cup {None}
    BY DEF Typed, TypeOK, ActorState
<1>2. CASE Usable /\ Submitted(a, ws)
    <2>1. ws \in Socket
        BY <1>1, <1>2 DEF Usable
    <2>2. /\ actor' \in [Actor -> OwnState]
          /\ requests' \subseteq [socket : Socket, id : Nat, by : Actor, n : Nat, op : Op]
        BY <1>2, <2>1, SubmittedFacts DEF Goes
    <2>3. Typed'
        BY <2>2, TypedAfter DEF Acquire, Typed, TypeOK, dialVars
    <2> QED
        BY <1>2, <2>1, <2>3
<1>3. CASE ~Usable /\ actor' = [actor EXCEPT ![a].at = "dial"] /\ requests' = requests
    <2>1. Goes(a, "dial", actor[a].op, actor[a].n, actor[a].socket)
        BY <1>1, <1>3, GoesPlaced DEF Places
    <2>2. Typed'
        BY <1>3, <2>1, TypedAfter DEF Acquire, Goes, Typed, TypeOK, dialVars
    <2> QED
        BY <1>3, <2>1, <2>2
<1> QED
    BY <1>2, <1>3 DEF Acquire

LEMMA DialedFacts ==
    ASSUME Typed, NEW a \in Actor, Dialed(a)
    PROVE  Typed' /\ NewSocket \in Socket /\ Opened(a) /\ Submitted(a, NewSocket)
<1>1. Opened(a) /\ Submitted(a, NewSocket) /\ NewSocket \in Socket
    BY OpenedFacts DEF Dialed
<1>2. ws' \in Socket
    BY <1>1 DEF Dialed
<1> HIDE DEF NewSocket
<1>3. /\ sock' \in [Socket -> {"unused", "open", "closed"}]
      /\ redialed' \subseteq Socket /\ reported' \subseteq Socket
      /\ requests' \subseteq [socket : Socket, id : Nat, by : Actor, n : Nat, op : Op]
      /\ actor' \in [Actor -> OwnState]
    BY <1>1, OpenedFacts, SubmittedFacts DEF Goes
<1>4. Typed'
    BY <1>2, <1>3, TypedAfter DEF Dialed, Typed, TypeOK
<1> QED
    BY <1>1, <1>4

LEMMA DialFailsFacts ==
    ASSUME Typed, NEW a \in Actor, DialFails(a)
    PROVE  /\ Typed'
           /\ a = Loop => Goes(a, "top", "call", actor[a].n, None)
           /\ a # Loop => Goes(a, "idle", "call", actor[a].n, None)
<1>1. CASE a = Loop
    <2>1. Goes(a, "top", "call", actor[a].n, None)
        BY <1>1, GoesAtTop DEF DialFails
    <2> QED
        BY <1>1, <2>1, TypedAfter DEF DialFails, Goes, Typed, TypeOK, daemonVars, dialVars
<1>2. CASE a # Loop
    <2>1. Goes(a, "idle", "call", actor[a].n, None)
        BY <1>2, GoesEnded DEF DialFails
    <2> QED
        BY <1>2, <2>1, TypedAfter DEF DialFails, Goes, Typed, TypeOK, daemonVars, dialVars
<1> QED
    BY <1>1, <1>2

LEMMA FailFacts ==
    ASSUME Typed, NEW a \in Actor, Fail(a)
    PROVE  Typed' /\ Goes(a, "failed", actor[a].op, actor[a].n, actor[a].socket)
<1>1. ws \in Socket \cup {None} /\ actor[a].socket \in Socket \cup {None}
    BY DEF Typed, TypeOK, ActorState
<1>2. Goes(a, "failed", actor[a].op, actor[a].n, actor[a].socket)
    BY <1>1, GoesPlaced DEF Fail, Places
<1>3. /\ sock' \in [Socket -> {"unused", "open", "closed"}] /\ subs' \subseteq Socket
      /\ requests' \subseteq [socket : Socket, id : Nat, by : Actor, n : Nat, op : Op]
    BY <1>1, ShutFacts DEF Fail
<1>4. reader' \in [Socket -> Actor \cup {None}]
    BY UnreadType DEF Fail
<1> QED
    BY <1>2, <1>3, <1>4, TypedAfter DEF Fail, Goes, Typed, TypeOK

LEMMA StartRecvFacts ==
    ASSUME Typed, NEW a \in Actor, StartRecv(a)
    PROVE  \/ Fail(a)
           \/ /\ Typed' /\ Goes(a, "recv", actor[a].op, actor[a].n, actor[a].socket)
              /\ UNCHANGED <<ws, lock, ids, client, stopping, dialVars, daemonVars, closed>>
<1>1. actor[a].socket \in Socket \cup {None}
    BY DEF Typed, TypeOK, ActorState
<1>2. CASE /\ reader' = [reader EXCEPT ![actor[a].socket] = a]
           /\ actor' = [actor EXCEPT ![a].at = "recv"]
           /\ UNCHANGED <<ws, lock, ids, client, stopping, dialVars, daemonVars, closed>>
    <2>1. Goes(a, "recv", actor[a].op, actor[a].n, actor[a].socket)
        BY <1>1, <1>2, GoesPlaced DEF Places
    <2>2. reader' \in [Socket -> Actor \cup {None}]
        BY <1>2 DEF Typed, TypeOK
    <2>3. Typed'
        BY <1>2, <2>1, <2>2, TypedAfter DEF Goes, Typed, TypeOK, daemonVars, dialVars
    <2> QED
        BY <1>2, <2>1, <2>3
<1> QED
    BY <1>2 DEF StartRecv

LEMMA DropSocketFacts ==
    ASSUME Typed, NEW a \in Actor, DropSocket(a), a = Loop => ~stopping
    PROVE  /\ Typed'
           /\ stopping => Goes(a, "idle", "call", actor[a].n, None)
           /\ ~stopping /\ a # Loop => BothGo(a, "idle", "call", actor[a].n, "idle")
           /\ a = Loop => Goes(Loop, "idle", "call", actor[Loop].n, None)
<1>1. /\ stopping => Goes(a, "idle", "call", actor[a].n, None)
      /\ ~stopping /\ a # Loop => BothGo(a, "idle", "call", actor[a].n, "idle")
      /\ a = Loop => Goes(Loop, "idle", "call", actor[Loop].n, None)
    BY GoesWithLoop DEF DropSocket
<1>2. actor' \in [Actor -> OwnState]
    BY <1>1 DEF BothGo, Goes
<1>3. reader' \in [Socket -> Actor \cup {None}]
    BY UnreadType DEF DropSocket
<1>4. Typed'
    BY <1>2, <1>3, TypedAfter
       DEF DropSocket, LockAfterFail, Typed, TypeOK, daemonVars, dialVars
<1> QED
    BY <1>1, <1>4

---------------------------------------------------------------------------
(***************************************************************************)
(* The replies that were sent over a socket and not read.                  *)
(***************************************************************************)
IsOf(m, x) == m.id = RequestId(x.id) /\ m.to = x.to /\ m.n = x.n

Arrived == {x \in [socket : Socket, id : Nat, to : Actor \cup {None}, n : Nat] :
    \E i \in DOMAIN inbox[x.socket] : IsOf(inbox[x.socket][i], x)}

LEMMA HeadArrived ==
    ASSUME Typed, NEW s \in Socket, inbox[s] # <<>>, NEW a \in Actor, Matches(a, Head(inbox[s]))
    PROVE  LET m == Head(inbox[s])
           IN  [socket |-> s, id |-> actor[a].id, to |-> m.to, n |-> m.n] \in Arrived
<1>1. inbox[s] \in Seq(Message) /\ actor[a].id \in Nat
    BY DEF Typed, TypeOK, ActorState
<1>2. /\ 1 \in DOMAIN inbox[s] /\ Head(inbox[s]) = inbox[s][1]
      /\ Head(inbox[s]) \in Message
    BY <1>1
<1>3. Head(inbox[s]).to \in Actor \cup {None} /\ Head(inbox[s]).n \in Nat
    BY <1>2 DEF Message
<1> DEFINE x == [socket |-> s, id |-> actor[a].id,
                 to |-> Head(inbox[s]).to, n |-> Head(inbox[s]).n]
<1>4. x \in [socket : Socket, id : Nat, to : Actor \cup {None}, n : Nat]
    BY <1>1, <1>3
<1>5. IsOf(inbox[s][1], x)
    BY <1>2 DEF IsOf, Matches
<1> QED
    BY <1>2, <1>4, <1>5 DEF Arrived

LEMMA ReadArrived ==
    ASSUME Typed, NEW s \in Socket, inbox[s] # <<>>, inbox' = [inbox EXCEPT ![s] = Tail(inbox[s])]
    PROVE  inbox' \in [Socket -> Seq(Message)] /\ Arrived' \subseteq Arrived
<1>1. inbox \in [Socket -> Seq(Message)] /\ inbox[s] \in Seq(Message)
    BY DEF Typed, TypeOK
<1>2. Tail(inbox[s]) \in Seq(Message)
    BY <1>1
<1>3. \A i \in DOMAIN Tail(inbox[s]) :
        i + 1 \in DOMAIN inbox[s] /\ Tail(inbox[s])[i] = inbox[s][i + 1]
    BY <1>1
<1>4. inbox' \in [Socket -> Seq(Message)]
    BY <1>1, <1>2
<1>5. inbox'[s] = Tail(inbox[s]) /\ \A t \in Socket : t # s => inbox'[t] = inbox[t]
    BY <1>1
<1>6. ASSUME NEW x \in [socket : Socket, id : Nat, to : Actor \cup {None}, n : Nat],
             NEW i \in DOMAIN inbox'[x.socket],
             IsOf(inbox'[x.socket][i], x)
      PROVE  \E j \in DOMAIN inbox[x.socket] : IsOf(inbox[x.socket][j], x)
    <2>1. CASE x.socket = s
        BY <1>3, <1>5, <1>6, <2>1
    <2>2. CASE x.socket # s
        BY <1>5, <1>6, <2>2
    <2> QED
        BY <2>1, <2>2
<1> QED
    BY <1>4, <1>6 DEF Arrived

LEMMA SentArrived ==
    ASSUME Typed, NEW s \in Socket, NEW m \in Message,
           inbox' = [inbox EXCEPT ![s] = Append(inbox[s], m)]
    PROVE  /\ inbox' \in [Socket -> Seq(Message)]
           /\ \A x \in Arrived' : x \in Arrived \/ (x.socket = s /\ IsOf(m, x))
<1>1. inbox \in [Socket -> Seq(Message)] /\ inbox[s] \in Seq(Message)
    BY DEF Typed, TypeOK
<1>2. Append(inbox[s], m) \in Seq(Message)
    BY <1>1
<1>3. \A i \in DOMAIN Append(inbox[s], m) :
        \/ i \in DOMAIN inbox[s] /\ Append(inbox[s], m)[i] = inbox[s][i]
        \/ Append(inbox[s], m)[i] = m
    BY <1>1
<1>4. inbox' \in [Socket -> Seq(Message)]
    BY <1>1, <1>2
<1>5. inbox'[s] = Append(inbox[s], m) /\ \A t \in Socket : t # s => inbox'[t] = inbox[t]
    BY <1>1
<1>6. ASSUME NEW x \in [socket : Socket, id : Nat, to : Actor \cup {None}, n : Nat],
             NEW i \in DOMAIN inbox'[x.socket],
             IsOf(inbox'[x.socket][i], x)
      PROVE  \/ x.socket = s /\ IsOf(m, x)
             \/ \E j \in DOMAIN inbox[x.socket] : IsOf(inbox[x.socket][j], x)
    <2>1. CASE x.socket = s
        <3>1. inbox'[x.socket] = Append(inbox[s], m) /\ i \in DOMAIN Append(inbox[s], m)
            BY <1>5, <1>6, <2>1
        <3>2. CASE Append(inbox[s], m)[i] = m
            BY <1>6, <2>1, <3>1, <3>2
        <3>3. CASE i \in DOMAIN inbox[s] /\ Append(inbox[s], m)[i] = inbox[s][i]
            BY <1>6, <2>1, <3>1, <3>3
        <3> QED
            BY <1>3, <3>1, <3>2, <3>3
    <2>2. CASE x.socket # s
        BY <1>5, <1>6, <2>2
    <2> QED
        BY <2>1, <2>2
<1>7. ASSUME NEW x \in Arrived'
      PROVE  x \in Arrived \/ (x.socket = s /\ IsOf(m, x))
    <2>1. /\ x \in [socket : Socket, id : Nat, to : Actor \cup {None}, n : Nat]
          /\ \E i \in DOMAIN inbox'[x.socket] : IsOf(inbox'[x.socket][i], x)
        BY <1>7 DEF Arrived
    <2> QED
        BY <1>6, <2>1 DEF Arrived
<1> QED
    BY <1>4, <1>7

LEMMA SameArrived == UNCHANGED inbox => Arrived' = Arrived
BY DEF Arrived

---------------------------------------------------------------------------
\* A reply that a call accepts leaves the coroutine as it was.
LEMMA AcceptedState ==
    ASSUME Typed, NEW a \in Actor, NEW m, IsReply(a, m)
    PROVE  Accepted(a, m) = actor[a]
<1>1. actor[a] \in ActorState /\ actor[a].own = TRUE
    BY DEF Typed, TypeOK, OwnReply, ActorState
<1>2. Accepted(a, m) = [actor[a] EXCEPT !.own = TRUE]
    BY <1>1 DEF Accepted
<1> QED
    BY <1>1, <1>2 DEF ActorState

\* The loop starts, with its client subscribed.
LEMMA GoesStartsLoop ==
    ASSUME Typed, NEW c \in Task, ~LoopRuns,
           \/ actor' = WithLoop(actor, c)
           \/ actor' = WithLoop([actor EXCEPT ![c] = Ended(actor[c])], c)
    PROVE  actor[c].n \in Nat /\ BothGo(c, "lock", "pending", actor[c].n + 1, "top")
<1>1. /\ c \in Actor /\ c # Loop /\ Loop \in Actor
      /\ actor[c] \in OwnState /\ actor[Loop] \in OwnState
    BY TypedStates, Constants DEF Task
<1>2. Ended(actor[c]) \in OwnState /\ Ended(actor[c]).n = actor[c].n
    BY <1>1, EndedFields
<1>3. PICK t \in OwnState : /\ t.n = actor[c].n
                            /\ actor' = [actor EXCEPT ![c] = Asked(t, "pending"),
                                                      ![Loop] = AtTop(actor[Loop])]
    <2>1. CASE actor' = WithLoop(actor, c)
        BY <1>1, <2>1, TypedStates DEF WithLoop
    <2>2. CASE actor' = WithLoop([actor EXCEPT ![c] = Ended(actor[c])], c)
        BY <1>1, <1>2, <2>2, TypedStates DEF WithLoop
    <2> QED
        BY <2>1, <2>2
<1>4. /\ Asked(t, "pending") \in OwnState /\ Asked(t, "pending").at = "lock"
      /\ Asked(t, "pending").op = "pending" /\ t.n \in Nat
      /\ Asked(t, "pending").n = t.n + 1 /\ Asked(t, "pending").id = ids + 1
    BY AskedFields DEF Op
<1>5. /\ AtTop(actor[Loop]) \in OwnState /\ AtTop(actor[Loop]).at = "top"
      /\ AtTop(actor[Loop]).op = "call" /\ AtTop(actor[Loop]).n = actor[Loop].n
    BY <1>1, AtTopFields
<1>6. BothBecome(c, Asked(t, "pending"), AtTop(actor[Loop]))
    BY <1>3, <1>4, <1>5, TwoBecome
<1>7. actor'[c].n = actor[c].n + 1 /\ actor'[c].id = ids + 1
    BY <1>3, <1>4, <1>6 DEF BothBecome
<1> QED
    BY <1>3, <1>4, <1>5, <1>6, <1>7 DEF BothBecome, BothGo, Named

\* What a call returns to: the loop starts; or has to be dialed for first; or is
\* stopped; or is left alone.
LEMMA ReturnedFacts ==
    ASSUME Typed, NEW c \in Task, NEW m, IsReply(c, m), m.ok \in BOOLEAN, Returned(c, m),
           actor[c].op = "subscribe" => ~TaskRuns
    PROVE  /\ actor' \in [Actor -> OwnState] /\ ids' \in Nat
           /\ reader' \in [Socket -> Actor \cup {None}]
           /\ \/ /\ actor[c].op = "subscribe" /\ Usable /\ client' = Subscribed
                 /\ actor[c].n \in Nat /\ ids' = ids + 1 /\ ~stopping
                 /\ BothGo(c, "lock", "pending", actor[c].n + 1, "top")
              \/ /\ actor[c].op = "subscribe" /\ ~Usable
                 /\ client' = [client EXCEPT !.handler = TRUE]
                 /\ Goes(c, "ensure", "subscribe", actor[c].n, None) /\ ids' = ids
              \/ /\ actor[c].op = "unsubscribe" /\ client.handler /\ ~stopping
                 /\ client' = [client EXCEPT !.subscribed = FALSE, !.handler = FALSE]
                 /\ BothGo(c, "idle", "call", actor[c].n, "idle") /\ ids' = ids
              \/ /\ actor[c].op = "unsubscribe" /\ (~client.handler \/ stopping)
                 /\ client' = [client EXCEPT !.subscribed = FALSE, !.handler = FALSE]
                 /\ Goes(c, "idle", "call", actor[c].n, None) /\ ids' = ids
              \/ /\ actor[c].op # "unsubscribe" /\ client' = client
                 /\ Goes(c, "idle", "call", actor[c].n, None) /\ ids' = ids
<1> DEFINE done == [actor EXCEPT ![c] = Ended(actor[c])]
<1>1. /\ c \in Actor /\ c # Loop /\ actor[c] \in OwnState /\ actor \in [Actor -> OwnState]
      /\ ids \in Nat /\ ids + 1 \in Nat
    BY TypedStates, Constants DEF Task, Typed, TypeOK
<1>2. [actor EXCEPT ![c] = Ended(Accepted(c, m))] = done
    BY <1>1, AcceptedState
<1>3. /\ Ended(actor[c]) \in OwnState /\ Ended(actor[c]).n = actor[c].n
      /\ Ended(actor[c]).socket = None
    BY <1>1, EndedFields
<1>4. CASE actor[c].op = "subscribe" /\ m.ok /\ Usable
    <2>1. /\ actor' = WithLoop(done, c) /\ client' = Subscribed /\ reader' = Unread({c})
          /\ ids' = ids + 1 /\ ~stopping
        BY <1>2, <1>4 DEF Returned
    <2>2. ~LoopRuns
        BY <1>4, <2>1 DEF TaskRuns
    <2>3. actor[c].n \in Nat /\ BothGo(c, "lock", "pending", actor[c].n + 1, "top")
        BY <2>1, <2>2, GoesStartsLoop
    <2> QED
        BY <1>1, <1>4, <2>1, <2>3, UnreadType DEF BothGo
<1>5. CASE actor[c].op = "subscribe" /\ m.ok /\ ~Usable
    <2>1. /\ actor' = [done EXCEPT ![c].at = "ensure", ![c].op = "subscribe"]
          /\ client' = [client EXCEPT !.handler = TRUE] /\ reader' = Unread({c})
          /\ ids' = ids
        BY <1>2, <1>5 DEF Returned
    <2> DEFINE t == [Ended(actor[c]) EXCEPT !.at = "ensure", !.op = "subscribe"]
    <2>2. /\ t \in OwnState /\ t.at = "ensure" /\ t.op = "subscribe"
          /\ t.n = Ended(actor[c]).n /\ t.socket = Ended(actor[c]).socket
        BY <1>3 DEF OwnState, ActorState, Op
    <2>3. actor' = [actor EXCEPT ![c] = t]
        BY <1>1, <1>3, <2>1
    <2> HIDE DEF t
    <2>4. Becomes(c, t)
        BY <1>1, <2>2, <2>3, OneBecomes
    <2>5. Goes(c, "ensure", "subscribe", actor[c].n, None)
        BY <1>3, <2>2, <2>4 DEF Becomes, Goes, Named
    <2> QED
        BY <1>1, <1>5, <2>1, <2>5, UnreadType DEF Goes
<1>6. CASE actor[c].op = "unsubscribe"
    <2>1. /\ actor' = IF client.handler THEN StoppedLoop(done) ELSE done
          /\ client' = [client EXCEPT !.subscribed = FALSE, !.handler = FALSE]
          /\ reader' = Unread({c} \cup Stoppable) /\ ids' = ids
        BY <1>2, <1>6 DEF Returned
    <2>2. reader' \in [Socket -> Actor \cup {None}]
        BY <2>1, UnreadType
    <2>3. CASE client.handler /\ ~stopping
        <3>1. BothGo(c, "idle", "call", actor[c].n, "idle")
            BY <1>1, <2>1, <2>3, GoesWithLoop
        <3> QED
            BY <1>1, <1>6, <2>1, <2>2, <2>3, <3>1 DEF BothGo
    <2>4. CASE ~client.handler \/ stopping
        <3>1. Goes(c, "idle", "call", actor[c].n, None)
            BY <1>1, <2>1, <2>4, GoesEnded, GoesWithLoop
        <3> QED
            BY <1>1, <1>6, <2>1, <2>2, <2>4, <3>1 DEF Goes
    <2> QED
        BY <2>3, <2>4
<1>7. CASE ~(actor[c].op = "subscribe" /\ m.ok) /\ actor[c].op # "unsubscribe"
    <2>1. actor' = done /\ client' = client /\ reader' = Unread({c}) /\ ids' = ids
        BY <1>2, <1>7 DEF Returned
    <2>2. Goes(c, "idle", "call", actor[c].n, None)
        BY <1>1, <2>1, GoesEnded
    <2> QED
        BY <1>1, <1>7, <2>1, <2>2, UnreadType DEF Goes
<1> QED
    BY <1>4, <1>5, <1>6, <1>7

LEMMA ReceiveFacts ==
    ASSUME Typed, NEW a \in Actor, actor[a].socket \in Socket, Receive(a),
           actor[a].op = "subscribe" /\ a # Loop => ~TaskRuns,
           LET m == Head(inbox[actor[a].socket]) IN Matches(a, m) => IsReply(a, m)
    PROVE  /\ Typed' /\ Arrived' \subseteq Arrived
           /\ UNCHANGED <<ws, sock, requests, subs, pushes, stopping, redialed, reported,
                          refused, closed>>
           /\ \/ /\ UNCHANGED <<lock, ids, client>>
                 /\ Goes(a, "sent", actor[a].op, actor[a].n, actor[a].socket)
              \/ /\ lock' = None
                 /\ [socket |-> actor[a].socket, id |-> actor[a].id, to |-> a,
                     n |-> actor[a].n] \in Arrived
                 /\ a # Loop => \E m : IsReply(a, m) /\ m.ok \in BOOLEAN /\ Returned(a, m)
                 /\ a = Loop => /\ Goes(Loop, "top", "call", actor[Loop].n, None)
                                /\ UNCHANGED <<ids, client>>
<1> DEFINE s == actor[a].socket
           m == Head(inbox[s])
<1>1. /\ s \in Socket /\ inbox[s] # <<>> /\ inbox' = [inbox EXCEPT ![s] = Tail(inbox[s])]
      /\ UNCHANGED <<ws, sock, requests, subs, pushes, stopping, redialed, reported,
                     refused, closed>>
      /\ Matches(a, m) => IsReply(a, m)
    BY DEF Receive, dialVars
<1>2. inbox' \in [Socket -> Seq(Message)] /\ Arrived' \subseteq Arrived
    BY <1>1, ReadArrived
<1>3. m \in Message
    <2>1. inbox[s] \in Seq(Message)
        BY <1>1 DEF Typed, TypeOK
    <2> QED
        BY <1>1, <2>1
<1>4. ASSUME actor' \in [Actor -> OwnState], reader' \in [Socket -> Actor \cup {None}],
             lock' \in Actor \cup {None}, ids' \in Nat,
             client' \in [subscribed : BOOLEAN, handler : BOOLEAN, hooked : BOOLEAN]
      PROVE  Typed'
    BY <1>1, <1>2, <1>4, TypedAfter DEF Typed, TypeOK
<1>5. /\ lock \in Actor \cup {None} /\ Unread({a}) \in [Socket -> Actor \cup {None}]
      /\ ids \in Nat
      /\ client \in [subscribed : BOOLEAN, handler : BOOLEAN, hooked : BOOLEAN]
    BY UnreadType DEF Typed, TypeOK
<1>6. CASE /\ actor' = [actor EXCEPT ![a].at = "sent"] /\ reader' = Unread({a})
           /\ UNCHANGED <<lock, ids, client>>
    <2>1. Goes(a, "sent", actor[a].op, actor[a].n, s)
        BY <1>1, <1>6, GoesPlaced DEF Places
    <2>2. Typed'
        BY <1>4, <1>5, <1>6, <2>1 DEF Goes
    <2> QED
        BY <1>1, <1>2, <1>6, <2>1, <2>2
<1>7. ASSUME Matches(a, m)
      PROVE  [socket |-> s, id |-> actor[a].id, to |-> a, n |-> actor[a].n] \in Arrived
    <2>1. m.to = a /\ m.n = actor[a].n
        BY <1>1, <1>7 DEF IsReply
    <2>2. [socket |-> s, id |-> actor[a].id, to |-> m.to, n |-> m.n] \in Arrived
        BY <1>1, <1>7, HeadArrived
    <2> QED
        BY <2>1, <2>2
<1>8. CASE Matches(a, m) /\ a # Loop /\ lock' = None /\ Returned(a, m)
    <2>1. a \in Task
        BY <1>8 DEF Actor, Task
    <2>2. m.ok \in BOOLEAN /\ IsReply(a, m)
        BY <1>1, <1>3, <1>8 DEF Message
    <2>3. actor' \in [Actor -> OwnState] /\ reader' \in [Socket -> Actor \cup {None}] /\ ids' \in Nat
        BY <1>8, <2>1, <2>2, ReturnedFacts
    <2>4. client' \in [subscribed : BOOLEAN, handler : BOOLEAN, hooked : BOOLEAN]
        <3>1. \/ client' = Subscribed \/ client' = client
              \/ client' = [client EXCEPT !.handler = TRUE]
              \/ client' = [client EXCEPT !.subscribed = FALSE, !.handler = FALSE]
            BY <1>8, <2>1, <2>2, ReturnedFacts
        <3> DEFINE Client == [subscribed : BOOLEAN, handler : BOOLEAN, hooked : BOOLEAN]
        <3>2. Subscribed \in Client
            BY DEF Subscribed
        <3>3. [client EXCEPT !.handler = TRUE] \in Client
            BY <1>5
        <3>4. [client EXCEPT !.subscribed = FALSE, !.handler = FALSE] \in Client
            BY <1>5
        <3> QED
            BY <1>5, <3>1, <3>2, <3>3, <3>4
    <2>5. Typed'
        BY <1>4, <1>8, <2>3, <2>4
    <2> HIDE DEF m
    <2> QED
        BY <1>1, <1>2, <1>7, <1>8, <2>2, <2>5
<1>9. CASE /\ Matches(a, m) /\ a = Loop /\ lock' = None /\ UNCHANGED <<ids, client>>
           /\ actor' = [actor EXCEPT ![Loop] = AtTop(Accepted(Loop, m))]
           /\ reader' = Unread({Loop})
    <2>1. Accepted(Loop, m) = actor[Loop]
        BY <1>1, <1>9, AcceptedState
    <2>2. Goes(Loop, "top", "call", actor[Loop].n, None)
        BY <1>9, <2>1, GoesAtTop
    <2>3. Typed'
        BY <1>4, <1>5, <1>9, <2>2 DEF Goes
    <2> QED
        BY <1>1, <1>2, <1>7, <1>9, <2>2, <2>3
<1> QED
    BY <1>6, <1>8, <1>9 DEF Receive

LEMMA EnsureDialedFacts ==
    ASSUME Typed, NEW c \in Caller, EnsureDialed(c)
    PROVE  /\ Typed' /\ Opened(c) /\ ws' = NewSocket
           /\ GoesBesideReport(c, "reporting", actor[c].op, actor[c].n, actor[c].socket)
<1> DEFINE t == [actor[c] EXCEPT !.at = "reporting"]
<1>1. c \in Actor /\ c # Report /\ actor[c] \in OwnState /\ actor \in [Actor -> OwnState]
    BY TypedStates, Constants
<1>2. /\ t \in OwnState /\ t.at = "reporting" /\ t.op = actor[c].op /\ t.n = actor[c].n
      /\ t.socket = actor[c].socket
    BY <1>1 DEF OwnState, ActorState
<1>3. [actor EXCEPT ![c].at = "reporting"] = [actor EXCEPT ![c] = t]
    BY <1>1
<1> HIDE DEF t
<1>4. actor' = WithReport([actor EXCEPT ![c] = t])
    BY <1>3 DEF EnsureDialed
<1>5. GoesBesideReport(c, "reporting", actor[c].op, actor[c].n, actor[c].socket)
    BY <1>1, <1>2, <1>4, BecomesBesideReport DEF GoesBesideReport, Named
<1>6. /\ sock' \in [Socket -> {"unused", "open", "closed"}]
      /\ redialed' \subseteq Socket /\ reported' \subseteq Socket /\ NewSocket \in Socket
    BY OpenedFacts DEF EnsureDialed
<1>7. ws' \in Socket /\ actor' \in [Actor -> OwnState]
    BY <1>5, <1>6 DEF EnsureDialed, GoesBesideReport
<1>8. Typed'
    BY <1>6, <1>7, TypedAfter DEF EnsureDialed, Typed, TypeOK, daemonVars
<1> QED
    BY <1>5, <1>8 DEF EnsureDialed

LEMMA EnsureReportedFacts ==
    ASSUME Typed, NEW c \in Caller, ~LoopRuns, EnsureReported(c)
    PROVE  /\ Typed' /\ actor[c].n \in Nat /\ ids' = ids + 1
           /\ BothGo(c, "lock", "pending", actor[c].n + 1, "top")
<1>1. actor[c].n \in Nat /\ BothGo(c, "lock", "pending", actor[c].n + 1, "top")
    BY GoesStartsLoop DEF EnsureReported, Task
<1>2. client' \in [subscribed : BOOLEAN, handler : BOOLEAN, hooked : BOOLEAN]
    BY DEF EnsureReported, Subscribed
<1>3. ids' = ids + 1 /\ ids' \in Nat
    BY DEF EnsureReported, Typed, TypeOK
<1>4. Typed'
    BY <1>1, <1>2, <1>3, TypedAfter
       DEF EnsureReported, BothGo, Typed, TypeOK, daemonVars, dialVars
<1> QED
    BY <1>1, <1>3, <1>4

LEMMA EnsureFailsFacts ==
    ASSUME Typed, NEW c \in Caller, EnsureFails(c)
    PROVE  Typed' /\ Goes(c, "idle", "call", actor[c].n, None)
<1>1. Goes(c, "idle", "call", actor[c].n, None)
    BY GoesEnded, Constants DEF EnsureFails
<1> QED
    BY <1>1, TypedAfter DEF EnsureFails, Goes, Typed, TypeOK, daemonVars, dialVars

\* The report.
LEMMA ProbedFacts ==
    ASSUME Typed, Probed
    PROVE  /\ Typed' /\ actor[Report].n \in Nat /\ ids' = ids + 1
           /\ Goes(Report, "lock", "call", actor[Report].n + 1, None)
<1>1. actor[Report].n \in Nat /\ Goes(Report, "lock", "call", actor[Report].n + 1, None)
    BY GoesAsked, Constants DEF Probed, Op
<1>2. ids' = ids + 1 /\ ids' \in Nat
    BY DEF Probed, Typed, TypeOK
<1>3. Typed'
    BY <1>1, <1>2, TypedAfter DEF Goes, Probed, Typed, TypeOK, daemonVars, dialVars
<1> QED
    BY <1>1, <1>2, <1>3

LEMMA ReportSkippedFacts ==
    ASSUME Typed, ReportSkipped
    PROVE  Typed' /\ Goes(Report, "idle", "call", actor[Report].n, None)
<1>1. Goes(Report, "idle", "call", actor[Report].n, None)
    BY GoesEnded, Constants DEF ReportSkipped
<1> QED
    BY <1>1, TypedAfter DEF ReportSkipped, Goes, Typed, TypeOK, daemonVars, dialVars

\* The steps of the loop.
LEMMA LoopTopFacts ==
    ASSUME Typed, LoopTop
    PROVE  /\ Typed'
           /\ \/ ~Usable /\ ws' = ws /\ Goes(Loop, "redial", actor[Loop].op, actor[Loop].n, actor[Loop].socket)
              \/ Usable /\ ws' = ws /\ Goes(Loop, "read", actor[Loop].op, actor[Loop].n, ws)
              \/ ws' = None /\ actor' = actor
<1>1. /\ Loop \in Actor /\ ws \in Socket \cup {None} /\ actor[Loop].socket \in Socket \cup {None}
      /\ actor \in [Actor -> OwnState] /\ reader \in [Socket -> Actor \cup {None}]
    BY Constants, TypedStates DEF Typed, TypeOK, ActorState
<1>2. ASSUME actor' \in [Actor -> OwnState], reader' \in [Socket -> Actor \cup {None}],
             ws' \in Socket \cup {None}
      PROVE  Typed'
    BY <1>2, TypedAfter DEF LoopTop, Typed, TypeOK, daemonVars, dialVars
<1>3. CASE ~Usable /\ actor' = [actor EXCEPT ![Loop].at = "redial"] /\ UNCHANGED <<ws, reader>>
    <2>1. Goes(Loop, "redial", actor[Loop].op, actor[Loop].n, actor[Loop].socket)
        BY <1>1, <1>3, GoesPlaced DEF Places
    <2>2. Typed'
        BY <1>1, <1>2, <1>3, <2>1 DEF Goes
    <2> QED
        BY <1>3, <2>1, <2>2
<1>4. CASE /\ Usable /\ reader' = [reader EXCEPT ![ws] = Loop] /\ UNCHANGED ws
           /\ actor' = [actor EXCEPT ![Loop].at = "read", ![Loop].socket = ws]
    <2>1. Goes(Loop, "read", actor[Loop].op, actor[Loop].n, ws)
        BY <1>1, <1>4, GoesPlaced DEF Places
    <2>2. reader' \in [Socket -> Actor \cup {None}]
        BY <1>1, <1>4
    <2>3. Typed'
        BY <1>1, <1>2, <1>4, <2>1, <2>2 DEF Goes
    <2> QED
        BY <1>4, <2>1, <2>3
<1>5. CASE ws' = None /\ UNCHANGED <<actor, reader>>
    BY <1>1, <1>2, <1>5
<1> QED
    BY <1>3, <1>4, <1>5 DEF LoopTop

LEMMA LoopBackFacts ==
    ASSUME Typed, actor[Loop].socket \in Socket, LoopReads \/ LoopWaits \/ LoopLosesSocket
    PROVE  /\ Typed' /\ Goes(Loop, "top", "call", actor[Loop].n, None)
           /\ Arrived' \subseteq Arrived /\ ws' \in {ws, None}
           /\ UNCHANGED <<lock, ids, client, sock, requests, subs, stopping, redialed, reported,
                          refused, closed>>
<1>1. Goes(Loop, "top", "call", actor[Loop].n, None)
    BY Constants, GoesAtTop DEF LoopReads, LoopWaits, LoopLosesSocket, LoopToTop
<1>2. reader' \in [Socket -> Actor \cup {None}]
    BY UnreadType DEF LoopReads, LoopWaits, LoopLosesSocket
<1>3. inbox' \in [Socket -> Seq(Message)] /\ Arrived' \subseteq Arrived
    <2>1. CASE LoopReads
        BY <2>1, ReadArrived DEF LoopReads
    <2>2. CASE inbox' = inbox
        BY <2>2, SameArrived DEF Typed, TypeOK
    <2> QED
        BY <2>1, <2>2 DEF LoopWaits, LoopLosesSocket, daemonVars
<1>4. /\ ws' \in {ws, None}
      /\ UNCHANGED <<lock, ids, client, sock, requests, subs, pushes, stopping, redialed,
                     reported, refused, closed>>
    BY DEF LoopReads, LoopWaits, LoopLosesSocket, daemonVars, dialVars
<1>5. Typed'
    BY <1>1, <1>2, <1>3, <1>4, TypedAfter DEF Goes, Typed, TypeOK
<1> QED
    BY <1>1, <1>3, <1>4, <1>5

LEMMA RedialFacts ==
    ASSUME Typed, client = Subscribed, Redial
    PROVE  /\ Typed' /\ Opened(Loop) /\ ws' = NewSocket /\ actor[Loop].n \in Nat
           /\ ids' = ids + 1
           /\ GoesBesideReport(Loop, "lock", "subscribe", actor[Loop].n + 1, None)
<1>1. /\ Loop \in Actor /\ Loop # Report /\ actor[Loop] \in OwnState
      /\ ids \in Nat /\ ids + 1 \in Nat /\ "subscribe" \in Op
    BY TypedStates, Constants DEF Typed, TypeOK, Op
<1> DEFINE t == Asked(actor[Loop], "subscribe")
<1>2. /\ actor[Loop].n \in Nat
      /\ t \in OwnState /\ t.at = "lock" /\ t.op = "subscribe" /\ t.n = actor[Loop].n + 1
      /\ t.id = ids + 1 /\ t.socket = None
    BY <1>1, AskedFields
<1>3. Resubscribes
    BY DEF Resubscribes, Subscribed
<1>4. ids' = ids + 1 /\ actor' = WithReport([actor EXCEPT ![Loop] = t])
    BY <1>3 DEF Redial, AfterRedial
<1> HIDE DEF t
<1>5. /\ actor' \in [Actor -> OwnState] /\ actor'[Loop] = t /\ ReportMayProbe
      /\ \A b \in Actor : (b # Loop /\ b # Report) => actor'[b] = actor[b]
    BY <1>1, <1>2, <1>4, BecomesBesideReport
<1>6. GoesBesideReport(Loop, "lock", "subscribe", actor[Loop].n + 1, None)
    BY <1>2, <1>5 DEF GoesBesideReport, Named
<1>7. /\ sock' \in [Socket -> {"unused", "open", "closed"}]
      /\ redialed' \subseteq Socket /\ reported' \subseteq Socket /\ NewSocket \in Socket
    BY OpenedFacts DEF Redial
<1>8. ws' \in Socket /\ ids' \in Nat
    BY <1>1, <1>4, <1>7 DEF Redial
<1>9. Typed'
    BY <1>5, <1>7, <1>8, TypedAfter DEF Redial, Typed, TypeOK, daemonVars
<1> QED
    BY <1>2, <1>4, <1>6, <1>9 DEF Redial

LEMMA RedialFailsFacts ==
    ASSUME Typed, RedialFails
    PROVE  Typed' /\ Goes(Loop, "top", "call", actor[Loop].n, None)
<1>1. Goes(Loop, "top", "call", actor[Loop].n, None)
    BY Constants, GoesAtTop DEF RedialFails, LoopToTop
<1> QED
    BY <1>1, TypedAfter DEF RedialFails, Goes, Typed, TypeOK, daemonVars, dialVars

\* The steps of aclose().
LEMMA CloseBeginsFacts ==
    ASSUME Typed, NEW c \in Caller, CloseBegins(c)
    PROVE  /\ Typed' /\ actor[c].n \in Nat
           /\ Goes(c, IF TaskRuns THEN "awaiting" ELSE "closing", "close", actor[c].n + 1,
                   actor[c].socket)
<1> DEFINE next == actor[c].n + 1
           place == IF TaskRuns THEN "awaiting" ELSE "closing"
           t == [actor[c] EXCEPT !.at = place, !.op = "close", !.n = next]
<1>1. /\ c \in Actor /\ actor[c] \in OwnState /\ actor \in [Actor -> OwnState]
      /\ actor[c].n \in Nat /\ next \in Nat /\ place \in {"awaiting", "closing"}
    BY TypedStates, Constants DEF OwnState, ActorState
<1>2. actor' = [actor EXCEPT ![c].at = place, ![c].op = "close", ![c].n = next]
    BY <1>1 DEF CloseBegins, OwnState, ActorState
<1> HIDE DEF next, place
<1>3. actor' = [actor EXCEPT ![c] = t]
    BY <1>1, <1>2 DEF OwnState, ActorState
<1>4. /\ t \in OwnState /\ t.at = place /\ t.op = "close" /\ t.n = next
      /\ t.socket = actor[c].socket
    BY <1>1 DEF OwnState, ActorState, Op
<1> HIDE DEF t
<1>5. Becomes(c, t)
    BY <1>1, <1>3, <1>4, OneBecomes
<1>6. Goes(c, place, "close", next, actor[c].socket)
    BY <1>1, <1>4, <1>5 DEF Becomes, Goes, Named
<1>7. closed' \in {"no", "closing", "closed"} /\ stopping' \in BOOLEAN
    BY DEF CloseBegins, LoopRuns
<1>8. Typed'
    BY <1>6, <1>7, TypedAfter DEF CloseBegins, Goes, Typed, TypeOK, daemonVars, dialVars
<1> QED
    BY <1>1, <1>6, <1>8 DEF next, place

LEMMA LoopCancelledFacts ==
    ASSUME Typed, LoopCancelled
    PROVE  Typed' /\ Goes(Loop, "idle", "call", actor[Loop].n, None)
<1>1. Goes(Loop, "idle", "call", actor[Loop].n, None)
    BY Constants, GoesEnded DEF LoopCancelled, LoopEnds
<1>2. reader' \in [Socket -> Actor \cup {None}] /\ lock' \in Actor \cup {None}
    BY UnreadType DEF LoopCancelled, Typed, TypeOK
<1> QED
    BY <1>1, <1>2, TypedAfter
       DEF LoopCancelled, LoopEnds, Goes, Typed, TypeOK, daemonVars, dialVars

LEMMA DialedTooLateFacts ==
    ASSUME Typed, DialedTooLate
    PROVE  /\ Typed' /\ Goes(Loop, "idle", "call", actor[Loop].n, None)
           /\ NewSocket \in Socket /\ sock[NewSocket] = "unused" /\ sock'[NewSocket] = "closed"
           /\ \A s \in Socket : s # NewSocket => sock'[s] = sock[s]
<1>1. Goes(Loop, "idle", "call", actor[Loop].n, None)
    BY Constants, GoesEnded DEF DialedTooLate, LoopEnds
<1>2. NewSocket \in Socket /\ sock[NewSocket] = "unused"
    BY NewSocketFacts DEF DialedTooLate
<1> HIDE DEF NewSocket
<1>3. /\ sock' \in [Socket -> {"unused", "open", "closed"}] /\ sock'[NewSocket] = "closed"
      /\ \A s \in Socket : s # NewSocket => sock'[s] = sock[s]
    BY <1>2 DEF DialedTooLate, Typed, TypeOK
<1>4. Typed'
    BY <1>1, <1>3, TypedAfter DEF DialedTooLate, LoopEnds, Goes, Typed, TypeOK, daemonVars
<1> QED
    BY <1>1, <1>2, <1>3, <1>4

LEMMA CloseEndsFacts ==
    ASSUME Typed, NEW c \in Caller, CloseEnds(c)
    PROVE  Typed' /\ ws' = None /\ Goes(c, "idle", "call", actor[c].n, None)
<1>1. Goes(c, "idle", "call", actor[c].n, None)
    BY GoesEnded, Constants DEF CloseEnds
<1>2. ws \in Socket \cup {None}
    BY DEF Typed, TypeOK
<1>3. /\ sock' \in [Socket -> {"unused", "open", "closed"}] /\ subs' \subseteq Socket
      /\ requests' \subseteq [socket : Socket, id : Nat, by : Actor, n : Nat, op : Op]
    BY <1>2, ShutFacts DEF CloseEnds
<1>4. closed' \in {"no", "closing", "closed"} /\ ws' = None
    BY DEF CloseEnds
<1> QED
    BY <1>1, <1>3, <1>4, TypedAfter DEF CloseEnds, Goes, Typed, TypeOK

\* The daemon and the network.
LEMMA AnswerFacts ==
    ASSUME Typed, NEW r \in requests, NEW ok \in Verdicts(r), Answer(r, ok)
    PROVE  /\ Typed' /\ actor' = actor
           /\ r.socket \in Socket /\ r.id \in Nat /\ r.by \in Actor /\ r.n \in Nat
           /\ \A x \in Arrived' : \/ x \in Arrived
                                  \/ /\ x.socket = r.socket /\ x.id = r.id
                                     /\ x.to = r.by /\ x.n = r.n
           /\ r.op = "subscribe" => r.socket \in subs' \cup refused'
           /\ refused \subseteq refused' /\ subs' = SubsAfter(r, ok)
<1>1. r.socket \in Socket /\ r.id \in Nat /\ r.by \in Actor /\ r.n \in Nat /\ ok \in BOOLEAN
    BY DEF Typed, TypeOK, Verdicts
<1> DEFINE m == Reply(r, ok)
<1>2. m \in Message /\ m.to = r.by /\ m.n = r.n /\ m.id = RequestId(r.id)
    BY <1>1 DEF Reply, RequestId, Message, Id
<1>3. inbox' = [inbox EXCEPT ![r.socket] = Append(inbox[r.socket], m)]
    BY DEF Answer
<1> HIDE DEF m
<1>4. /\ inbox' \in [Socket -> Seq(Message)]
      /\ \A x \in Arrived' : x \in Arrived \/ (x.socket = r.socket /\ IsOf(m, x))
    BY <1>1, <1>2, <1>3, SentArrived
<1>5. \A x : IsOf(m, x) => x.id = r.id /\ x.to = r.by /\ x.n = r.n
    BY <1>2 DEF IsOf, RequestId
<1>6. subs' \subseteq Socket /\ refused' \subseteq Socket /\ refused \subseteq refused'
    BY <1>1 DEF Answer, SubsAfter, Typed, TypeOK
<1>7. r.op = "subscribe" => r.socket \in subs' \cup refused'
    BY <1>1 DEF Answer, SubsAfter
<1>8. actor' \in [Actor -> OwnState]
    BY TypedStates DEF Answer
<1>9. Typed'
    BY <1>4, <1>6, <1>8, TypedAfter DEF Answer, Typed, TypeOK, dialVars
<1> QED
    BY <1>1, <1>4, <1>5, <1>6, <1>7, <1>9 DEF Answer

LEMMA PushFacts ==
    ASSUME Typed, NEW s \in Socket, Push(s)
    PROVE  Typed' /\ actor' = actor /\ Arrived' \subseteq Arrived
<1>1. pushes + 1 \in Nat /\ pushes' \in 0 .. MaxPushes
    BY ConnectionAssumption DEF Push, Typed, TypeOK
<1> DEFINE m == PushMessage(pushes + 1)
<1>2. m \in Message /\ m.id.from = "server:msg"
    BY <1>1 DEF PushMessage, Message, Id
<1>3. inbox' = [inbox EXCEPT ![s] = Append(inbox[s], m)]
    BY DEF Push
<1> HIDE DEF m
<1>4. /\ inbox' \in [Socket -> Seq(Message)]
      /\ \A x \in Arrived' : x \in Arrived \/ IsOf(m, x)
    BY <1>2, <1>3, SentArrived
<1>5. \A x : RequestId(x.id).from = "r"
    BY DEF RequestId
<1>6. \A x : ~IsOf(m, x)
    BY <1>2, <1>5 DEF IsOf
<1>7. Arrived' \subseteq Arrived
    BY <1>4, <1>6
<1>8. actor' \in [Actor -> OwnState]
    BY TypedStates DEF Push
<1>9. Typed'
    BY <1>1, <1>4, <1>8, TypedAfter DEF Push, Typed, TypeOK, dialVars
<1> QED
    BY <1>7, <1>9 DEF Push

LEMMA BreakFacts ==
    ASSUME Typed, NEW s \in Socket, Break(s)
    PROVE  Typed' /\ actor' = actor
<1>1. /\ sock' \in [Socket -> {"unused", "open", "closed"}] /\ subs' \subseteq Socket
      /\ requests' \subseteq [socket : Socket, id : Nat, by : Actor, n : Nat, op : Op]
    BY ShutFacts DEF Break
<1>2. actor' \in [Actor -> OwnState]
    BY TypedStates DEF Break
<1> QED
    BY <1>1, <1>2, TypedAfter DEF Break, Typed, TypeOK

---------------------------------------------------------------------------
(***************************************************************************)
(* The inductive invariant.                                                *)
(***************************************************************************)
InSend(a) == At(a, {"dial", "sent", "recv", "failed"})

\* A coroutine within send() has the lock; the loop only ever subscribes, the
\* report never does.
Holders ==
    /\ \A a \in Actor : InSend(a) => lock = a
    /\ \A a \in Actor : At(a, {"sent", "recv"}) => actor[a].socket \in Socket
    /\ At(Loop, {"read"}) => actor[Loop].socket \in Socket
    /\ (InSend(Loop) \/ At(Loop, {"lock"})) => actor[Loop].op = "subscribe"
    /\ actor[Report].op = "call"

\* One caller at a time subscribes, for a client that is not subscribed, and
\* the loop runs for a client that is.
Subscribers ==
    /\ \A c \in Caller : /\ At(c, {"idle"}) => actor[c].op = "call"
                         /\ At(c, {"ensure", "reporting"}) => actor[c].op = "subscribe"
                         /\ actor[c].op = "subscribe" => ~client.subscribed
    /\ \A c, d \in Caller :
            (actor[c].op = "subscribe" /\ actor[d].op = "subscribe") => c = d
    /\ (TaskRuns \/ InSend(Loop)) => client = Subscribed

\* A socket that is not dialed is nowhere in use.
Dialled ==
    /\ ws # None => sock[ws] # "unused"
    /\ \A s \in redialed : sock[s] # "unused"
    /\ \A r \in requests : sock[r.socket] # "unused"

\* A coroutine's request has its number to itself, and is answered once.
Numbers ==
    /\ \A r \in requests :
        /\ r.n <= actor[r.by].n
        /\ \A x \in Arrived : ~(x.to = r.by /\ x.n = r.n)
        /\ r.n = actor[r.by].n =>
            /\ ~At(r.by, {"lock", "dial"})
            /\ At(r.by, {"sent", "recv"}) => r.op = actor[r.by].op /\ r.socket = actor[r.by].socket
    /\ \A q, r \in requests : (q.by = r.by /\ q.n = r.n) => q = r
    /\ \A x \in Arrived :
        /\ x.to \in Actor
        /\ x.n <= actor[x.to].n
        /\ At(x.to, {"lock", "dial"}) => x.n # actor[x.to].n

\* The coroutine has a request id.
Call == {"lock", "dial", "sent", "recv", "failed"}

\* The request id is one of a coroutine's that is in a call, and what the daemon
\* was asked or has answered with it is that call.
Fits(id, by, n) ==
    /\ id <= ids
    /\ \A a \in Actor : (At(a, Call) /\ actor[a].id = id) => by = a /\ n = actor[a].n

\* No two calls have the same request id, whoever makes them.
Ids ==
    /\ \A a \in Actor : At(a, Call) => actor[a].id <= ids
    /\ \A a, b \in Actor : (At(a, Call) /\ At(b, Call) /\ actor[a].id = actor[b].id) => a = b
    /\ \A r \in requests : Fits(r.id, r.by, r.n)
    /\ \A x \in Arrived : Fits(x.id, x.to, x.n)

\* An unsubscribe on the connection's socket is one that a call waits for: the
\* socket of a call that gave up is closed or no longer the connection's.
Unsubscribes == \A r \in requests : (r.op = "unsubscribe" /\ r.socket = ws) =>
    /\ At(r.by, {"sent", "recv"})
    /\ actor[r.by].op = "unsubscribe"
    /\ actor[r.by].n = r.n

\* While a subscribe is on its way nobody dials; once it is answered the daemon
\* pushes over the socket, or has refused to.
Replies == \A a \in Actor : (At(a, {"sent", "recv"}) /\ actor[a].op = "subscribe") =>
    /\ ws \in {actor[a].socket, None}
    /\ \A x \in Arrived :
        (ws # None /\ sock[ws] = "open" /\ x.socket = ws /\ x.to = a /\ x.n = actor[a].n) =>
            ws \in subs \cup refused

\* The connection's socket is one that the loop dialed.
OfLoop == ws # None /\ ws \in redialed /\ sock[ws] = "open"

UnsubscribeSent ==
    \E c \in Caller : At(c, {"sent", "recv", "failed"}) /\ actor[c].op = "unsubscribe"

\* The loop never gets back to its top before it has subscribed on the socket it
\* dialed, and what it reads is that socket, or one that is closed, or one that
\* another dialed.
Covered ==
    /\ (client.subscribed /\ At(Loop, {"top", "read", "redial", "dial"}) /\ OfLoop) =>
            ws \in subs \cup refused \/ UnsubscribeSent
    /\ At(Loop, {"read"}) =>
            \/ actor[Loop].socket = ws
            \/ actor[Loop].socket \notin redialed
            \/ sock[actor[Loop].socket] # "open"
    /\ \A a \in Actor \ {Loop} :
            (At(a, {"dial", "failed"}) /\ At(Loop, {"top", "read", "redial"})) => ~OfLoop
    /\ \A c \in Caller : At(c, {"ensure", "reporting"}) => ~OfLoop

\* The aclose() that cancelled the loop waits for it.
Stops == stopping => LoopRuns /\ \E c \in Caller : At(c, {"awaiting"})

\* An aclose() with nothing else going on has the loop end before it does.
Quiet ==
    /\ closed # "no" => ~TaskRuns /\ \A c \in Caller : At(c, {"idle", "awaiting", "closing"})
    /\ closed = "closing" /\ LoopRuns => \A c \in Caller : At(c, {"idle", "awaiting"})
    /\ closed = "closed" => ~LoopRuns /\ ws \in {None} \cup reported

Inv ==
    /\ Typed /\ Holders /\ Subscribers /\ Dialled /\ Numbers /\ Ids
    /\ Unsubscribes /\ Replies /\ Covered /\ Stops /\ Quiet

\* The sets that the invariant quantifies over.
LEMMA SetFacts ==
    ASSUME Typed
    PROVE  /\ ws \in Socket \cup {None} /\ ids \in Nat /\ stopping \in BOOLEAN
           /\ \A a \in Actor : actor[a].n \in Nat /\ actor[a].id \in Nat
           /\ \A r \in requests :
                r.socket \in Socket /\ r.id \in Nat /\ r.by \in Actor /\ r.n \in Nat
           /\ \A x \in Arrived :
                x.socket \in Socket /\ x.id \in Nat /\ x.to \in Actor \cup {None} /\ x.n \in Nat
           /\ None \notin Socket /\ None \notin Actor
           /\ Loop \in Actor /\ Report \in Actor /\ Loop # Report
           /\ \A c \in Caller : c \in Actor /\ c # Loop /\ c # Report
           /\ \A a \in Actor : a \in Caller \/ a = Loop \/ a = Report
BY Constants DEF Typed, TypeOK, ActorState, Arrived, Actor

\* Nothing is sent and nothing arrives: the numbers stay in order, however the
\* coroutines move on with the requests they have.
LEMMA NumbersKept ==
    ASSUME Typed, Numbers, requests' \subseteq requests, Arrived' \subseteq Arrived,
           \A b \in Actor :
              \/ actor'[b] = actor[b]
              \/ actor'[b].n = actor[b].n + 1
              \/ /\ actor'[b].n = actor[b].n
                 /\ actor'[b].at \notin {"lock", "dial", "sent", "recv"}
              \/ /\ actor'[b].n = actor[b].n
                 /\ actor[b].at = "lock" /\ actor'[b].at = "dial"
              \/ /\ actor'[b].n = actor[b].n /\ actor'[b].op = actor[b].op
                 /\ actor'[b].socket = actor[b].socket
                 /\ actor[b].at \in {"sent", "recv"} /\ actor'[b].at \in {"sent", "recv"}
    PROVE  Numbers'
<1>1. /\ \A r \in requests : r.by \in Actor /\ r.n \in Nat /\ actor[r.by].n \in Nat
      /\ \A x \in Arrived : x.to \in Actor /\ x.n \in Nat /\ actor[x.to].n \in Nat
    BY SetFacts DEF Numbers
<1>2. ASSUME NEW r \in requests'
      PROVE  /\ r.n <= actor'[r.by].n
             /\ \A x \in Arrived' : ~(x.to = r.by /\ x.n = r.n)
             /\ r.n = actor'[r.by].n =>
                /\ actor'[r.by].at \notin {"lock", "dial"}
                /\ actor'[r.by].at \in {"sent", "recv"} =>
                        r.op = actor'[r.by].op /\ r.socket = actor'[r.by].socket
    BY <1>1, <1>2 DEF Numbers, At
<1>3. ASSUME NEW x \in Arrived'
      PROVE  /\ x.to \in Actor /\ x.n <= actor'[x.to].n
             /\ actor'[x.to].at \in {"lock", "dial"} => x.n # actor'[x.to].n
    BY <1>1, <1>3 DEF Numbers, At
<1> QED
    BY <1>2, <1>3 DEF Numbers, At

\* Likewise the ids, of which one coroutine may draw a new one.
LEMMA IdsKept ==
    ASSUME Typed, Ids, requests' \subseteq requests, Arrived' \subseteq Arrived,
           NEW a \in Actor, ids' \in {ids, ids + 1},
           \A b \in Actor :
              \/ actor'[b] = actor[b]
              \/ actor'[b].at \notin Call
              \/ actor[b].at \in Call /\ actor'[b].id = actor[b].id /\ actor'[b].n = actor[b].n
              \/ b = a /\ ids' = ids + 1 /\ actor'[b].id = ids + 1
    PROVE  Ids'
<1>1. /\ ids \in Nat /\ ids' \in Nat /\ ids <= ids'
      /\ \A b \in Actor : actor[b].n \in Nat /\ actor[b].id \in Nat
      /\ \A r \in requests : r.id \in Nat
      /\ \A x \in Arrived : x.id \in Nat
    BY SetFacts
<1>2. ASSUME NEW b \in Actor, actor'[b].at \in Call
      PROVE  \/ actor[b].at \in Call /\ actor'[b].id = actor[b].id /\ actor'[b].n = actor[b].n
             \/ b = a /\ ids' = ids + 1 /\ actor'[b].id = ids + 1
    BY <1>2
<1>3. ASSUME NEW b \in Actor, actor'[b].at \in Call
      PROVE  actor'[b].id <= ids'
    BY <1>1, <1>2, <1>3 DEF Ids, At
<1>4. ASSUME NEW b \in Actor, NEW c \in Actor, actor'[b].at \in Call, actor'[c].at \in Call,
             actor'[b].id = actor'[c].id
      PROVE  b = c
    BY <1>1, <1>2, <1>4 DEF Ids, At
<1>5. ASSUME NEW id \in Nat, NEW by, NEW n, Fits(id, by, n)
      PROVE  /\ id <= ids'
             /\ \A b \in Actor : (actor'[b].at \in Call /\ actor'[b].id = id) =>
                    by = b /\ n = actor'[b].n
    BY <1>1, <1>2, <1>5 DEF Fits, At
<1>6. /\ \A r \in requests' : Fits(r.id, r.by, r.n)'
      /\ \A x \in Arrived' : Fits(x.id, x.to, x.n)'
    BY <1>1, <1>5 DEF Ids, Fits, At
<1> QED
    BY <1>3, <1>4, <1>6 DEF Ids, At

LEMMA NumbersSubmitted ==
    ASSUME Typed, Numbers, NEW a \in Actor, At(a, {"lock", "dial"}), NEW s \in Socket,
           Submitted(a, s), UNCHANGED inbox
    PROVE  Numbers'
<1> DEFINE q == [socket |-> s, id |-> actor[a].id, by |-> a, n |-> actor[a].n, op |-> actor[a].op]
<1>1. /\ \A r \in requests : r.by \in Actor /\ r.n \in Nat /\ actor[r.by].n \in Nat
      /\ \A x \in Arrived : x.to \in Actor /\ x.n \in Nat /\ actor[x.to].n \in Nat
    BY SetFacts DEF Numbers
<1>2. /\ requests' = requests \cup {q} /\ Arrived' = Arrived
      /\ actor'[a].at = "sent" /\ actor'[a].op = actor[a].op /\ actor'[a].n = actor[a].n
      /\ actor'[a].socket = s /\ \A b \in Actor : b # a => actor'[b] = actor[b]
    BY SubmittedFacts, SameArrived DEF Goes
<1>3. q.socket = s /\ q.by = a /\ q.n = actor[a].n /\ q.op = actor[a].op /\ actor[a].n \in Nat
    BY SetFacts
<1> HIDE DEF q
<1>4. /\ \A r \in requests : r.by = a => r.n # actor[a].n
      /\ \A x \in Arrived : x.to = a => x.n # actor[a].n
    BY <1>1 DEF Numbers, At
<1>5. ASSUME NEW r \in requests'
      PROVE  /\ r.n <= actor'[r.by].n
             /\ \A x \in Arrived' : ~(x.to = r.by /\ x.n = r.n)
             /\ r.n = actor'[r.by].n =>
                /\ actor'[r.by].at \notin {"lock", "dial"}
                /\ actor'[r.by].at \in {"sent", "recv"} =>
                        r.op = actor'[r.by].op /\ r.socket = actor'[r.by].socket
    BY <1>1, <1>2, <1>3, <1>4, <1>5 DEF Numbers, At
<1>6. ASSUME NEW r \in requests', NEW p \in requests', p.by = r.by, p.n = r.n
      PROVE  p = r
    BY <1>2, <1>3, <1>4, <1>6 DEF Numbers
<1>7. ASSUME NEW x \in Arrived'
      PROVE  /\ x.to \in Actor /\ x.n <= actor'[x.to].n
             /\ actor'[x.to].at \in {"lock", "dial"} => x.n # actor'[x.to].n
    BY <1>1, <1>2, <1>4, <1>7 DEF Numbers, At
<1> QED
    BY <1>5, <1>6, <1>7 DEF Numbers, At

LEMMA IdsSubmitted ==
    ASSUME Typed, Ids, NEW a \in Actor, At(a, Call), NEW s \in Socket,
           Submitted(a, s), UNCHANGED <<inbox, ids>>
    PROVE  Ids'
<1> DEFINE q == [socket |-> s, id |-> actor[a].id, by |-> a, n |-> actor[a].n, op |-> actor[a].op]
<1>1. /\ requests' = requests \cup {q} /\ Arrived' = Arrived
      /\ actor'[a].at = "sent" /\ actor'[a].n = actor[a].n /\ actor'[a].id = actor[a].id
      /\ \A b \in Actor : b # a => actor'[b] = actor[b]
    BY SubmittedFacts, SameArrived DEF Goes, Named
<1>2. q.id = actor[a].id /\ q.by = a /\ q.n = actor[a].n
    OBVIOUS
<1> HIDE DEF q
<1>3. \A b \in Actor : /\ actor'[b].at \in Call => actor[b].at \in Call
                       /\ actor'[b].id = actor[b].id /\ actor'[b].n = actor[b].n
    BY <1>1 DEF At
<1>4. Fits(q.id, q.by, q.n)
    BY <1>2 DEF Ids, Fits, At
<1>5. ASSUME NEW id, NEW by, NEW n, Fits(id, by, n)
      PROVE  Fits(id, by, n)'
    BY <1>3, <1>5 DEF Fits, At
<1>6. /\ \A r \in requests' : Fits(r.id, r.by, r.n)'
      /\ \A x \in Arrived' : Fits(x.id, x.to, x.n)'
    <2>1. \A r \in requests' : Fits(r.id, r.by, r.n)
        BY <1>1, <1>4 DEF Ids
    <2>2. \A x \in Arrived' : Fits(x.id, x.to, x.n)
        BY <1>1 DEF Ids
    <2> QED
        BY <1>5, <2>1, <2>2
<1>7. /\ \A b \in Actor : At(b, Call)' => actor'[b].id <= ids'
      /\ \A b, c \in Actor :
            (At(b, Call)' /\ At(c, Call)' /\ actor'[b].id = actor'[c].id) => b = c
    BY <1>3 DEF Ids, At
<1> QED
    BY <1>6, <1>7 DEF Ids

LEMMA BeginStep ==
    ASSUME Inv, NEW c \in Caller, NEW op \in {"call", "subscribe", "unsubscribe"}, Begin(c, op)
    PROVE  Inv'
<1>1. /\ Typed /\ Typed' /\ actor[c].n \in Nat /\ c \in Actor /\ ids' = ids + 1
      /\ actor'[c].at = "lock" /\ actor'[c].op = op /\ actor'[c].n = actor[c].n + 1
      /\ actor'[c].id = ids + 1
      /\ \A b \in Actor : b # c => actor'[b] = actor[b]
    BY BeginFacts, Constants DEF Inv, Goes, Named
<1>2. /\ actor[c].at = "idle" /\ closed' = "no"
      /\ UNCHANGED <<ws, lock, client, sock, inbox, requests, subs, stopping, refused, redialed>>
      /\ op = "subscribe" => /\ ~client.subscribed
                             /\ \A d \in Caller : At(d, {"idle"}) \/ actor[d].op # "subscribe"
    BY DEF Begin, At, daemonVars, dialVars
<1>3. Arrived' = Arrived
    BY <1>2, SameArrived
<1>4. Holders'
    BY <1>1, <1>2, SetFacts DEF Inv, Holders, InSend, At
<1>5. Subscribers'
    BY <1>1, <1>2, SetFacts DEF Inv, Subscribers, At, InSend, TaskRuns, LoopRuns
<1>6. Dialled'
    BY <1>2 DEF Inv, Dialled
<1>7. Numbers'
    BY <1>1, <1>2, <1>3, NumbersKept DEF Inv
<1>8. Ids'
    BY <1>1, <1>2, <1>3, IdsKept DEF Inv
<1>9. Unsubscribes'
    BY <1>1, <1>2, SetFacts DEF Inv, Unsubscribes, At
<1>10. Replies'
    BY <1>1, <1>2, <1>3, SetFacts DEF Inv, Replies, At
<1>11. Covered'
    BY <1>1, <1>2, SetFacts DEF Inv, Covered, OfLoop, UnsubscribeSent, At
<1>12. Stops'
    BY <1>1, <1>2, SetFacts DEF Inv, Stops, LoopRuns, At
<1>13. Quiet'
    BY <1>2 DEF Quiet
<1> QED
    BY <1>1, <1>4, <1>5, <1>6, <1>7, <1>8, <1>9, <1>10, <1>11, <1>12, <1>13 DEF Inv

LEMMA AcquireStep ==
    ASSUME Inv, NEW a \in Actor, a = Loop => ~stopping, Acquire(a)
    PROVE  Inv'
<1>1. /\ Typed /\ Typed' /\ actor[a].at = "lock" /\ lock = None /\ lock' = a
      /\ UNCHANGED <<ws, ids, client, sock, inbox, subs, stopping, redialed, reported, refused,
                     closed>>
    BY AcquireFacts DEF Inv, Acquire, At, dialVars
<1>2. Arrived' = Arrived
    BY <1>1, SameArrived
<1>3. a = Loop => TaskRuns
    BY <1>1 DEF TaskRuns, LoopRuns, At
<1>4. CASE Usable /\ Submitted(a, ws) /\ ws \in Socket
    <2>1. /\ actor'[a].at = "sent" /\ actor'[a].op = actor[a].op /\ actor'[a].n = actor[a].n
          /\ actor'[a].socket = ws /\ \A b \in Actor : b # a => actor'[b] = actor[b]
          /\ requests' = requests \cup
                {[socket |-> ws, id |-> actor[a].id, by |-> a, n |-> actor[a].n,
                  op |-> actor[a].op]}
        BY <1>1, <1>4, SubmittedFacts DEF Goes
    <2>2. Holders'
        BY <1>1, <1>4, <2>1, SetFacts DEF Inv, Holders, InSend, At
    <2>3. Subscribers'
        BY <1>1, <1>3, <2>1, SetFacts DEF Inv, Subscribers, InSend, At, TaskRuns, LoopRuns
    <2>4. Dialled'
        BY <1>1, <1>4, <2>1 DEF Inv, Dialled, Usable
    <2>5. Numbers'
        BY <1>1, <1>4, NumbersSubmitted DEF Inv, At
    <2>6. Ids'
        BY <1>1, <1>4, IdsSubmitted DEF Inv, At, Call
    <2>7. Unsubscribes'
        BY <1>1, <2>1, SetFacts DEF Inv, Unsubscribes, At
    <2>8. Replies'
        <3>1. \A x \in Arrived : x.to = a => x.n # actor[a].n
            BY <1>1 DEF Inv, Numbers, At
        <3> QED
            BY <1>1, <1>2, <2>1, <3>1, SetFacts DEF Inv, Replies, At
    <2>9. Covered'
        BY <1>1, <2>1, SetFacts DEF Inv, Covered, OfLoop, UnsubscribeSent, At
    <2>10. Stops'
        BY <1>1, <2>1, SetFacts DEF Inv, Stops, LoopRuns, At
    <2>11. Quiet'
        BY <1>1, <2>1, SetFacts DEF Inv, Quiet, At, TaskRuns, LoopRuns
    <2> QED
        BY <1>1, <2>2, <2>3, <2>4, <2>5, <2>6, <2>7, <2>8, <2>9, <2>10, <2>11 DEF Inv
<1>5. CASE /\ ~Usable /\ requests' = requests
           /\ Goes(a, "dial", actor[a].op, actor[a].n, actor[a].socket)
    <2>1. /\ actor'[a].at = "dial" /\ actor'[a].op = actor[a].op /\ actor'[a].n = actor[a].n
          /\ actor'[a].id = actor[a].id
          /\ \A b \in Actor : b # a => actor'[b] = actor[b]
        BY <1>5 DEF Goes, Named
    <2>2. Holders'
        BY <1>1, <2>1, SetFacts DEF Inv, Holders, InSend, At
    <2>3. Subscribers'
        BY <1>1, <1>3, <2>1, SetFacts DEF Inv, Subscribers, InSend, At, TaskRuns, LoopRuns
    <2>4. Dialled'
        BY <1>1, <1>5 DEF Inv, Dialled
    <2>5. Numbers'
        BY <1>1, <1>2, <1>5, <2>1, NumbersKept DEF Inv
    <2>6. Ids'
        BY <1>1, <1>2, <1>5, <2>1, IdsKept DEF Inv, Call
    <2>7. Unsubscribes'
        BY <1>1, <1>5, <2>1, SetFacts DEF Inv, Unsubscribes, At
    <2>8. Replies'
        BY <1>1, <1>2, <2>1, SetFacts DEF Inv, Replies, At
    <2>9. Covered'
        <3>1. ~OfLoop'
            BY <1>1, <1>5 DEF Usable, OfLoop
        <3> QED
            BY <1>1, <2>1, <3>1, SetFacts DEF Inv, Covered, At
    <2>10. Stops'
        BY <1>1, <2>1, SetFacts DEF Inv, Stops, LoopRuns, At
    <2>11. Quiet'
        BY <1>1, <2>1, SetFacts DEF Inv, Quiet, At, TaskRuns, LoopRuns
    <2> QED
        BY <1>1, <2>2, <2>3, <2>4, <2>5, <2>6, <2>7, <2>8, <2>9, <2>10, <2>11 DEF Inv
<1> QED
    BY <1>1, <1>4, <1>5, AcquireFacts

LEMMA DialedStep ==
    ASSUME Inv, NEW a \in Actor, a = Loop => ~stopping, Dialed(a)
    PROVE  Inv'
<1> DEFINE new == NewSocket
<1>1. /\ Typed /\ Typed' /\ actor[a].at = "dial" /\ lock = a /\ ws' = new
      /\ new \in Socket /\ Opened(a) /\ Submitted(a, new)
      /\ UNCHANGED <<lock, ids, client, inbox, subs, stopping, refused, closed>>
    BY DialedFacts DEF Inv, Dialed, At, Holders, InSend
<1>2. Arrived' = Arrived
    BY <1>1, SameArrived
<1>3. /\ sock[new] = "unused" /\ sock'[new] = "open"
      /\ \A s \in Socket : s # new => sock'[s] = sock[s]
      /\ redialed' = IF a = Loop THEN redialed \cup {new} ELSE redialed
      /\ reported' = IF a = Report THEN reported \cup {new} ELSE reported
      /\ redialed \subseteq Socket
    BY <1>1, OpenedFacts DEF Typed, TypeOK
<1> HIDE DEF new
<1>4. /\ actor'[a].at = "sent" /\ actor'[a].op = actor[a].op /\ actor'[a].n = actor[a].n
      /\ actor'[a].socket = new /\ \A b \in Actor : b # a => actor'[b] = actor[b]
      /\ requests' = requests \cup
            {[socket |-> new, id |-> actor[a].id, by |-> a, n |-> actor[a].n, op |-> actor[a].op]}
    BY <1>1, SubmittedFacts DEF Goes
<1>5. /\ \A r \in requests : r.socket # new
      /\ new \notin redialed
    BY <1>3 DEF Inv, Dialled
<1>6. \A b \in Actor : b # a => ~At(b, {"dial", "sent", "recv", "failed"})
    BY <1>1 DEF Inv, Holders, InSend
<1>7. Holders'
    BY <1>1, <1>4, SetFacts DEF Inv, Holders, InSend, At
<1>8. Subscribers'
    BY <1>1, <1>4, SetFacts DEF Inv, Subscribers, InSend, At, TaskRuns, LoopRuns
<1>9. Dialled'
    BY <1>1, <1>3, <1>4, SetFacts DEF Inv, Dialled
<1>10. Numbers'
    BY <1>1, NumbersSubmitted DEF Inv, At
<1>11. Ids'
    BY <1>1, IdsSubmitted DEF Inv, At, Call
<1>12. Unsubscribes'
    BY <1>1, <1>4, <1>5, SetFacts DEF Inv, Unsubscribes, At
<1>13. Replies'
    <2>1. \A x \in Arrived : x.to = a => x.n # actor[a].n
        BY <1>1 DEF Inv, Numbers, At
    <2> QED
        BY <1>1, <1>2, <1>4, <1>6, <2>1, SetFacts DEF Replies, At
<1>14. Covered'
    <2>1. CASE a = Loop
        <3>1. client = Subscribed
            BY <1>1, <2>1 DEF Inv, Subscribers, InSend, At
        <3>2. \A c \in Caller : ~At(c, {"ensure", "reporting"})
            BY <3>1, SetFacts DEF Inv, Subscribers, Subscribed, At
        <3> QED
            BY <1>1, <1>4, <1>6, <2>1, <3>2, SetFacts DEF Covered, At
    <2>2. CASE a # Loop
        <3>1. redialed' = redialed /\ ~OfLoop'
            BY <1>1, <1>3, <1>5, <2>2, SetFacts DEF OfLoop
        <3>2. actor'[Loop] = actor[Loop]
            BY <1>1, <1>4, <2>2, SetFacts
        <3>3. At(Loop, {"read"}) => \/ actor[Loop].socket \notin redialed
                                    \/ sock[actor[Loop].socket] # "open"
            <4> SUFFICES ASSUME At(Loop, {"read"}) PROVE \/ actor[Loop].socket \notin redialed
                                                         \/ sock[actor[Loop].socket] # "open"
                OBVIOUS
            <4>1. actor[Loop].socket \in Socket
                BY DEF Inv, Holders
            <4>2. ~OfLoop
                BY <1>1, <2>2 DEF Inv, Covered, At
            <4> QED
                BY <1>1, <4>1, <4>2, SetFacts DEF Inv, Covered, OfLoop
        <3>4. At(Loop, {"read"}) => \/ actor[Loop].socket \notin redialed
                                    \/ sock'[actor[Loop].socket] # "open"
            BY <1>3, <1>5, <3>3 DEF Inv, Holders
        <3> QED
            BY <3>1, <3>2, <3>4 DEF Covered, At
    <2> QED
        BY <2>1, <2>2
<1>15. Stops'
    BY <1>1, <1>4, SetFacts DEF Inv, Stops, LoopRuns, At
<1>16. Quiet'
    <2>1. CASE a = Report
        BY <1>1, <1>3, <1>4, <2>1, SetFacts DEF Inv, Quiet, At, TaskRuns, LoopRuns
    <2>2. CASE a # Report
        <3>1. a = Loop => TaskRuns
            BY <1>1 DEF TaskRuns, LoopRuns, At
        <3>2. closed = "no"
            BY <1>1, <2>2, <3>1, SetFacts DEF Inv, Quiet, At
        <3> QED
            BY <1>1, <3>2 DEF Quiet
    <2> QED
        BY <2>1, <2>2
<1> QED
    BY <1>1, <1>7, <1>8, <1>9, <1>10, <1>11, <1>12, <1>13, <1>14, <1>15, <1>16 DEF Inv

LEMMA DialFailsStep ==
    ASSUME Inv, NEW a \in Actor, a = Loop => ~stopping, DialFails(a)
    PROVE  Inv'
<1>1. /\ Typed /\ Typed' /\ actor[a].at = "dial" /\ lock = a /\ lock' = None
      /\ UNCHANGED <<ws, ids, client, sock, inbox, requests, subs, stopping, refused, redialed,
                     reported, closed>>
      /\ a = Loop => Goes(a, "top", "call", actor[a].n, None)
      /\ a # Loop => Goes(a, "idle", "call", actor[a].n, None)
    BY DialFailsFacts DEF Inv, DialFails, At, Holders, InSend, daemonVars, dialVars
<1>2. /\ Arrived' = Arrived
      /\ actor'[a].at = (IF a = Loop THEN "top" ELSE "idle")
      /\ actor'[a].op = "call" /\ actor'[a].n = actor[a].n
      /\ \A b \in Actor : b # a => actor'[b] = actor[b]
    BY <1>1, SameArrived DEF Goes
<1>3. Holders'
    BY <1>1, <1>2, SetFacts DEF Inv, Holders, InSend, At
<1>4. Subscribers'
    BY <1>1, <1>2, SetFacts DEF Inv, Subscribers, InSend, At, TaskRuns, LoopRuns
<1>5. Dialled'
    BY <1>1 DEF Inv, Dialled
<1>6. Numbers'
    BY <1>1, <1>2, NumbersKept DEF Inv
<1>7. Ids'
    BY <1>1, <1>2, IdsKept DEF Inv, Call
<1>8. Unsubscribes'
    BY <1>1, <1>2, SetFacts DEF Inv, Unsubscribes, At
<1>9. Replies'
    BY <1>1, <1>2, SetFacts DEF Inv, Replies, At
<1>10. Covered'
    <2>1. \A b \in Actor : At(b, {"dial", "failed"}) => b = a
        BY <1>1 DEF Inv, Holders, InSend, At
    <2>2. OfLoop' <=> OfLoop
        BY <1>1 DEF OfLoop
    <2>3. UnsubscribeSent => UnsubscribeSent'
        BY <1>1, <1>2, SetFacts DEF UnsubscribeSent, At
    <2> QED
        BY <1>1, <1>2, <2>1, <2>2, <2>3, SetFacts DEF Inv, Covered, At
<1>11. Stops'
    BY <1>1, <1>2, SetFacts DEF Inv, Stops, LoopRuns, At
<1>12. Quiet'
    BY <1>1, <1>2, SetFacts DEF Inv, Quiet, At, TaskRuns, LoopRuns
<1> QED
    BY <1>1, <1>3, <1>4, <1>5, <1>6, <1>7, <1>8, <1>9, <1>10, <1>11, <1>12 DEF Inv

LEMMA FailStep ==
    ASSUME Inv, NEW a \in Actor, At(a, {"sent", "recv"}), Fail(a)
    PROVE  Inv'
<1>1. /\ Typed /\ Typed' /\ actor[a].at \in {"sent", "recv"} /\ ws \in Socket \cup {None}
      /\ UNCHANGED <<ws, lock, ids, client, inbox, stopping, refused, redialed, reported, closed>>
    BY FailFacts, SetFacts DEF Inv, Fail, At
<1>2. /\ Arrived' = Arrived
      /\ actor'[a].at = "failed" /\ actor'[a].op = actor[a].op /\ actor'[a].n = actor[a].n
      /\ actor'[a].socket = actor[a].socket /\ actor'[a].id = actor[a].id
      /\ \A b \in Actor : b # a => actor'[b] = actor[b]
    BY <1>1, FailFacts, SameArrived DEF Goes, Named
<1>3. /\ ws # None => sock'[ws] = "closed"
      /\ \A x \in Socket : x # ws => sock'[x] = sock[x]
      /\ requests' = {r \in requests : r.socket # ws}
      /\ subs' = subs \ {ws}
    BY <1>1, ShutFacts DEF Fail
<1>4. Holders'
    BY <1>1, <1>2, SetFacts DEF Inv, Holders, InSend, At
<1>5. Subscribers'
    BY <1>1, <1>2, SetFacts DEF Inv, Subscribers, InSend, At, TaskRuns, LoopRuns
<1>6. Dialled'
    BY <1>1, <1>3, SetFacts DEF Inv, Dialled, Typed, TypeOK
<1>7. Numbers'
    BY <1>1, <1>2, <1>3, NumbersKept DEF Inv
<1>8. Ids'
    BY <1>1, <1>2, <1>3, IdsKept DEF Inv, Call
<1>9. Unsubscribes'
    BY <1>1, <1>3 DEF Unsubscribes
<1>10. Replies'
    BY <1>1, <1>2, <1>3, SetFacts DEF Inv, Replies, At
<1>11. Covered'
    <2>1. ~OfLoop'
        BY <1>1, <1>3 DEF OfLoop
    <2> QED
        BY <1>1, <1>2, <1>3, <2>1, SetFacts DEF Inv, Covered, Holders, At
<1>12. Stops'
    BY <1>1, <1>2, SetFacts DEF Inv, Stops, LoopRuns, At
<1>13. Quiet'
    BY <1>1, <1>2, SetFacts DEF Inv, Quiet, At, TaskRuns, LoopRuns
<1> QED
    BY <1>1, <1>4, <1>5, <1>6, <1>7, <1>8, <1>9, <1>10, <1>11, <1>12, <1>13 DEF Inv

LEMMA StartRecvStep ==
    ASSUME Inv, NEW a \in Actor, StartRecv(a)
    PROVE  Inv'
<1>1. CASE Fail(a)
    BY <1>1, FailStep DEF StartRecv, At
<1>2. CASE /\ Typed' /\ Goes(a, "recv", actor[a].op, actor[a].n, actor[a].socket)
           /\ UNCHANGED <<ws, lock, ids, client, stopping, dialVars, daemonVars, closed>>
    <2>1. /\ Typed /\ Typed' /\ actor[a].at = "sent"
          /\ UNCHANGED <<ws, lock, ids, client, sock, inbox, requests, subs, stopping, refused,
                         redialed, reported, closed>>
          /\ actor'[a].at = "recv" /\ actor'[a].op = actor[a].op /\ actor'[a].n = actor[a].n
          /\ actor'[a].socket = actor[a].socket /\ actor'[a].id = actor[a].id
          /\ \A b \in Actor : b # a => actor'[b] = actor[b]
        BY <1>2 DEF Inv, StartRecv, At, Goes, Named, daemonVars, dialVars
    <2>2. Arrived' = Arrived
        BY <2>1, SameArrived
    <2>3. Holders'
        BY <2>1, SetFacts DEF Inv, Holders, InSend, At
    <2>4. Subscribers'
        BY <2>1, SetFacts DEF Inv, Subscribers, InSend, At, TaskRuns, LoopRuns
    <2>5. Dialled'
        BY <2>1 DEF Inv, Dialled
    <2>6. Numbers'
        BY <2>1, <2>2, NumbersKept DEF Inv
    <2>7. Ids'
        BY <2>1, <2>2, IdsKept DEF Inv, Call
    <2>8. Unsubscribes'
        BY <2>1, SetFacts DEF Inv, Unsubscribes, At
    <2>9. Replies'
        BY <2>1, <2>2, SetFacts DEF Inv, Replies, At
    <2>10. Covered'
        <3>1. UnsubscribeSent => UnsubscribeSent'
            BY <2>1, SetFacts DEF UnsubscribeSent, At
        <3>2. OfLoop' <=> OfLoop
            BY <2>1 DEF OfLoop
        <3> QED
            BY <2>1, <3>1, <3>2, SetFacts DEF Inv, Covered, At
    <2>11. Stops'
        BY <2>1, SetFacts DEF Inv, Stops, LoopRuns, At
    <2>12. Quiet'
        BY <2>1, SetFacts DEF Inv, Quiet, At, TaskRuns, LoopRuns
    <2> QED
        BY <2>1, <2>3, <2>4, <2>5, <2>6, <2>7, <2>8, <2>9, <2>10, <2>11, <2>12 DEF Inv
<1> QED
    BY <1>1, <1>2, StartRecvFacts DEF Inv

LEMMA DropSocketStep ==
    ASSUME Inv, NEW a \in Actor, a = Loop => ~stopping, DropSocket(a)
    PROVE  Inv'
<1>1. /\ Typed /\ Typed' /\ actor[a].at = "failed" /\ lock = a /\ lock' = None /\ ws' = None
      /\ UNCHANGED <<ids, client, sock, inbox, requests, subs, stopping, refused, redialed,
                     reported, closed>>
    BY DropSocketFacts DEF Inv, DropSocket, At, Holders, InSend, daemonVars, dialVars, LockAfterFail
<1>2. /\ actor'[a].at = "idle" /\ actor'[a].op = "call" /\ actor'[a].n = actor[a].n
      /\ \/ /\ actor'[Loop].at = "idle" /\ actor'[Loop].op = "call"
            /\ actor'[Loop].n = actor[Loop].n /\ ~stopping
         \/ actor'[Loop] = actor[Loop] /\ stopping
      /\ \A b \in Actor : (b # a /\ b # Loop) => actor'[b] = actor[b]
    <2>1. CASE stopping
        BY <1>1, <2>1, DropSocketFacts, SetFacts DEF Goes
    <2>2. CASE ~stopping /\ a # Loop
        BY <1>1, <2>2, DropSocketFacts DEF BothGo
    <2>3. CASE a = Loop
        BY <1>1, <2>3, DropSocketFacts DEF Goes
    <2> QED
        BY <2>1, <2>2, <2>3
<1>3. Arrived' = Arrived
    BY <1>1, SameArrived
<1>4. Holders'
    BY <1>1, <1>2, SetFacts DEF Inv, Holders, InSend, At
<1>5. Subscribers'
    BY <1>1, <1>2, SetFacts DEF Inv, Subscribers, InSend, At, TaskRuns, LoopRuns
<1>6. Dialled'
    BY <1>1 DEF Inv, Dialled
<1>7. Numbers'
    BY <1>1, <1>2, <1>3, NumbersKept DEF Inv
<1>8. Ids'
    BY <1>1, <1>2, <1>3, IdsKept DEF Inv, Call
<1>9. Unsubscribes'
    BY <1>1, SetFacts DEF Unsubscribes
<1>10. Replies'
    BY <1>1 DEF Replies
<1>11. Covered'
    <2>1. ~OfLoop'
        BY <1>1 DEF OfLoop
    <2>2. actor'[Loop].at = "read" => \/ actor'[Loop].socket \notin redialed
                                      \/ sock[actor'[Loop].socket] # "open"
        <3> SUFFICES ASSUME actor'[Loop].at = "read"
                     PROVE  \/ actor'[Loop].socket \notin redialed
                            \/ sock[actor'[Loop].socket] # "open"
            OBVIOUS
        <3>1. actor'[Loop] = actor[Loop] /\ a # Loop /\ actor[Loop].socket \in Socket
            BY <1>1, <1>2 DEF Inv, Holders, At
        <3>2. ~OfLoop
            BY <1>1, <3>1 DEF Inv, Covered, At
        <3> QED
            BY <1>1, <3>1, <3>2, SetFacts DEF Inv, Covered, OfLoop, At
    <2> QED
        BY <1>1, <2>1, <2>2 DEF Covered, At
<1>12. Stops'
    BY <1>1, <1>2, SetFacts DEF Inv, Stops, LoopRuns, At
<1>13. Quiet'
    BY <1>1, <1>2, SetFacts DEF Inv, Quiet, At, TaskRuns, LoopRuns
<1> QED
    BY <1>1, <1>4, <1>5, <1>6, <1>7, <1>8, <1>9, <1>10, <1>11, <1>12, <1>13 DEF Inv

\* A caller subscribes while no loop runs that is not being cancelled.
LEMMA NoLoopYet ==
    ASSUME Inv, NEW c \in Caller, actor[c].op = "subscribe"
    PROVE  ~TaskRuns /\ ~InSend(Loop) /\ ~client.subscribed
BY DEF Inv, Subscribers, Subscribed

\* What bears a call's request id is the reply to that call.
LEMMA MatchesReply ==
    ASSUME Inv, NEW a \in Actor, At(a, {"recv"}), inbox[actor[a].socket] # <<>>,
           Matches(a, Head(inbox[actor[a].socket]))
    PROVE  IsReply(a, Head(inbox[actor[a].socket]))
<1> DEFINE m == Head(inbox[actor[a].socket])
           x == [socket |-> actor[a].socket, id |-> actor[a].id, to |-> m.to, n |-> m.n]
<1>1. actor[a].socket \in Socket
    BY DEF Inv, Holders, At
<1>2. x \in Arrived
    BY <1>1, HeadArrived DEF Inv
<1>3. x.id = actor[a].id /\ x.to = m.to /\ x.n = m.n
    OBVIOUS
<1> HIDE DEF x
<1>4. Fits(x.id, x.to, x.n) /\ At(a, Call)
    BY <1>2 DEF Inv, Ids, At, Call
<1> QED
    BY <1>3, <1>4 DEF Fits, IsReply

LEMMA ReceiveStep ==
    ASSUME Inv, NEW a \in Actor, a = Loop => ~stopping, Receive(a)
    PROVE  Inv'
<1>1. /\ Typed /\ actor[a].at = "recv" /\ lock = a /\ actor[a].socket \in Socket
      /\ \A b \in Actor : b # a => ~InSend(b)
    BY DEF Inv, Receive, Holders, InSend, At
<1>2. /\ actor[a].op = "subscribe" /\ a # Loop => ~TaskRuns
      /\ Matches(a, Head(inbox[actor[a].socket])) => IsReply(a, Head(inbox[actor[a].socket]))
    BY NoLoopYet, MatchesReply, SetFacts DEF Inv, Holders, Receive
<1>3. /\ Typed' /\ Arrived' \subseteq Arrived
      /\ UNCHANGED <<ws, sock, requests, subs, stopping, redialed, reported, refused, closed>>
    BY <1>1, <1>2, ReceiveFacts
<1>4. Dialled'
    BY <1>3 DEF Inv, Dialled
<1>5. OfLoop' <=> OfLoop
    BY <1>3 DEF OfLoop
<1>6. CASE UNCHANGED <<lock, ids, client>> /\ Goes(a, "sent", actor[a].op, actor[a].n, actor[a].socket)
    <2>1. /\ actor'[a].at = "sent" /\ actor'[a].op = actor[a].op /\ actor'[a].n = actor[a].n
          /\ actor'[a].socket = actor[a].socket /\ actor'[a].id = actor[a].id
          /\ \A b \in Actor : b # a => actor'[b] = actor[b]
        BY <1>6 DEF Goes, Named
    <2>2. Holders'
        BY <1>1, <1>6, <2>1, SetFacts DEF Inv, Holders, InSend, At
    <2>3. Subscribers'
        BY <1>1, <1>3, <1>6, <2>1, SetFacts DEF Inv, Subscribers, InSend, At, TaskRuns, LoopRuns
    <2>4. Numbers'
        BY <1>1, <1>3, <2>1, NumbersKept DEF Inv
    <2>5. Ids'
        BY <1>1, <1>3, <1>6, <2>1, IdsKept DEF Inv, Call
    <2>6. Unsubscribes'
        BY <1>1, <1>3, <2>1, SetFacts DEF Inv, Unsubscribes, At
    <2>7. Replies'
        BY <1>1, <1>3, <2>1, SetFacts DEF Inv, Replies, At
    <2>8. Covered'
        <3>1. UnsubscribeSent => UnsubscribeSent'
            BY <1>1, <2>1, SetFacts DEF UnsubscribeSent, At
        <3> QED
            BY <1>1, <1>3, <1>5, <1>6, <2>1, <3>1, SetFacts DEF Inv, Covered, At
    <2>9. Stops'
        BY <1>1, <1>3, <2>1, SetFacts DEF Inv, Stops, LoopRuns, At
    <2>10. Quiet'
        BY <1>1, <1>3, <2>1, SetFacts DEF Inv, Quiet, At, TaskRuns, LoopRuns
    <2> QED
        BY <1>3, <1>4, <2>2, <2>3, <2>4, <2>5, <2>6, <2>7, <2>8, <2>9, <2>10 DEF Inv
<1>7. ASSUME [socket |-> actor[a].socket, id |-> actor[a].id, to |-> a, n |-> actor[a].n] \in Arrived
      PROVE  /\ actor[a].op = "subscribe" =>
                    ws \in {actor[a].socket, None} /\ (OfLoop => ws \in subs \cup refused)
             /\ \A r \in requests : r.by = a => r.n # actor[a].n
    <2>1. PICK x \in Arrived : x.socket = actor[a].socket /\ x.to = a /\ x.n = actor[a].n
        BY <1>7
    <2>2. actor[a].op = "subscribe" => ws \in {actor[a].socket, None}
        BY <1>1 DEF Inv, Replies, At
    <2>3. actor[a].op = "subscribe" /\ OfLoop => ws \in subs \cup refused
        BY <1>1, <2>1, <2>2 DEF Inv, Replies, At, OfLoop
    <2>4. \A r \in requests : r.by = a => r.n # actor[a].n
        BY <2>1 DEF Inv, Numbers
    <2> QED
        BY <2>2, <2>3, <2>4
<1>8. CASE /\ a = Loop /\ lock' = None /\ UNCHANGED <<ids, client>>
           /\ [socket |-> actor[a].socket, id |-> actor[a].id, to |-> a, n |-> actor[a].n] \in Arrived
           /\ Goes(Loop, "top", "call", actor[Loop].n, None)
    <2>1. /\ actor'[Loop].at = "top" /\ actor'[Loop].op = "call"
          /\ actor'[Loop].n = actor[Loop].n /\ actor[Loop].op = "subscribe"
          /\ \A b \in Actor : b # Loop => actor'[b] = actor[b]
        BY <1>1, <1>8 DEF Goes, Inv, Holders, InSend, At
    <2>2. Holders'
        BY <1>1, <1>8, <2>1, SetFacts DEF Inv, Holders, InSend, At
    <2>3. Subscribers' /\ client = Subscribed
        BY <1>1, <1>3, <1>8, <2>1, SetFacts DEF Inv, Subscribers, InSend, At, TaskRuns, LoopRuns
    <2>4. Numbers'
        BY <1>1, <1>3, <2>1, NumbersKept DEF Inv
    <2>5. Ids'
        BY <1>1, <1>3, <1>8, <2>1, IdsKept DEF Inv, Call
    <2>6. Unsubscribes'
        BY <1>1, <1>3, <1>8, <2>1, SetFacts DEF Inv, Unsubscribes, At
    <2>7. Replies'
        BY <1>1, <1>3, <2>1, SetFacts DEF Inv, Replies, At
    <2>8. Covered'
        <3>1. OfLoop => ws \in subs \cup refused
            BY <1>7, <1>8, <2>1
        <3>2. \A b \in Actor : b # Loop => actor'[b].at \notin {"dial", "failed"}
            BY <1>1, <1>8, <2>1, SetFacts DEF InSend, At
        <3>3. \A c \in Caller : actor'[c].at \notin {"ensure", "reporting"}
            BY <2>1, <2>3, SetFacts, <1>1 DEF Inv, Subscribers, Subscribed, At
        <3> QED
            BY <1>3, <1>5, <2>1, <3>1, <3>2, <3>3, SetFacts DEF Covered, At
    <2>9. Stops'
        BY <1>3, <1>8 DEF Stops
    <2>10. Quiet'
        BY <1>1, <1>3, <1>8, <2>1, SetFacts DEF Inv, Quiet, At, TaskRuns, LoopRuns
    <2> QED
        BY <1>3, <1>4, <2>2, <2>3, <2>4, <2>5, <2>6, <2>7, <2>8, <2>9, <2>10 DEF Inv
<1>9. ASSUME a \in Task, lock' = None,
             [socket |-> actor[a].socket, id |-> actor[a].id, to |-> a, n |-> actor[a].n] \in Arrived,
             NEW m, IsReply(a, m), m.ok \in BOOLEAN, Returned(a, m)
      PROVE  Inv'
    <2>1. /\ a # Loop /\ Loop \in Actor /\ actor[a].n \in Nat
          /\ \A b \in Actor : actor[b].n \in Nat
          /\ a # Report => a \in Caller
          /\ a = Report => actor[a].op = "call"
        BY <1>1, <1>9, SetFacts DEF Inv, Holders, Task
    <2>2. \A r \in requests : (r.op = "unsubscribe" /\ r.socket = ws) => FALSE
        BY <1>1, <1>7, <1>9, SetFacts DEF Inv, Unsubscribes, InSend, At
    <2>3. Unsubscribes'
        BY <1>3, <2>2 DEF Unsubscribes
    <2>4. a # Report => closed = "no"
        BY <1>1, <2>1 DEF Inv, Quiet, At, Typed, TypeOK
    <2>5. a # Report => Quiet'
        BY <1>3, <2>4 DEF Quiet
    <2>6. ASSUME NEW place \in {"idle", "ensure", "lock"}, actor'[a].at = place,
                 \/ actor'[a].n = actor[a].n /\ place # "lock" /\ ids' = ids
                 \/ actor'[a].n = actor[a].n + 1 /\ actor'[a].id = ids + 1 /\ ids' = ids + 1,
                 a = Report => actor'[a].op = "call",
                 \A b \in Actor : (b # a /\ b # Loop) => actor'[b] = actor[b],
                 \/ actor'[Loop] = actor[Loop]
                 \/ actor'[Loop].n = actor[Loop].n /\ actor'[Loop].at \in {"idle", "top"}
          PROVE  Numbers' /\ Ids' /\ Replies' /\ Holders'
        <3>1. Numbers'
            BY <1>1, <1>3, <2>1, <2>6, NumbersKept DEF Inv
        <3>2. Ids'
            BY <1>1, <1>3, <2>1, <2>6, IdsKept DEF Inv, Call
        <3>3. \A b \in Actor : actor'[b].at \notin {"dial", "sent", "recv", "failed"}
            BY <1>1, <2>1, <2>6 DEF InSend, At
        <3>4. Replies'
            BY <3>3 DEF Replies, At
        <3>5. Holders'
            BY <1>1, <2>1, <2>6, <3>3, SetFacts DEF Inv, Holders, InSend, At
        <3> QED
            BY <3>1, <3>2, <3>4, <3>5
    <2>7. CASE /\ actor[a].op = "subscribe" /\ Usable /\ client' = Subscribed
               /\ ids' = ids + 1 /\ ~stopping
               /\ BothGo(a, "lock", "pending", actor[a].n + 1, "top")
        <3>1. /\ actor'[a].at = "lock" /\ actor'[a].op = "pending" /\ actor'[a].n = actor[a].n + 1
              /\ actor'[a].id = ids + 1
              /\ actor'[Loop].at = "top" /\ actor'[Loop].op = "call"
              /\ actor'[Loop].n = actor[Loop].n
              /\ \A b \in Actor : (b # a /\ b # Loop) => actor'[b] = actor[b]
            BY <2>7 DEF BothGo, Named
        <3>2. Numbers' /\ Ids' /\ Replies' /\ Holders'
            BY <2>1, <2>6, <2>7, <3>1
        <3>3. a \in Caller /\ a # Report
            BY <2>1, <2>7
        <3>4. Subscribers'
            BY <2>1, <2>7, <3>1, <3>3, SetFacts, <1>1
               DEF Inv, Subscribers, InSend, At, TaskRuns, LoopRuns
        <3>5. Covered'
            <4>1. OfLoop => ws \in subs \cup refused
                BY <1>7, <1>9, <2>7
            <4>2. \A b \in Actor : b # Loop => actor'[b].at \notin {"dial", "failed"}
                BY <1>1, <2>1, <3>1, SetFacts DEF InSend, At
            <4>3. \A c \in Caller : actor'[c].at \notin {"ensure", "reporting"}
                BY <1>1, <2>7, <3>1, <3>3, SetFacts DEF Inv, Subscribers, At
            <4> QED
                BY <1>3, <1>5, <3>1, <4>1, <4>2, <4>3, SetFacts DEF Covered, At
        <3>6. Stops'
            BY <1>3, <2>7 DEF Stops
        <3> QED
            BY <1>3, <1>4, <2>3, <2>5, <3>2, <3>3, <3>4, <3>5, <3>6 DEF Inv
    <2>8. CASE /\ actor[a].op = "unsubscribe" /\ client.handler /\ ~stopping /\ ids' = ids
               /\ BothGo(a, "idle", "call", actor[a].n, "idle")
               /\ client' = [client EXCEPT !.subscribed = FALSE, !.handler = FALSE]
        <3>1. /\ actor'[a].at = "idle" /\ actor'[a].op = "call" /\ actor'[a].n = actor[a].n
              /\ actor'[Loop].at = "idle" /\ actor'[Loop].op = "call"
              /\ actor'[Loop].n = actor[Loop].n
              /\ \A b \in Actor : (b # a /\ b # Loop) => actor'[b] = actor[b]
            BY <2>8 DEF BothGo
        <3>2. Numbers' /\ Ids' /\ Replies' /\ Holders'
            BY <2>6, <2>8, <3>1
        <3>3. ~client'.subscribed /\ a \in Caller /\ a # Report
            BY <2>1, <2>8 DEF Inv, Typed, TypeOK
        <3>4. Subscribers'
            BY <1>1, <2>1, <3>1, <3>3, SetFacts
               DEF Inv, Subscribers, InSend, At, TaskRuns, LoopRuns
        <3>5. Covered'
            BY <1>1, <1>5, <2>1, <3>1, <3>3, SetFacts DEF Inv, Covered, At
        <3>6. Stops'
            BY <1>3, <2>8 DEF Stops
        <3> QED
            BY <1>3, <1>4, <2>3, <2>5, <3>2, <3>3, <3>4, <3>5, <3>6 DEF Inv
    <2>9. ASSUME NEW place \in {"idle", "ensure"}, NEW op,
                 Goes(a, place, op, actor[a].n, None), ids' = ids, a = Report => op = "call",
                 UnsubscribeSent' \/ ~UnsubscribeSent \/ ~client'.subscribed,
                 client'.subscribed => client.subscribed, place = "ensure" => ~OfLoop
          PROVE  Numbers' /\ Ids' /\ Replies' /\ Holders' /\ Covered' /\ Stops'
        <3>1. /\ actor'[a].at = place /\ actor'[a].op = op /\ actor'[a].n = actor[a].n
              /\ \A b \in Actor : b # a => actor'[b] = actor[b]
            BY <2>9 DEF Goes
        <3>2. Numbers' /\ Ids' /\ Replies' /\ Holders'
            BY <2>1, <2>6, <2>9, <3>1
        <3>3. Covered'
            BY <1>1, <1>3, <1>5, <2>1, <2>9, <3>1, SetFacts DEF Inv, Covered, At
        <3>4. Stops'
            BY <1>1, <1>3, <2>1, <3>1, SetFacts DEF Inv, Stops, LoopRuns, At
        <3> QED
            BY <3>2, <3>3, <3>4
    <2>10. CASE /\ actor[a].op = "subscribe" /\ ~Usable /\ ids' = ids
                /\ client' = [client EXCEPT !.handler = TRUE]
                /\ Goes(a, "ensure", "subscribe", actor[a].n, None)
        <3>1. a \in Caller /\ a # Report /\ ~TaskRuns /\ ~client.subscribed /\ ~OfLoop
            BY <2>1, <2>10, NoLoopYet DEF Usable, OfLoop
        <3>2. ~client'.subscribed
            BY <2>10, <3>1 DEF Inv, Typed, TypeOK
        <3>3. Numbers' /\ Ids' /\ Replies' /\ Holders' /\ Covered' /\ Stops'
            BY <2>9, <2>10, <3>1, <3>2
        <3>4. /\ actor'[a].at = "ensure" /\ actor'[a].op = "subscribe"
              /\ \A b \in Actor : b # a => actor'[b] = actor[b]
            BY <2>10 DEF Goes
        <3>5. ~InSend(Loop)
            BY <1>1, <2>1
        <3>6. Subscribers'
            BY <1>1, <1>3, <2>1, <2>10, <3>1, <3>2, <3>4, <3>5, SetFacts
               DEF Inv, Subscribers, InSend, At, TaskRuns, LoopRuns
        <3> QED
            BY <1>3, <1>4, <2>3, <2>5, <3>1, <3>3, <3>6 DEF Inv
    <2>11. CASE /\ actor[a].op = "unsubscribe" /\ (~client.handler \/ stopping) /\ ids' = ids
                /\ Goes(a, "idle", "call", actor[a].n, None)
                /\ client' = [client EXCEPT !.subscribed = FALSE, !.handler = FALSE]
        <3>1. ~TaskRuns /\ ~InSend(Loop) /\ a \in Caller /\ a # Report
            BY <1>1, <2>1, <2>11 DEF Inv, Subscribers, Subscribed, TaskRuns
        <3>2. ~client'.subscribed
            BY <2>11 DEF Inv, Typed, TypeOK
        <3>3. Numbers' /\ Ids' /\ Replies' /\ Holders' /\ Covered' /\ Stops'
            BY <2>9, <2>11, <3>1, <3>2
        <3>4. /\ actor'[a].at = "idle" /\ actor'[a].op = "call"
              /\ \A b \in Actor : b # a => actor'[b] = actor[b]
            BY <2>11 DEF Goes
        <3>5. Subscribers'
            BY <1>1, <1>3, <2>1, <3>1, <3>2, <3>4, SetFacts
               DEF Inv, Subscribers, InSend, At, TaskRuns, LoopRuns
        <3> QED
            BY <1>3, <1>4, <2>3, <2>5, <3>1, <3>3, <3>5 DEF Inv
    <2>12. CASE /\ actor[a].op # "unsubscribe" /\ client' = client /\ ids' = ids
                /\ Goes(a, "idle", "call", actor[a].n, None)
        <3>1. /\ actor'[a].at = "idle" /\ actor'[a].op = "call"
              /\ \A b \in Actor : b # a => actor'[b] = actor[b]
            BY <2>12 DEF Goes
        <3>2. UnsubscribeSent => UnsubscribeSent'
            BY <2>12, <3>1, SetFacts, <1>1 DEF UnsubscribeSent, At
        <3>3. Numbers' /\ Ids' /\ Replies' /\ Holders' /\ Covered' /\ Stops'
            BY <2>9, <2>12, <3>2
        <3>4. Subscribers'
            BY <1>3, <2>1, <2>12, <3>1, SetFacts, <1>1
               DEF Inv, Subscribers, InSend, At, TaskRuns, LoopRuns
        <3>5. Quiet'
            BY <1>1, <1>3, <2>1, <3>1, SetFacts DEF Inv, Quiet, At, TaskRuns, LoopRuns
        <3> QED
            BY <1>3, <1>4, <2>3, <3>3, <3>4, <3>5 DEF Inv
    <2> QED
        BY <1>1, <1>2, <1>9, <2>1, <2>7, <2>8, <2>10, <2>11, <2>12, ReturnedFacts
<1>10. CASE a = Loop
    BY <1>1, <1>2, <1>6, <1>8, <1>10, ReceiveFacts
<1>11. CASE a # Loop
    <2>1. a \in Task
        BY <1>1, <1>11, SetFacts DEF Task
    <2> QED
        BY <1>1, <1>2, <1>6, <1>9, <1>11, <2>1, ReceiveFacts
<1> QED
    BY <1>10, <1>11

LEMMA EnsureDialedStep ==
    ASSUME Inv, NEW c \in Caller, EnsureDialed(c)
    PROVE  Inv'
<1> DEFINE new == NewSocket
<1>1. /\ Typed /\ actor[c].at = "ensure" /\ actor[c].op = "subscribe" /\ c \in Actor
      /\ c # Loop /\ c # Report
      /\ ~TaskRuns /\ ~InSend(Loop) /\ ~client.subscribed /\ ~OfLoop /\ closed = "no"
    BY NoLoopYet, Constants DEF Inv, EnsureDialed, Subscribers, Covered, Quiet, At, Typed, TypeOK
<1>2. /\ Typed' /\ Opened(c) /\ ws' = new
      /\ GoesBesideReport(c, "reporting", actor[c].op, actor[c].n, actor[c].socket)
      /\ UNCHANGED <<lock, ids, client, inbox, requests, subs, stopping, refused, closed>>
    BY <1>1, EnsureDialedFacts DEF EnsureDialed, daemonVars
<1>3. /\ new \in Socket /\ sock[new] = "unused" /\ sock'[new] = "open"
      /\ \A s \in Socket : s # new => sock'[s] = sock[s]
      /\ redialed' = redialed /\ redialed \subseteq Socket
    BY <1>1, <1>2, OpenedFacts, Constants DEF Typed, TypeOK
<1> HIDE DEF new
<1>4. /\ actor'[c].at = "reporting" /\ actor'[c].op = "subscribe" /\ actor'[c].n = actor[c].n
      /\ \A b \in Actor : (b # c /\ b # Report) => actor'[b] = actor[b]
      /\ \/ actor'[Report] = actor[Report]
         \/ /\ actor[Report].at = "idle" /\ actor'[Report].at = "probe"
            /\ actor'[Report].op = actor[Report].op /\ actor'[Report].n = actor[Report].n
    BY <1>1, <1>2 DEF GoesBesideReport, ReportMayProbe
<1>5. Arrived' = Arrived /\ new \notin redialed /\ \A r \in requests : r.socket # new
    BY <1>2, <1>3, SameArrived DEF Inv, Dialled
<1>6. Holders'
    BY <1>1, <1>2, <1>4, SetFacts DEF Inv, Holders, InSend, At
<1>7. Subscribers'
    BY <1>1, <1>2, <1>4, SetFacts DEF Inv, Subscribers, InSend, At, TaskRuns, LoopRuns
<1>8. Dialled'
    BY <1>1, <1>2, <1>3, SetFacts DEF Inv, Dialled
<1>9. Numbers'
    BY <1>1, <1>2, <1>4, <1>5, NumbersKept DEF Inv
<1>10. Ids'
    BY <1>1, <1>2, <1>4, <1>5, IdsKept DEF Inv, Call
<1>11. Unsubscribes'
    BY <1>2, <1>5 DEF Unsubscribes
<1>12. Replies'
    <2>1. ASSUME NEW b \in Actor, actor'[b].at \in {"sent", "recv"}
          PROVE  actor'[b].op # "subscribe"
        <3>1. b # c /\ actor'[b] = actor[b]
            BY <1>1, <1>4, <2>1, SetFacts
        <3>2. b # Loop
            BY <1>1, <2>1, <3>1 DEF InSend, At
        <3> QED
            BY <1>1, <3>1, <3>2, SetFacts DEF Inv, Subscribers, Holders
    <2> QED
        BY <2>1 DEF Replies, At
<1>13. Covered'
    <2>1. ~OfLoop'
        BY <1>2, <1>3, <1>5 DEF OfLoop
    <2>2. actor'[Loop] = actor[Loop]
        BY <1>1, <1>4, SetFacts
    <2>3. At(Loop, {"read"}) => \/ actor[Loop].socket \notin redialed
                                \/ sock'[actor[Loop].socket] # "open"
        <3> SUFFICES ASSUME At(Loop, {"read"})
                     PROVE  \/ actor[Loop].socket \notin redialed
                            \/ sock'[actor[Loop].socket] # "open"
            OBVIOUS
        <3>1. actor[Loop].socket \in Socket
            BY DEF Inv, Holders
        <3>2. \/ actor[Loop].socket \notin redialed
              \/ sock[actor[Loop].socket] # "open"
            BY <1>1, <3>1, SetFacts DEF Inv, Covered, OfLoop
        <3> QED
            BY <1>3, <1>5, <3>1, <3>2
    <2> QED
        BY <1>2, <1>3, <2>1, <2>2, <2>3 DEF Covered, At
<1>14. Stops'
    BY <1>1, <1>2, <1>4, SetFacts DEF Inv, Stops, LoopRuns, At
<1>15. Quiet'
    BY <1>1, <1>2 DEF Quiet
<1> QED
    BY <1>2, <1>6, <1>7, <1>8, <1>9, <1>10, <1>11, <1>12, <1>13, <1>14, <1>15 DEF Inv

LEMMA EnsureReportedStep ==
    ASSUME Inv, NEW c \in Caller, EnsureReported(c)
    PROVE  Inv'
<1>1. /\ Typed /\ actor[c].at = "reporting" /\ actor[c].op = "subscribe" /\ c \in Actor
      /\ c # Loop /\ c # Report
      /\ ~LoopRuns /\ ~stopping /\ ~client.subscribed /\ ~OfLoop /\ closed = "no"
    BY NoLoopYet, Constants
       DEF Inv, EnsureReported, Subscribers, Covered, Quiet, At, Typed, TypeOK, TaskRuns
<1>2. /\ Typed' /\ actor[c].n \in Nat /\ client' = Subscribed /\ ids' = ids + 1
      /\ BothGo(c, "lock", "pending", actor[c].n + 1, "top")
      /\ UNCHANGED <<ws, lock, sock, inbox, requests, subs, stopping, refused, redialed, closed>>
    BY <1>1, EnsureReportedFacts DEF EnsureReported, daemonVars, dialVars
<1>3. /\ actor'[c].at = "lock" /\ actor'[c].op = "pending" /\ actor'[c].n = actor[c].n + 1
      /\ actor'[c].id = ids + 1
      /\ actor'[Loop].at = "top" /\ actor'[Loop].op = "call" /\ actor'[Loop].n = actor[Loop].n
      /\ \A b \in Actor : (b # c /\ b # Loop) => actor'[b] = actor[b]
    BY <1>2 DEF BothGo, Named
<1>4. Arrived' = Arrived
    BY <1>2, SameArrived
<1>5. \A b \in Caller : b # c => actor[b].op # "subscribe"
    BY <1>1 DEF Inv, Subscribers
<1>6. Holders'
    BY <1>1, <1>2, <1>3, SetFacts DEF Inv, Holders, InSend, At
<1>7. Subscribers'
    BY <1>1, <1>2, <1>3, <1>5, SetFacts DEF Inv, Subscribers, InSend, At, TaskRuns, LoopRuns
<1>8. Dialled'
    BY <1>2 DEF Inv, Dialled
<1>9. Numbers'
    BY <1>1, <1>2, <1>3, <1>4, NumbersKept DEF Inv
<1>10. Ids'
    BY <1>1, <1>2, <1>3, <1>4, IdsKept DEF Inv, Call
<1>11. Unsubscribes'
    BY <1>1, <1>2, <1>3, SetFacts DEF Inv, Unsubscribes, LoopRuns, At
<1>12. Replies'
    BY <1>1, <1>3, <1>5, SetFacts DEF Inv, Replies, Holders, At
<1>13. Covered'
    <2>1. ~OfLoop'
        BY <1>1, <1>2 DEF OfLoop
    <2> QED
        BY <1>3, <2>1 DEF Covered, At
<1>14. Stops' /\ Quiet'
    BY <1>1, <1>2 DEF Stops, Quiet
<1> QED
    BY <1>2, <1>6, <1>7, <1>8, <1>9, <1>10, <1>11, <1>12, <1>13, <1>14 DEF Inv

\* A coroutine other than the loop goes on or ends, outside send() and with the
\* connection as it is.
LEMMA AloneStep ==
    ASSUME Inv, Typed', NEW a \in Task, NEW place \in {"idle", "lock"}, ~InSend(a),
           UNCHANGED <<ws, lock, client, sock, inbox, requests, subs, stopping, refused,
                       redialed, reported, closed>>,
           ids' \in {ids, ids + 1}, actor'[a].at = place, actor'[a].op = "call",
           \/ actor'[a].n = actor[a].n /\ place = "idle"
           \/ actor'[a].n = actor[a].n + 1 /\ actor'[a].id = ids + 1 /\ ids' = ids + 1,
           \A b \in Actor : b # a => actor'[b] = actor[b],
           a \in Caller => place = "idle" /\ actor[a].at = "ensure"
    PROVE  Inv'
<1>1. Typed /\ a \in Actor /\ a # Loop
    BY Constants DEF Inv, Task
<1>2. Arrived' = Arrived
    BY SameArrived
<1>3. Holders'
    BY <1>1, SetFacts DEF Inv, Holders, InSend, At
<1>4. Subscribers'
    BY <1>1, SetFacts DEF Inv, Subscribers, InSend, At, TaskRuns, LoopRuns
<1>5. Dialled'
    BY DEF Inv, Dialled
<1>6. Numbers'
    BY <1>1, <1>2, NumbersKept DEF Inv
<1>7. Ids'
    BY <1>1, <1>2, IdsKept DEF Inv, Call
<1>8. Unsubscribes'
    BY <1>1, SetFacts DEF Inv, Unsubscribes, InSend, At
<1>9. Replies'
    BY <1>1, <1>2, SetFacts DEF Inv, Replies, At
<1>10. Covered'
    <2>1. UnsubscribeSent => UnsubscribeSent'
        BY <1>1, SetFacts DEF UnsubscribeSent, InSend, At
    <2>2. OfLoop' <=> OfLoop
        BY DEF OfLoop
    <2> QED
        BY <1>1, <2>1, <2>2, SetFacts DEF Inv, Covered, At
<1>11. Stops'
    BY <1>1, SetFacts DEF Inv, Stops, LoopRuns, At
<1>12. Quiet'
    BY <1>1, SetFacts DEF Inv, Quiet, At, TaskRuns, LoopRuns
<1> QED
    BY <1>3, <1>4, <1>5, <1>6, <1>7, <1>8, <1>9, <1>10, <1>11, <1>12 DEF Inv

LEMMA EnsureFailsStep ==
    ASSUME Inv, NEW c \in Caller, EnsureFails(c)
    PROVE  Inv'
<1>1. /\ Typed' /\ actor[c].at = "ensure" /\ c \in Task /\ ~InSend(c)
      /\ Goes(c, "idle", "call", actor[c].n, None)
      /\ UNCHANGED <<ws, lock, ids, client, sock, inbox, requests, subs, stopping, refused,
                     redialed, reported, closed>>
    BY EnsureFailsFacts DEF Inv, EnsureFails, At, InSend, Task, daemonVars, dialVars
<1> QED
    BY <1>1, AloneStep DEF Goes

LEMMA ReportStepKeeps ==
    ASSUME Inv, Probed \/ ReportSkipped
    PROVE  Inv'
<1>1. Report \in Task /\ Report \notin Caller /\ ~InSend(Report)
    BY ConnectionAssumption DEF Probed, ReportSkipped, At, InSend, Task
<1>2. CASE Probed
    <2>1. /\ Typed' /\ Goes(Report, "lock", "call", actor[Report].n + 1, None) /\ ids' = ids + 1
          /\ UNCHANGED <<ws, lock, client, sock, inbox, requests, subs, stopping, refused,
                         redialed, reported, closed>>
        BY <1>2, ProbedFacts DEF Inv, Probed, daemonVars, dialVars
    <2> QED
        BY <1>1, <2>1, AloneStep DEF Goes, Named
<1>3. CASE ReportSkipped
    <2>1. /\ Typed' /\ Goes(Report, "idle", "call", actor[Report].n, None)
          /\ UNCHANGED <<ws, lock, ids, client, sock, inbox, requests, subs, stopping, refused,
                         redialed, reported, closed>>
        BY <1>3, ReportSkippedFacts DEF Inv, ReportSkipped, daemonVars, dialVars
    <2> QED
        BY <1>1, <2>1, AloneStep DEF Goes
<1> QED
    BY <1>2, <1>3

\* The loop goes on by itself, beside a report that may begin.
LEMMA LoopAlone ==
    ASSUME Inv, Typed', TaskRuns, ~InSend(Loop),
           UNCHANGED <<lock, client, requests, stopping, closed>>, Arrived' \subseteq Arrived,
           NEW place \in {"top", "redial", "read", "lock"}, actor'[Loop].at = place,
           \/ actor'[Loop].n = actor[Loop].n /\ place # "lock" /\ ids' = ids
           \/ /\ actor'[Loop].n = actor[Loop].n + 1 /\ actor'[Loop].op = "subscribe"
              /\ actor'[Loop].id = ids + 1 /\ ids' = ids + 1,
           place = "read" => actor'[Loop].socket \in Socket,
           ReportMayProbe,
           \A b \in Actor : (b # Loop /\ b # Report) => actor'[b] = actor[b]
    PROVE  /\ Holders' /\ Subscribers' /\ Numbers' /\ Ids' /\ Stops' /\ Quiet'
           /\ UnsubscribeSent' <=> UnsubscribeSent
           /\ \A b \in Actor : ~(At(b, {"sent", "recv"}) /\ actor[b].op = "subscribe")
           /\ \A b \in Actor : actor'[b].at \in {"sent", "recv"} => actor'[b] = actor[b]
<1>1. /\ Typed /\ closed = "no" /\ ~stopping /\ client.subscribed
      /\ Loop \in Actor /\ Report \in Actor /\ Loop # Report
    BY SetFacts DEF Inv, Quiet, TaskRuns, Subscribers, Subscribed
<1>2. \A b \in Actor :
        \/ actor'[b] = actor[b]
        \/ b = Loop
        \/ /\ b = Report /\ actor[b].at = "idle" /\ actor'[b].at = "probe"
           /\ actor'[b].op = actor[b].op /\ actor'[b].n = actor[b].n
    BY <1>1 DEF ReportMayProbe
<1>3. Holders'
    BY <1>1, <1>2, SetFacts DEF Inv, Holders, InSend, At
<1>4. Subscribers'
    <2>1. client = Subscribed /\ \A c \in Caller : actor'[c] = actor[c]
        BY <1>1, SetFacts DEF Inv, Subscribers
    <2> QED
        BY <1>1, <2>1 DEF Inv, Subscribers, At
<1>5. Numbers'
    BY <1>1, <1>2, NumbersKept DEF Inv
<1>6. Ids'
    BY <1>1, <1>2, IdsKept DEF Inv, Call
<1>7. Stops' /\ Quiet'
    BY <1>1 DEF Stops, Quiet
<1>8. UnsubscribeSent' <=> UnsubscribeSent
    BY <1>1, SetFacts DEF UnsubscribeSent, At
<1>9. \A b \in Actor : ~(At(b, {"sent", "recv"}) /\ actor[b].op = "subscribe")
    BY <1>1, SetFacts DEF Inv, Subscribers, Holders, InSend, At
<1>10. \A b \in Actor : actor'[b].at \in {"sent", "recv"} => actor'[b] = actor[b]
    BY <1>1, <1>2
<1> QED
    BY <1>3, <1>4, <1>5, <1>6, <1>7, <1>8, <1>9, <1>10

LEMMA LoopTopStep ==
    ASSUME Inv, ~stopping, LoopTop
    PROVE  Inv'
<1>1. /\ Typed /\ Typed' /\ actor[Loop].at = "top" /\ TaskRuns /\ ~InSend(Loop)
      /\ UNCHANGED <<lock, ids, client, sock, inbox, requests, subs, stopping, refused, redialed,
                     reported, closed>>
    BY LoopTopFacts DEF Inv, LoopTop, At, TaskRuns, LoopRuns, InSend, daemonVars, dialVars
<1>2. Arrived' = Arrived /\ ws \in Socket \cup {None} /\ Loop \in Actor
    BY <1>1, SameArrived, SetFacts
<1>3. CASE ws' = None /\ actor' = actor
    <2>1. Holders' /\ Subscribers' /\ Stops'
        BY <1>1, <1>3 DEF Inv, Holders, Subscribers, Stops, InSend, At, TaskRuns, LoopRuns
    <2>2. Dialled' /\ Unsubscribes' /\ Replies'
        BY <1>1, <1>3, SetFacts DEF Inv, Dialled, Unsubscribes, Replies, At
    <2>3. Numbers'
        BY <1>1, <1>2, <1>3, NumbersKept DEF Inv
    <2>4. Ids'
        BY <1>1, <1>2, <1>3, IdsKept DEF Inv
    <2>5. Covered'
        BY <1>1, <1>3 DEF Covered, OfLoop, At
    <2>6. Quiet'
        BY <1>1 DEF Inv, Quiet
    <2> QED
        BY <1>1, <2>1, <2>2, <2>3, <2>4, <2>5, <2>6 DEF Inv
<1>4. ASSUME NEW place \in {"redial", "read"}, NEW s, place = "read" => s = ws /\ Usable,
             ws' = ws, Goes(Loop, place, actor[Loop].op, actor[Loop].n, s)
      PROVE  Inv'
    <2>1. /\ actor'[Loop].at = place /\ actor'[Loop].n = actor[Loop].n
          /\ actor'[Loop].socket = s /\ \A b \in Actor : b # Loop => actor'[b] = actor[b]
          /\ ReportMayProbe
        BY <1>4, SetFacts, <1>1 DEF Goes, ReportMayProbe
    <2>2. place = "read" => s \in Socket
        BY <1>2, <1>4 DEF Usable
    <2>3. /\ Holders' /\ Subscribers' /\ Numbers' /\ Ids' /\ Stops' /\ Quiet'
          /\ UnsubscribeSent' <=> UnsubscribeSent
          /\ \A b \in Actor : ~(At(b, {"sent", "recv"}) /\ actor[b].op = "subscribe")
          /\ \A b \in Actor : actor'[b].at \in {"sent", "recv"} => actor'[b] = actor[b]
        BY <1>1, <1>2, <2>1, <2>2, LoopAlone
    <2>4. Dialled' /\ Replies'
        BY <1>1, <1>4, <2>3 DEF Inv, Dialled, Replies, At
    <2>5. Unsubscribes'
        BY <1>1, <1>4, <2>1, SetFacts DEF Inv, Unsubscribes, At
    <2>6. Covered'
        <3>1. OfLoop' <=> OfLoop
            BY <1>1, <1>4 DEF OfLoop
        <3> QED
            BY <1>1, <1>4, <2>1, <2>3, <3>1, SetFacts DEF Inv, Covered, At
    <2> QED
        BY <1>1, <2>3, <2>4, <2>5, <2>6 DEF Inv
<1> QED
    BY <1>1, <1>3, <1>4, LoopTopFacts

LEMMA LoopBackStep ==
    ASSUME Inv, ~stopping, LoopReads \/ LoopWaits \/ LoopLosesSocket \/ RedialFails
    PROVE  Inv'
<1>1. /\ Typed /\ TaskRuns /\ ~InSend(Loop) /\ Loop \in Actor /\ ws \in Socket \cup {None}
      /\ actor[Loop].at \in {"read", "redial"}
    BY SetFacts
       DEF Inv, LoopReads, LoopWaits, LoopLosesSocket, RedialFails, At, TaskRuns, LoopRuns, InSend
<1>2. /\ Typed' /\ Goes(Loop, "top", "call", actor[Loop].n, None)
      /\ Arrived' \subseteq Arrived /\ ws' \in {ws, None}
      /\ UNCHANGED <<lock, ids, client, sock, requests, subs, stopping, redialed, reported,
                     refused, closed>>
    <2>1. CASE RedialFails
        BY <1>1, <2>1, RedialFailsFacts, SameArrived DEF RedialFails, daemonVars, dialVars
    <2>2. CASE LoopReads \/ LoopWaits \/ LoopLosesSocket
        <3>1. actor[Loop].socket \in Socket
            BY <2>2 DEF Inv, Holders, LoopReads, LoopWaits, LoopLosesSocket
        <3> QED
            BY <1>1, <2>2, <3>1, LoopBackFacts
    <2> QED
        BY <2>1, <2>2
<1>3. /\ actor'[Loop].at = "top" /\ actor'[Loop].n = actor[Loop].n
      /\ \A b \in Actor : b # Loop => actor'[b] = actor[b]
      /\ ReportMayProbe
    BY <1>1, <1>2, SetFacts DEF Goes, ReportMayProbe
<1>4. /\ Holders' /\ Subscribers' /\ Numbers' /\ Ids' /\ Stops' /\ Quiet'
      /\ UnsubscribeSent' <=> UnsubscribeSent
      /\ \A b \in Actor : ~(At(b, {"sent", "recv"}) /\ actor[b].op = "subscribe")
      /\ \A b \in Actor : actor'[b].at \in {"sent", "recv"} => actor'[b] = actor[b]
    BY <1>1, <1>2, <1>3, LoopAlone
<1>5. Dialled' /\ Replies'
    BY <1>2, <1>4 DEF Inv, Dialled, Replies, At
<1>6. Unsubscribes'
    BY <1>1, <1>2, <1>3, SetFacts DEF Inv, Unsubscribes, At
<1>7. Covered'
    <2>1. OfLoop' => OfLoop /\ ws' = ws
        BY <1>2 DEF OfLoop
    <2> QED
        BY <1>1, <1>2, <1>3, <1>4, <2>1, SetFacts DEF Inv, Covered, At
<1> QED
    BY <1>2, <1>4, <1>5, <1>6, <1>7 DEF Inv

LEMMA RedialStep ==
    ASSUME Inv, ~stopping, Redial
    PROVE  Inv'
<1> DEFINE new == NewSocket
<1>1. /\ Typed /\ TaskRuns /\ ~InSend(Loop) /\ Loop \in Actor /\ client = Subscribed
    BY SetFacts DEF Inv, Redial, Subscribers, At, TaskRuns, LoopRuns, InSend
<1>2. /\ Typed' /\ Opened(Loop) /\ actor[Loop].n \in Nat /\ ws' = new /\ ids' = ids + 1
      /\ GoesBesideReport(Loop, "lock", "subscribe", actor[Loop].n + 1, None)
      /\ UNCHANGED <<lock, client, inbox, requests, subs, stopping, refused, closed>>
    BY <1>1, RedialFacts DEF Redial, daemonVars
<1>3. /\ new \in Socket /\ sock[new] = "unused" /\ sock'[new] = "open"
      /\ \A s \in Socket : s # new => sock'[s] = sock[s]
      /\ redialed' = redialed \cup {new} /\ redialed \subseteq Socket
    BY <1>1, <1>2, OpenedFacts DEF Typed, TypeOK
<1> HIDE DEF new
<1>4. /\ actor'[Loop].at = "lock" /\ actor'[Loop].op = "subscribe"
      /\ actor'[Loop].n = actor[Loop].n + 1 /\ actor'[Loop].id = ids + 1
      /\ ReportMayProbe
      /\ \A b \in Actor : (b # Loop /\ b # Report) => actor'[b] = actor[b]
    BY <1>2 DEF GoesBesideReport, Named
<1>5. Arrived' = Arrived /\ \A r \in requests : r.socket # new
    BY <1>2, <1>3, SameArrived DEF Inv, Dialled
<1>6. /\ Holders' /\ Subscribers' /\ Numbers' /\ Ids' /\ Stops' /\ Quiet'
      /\ \A b \in Actor : ~(At(b, {"sent", "recv"}) /\ actor[b].op = "subscribe")
      /\ \A b \in Actor : actor'[b].at \in {"sent", "recv"} => actor'[b] = actor[b]
    BY <1>1, <1>2, <1>4, <1>5, LoopAlone
<1>7. Dialled'
    BY <1>1, <1>2, <1>3, SetFacts DEF Inv, Dialled
<1>8. Unsubscribes'
    BY <1>2, <1>5 DEF Unsubscribes
<1>9. Replies'
    BY <1>6 DEF Replies, At
<1>10. Covered'
    <2>1. \A c \in Caller : ~At(c, {"ensure", "reporting"})'
        BY <1>1, <1>4, SetFacts DEF Inv, Subscribers, Subscribed, At
    <2> QED
        BY <1>4, <2>1 DEF Covered, At
<1> QED
    BY <1>2, <1>6, <1>7, <1>8, <1>9, <1>10 DEF Inv

LEMMA CloseBeginsStep ==
    ASSUME Inv, NEW c \in Caller, CloseBegins(c)
    PROVE  Inv'
<1>1. /\ Typed /\ Typed' /\ actor[c].at = "idle" /\ actor[c].n \in Nat /\ c \in Actor
      /\ c # Loop /\ c # Report
      /\ UNCHANGED <<ws, lock, ids, client, sock, inbox, requests, subs, refused, redialed,
                     reported>>
      /\ stopping' = LoopRuns
      /\ closed' = IF \A d \in Caller \ {c} : At(d, {"idle"}) THEN "closing" ELSE "no"
    BY CloseBeginsFacts, Constants DEF Inv, CloseBegins, At, daemonVars, dialVars
<1>2. /\ actor'[c].at = IF TaskRuns THEN "awaiting" ELSE "closing"
      /\ actor'[c].op = "close" /\ actor'[c].n = actor[c].n + 1
      /\ \A b \in Actor : b # c => actor'[b] = actor[b]
    BY <1>1, CloseBeginsFacts DEF Goes
<1>3. Arrived' = Arrived /\ actor'[c].at \in {"awaiting", "closing"}
    BY <1>1, <1>2, SameArrived
<1>4. Holders'
    BY <1>1, <1>2, <1>3, SetFacts DEF Inv, Holders, InSend, At
<1>5. Subscribers'
    BY <1>1, <1>2, <1>3, SetFacts DEF Inv, Subscribers, InSend, At, TaskRuns, LoopRuns
<1>6. Dialled'
    BY <1>1 DEF Inv, Dialled
<1>7. Numbers'
    BY <1>1, <1>2, <1>3, NumbersKept DEF Inv
<1>8. Ids'
    BY <1>1, <1>2, <1>3, IdsKept DEF Inv, Call
<1>9. Unsubscribes'
    BY <1>1, <1>2, SetFacts DEF Inv, Unsubscribes, At
<1>10. Replies'
    BY <1>1, <1>2, <1>3, SetFacts DEF Inv, Replies, At
<1>11. Covered'
    BY <1>1, <1>2, <1>3, SetFacts DEF Inv, Covered, OfLoop, UnsubscribeSent, At
<1>12. Stops'
    <2>1. LoopRuns' <=> LoopRuns
        BY <1>1, <1>2, SetFacts DEF LoopRuns, At
    <2>2. LoopRuns => \E d \in Caller : actor'[d].at = "awaiting"
        BY <1>1, <1>2, SetFacts DEF Inv, Stops, TaskRuns, At
    <2> QED
        BY <1>1, <2>1, <2>2 DEF Stops, At
<1>13. Quiet'
    <2>1. LoopRuns' <=> LoopRuns
        BY <1>1, <1>2, SetFacts DEF LoopRuns, At
    <2>2. CASE \A d \in Caller \ {c} : At(d, {"idle"})
        <3>1. LoopRuns => TaskRuns
            BY <1>1, <2>2 DEF Inv, Stops, TaskRuns, At
        <3> QED
            BY <1>1, <1>2, <1>3, <2>1, <2>2, <3>1, SetFacts DEF Quiet, At, TaskRuns
    <2>3. CASE ~ \A d \in Caller \ {c} : At(d, {"idle"})
        BY <1>1, <2>3 DEF Quiet
    <2> QED
        BY <2>2, <2>3
<1> QED
    BY <1>1, <1>4, <1>5, <1>6, <1>7, <1>8, <1>9, <1>10, <1>11, <1>12, <1>13 DEF Inv

\* A loop that was cancelled ends, and gives up the lock or its dial.
LEMMA LoopEndsStep ==
    ASSUME Inv, Typed', stopping, ~stopping',
           Goes(Loop, "idle", "call", actor[Loop].n, None),
           lock' \in {lock, None}, lock' # lock => lock = Loop,
           \A s \in Socket : \/ sock'[s] = sock[s]
                             \/ sock[s] = "unused" /\ sock'[s] = "closed",
           UNCHANGED <<ws, ids, client, inbox, requests, subs, refused, redialed, reported, closed>>
    PROVE  Inv'
<1>1. Typed /\ LoopRuns /\ ~TaskRuns /\ Loop \in Actor /\ closed # "closed"
    BY SetFacts DEF Inv, Stops, Quiet, TaskRuns
<1>2. /\ actor'[Loop].at = "idle" /\ actor'[Loop].op = "call" /\ actor'[Loop].n = actor[Loop].n
      /\ \A b \in Actor : b # Loop => actor'[b] = actor[b]
    BY DEF Goes
<1>3. Arrived' = Arrived
    BY SameArrived
<1>4. ~LoopRuns' /\ ~TaskRuns'
    BY <1>2 DEF LoopRuns, TaskRuns, At
<1>5. Holders'
    BY <1>1, <1>2, SetFacts DEF Inv, Holders, InSend, At
<1>6. Subscribers'
    BY <1>1, <1>2, <1>4, SetFacts DEF Inv, Subscribers, InSend, At
<1>7. Dialled'
    BY <1>1, SetFacts DEF Inv, Dialled, Typed, TypeOK
<1>8. Numbers'
    BY <1>1, <1>2, <1>3, NumbersKept DEF Inv
<1>9. Ids'
    BY <1>1, <1>2, <1>3, IdsKept DEF Inv, Call
<1>10. Unsubscribes'
    <2>1. ASSUME NEW r \in requests, r.op = "unsubscribe", r.socket = ws
          PROVE  r.by # Loop
        BY <1>1, <2>1, SetFacts DEF Inv, Unsubscribes, Holders, InSend, At
    <2> QED
        BY <1>1, <1>2, <2>1, SetFacts DEF Inv, Unsubscribes, At
<1>11. Replies'
    <2>1. ws # None => (sock'[ws] = "open" => sock[ws] = "open")
        BY <1>1, SetFacts
    <2> QED
        BY <1>1, <1>2, <1>3, <2>1, SetFacts DEF Inv, Replies, At
<1>12. Covered'
    <2>1. OfLoop' => OfLoop
        BY <1>1, SetFacts DEF OfLoop
    <2> QED
        BY <1>1, <1>2, <2>1, SetFacts DEF Inv, Covered, At
<1>13. Stops' /\ Quiet'
    BY <1>1, <1>2, <1>4, SetFacts DEF Inv, Stops, Quiet, At
<1> QED
    BY <1>5, <1>6, <1>7, <1>8, <1>9, <1>10, <1>11, <1>12, <1>13 DEF Inv

LEMMA LoopCancelledStep ==
    ASSUME Inv, LoopCancelled \/ DialedTooLate
    PROVE  Inv'
<1>1. CASE LoopCancelled
    <2>1. /\ Typed' /\ Goes(Loop, "idle", "call", actor[Loop].n, None)
        BY <1>1, LoopCancelledFacts DEF Inv
    <2>2. /\ stopping /\ ~stopping'
          /\ lock' \in {lock, None} /\ (lock' # lock => lock = Loop)
          /\ UNCHANGED <<ws, ids, client, sock, inbox, requests, subs, refused, redialed,
                         reported, closed>>
        BY <1>1 DEF LoopCancelled, LoopEnds, daemonVars, dialVars
    <2> QED
        BY <2>1, <2>2, LoopEndsStep
<1>2. CASE DialedTooLate
    <2>1. /\ Typed' /\ Goes(Loop, "idle", "call", actor[Loop].n, None)
          /\ \A s \in Socket : \/ sock'[s] = sock[s]
                               \/ sock[s] = "unused" /\ sock'[s] = "closed"
        BY <1>2, DialedTooLateFacts DEF Inv
    <2>2. /\ stopping /\ ~stopping' /\ lock' = lock
          /\ UNCHANGED <<ws, ids, client, inbox, requests, subs, refused, redialed, reported,
                         closed>>
        BY <1>2 DEF DialedTooLate, LoopEnds, daemonVars
    <2> QED
        BY <2>1, <2>2, LoopEndsStep
<1> QED
    BY <1>1, <1>2

LEMMA CloseEndsStep ==
    ASSUME Inv, NEW c \in Caller, CloseEnds(c)
    PROVE  Inv'
<1>1. /\ Typed /\ Typed' /\ ws' = None /\ ws \in Socket \cup {None} /\ c \in Actor
      /\ c # Loop /\ c # Report
      /\ actor[c].at = "closing" \/ (actor[c].at = "awaiting" /\ ~stopping)
      /\ UNCHANGED <<lock, ids, client, inbox, stopping, refused, redialed, reported>>
      /\ closed' = IF closed = "closing" THEN "closed" ELSE "no"
    BY CloseEndsFacts, SetFacts DEF Inv, CloseEnds, Awaited, At
<1>2. /\ actor'[c].at = "idle" /\ actor'[c].op = "call" /\ actor'[c].n = actor[c].n
      /\ \A b \in Actor : b # c => actor'[b] = actor[b]
    BY <1>1, CloseEndsFacts DEF Goes
<1>3. /\ ws # None => sock'[ws] = "closed"
      /\ \A x \in Socket : x # ws => sock'[x] = sock[x]
      /\ requests' = {r \in requests : r.socket # ws}
    BY <1>1, ShutFacts DEF CloseEnds
<1>4. Arrived' = Arrived
    BY <1>1, SameArrived
<1>5. Holders'
    BY <1>1, <1>2, SetFacts DEF Inv, Holders, InSend, At
<1>6. Subscribers'
    BY <1>1, <1>2, SetFacts DEF Inv, Subscribers, InSend, At, TaskRuns, LoopRuns
<1>7. Dialled'
    BY <1>1, <1>3, SetFacts DEF Inv, Dialled, Typed, TypeOK
<1>8. Numbers'
    BY <1>1, <1>2, <1>3, <1>4, NumbersKept DEF Inv
<1>9. Ids'
    BY <1>1, <1>2, <1>3, <1>4, IdsKept DEF Inv, Call
<1>10. Unsubscribes' /\ Replies'
    <2>1. \A r \in requests' : r.socket # None
        BY <1>1, <1>3, SetFacts
    <2> QED
        BY <1>1, <2>1 DEF Unsubscribes, Replies
<1>11. Covered'
    BY <1>1, <1>2, <1>3, SetFacts DEF Inv, Covered, Holders, OfLoop, At
<1>12. Stops'
    <2>1. stopping => \E d \in Caller : d # c /\ At(d, {"awaiting"})
        BY <1>1 DEF Inv, Stops, At
    <2> QED
        BY <1>1, <1>2, <2>1, SetFacts DEF Inv, Stops, LoopRuns, At
<1>13. Quiet'
    <2>1. closed = "closing" => ~LoopRuns
        BY <1>1 DEF Inv, Quiet, TaskRuns, At
    <2> QED
        BY <1>1, <1>2, <2>1, SetFacts DEF Inv, Quiet, At, TaskRuns, LoopRuns
<1> QED
    BY <1>1, <1>5, <1>6, <1>7, <1>8, <1>9, <1>10, <1>11, <1>12, <1>13 DEF Inv

\* An unsubscribe that the daemon grants is one that is being waited for, or it
\* is not about the connection's socket.
LEMMA AnswerStep ==
    ASSUME Inv, NEW r \in requests, NEW ok \in Verdicts(r), Answer(r, ok)
    PROVE  Inv'
<1>1. /\ Typed /\ Typed' /\ actor' = actor
      /\ r.socket \in Socket /\ r.by \in Actor /\ r.n \in Nat
      /\ requests' = requests \ {r}
      /\ UNCHANGED <<ws, lock, ids, client, sock, stopping, redialed, reported, closed>>
    BY AnswerFacts DEF Inv, Answer, dialVars
<1>2. /\ \A x \in Arrived' : \/ x \in Arrived
                             \/ /\ x.socket = r.socket /\ x.id = r.id
                                /\ x.to = r.by /\ x.n = r.n
      /\ r.op = "subscribe" => r.socket \in subs' \cup refused'
      /\ refused \subseteq refused' /\ subs' = SubsAfter(r, ok)
    BY <1>1, AnswerFacts
<1>3. \A s : s \in subs \cup refused => \/ s \in subs' \cup refused'
                                        \/ r.op = "unsubscribe" /\ s = r.socket
    BY <1>2 DEF SubsAfter
<1>4. Holders' /\ Subscribers' /\ Stops' /\ Quiet'
    BY <1>1 DEF Inv, Holders, Subscribers, Stops, Quiet, InSend, At, TaskRuns, LoopRuns
<1>5. Dialled' /\ Unsubscribes'
    BY <1>1 DEF Inv, Dialled, Unsubscribes, At
<1>6. Numbers'
    <2>1. ASSUME NEW q \in requests', NEW x \in Arrived'
          PROVE  ~(x.to = q.by /\ x.n = q.n)
        BY <1>1, <1>2, <2>1 DEF Inv, Numbers
    <2>2. ASSUME NEW x \in Arrived'
          PROVE  /\ x.to \in Actor /\ x.n <= actor[x.to].n
                 /\ At(x.to, {"lock", "dial"}) => x.n # actor[x.to].n
        BY <1>1, <1>2, <2>2 DEF Inv, Numbers
    <2> QED
        BY <1>1, <2>1, <2>2 DEF Inv, Numbers, At
<1>7. Ids'
    <2>1. \A x \in Arrived' : Fits(x.id, x.to, x.n)
        BY <1>2 DEF Inv, Ids
    <2>2. \A q \in requests' : Fits(q.id, q.by, q.n)
        BY <1>1 DEF Inv, Ids
    <2> QED
        BY <1>1, <2>1, <2>2 DEF Inv, Ids, Fits, At
<1>8. Replies'
    <2> SUFFICES ASSUME NEW a \in Actor, At(a, {"sent", "recv"}), actor[a].op = "subscribe"
                 PROVE  /\ ws \in {actor[a].socket, None}
                        /\ \A x \in Arrived' :
                            (/\ ws # None /\ sock[ws] = "open"
                             /\ x.socket = ws /\ x.to = a /\ x.n = actor[a].n)
                                => ws \in subs' \cup refused'
        BY <1>1 DEF Replies, At
    <2>1. ws \in {actor[a].socket, None}
        BY DEF Inv, Replies
    <2>2. ASSUME NEW x \in Arrived', ws # None, sock[ws] = "open",
                 x.socket = ws, x.to = a, x.n = actor[a].n
          PROVE  ws \in subs' \cup refused'
        <3>1. CASE x \in Arrived
            <4>1. ws \in subs \cup refused
                BY <2>2, <3>1 DEF Inv, Replies
            <4>2. ~(r.op = "unsubscribe" /\ ws = r.socket)
                <5> SUFFICES ASSUME r.op = "unsubscribe", ws = r.socket PROVE FALSE
                    OBVIOUS
                <5>1. At(r.by, {"sent", "recv"}) /\ actor[r.by].op = "unsubscribe"
                    BY DEF Inv, Unsubscribes
                <5>2. lock = r.by /\ lock = a
                    BY <1>1, <5>1 DEF Inv, Holders, InSend, At
                <5> QED
                    BY <5>1, <5>2
            <4> QED
                BY <1>3, <4>1, <4>2
        <3>2. CASE x.socket = r.socket /\ x.to = r.by /\ x.n = r.n
            <4>1. r.op = "subscribe"
                BY <2>2, <3>2 DEF Inv, Numbers
            <4> QED
                BY <1>2, <2>2, <3>2, <4>1
        <3> QED
            BY <1>2, <2>2, <3>1, <3>2
    <2> QED
        BY <2>1, <2>2
<1>9. Covered'
    <2>1. OfLoop' <=> OfLoop
        BY <1>1 DEF OfLoop
    <2>2. UnsubscribeSent' <=> UnsubscribeSent
        BY <1>1 DEF UnsubscribeSent, At
    <2>3. r.op = "unsubscribe" /\ ws = r.socket => UnsubscribeSent
        BY <1>1, SetFacts DEF Inv, Unsubscribes, Holders, InSend, UnsubscribeSent, At
    <2> QED
        BY <1>1, <1>3, <2>1, <2>2, <2>3 DEF Inv, Covered, At
<1> QED
    BY <1>1, <1>4, <1>5, <1>6, <1>7, <1>8, <1>9 DEF Inv

LEMMA PushStep ==
    ASSUME Inv, NEW s \in Socket, Push(s)
    PROVE  Inv'
<1>1. /\ Typed /\ Typed' /\ actor' = actor /\ Arrived' \subseteq Arrived
      /\ UNCHANGED <<ws, lock, ids, client, sock, requests, subs, stopping, redialed, reported,
                     refused, closed>>
    BY PushFacts DEF Inv, Push, dialVars
<1>2. Holders' /\ Subscribers' /\ Stops' /\ Quiet'
    BY <1>1 DEF Inv, Holders, Subscribers, Stops, Quiet, InSend, At, TaskRuns, LoopRuns
<1>3. Dialled' /\ Unsubscribes' /\ Replies'
    BY <1>1 DEF Inv, Dialled, Unsubscribes, Replies, At
<1>4. Numbers'
    BY <1>1, NumbersKept DEF Inv
<1>5. Ids'
    BY <1>1, Constants, IdsKept DEF Inv
<1>6. Covered'
    BY <1>1 DEF Inv, Covered, OfLoop, UnsubscribeSent, At
<1> QED
    BY <1>1, <1>2, <1>3, <1>4, <1>5, <1>6 DEF Inv

LEMMA BreakStep ==
    ASSUME Inv, NEW s \in Socket, Break(s)
    PROVE  Inv'
<1>1. /\ Typed /\ Typed' /\ actor' = actor /\ s # None
      /\ UNCHANGED <<ws, lock, ids, client, inbox, stopping, redialed, reported, refused, closed>>
    BY BreakFacts, Constants DEF Inv, Break
<1>2. /\ sock'[s] = "closed" /\ \A x \in Socket : x # s => sock'[x] = sock[x]
      /\ requests' = {r \in requests : r.socket # s} /\ subs' = subs \ {s}
    BY <1>1, ShutFacts DEF Break
<1>3. Arrived' = Arrived
    BY <1>1, SameArrived
<1>4. Holders' /\ Subscribers' /\ Stops' /\ Quiet'
    BY <1>1 DEF Inv, Holders, Subscribers, Stops, Quiet, InSend, At, TaskRuns, LoopRuns
<1>5. Dialled'
    BY <1>1, <1>2, SetFacts DEF Inv, Dialled, Typed, TypeOK
<1>6. Unsubscribes'
    BY <1>1, <1>2 DEF Inv, Unsubscribes, At
<1>7. Replies'
    BY <1>1, <1>2, <1>3, SetFacts DEF Inv, Replies, At
<1>8. Numbers'
    BY <1>1, <1>2, <1>3, NumbersKept DEF Inv
<1>9. Ids'
    BY <1>1, <1>2, <1>3, Constants, IdsKept DEF Inv
<1>10. Covered'
    <2>1. OfLoop' => OfLoop /\ ws # s
        BY <1>1, <1>2, SetFacts DEF OfLoop
    <2>2. UnsubscribeSent' <=> UnsubscribeSent
        BY <1>1 DEF UnsubscribeSent, At
    <2>3. At(Loop, {"read"}) /\ sock'[actor[Loop].socket] = "open"
            => sock[actor[Loop].socket] = "open"
        BY <1>1, <1>2 DEF Inv, Holders
    <2> QED
        BY <1>1, <1>2, <2>1, <2>2, <2>3 DEF Inv, Covered, At
<1> QED
    BY <1>1, <1>4, <1>5, <1>6, <1>7, <1>8, <1>9, <1>10 DEF Inv

LEMMA InitInv == Init => Inv
<1> SUFFICES ASSUME Init PROVE Inv
    OBVIOUS
<1>1. Idle(0) \in OwnState /\ Idle(0).at = "idle" /\ Idle(0).op = "call"
    BY DEF Idle, OwnState, ActorState, Op
<1>2. /\ actor \in [Actor -> OwnState] /\ Loop \in Actor /\ Report \in Actor
      /\ Caller \subseteq Actor
      /\ \A a \in Actor : actor[a].at = "idle" /\ actor[a].op = "call"
    BY <1>1, Constants DEF Init
<1>3. Typed
    <2>1. actor \in [Actor -> ActorState] /\ \A a \in Actor : actor[a].own
        BY <1>2 DEF OwnState
    <2>2. inbox \in [Socket -> Seq(Message)]
        BY DEF Init
    <2>3. /\ sock \in [Socket -> {"unused", "open", "closed"}]
          /\ reader \in [Socket -> Actor \cup {None}]
          /\ client \in [subscribed : BOOLEAN, handler : BOOLEAN, hooked : BOOLEAN]
          /\ pushes \in 0 .. MaxPushes
        BY ConnectionAssumption DEF Init
    <2>4. /\ ws \in Socket \cup {None} /\ lock \in Actor \cup {None} /\ ids \in Nat
          /\ stopping \in BOOLEAN /\ closed \in {"no", "closing", "closed"}
          /\ requests = {} /\ subs = {} /\ redialed = {} /\ reported = {} /\ refused = {}
        BY DEF Init
    <2> QED
        BY <2>1, <2>2, <2>3, <2>4 DEF Typed, TypeOK, OwnReply
<1>4. Arrived = {}
    BY DEF Init, Arrived
<1>5. Holders /\ Replies /\ Covered
    BY <1>2 DEF Init, Holders, Replies, Covered, InSend, At
<1>6. Subscribers /\ Stops /\ Quiet
    BY <1>2 DEF Init, Subscribers, Stops, Quiet, InSend, At, TaskRuns, LoopRuns
<1>7. Dialled /\ Numbers /\ Unsubscribes
    BY <1>2, <1>4 DEF Init, Dialled, Numbers, Unsubscribes
<1>8. Ids
    BY <1>2, <1>4 DEF Init, Ids, At, Call
<1> QED
    BY <1>3, <1>5, <1>6, <1>7, <1>8 DEF Inv

LEMMA Inductive ==
    ASSUME Inv, [Next]_vars
    PROVE  Inv'
<1>1. ASSUME NEW a \in Actor, a = Loop => ~stopping, SendStep(a)
      PROVE  Inv'
    BY <1>1, AcquireStep, DialedStep, DialFailsStep, StartRecvStep, FailStep, DropSocketStep,
       ReceiveStep DEF SendStep, TimeOut
<1>2. ASSUME NEW c \in Caller, CallerStep(c)
      PROVE  Inv'
    BY <1>1, <1>2, Constants, EnsureDialedStep, EnsureReportedStep, EnsureFailsStep, CloseEndsStep
       DEF CallerStep
<1>3. CASE LoopStep
    BY <1>1, <1>3, Constants, LoopTopStep, LoopBackStep, RedialStep, LoopCancelledStep DEF LoopStep
<1>4. CASE ReportStep
    BY <1>1, <1>4, Constants, ReportStepKeeps DEF ReportStep
<1>5. CASE Environment
    BY <1>5, BeginStep, CloseBeginsStep, AnswerStep, PushStep, BreakStep DEF Environment
<1>6. CASE UNCHANGED vars
    <2>1. UNCHANGED <<ws, lock, ids, actor, client, sock, inbox, reader, requests, subs, pushes,
                      stopping, redialed, reported, refused, closed>>
        BY <1>6 DEF vars
    <2>2. Typed' /\ Arrived' = Arrived
        BY <2>1, SameArrived DEF Inv, Typed, TypeOK, OwnReply
    <2>3. Holders' /\ Subscribers' /\ Stops' /\ Quiet'
        BY <2>1 DEF Inv, Holders, Subscribers, Stops, Quiet, InSend, At, TaskRuns, LoopRuns
    <2>4. Dialled' /\ Unsubscribes' /\ Replies' /\ Covered'
        BY <2>1, <2>2 DEF Inv, Dialled, Unsubscribes, Replies, Covered, OfLoop, UnsubscribeSent, At
    <2>5. Numbers' /\ Ids'
        BY <2>1, <2>2 DEF Inv, Numbers, Ids, Fits, At
    <2> QED
        BY <2>2, <2>3, <2>4, <2>5 DEF Inv
<1> QED
    BY <1>2, <1>3, <1>4, <1>5, <1>6 DEF Next

LEMMA Invariance == Spec => []Inv
<1>1. Init => Inv
    BY InitInv
<1>2. Inv /\ [Next]_vars => Inv'
    BY Inductive
<1> QED
    BY <1>1, <1>2, PTL DEF Spec

---------------------------------------------------------------------------
\* The state of the connection, its coroutines and sockets is well typed.
THEOREM ConnectionTypes == Spec => []TypeOK
<1>1. Inv => TypeOK
    BY DEF Inv, Typed
<1> QED
    BY <1>1, Invariance, PTL

\* A message that bears the request id of a call is the daemon's reply to that
\* call: never a push, nor the late answer to a call that was given up on or
\* cancelled, by whatever coroutine.  send() looks at the id only, and that is
\* enough because all coroutines draw their ids from the connection's counter.
THEOREM OwnReplies == Spec => []OwnReply
<1>1. Inv => OwnReply
    BY DEF Inv, Typed
<1> QED
    BY <1>1, Invariance, PTL

\* After an aclose() with nothing else going on, nothing redials until the next
\* operation: the loop has ended, in whatever dial or hook aclose() found it, and
\* the connection has no socket but one that a report under way dials.
THEOREM ClosedForGood == Spec => []ClosedStays
<1>1. Inv => ClosedStays
    BY DEF Inv, Quiet, ClosedStays
<1> QED
    BY <1>1, Invariance, PTL

\* By the time the loop reads a socket that it redialed, for a client that
\* believes it is subscribed, the daemon pushes over that socket or has refused
\* to: whatever calls, timeouts, closes and lost sockets came in between.
THEOREM RedialsSubscribe == Spec => []RedialSubscribed
<1>1. Inv => RedialSubscribed
    <2> SUFFICES ASSUME Inv, NEW s \in Socket, Listening(s), s \in redialed
                 PROVE  s \in subs \cup refused
        BY DEF RedialSubscribed
    <2>1. /\ At(Loop, {"read"}) /\ actor[Loop].socket = s /\ sock[s] = "open" /\ ~Unsubscribing
          /\ client.subscribed /\ s # None
        BY Constants DEF Listening
    <2>2. ws = s
        BY <2>1 DEF Inv, Covered
    <2>3. OfLoop
        BY <2>1, <2>2 DEF OfLoop
    <2>4. ~UnsubscribeSent
        BY <2>1 DEF Unsubscribing, UnsubscribeSent, At
    <2> QED
        BY <2>1, <2>2, <2>3, <2>4 DEF Inv, Covered, At
<1> QED
    BY <1>1, Invariance, PTL
=============================================================================
