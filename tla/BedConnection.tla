--------------------------- MODULE BedConnection ---------------------------
(***************************************************************************)
(* The connection of a client process (src/bed/client/connection.py) with  *)
(* the message client that subscribes over it (messageservice.py): calls   *)
(* that serialise on a lock, the background receive loop that reads the    *)
(* same socket, redials and re-subscribes, the report of the terminal that *)
(* follows a dial, and aclose().                                           *)
(*                                                                         *)
(* The steps are the stretches of code between two awaits.  A loop that    *)
(* _stop_recv_loop cancels ends before anything else runs; aclose() waits  *)
(* for the one it cancels, and others run meanwhile.  The websockets       *)
(* library lets one coroutine wait in recv(); a second one gets a          *)
(* ConcurrencyError.                                                       *)
(***************************************************************************)
EXTENDS Naturals, Sequences, FiniteSets

CONSTANTS
    Caller,       \* coroutines that call the client, each one operation at a time
    Subscriber,   \* the callers that subscribe: a push subscriber, or a command
    Loop,         \* the receive loop, as an actor beside them
    Report,       \* the report of the terminal, one at a time
    MaxSockets,   \* bound on the sockets dialed
    MaxCalls,     \* bound on the requests of each caller and of the report
    MaxPushes,    \* bound on the messages the daemon pushes
    None

ASSUME ConnectionAssumption ==
    /\ MaxSockets \in Nat /\ MaxCalls \in [Caller \cup {Report} -> Nat] /\ MaxPushes \in Nat
    /\ Subscriber \subseteq Caller
    /\ Loop \notin Caller \cup {Report} /\ Report \notin Caller
    /\ None \notin Caller \cup {Loop, Report} \cup Nat

Socket == 1 .. MaxSockets
Actor == Caller \cup {Loop, Report}

VARIABLES
    ws,        \* _ws
    lock,      \* the holder of _lock
    ids,       \* how many request ids were drawn (_request_ids)
    actor,     \* what each coroutine is doing
    client,    \* the state of the message client and the handler lists
    sock,      \* the life of each socket
    inbox,     \* what the daemon sent over a socket and nobody has read
    reader,    \* who waits in recv() on a socket
    requests,  \* the requests the daemon has yet to answer
    subs,      \* the sockets the daemon pushes to
    pushes,    \* how many messages were pushed
    stopping,  \* aclose() set _recv_stop and cancelled the loop, which has yet to end
    redialed,  \* the sockets that the loop dialed and kept (history)
    reported,  \* the sockets that the report dialed (history)
    refused,   \* sockets on which the daemon refused to subscribe (history)
    closed     \* how far an aclose() with nothing else going on is (history)

vars == <<ws, lock, ids, actor, client, sock, inbox, reader, requests, subs, pushes,
          stopping, redialed, reported, refused, closed>>

Op == {"call", "subscribe", "pending", "unsubscribe", "close"}

\* Request ids are "r<n>" on a connection; the daemon numbers its pushes itself.
Id == [from : {"r", "server:msg"}, n : Nat]
RequestId(n) == [from |-> "r", n |-> n]

\* A reply, or a push.  Beside what is sent: to whom a reply is, and to which of
\* its requests.
Message == [id : Id, to : Actor \cup {None}, n : Nat, ok : BOOLEAN]

PushMessageBare(seq) == [id |-> None, to |-> None, n |-> 0, ok |-> TRUE]

PushMessage(seq) ==
    [id |-> [from |-> "server:msg", n |-> seq], to |-> None, n |-> 0, ok |-> TRUE]

ActorState ==
    [at     : {"idle",                                        \* no operation, no loop
               "lock", "dial", "sent", "recv", "failed",      \* in send()
               "ensure", "reporting",                         \* in _ensure_recv_loop
               "awaiting", "closing",                         \* in aclose
               "top", "redial", "read",                       \* in _recv_loop
               "probe"},                                      \* in _report_terminal
     op     : Op,
     n      : Nat,                   \* how many operations it began
     id     : Nat,                   \* the number of its request, 0 if it has none
     socket : Socket \cup {None},    \* the local variable ws
     own    : BOOLEAN]               \* send() only ever returned the reply to its request

Idle(n) == [at |-> "idle", op |-> "call", n |-> n, id |-> 0, socket |-> None, own |-> TRUE]

TypeOK ==
    /\ ws \in Socket \cup {None}
    /\ lock \in Actor \cup {None}
    /\ ids \in Nat
    /\ actor \in [Actor -> ActorState]
    /\ client \in [subscribed : BOOLEAN, handler : BOOLEAN, hooked : BOOLEAN]
    /\ sock \in [Socket -> {"unused", "open", "closed"}]
    /\ inbox \in [Socket -> Seq(Message)]
    /\ reader \in [Socket -> Actor \cup {None}]
    /\ requests \subseteq [socket : Socket, id : Nat, by : Actor, n : Nat, op : Op]
    /\ subs \subseteq Socket
    /\ pushes \in 0 .. MaxPushes
    /\ stopping \in BOOLEAN
    /\ redialed \subseteq Socket
    /\ reported \subseteq Socket
    /\ refused \subseteq Socket
    /\ closed \in {"no", "closing", "closed"}

Init ==
    /\ ws = None
    /\ lock = None
    /\ ids = 0
    /\ actor = [a \in Actor |-> Idle(0)]
    /\ client = [subscribed |-> FALSE, handler |-> FALSE, hooked |-> FALSE]
    /\ sock = [s \in Socket |-> "unused"]
    /\ inbox = [s \in Socket |-> <<>>]
    /\ reader = [s \in Socket |-> None]
    /\ requests = {}
    /\ subs = {}
    /\ pushes = 0
    /\ stopping = FALSE
    /\ redialed = {}
    /\ reported = {}
    /\ refused = {}
    /\ closed = "no"

---------------------------------------------------------------------------
At(a, places) == actor[a].at \in places

\* There is a receive loop; one that aclose() cancelled is no longer _recv_task.
LoopRuns == ~At(Loop, {"idle"})
TaskRuns == LoopRuns /\ ~stopping

\* not _is_closed().
Usable == ws # None /\ sock[ws] = "open"

CanDial == \E s \in Socket : sock[s] = "unused"
NewSocket == CHOOSE s \in Socket : sock[s] = "unused"

\* _connect succeeds, for the coroutine a.
Opened(a) ==
    /\ CanDial
    /\ sock' = [sock EXCEPT ![NewSocket] = "open"]
    /\ redialed' = IF a = Loop THEN redialed \cup {NewSocket} ELSE redialed
    /\ reported' = IF a = Report THEN reported \cup {NewSocket} ELSE reported

\* The socket s is closed, by either end; the daemon forgets it.
Shut(s) ==
    /\ sock' = IF s = None THEN sock ELSE [sock EXCEPT ![s] = "closed"]
    /\ requests' = {r \in requests : r.socket # s}
    /\ subs' = subs \ {s}

Unread(left) == [s \in Socket |-> IF reader[s] \in left THEN None ELSE reader[s]]

Ended(state) == [state EXCEPT !.at = "idle", !.op = "call", !.id = 0, !.socket = None]

AtTop(state) == [state EXCEPT !.at = "top", !.op = "call", !.id = 0, !.socket = None]

\* _stop_recv_loop ends the loop, unless aclose() has taken the task from it.
Stoppable == IF stopping THEN {} ELSE {Loop}
StoppedLoop(states) ==
    [a \in Actor |-> IF a \in Stoppable THEN Ended(states[a]) ELSE states[a]]

\* The report begins with a probe of the terminal, in a thread.
WithReport(states) ==
    IF At(Report, {"idle"}) THEN [states EXCEPT ![Report].at = "probe"] ELSE states

daemonVars == <<inbox, requests, subs, pushes, refused>>
dialVars == <<sock, redialed, reported>>

---------------------------------------------------------------------------
(***************************************************************************)
(* send(), for a caller, the report or the reconnect hook in the loop.     *)
(***************************************************************************)
NextIdOfCoroutine(state) == state.n + 1

\* The counter of the connection, which all its coroutines draw from.
NextId(state) == ids + 1

\* The request id is drawn before the lock is.
Asked(state, op) ==
    [state EXCEPT !.at = "lock", !.op = op, !.n = @ + 1, !.id = NextId(state), !.socket = None]

\* A second subscribe of a subscribed client returns at once.  One coroutine
\* at a time subscribes.
Begin(c, op) ==
    /\ At(c, {"idle"})
    /\ actor[c].n < MaxCalls[c]
    /\ op \in {"subscribe", "unsubscribe"} => c \in Subscriber
    /\ op = "subscribe" => /\ ~client.subscribed
                           /\ \A d \in Caller : At(d, {"idle"}) \/ actor[d].op # "subscribe"
    /\ op = "unsubscribe" => client.subscribed
    /\ actor' = [actor EXCEPT ![c] = Asked(@, op)]
    /\ ids' = ids + 1
    /\ closed' = "no"
    /\ UNCHANGED <<ws, lock, client, reader, stopping, dialVars, daemonVars>>

Submitted(a, s) ==
    /\ requests' = requests \cup
            {[socket |-> s, id |-> actor[a].id, by |-> a, n |-> actor[a].n, op |-> actor[a].op]}
    /\ actor' = [actor EXCEPT ![a].at = "sent", ![a].socket = s]

Acquire(a) ==
    /\ At(a, {"lock"})
    /\ lock = None
    /\ lock' = a
    /\ \/ Usable /\ Submitted(a, ws)
       \/ ~Usable /\ actor' = [actor EXCEPT ![a].at = "dial"] /\ UNCHANGED requests
    /\ UNCHANGED <<ws, ids, client, inbox, reader, subs, pushes, stopping, dialVars, refused, closed>>

Dialed(a) ==
    /\ At(a, {"dial"})
    /\ Opened(a)
    /\ ws' = NewSocket
    /\ Submitted(a, NewSocket)
    /\ UNCHANGED <<lock, ids, client, inbox, reader, subs, pushes, stopping, refused, closed>>

\* BedUnavailable from _connect; the hook reports it and the loop goes on.
DialFails(a) ==
    /\ At(a, {"dial"})
    /\ lock' = None
    /\ actor' = [actor EXCEPT ![a] = IF a = Loop THEN AtTop(@) ELSE Ended(@)]
    /\ UNCHANGED <<ws, ids, client, reader, stopping, dialVars, daemonVars, closed>>

\* The except clause of send(): it closes the socket that _ws names by now.
Fail(a) ==
    /\ Shut(ws)
    /\ reader' = Unread({a})
    /\ actor' = [actor EXCEPT ![a].at = "failed"]
    /\ UNCHANGED <<ws, lock, ids, client, inbox, pushes, stopping, redialed, reported, refused, closed>>

\* _recv_match waits in recv(), unless somebody else does.
StartRecv(a) ==
    /\ At(a, {"sent"})
    /\ \/ /\ reader[actor[a].socket] = None
          /\ reader' = [reader EXCEPT ![actor[a].socket] = a]
          /\ actor' = [actor EXCEPT ![a].at = "recv"]
          /\ UNCHANGED <<ws, lock, ids, client, stopping, dialVars, daemonVars, closed>>
       \/ /\ reader[actor[a].socket] # None
          /\ Fail(a)

\* The call times out, or the socket it waits on closes.
TimeOut(a) == At(a, {"sent", "recv"}) /\ Fail(a)

LockAfterFailKept == lock

\* "async with" gives the lock back.
LockAfterFail == None

\* The socket is closed: it is dropped, the loop is stopped and the call ends.
DropSocket(a) ==
    /\ At(a, {"failed"})
    /\ ws' = None
    /\ lock' = LockAfterFail
    /\ reader' = Unread(Stoppable)
    /\ actor' = StoppedLoop([actor EXCEPT ![a] = Ended(@)])
    /\ UNCHANGED <<ids, client, stopping, dialVars, daemonVars, closed>>

---------------------------------------------------------------------------
\* The request id is the one sent: all that send() looks at.
Matches(a, m) == m.id = RequestId(actor[a].id)

\* The daemon made m for the request that a is waiting on.
IsReply(a, m) == m.to = a /\ m.n = actor[a].n

\* The coroutine a, which takes m for its reply.
Accepted(a, m) == [actor[a] EXCEPT !.own = @ /\ IsReply(a, m)]

\* The client after conn.subscribe, with the loop running.
Subscribed == [subscribed |-> TRUE, handler |-> TRUE, hooked |-> TRUE]

\* The loop runs from now on, and c goes on to list what is pending.
WithLoop(states, c) ==
    [states EXCEPT ![c] = Asked(@, "pending"),
                   ![Loop] = IF LoopRuns THEN @ ELSE AtTop(@)]

\* What follows the reply m to a call of c, up to the next await.  A loop that
\* was cancelled has ended by the time a new one is started.
Returned(c, m) ==
    LET done == [actor EXCEPT ![c] = Ended(Accepted(c, m))]
    IN  CASE actor[c].op = "subscribe" /\ m.ok /\ (TaskRuns \/ Usable) ->
                /\ ~stopping
                /\ actor' = WithLoop(done, c)
                /\ ids' = ids + 1
                /\ client' = Subscribed
                /\ reader' = Unread({c})
          [] actor[c].op = "subscribe" /\ m.ok /\ ~(TaskRuns \/ Usable) ->
                /\ actor' = [done EXCEPT ![c].at = "ensure", ![c].op = "subscribe"]
                /\ client' = [client EXCEPT !.handler = TRUE]
                /\ reader' = Unread({c})
                /\ UNCHANGED ids
          [] actor[c].op = "unsubscribe" ->
                /\ actor' = IF client.handler THEN StoppedLoop(done) ELSE done
                /\ client' = [client EXCEPT !.subscribed = FALSE, !.handler = FALSE]
                /\ reader' = Unread({c} \cup Stoppable)
                /\ UNCHANGED ids
          [] OTHER ->
                /\ actor' = done
                /\ client' = client
                /\ reader' = Unread({c})
                /\ UNCHANGED ids

\* recv() has a message: the reply, or one to hand to the push handlers.
Receive(a) ==
    LET s == actor[a].socket
        m == Head(inbox[s])
    IN  /\ At(a, {"recv"})
        /\ inbox[s] # <<>>
        /\ inbox' = [inbox EXCEPT ![s] = Tail(@)]
        /\ \/ /\ ~Matches(a, m)
              /\ actor' = [actor EXCEPT ![a].at = "sent"]
              /\ reader' = Unread({a})
              /\ UNCHANGED <<lock, ids, client>>
           \/ /\ Matches(a, m)
              /\ a # Loop
              /\ lock' = None
              /\ Returned(a, m)
           \/ /\ Matches(a, m)
              /\ a = Loop
              /\ lock' = None
              /\ actor' = [actor EXCEPT ![Loop] = AtTop(Accepted(Loop, m))]
              /\ reader' = Unread({Loop})
              /\ UNCHANGED <<ids, client>>
        /\ UNCHANGED <<ws, requests, subs, pushes, stopping, dialVars, refused, closed>>

\* _ensure_recv_loop dials, without the lock, and waits for the report.
EnsureDialed(c) ==
    /\ At(c, {"ensure"})
    /\ Opened(c)
    /\ ws' = NewSocket
    /\ actor' = WithReport([actor EXCEPT ![c].at = "reporting"])
    /\ UNCHANGED <<lock, ids, client, reader, stopping, daemonVars, closed>>

EnsureReported(c) ==
    /\ At(c, {"reporting"})
    /\ At(Report, {"idle"})
    /\ ~stopping
    /\ actor' = WithLoop(actor, c)
    /\ ids' = ids + 1
    /\ client' = Subscribed
    /\ UNCHANGED <<ws, lock, reader, stopping, dialVars, daemonVars, closed>>

EnsureFails(c) ==
    /\ At(c, {"ensure"})
    /\ actor' = [actor EXCEPT ![c] = Ended(@)]
    /\ UNCHANGED <<ws, lock, ids, client, reader, stopping, dialVars, daemonVars, closed>>

---------------------------------------------------------------------------
(***************************************************************************)
(* _report_terminal: a call, after the probe.                              *)
(***************************************************************************)
Probed ==
    /\ At(Report, {"probe"})
    /\ actor[Report].n < MaxCalls[Report]
    /\ actor' = [actor EXCEPT ![Report] = Asked(@, "call")]
    /\ ids' = ids + 1
    /\ UNCHANGED <<ws, lock, client, reader, stopping, dialVars, daemonVars, closed>>

\* The connection does not probe, or has no socket, or the probe fails.
ReportSkipped ==
    /\ At(Report, {"probe"})
    /\ actor' = [actor EXCEPT ![Report] = Ended(@)]
    /\ UNCHANGED <<ws, lock, ids, client, reader, stopping, dialVars, daemonVars, closed>>

---------------------------------------------------------------------------
(***************************************************************************)
(* _recv_loop.                                                             *)
(***************************************************************************)
LoopToTop == actor' = [actor EXCEPT ![Loop] = AtTop(@)]

\* The top of the loop; recv() raises if a call waits in it.
LoopTop ==
    /\ At(Loop, {"top"})
    /\ \/ /\ ~Usable
          /\ actor' = [actor EXCEPT ![Loop].at = "redial"]
          /\ UNCHANGED <<ws, reader>>
       \/ /\ Usable
          /\ reader[ws] = None
          /\ reader' = [reader EXCEPT ![ws] = Loop]
          /\ actor' = [actor EXCEPT ![Loop].at = "read", ![Loop].socket = ws]
          /\ UNCHANGED ws
       \/ /\ Usable
          /\ reader[ws] # None
          /\ ws' = None
          /\ UNCHANGED <<actor, reader>>
    /\ UNCHANGED <<lock, ids, client, stopping, dialVars, daemonVars, closed>>

\* A message goes to the handlers, be it a push or the reply to a call.
LoopReads ==
    LET s == actor[Loop].socket
    IN  /\ At(Loop, {"read"})
        /\ inbox[s] # <<>>
        /\ inbox' = [inbox EXCEPT ![s] = Tail(@)]
        /\ reader' = Unread({Loop})
        /\ LoopToTop
        /\ UNCHANGED <<ws, lock, ids, client, requests, subs, pushes, stopping, dialVars,
                       refused, closed>>

\* Nothing for a second.
LoopWaits ==
    /\ At(Loop, {"read"})
    /\ reader' = Unread({Loop})
    /\ LoopToTop
    /\ UNCHANGED <<ws, lock, ids, client, stopping, dialVars, daemonVars, closed>>

\* recv() raises: whatever socket _ws names by now is dropped.
LoopLosesSocket ==
    /\ At(Loop, {"read"})
    /\ sock[actor[Loop].socket] = "closed"
    /\ ws' = None
    /\ reader' = Unread({Loop})
    /\ LoopToTop
    /\ UNCHANGED <<lock, ids, client, stopping, dialVars, daemonVars, closed>>

\* The hook re-subscribes a client that is subscribed.
Resubscribes == client.hooked /\ client.subscribed

AfterRedialNoHook == AtTop(actor[Loop])

AfterRedial == IF Resubscribes THEN Asked(actor[Loop], "subscribe") ELSE AtTop(actor[Loop])

Redial ==
    /\ At(Loop, {"redial"})
    /\ Opened(Loop)
    /\ ws' = NewSocket
    /\ actor' = WithReport([actor EXCEPT ![Loop] = AfterRedial])
    /\ ids' = IF Resubscribes THEN ids + 1 ELSE ids
    /\ UNCHANGED <<lock, client, reader, stopping, daemonVars, closed>>

\* The loop sleeps and looks again.
RedialFails ==
    /\ At(Loop, {"redial"})
    /\ LoopToTop
    /\ UNCHANGED <<ws, lock, ids, client, reader, stopping, dialVars, daemonVars, closed>>

---------------------------------------------------------------------------
(***************************************************************************)
(* aclose(): the loop is cancelled and awaited, then the socket is closed. *)
(***************************************************************************)
CloseBegins(c) ==
    /\ At(c, {"idle"})
    /\ actor[c].n < MaxCalls[c]
    /\ actor' = [actor EXCEPT ![c].at = IF TaskRuns THEN "awaiting" ELSE "closing",
                              ![c].op = "close",
                              ![c].n  = @ + 1]
    /\ stopping' = LoopRuns
    /\ closed' = IF \A d \in Caller \ {c} : At(d, {"idle"}) THEN "closing" ELSE "no"
    /\ UNCHANGED <<ws, lock, ids, client, reader, dialVars, daemonVars>>

LoopEnds ==
    /\ stopping
    /\ stopping' = FALSE
    /\ actor' = [actor EXCEPT ![Loop] = Ended(@)]

\* The cancelled loop leaves recv(), or the lock, or gives up its dial.
LoopCancelled ==
    /\ LoopEnds
    /\ reader' = Unread({Loop})
    /\ lock' = IF lock = Loop THEN None ELSE lock
    /\ UNCHANGED <<ws, ids, client, dialVars, daemonVars, closed>>

\* The dial in flight returns all the same; its socket is closed, not kept.
DialedTooLate ==
    /\ LoopEnds
    /\ At(Loop, {"redial"})
    /\ CanDial
    /\ sock' = [sock EXCEPT ![NewSocket] = "closed"]
    /\ UNCHANGED <<ws, lock, ids, client, reader, redialed, reported, daemonVars, closed>>

AwaitedNot(c) == At(c, {"awaiting", "closing"})

Awaited(c) == At(c, {"closing"}) \/ (At(c, {"awaiting"}) /\ ~stopping)

CloseEnds(c) ==
    /\ Awaited(c)
    /\ ws' = None
    /\ Shut(ws)
    /\ actor' = [actor EXCEPT ![c] = Ended(@)]
    /\ closed' = IF closed = "closing" THEN "closed" ELSE "no"
    /\ UNCHANGED <<lock, ids, client, inbox, reader, pushes, stopping, redialed, reported, refused>>

---------------------------------------------------------------------------
(***************************************************************************)
(* The daemon and the network.                                             *)
(***************************************************************************)
\* Whether the daemon grants a call matters for subscriptions only.
Verdicts(r) == IF r.op \in {"subscribe", "unsubscribe"} THEN BOOLEAN ELSE {TRUE}

SubsAfter(r, ok) ==
    CASE ok /\ r.op = "subscribe"   -> subs \cup {r.socket}
      [] ok /\ r.op = "unsubscribe" -> subs \ {r.socket}
      [] OTHER                      -> subs

Reply(r, ok) == [id |-> RequestId(r.id), to |-> r.by, n |-> r.n, ok |-> ok]

Answer(r, ok) ==
    /\ r \in requests
    /\ requests' = requests \ {r}
    /\ inbox' = [inbox EXCEPT ![r.socket] = Append(@, Reply(r, ok))]
    /\ subs' = SubsAfter(r, ok)
    /\ refused' = IF r.op = "subscribe" /\ ~ok THEN refused \cup {r.socket} ELSE refused
    /\ UNCHANGED <<ws, lock, ids, actor, client, reader, pushes, stopping, dialVars, closed>>

Push(s) ==
    /\ s \in subs
    /\ pushes < MaxPushes
    /\ pushes' = pushes + 1
    /\ inbox' = [inbox EXCEPT ![s] = Append(@, PushMessage(pushes + 1))]
    /\ UNCHANGED <<ws, lock, ids, actor, client, reader, requests, subs, stopping, dialVars,
                   refused, closed>>

Break(s) ==
    /\ sock[s] = "open"
    /\ Shut(s)
    /\ UNCHANGED <<ws, lock, ids, actor, client, inbox, reader, pushes, stopping, redialed,
                   reported, refused, closed>>

---------------------------------------------------------------------------
SendStep(a) ==
    \/ Acquire(a) \/ Dialed(a) \/ DialFails(a) \/ StartRecv(a) \/ TimeOut(a)
    \/ DropSocket(a) \/ Receive(a)

CallerStep(c) ==
    \/ SendStep(c) \/ EnsureDialed(c) \/ EnsureReported(c) \/ EnsureFails(c) \/ CloseEnds(c)

ReportStep == SendStep(Report) \/ Probed \/ ReportSkipped

LoopStep ==
    \/ /\ ~stopping
       /\ \/ SendStep(Loop) \/ LoopTop \/ LoopReads \/ LoopWaits \/ LoopLosesSocket
          \/ Redial \/ RedialFails
    \/ LoopCancelled
    \/ DialedTooLate

Environment ==
    \/ \E c \in Caller, op \in {"call", "subscribe", "unsubscribe"} : Begin(c, op)
    \/ \E c \in Caller : CloseBegins(c)
    \/ \E r \in requests : \E ok \in Verdicts(r) : Answer(r, ok)
    \/ \E s \in Socket : Push(s) \/ Break(s)

Next == (\E c \in Caller : CallerStep(c)) \/ LoopStep \/ ReportStep \/ Environment

\* The event loop runs every coroutine that can go on, and timers fire.
Fairness ==
    /\ WF_vars(LoopStep)
    /\ WF_vars(ReportStep)
    /\ \A c \in Caller : WF_vars(CallerStep(c))

Spec == Init /\ [][Next]_vars /\ Fairness

---------------------------------------------------------------------------
\* A call that goes by the request id returns the reply to its own request,
\* never a push or the late answer to a call of another coroutine that was given
\* up on or cancelled on the same socket (send, _recv_match, _RequestId).
OwnReply == \A a \in Actor : actor[a].own

\* Once aclose() returned, and until the next operation, there is no receive
\* loop, be it cancelled in the middle of a dial or of a hook, and the connection
\* has no socket but one that a report already under way dials (aclose).
ClosedStays == closed = "closed" => ~LoopRuns /\ ws \in {None} \cup reported

Unsubscribing == \E c \in Caller : ~At(c, {"idle"}) /\ actor[c].op = "unsubscribe"

\* The loop waits for pushes on s, for a client that believes it is subscribed.
Listening(s) ==
    /\ At(Loop, {"read"})
    /\ actor[Loop].socket = s
    /\ sock[s] = "open"
    /\ client.subscribed
    /\ ~Unsubscribing

\* A socket that the loop redialed is one the daemon pushes to, by the time the
\* loop reads it, or the daemon refused (_recv_loop, _on_reconnect).
RedialSubscribed ==
    \A s \in Socket : (Listening(s) /\ s \in redialed) => s \in subs \cup refused

\* "After any redial, re-register the server-side subscription (the new socket
\* has none)" (messageservice.subscribe): whoever dialed the socket.
AnyRedialSubscribed ==
    \A s \in Socket : Listening(s) => s \in subs \cup refused

\* Every operation comes to an end, with a reply or an error: the lock is
\* always given back, also by a loop that is stopped while it holds it.
CallEnds == \A c \in Caller : ~At(c, {"idle"}) ~> At(c, {"idle"})
=============================================================================
