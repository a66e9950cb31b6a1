---------------------------- MODULE MessagePush ----------------------------
(***************************************************************************)
(* Server push in bed: the subscriptions of MessageService                 *)
(* (src/bed/api/message.py), its task that LISTENs for notifications of    *)
(* the database, and the dispatch of each notification to the sockets      *)
(* subscribed for its recipient.                                           *)
(*                                                                         *)
(* The handlers and the listener share one event loop and interleave where *)
(* they await.  Nothing awaits while it holds _subscribed_lock, so taking  *)
(* the lock never waits and each locked section is one step.               *)
(*                                                                         *)
(* An event is a commit that inserted a recipient's row, of which the      *)
(* database notifies the connection that listens, if there is one.  Events *)
(* are numbered in the order they are committed, which is the order of the *)
(* listing too.                                                            *)
(***************************************************************************)
EXTENDS Integers, FiniteSets, SequencesExt

CONSTANTS
    Moniker,     \* members
    Websocket,   \* sockets of clients; a closed one does not come back
    None,        \* no socket
    PageSize,    \* messages in a page of message_list_pending
    MaxEvents,   \* bound on the commits
    MaxBreaks    \* bound on the failures of the listener's connection

ASSUME PushAssumption ==
    /\ None \notin Websocket
    /\ PageSize \in Nat \ {0}
    /\ MaxEvents \in Nat
    /\ MaxBreaks \in Nat

VARIABLES
    closed,      \* the sockets that closed, as far as the server knows
    sessions,    \* MessageService._sessions
    subscribed,  \* MessageService._subscribed
    phase,       \* what the listener task awaits, if it is not dispatching
    channel,     \* events the database holds for the listening connection
    batch,       \* events read from it and not yet dispatched
    flight,      \* the event being dispatched and the targets still to be sent
    breaks,      \* failures so far
    recipient,   \* the recipients of the committed events, in order
    pushed,      \* the events pushed to each socket, in order
    read,        \* the events each socket was told of by message_list_pending
    cursor,      \* per member and socket, the next_cursor its listing has reached
    lost         \* events no listening connection was told of, or that broke

subscriptionVars == <<sessions, subscribed, cursor>>
listenerVars == <<phase, channel, batch, flight, breaks>>
vars == <<closed, subscriptionVars, listenerVars, recipient, pushed, read, lost>>

Event == 1..MaxEvents

Committed == DOMAIN recipient

\* The cursor of a socket that has not listed since it subscribed.
Unlisted == MaxEvents + 1

Idle == [event |-> 0, targets |-> {}]

Flights == {Idle} \cup [event : Committed, targets : SUBSET Websocket]

\* The events of m, as the database has them.
Pending(m) == {e \in Committed : recipient[e] = m}

TypeOK ==
    /\ closed \subseteq Websocket
    /\ sessions \in [Moniker -> SUBSET Websocket]
    /\ subscribed \in [Moniker -> Websocket \cup {None}]
    /\ phase \in {"connecting", "listening", "backoff", "ended", "stopped"}
    /\ recipient \in Seq(Moniker) /\ Len(recipient) <= MaxEvents
    /\ channel \in Seq(Committed)
    /\ batch \in Seq(Committed)
    /\ flight \in Flights
    /\ phase # "listening" => channel = <<>> /\ batch = <<>> /\ flight = Idle
    /\ breaks \in 0..MaxBreaks
    /\ pushed \in [Websocket -> Seq(Committed)]
    /\ read \in [Websocket -> SUBSET Committed]
    /\ cursor \in [Moniker -> [Websocket -> 0..Unlisted]]
    /\ lost \subseteq Committed

Init ==
    /\ closed = {}
    /\ sessions = [m \in Moniker |-> {}]
    /\ subscribed = [m \in Moniker |-> None]
    /\ phase = "connecting"
    /\ channel = <<>>
    /\ batch = <<>>
    /\ flight = Idle
    /\ breaks = 0
    /\ recipient = <<>>
    /\ pushed = [w \in Websocket |-> <<>>]
    /\ read = [w \in Websocket |-> {}]
    /\ cursor = [m \in Moniker |-> [w \in Websocket |-> Unlisted]]
    /\ lost = {}

---------------------------------------------------------------------------
(***************************************************************************)
(* Sockets and requests.  A request that was received before its socket    *)
(* closed may be handled after; the gates a request passes first are those *)
(* of AuthService.                                                         *)
(***************************************************************************)
Close(w) ==
    /\ w \notin closed
    /\ closed' = closed \cup {w}
    /\ UNCHANGED <<subscriptionVars, listenerVars, recipient, pushed, read, lost>>

Subscribe(w, m) ==
    /\ sessions' = [sessions EXCEPT ![m] = @ \cup {w}]
    /\ subscribed' = [subscribed EXCEPT ![m] = w]
    /\ UNCHANGED <<closed, cursor, listenerVars, recipient, pushed, read, lost>>

\* _drop_session.
DropSessionKeepsLatest(m, w) ==
    /\ sessions' = [sessions EXCEPT ![m] = @ \ {w}]
    /\ subscribed' = [subscribed EXCEPT ![m] = IF sessions'[m] = {} THEN None ELSE @]
    /\ cursor' = [cursor EXCEPT ![m] = [@ EXCEPT ![w] = Unlisted]]

\* The older socket, if there is one, takes the place of the latest.
DropSession(m, w) ==
    /\ sessions' = [sessions EXCEPT ![m] = @ \ {w}]
    /\ \E v \in IF subscribed[m] # w      THEN {subscribed[m]}
                ELSE IF sessions'[m] # {} THEN sessions'[m]
                ELSE {None} :
            subscribed' = [subscribed EXCEPT ![m] = v]
    /\ cursor' = [cursor EXCEPT ![m] = [@ EXCEPT ![w] = Unlisted]]

Unsubscribe(w, m) ==
    /\ DropSession(m, w)
    /\ UNCHANGED <<closed, listenerVars, recipient, pushed, read, lost>>

Page(m, from, before) == {e \in Pending(m) : from <= e /\ e < before}

\* The newest PageSize events before the cursor, or all there are.
IsPage(m, from, before) ==
    \/ from = 0 /\ Cardinality(Page(m, from, before)) < PageSize
    \/ from \in Page(m, from, before) /\ Cardinality(Page(m, from, before)) = PageSize

NextCursorOffByOne(m, from, before) ==
    IF Cardinality(Page(m, from, before)) > PageSize THEN from ELSE 0

\* A full page ends with a cursor; 0 is the end of the listing.
NextCursor(m, from, before) ==
    IF Cardinality(Page(m, from, before)) >= PageSize THEN from ELSE 0

\* The client asks for the newest page, or goes on where the last one ended.
ListPending(w, m) ==
    /\ \E before \in {Unlisted, cursor[m][w]}, from \in 0..MaxEvents :
        /\ IsPage(m, from, before)
        /\ read' = [read EXCEPT ![w] = @ \cup Page(m, from, before)]
        /\ IF w \in sessions[m]
           THEN cursor' = [cursor EXCEPT ![m] = [@ EXCEPT ![w] = NextCursor(m, from, before)]]
           ELSE UNCHANGED cursor
    /\ UNCHANGED <<closed, sessions, subscribed, listenerVars, recipient, pushed, lost>>

---------------------------------------------------------------------------
\* A transaction commits, and the triggers notify whoever listens.
Commit(m) ==
    LET e == Len(recipient) + 1
    IN  /\ e \in Event
        /\ recipient' = Append(recipient, m)
        /\ IF phase = "listening"
           THEN channel' = Append(channel, e) /\ UNCHANGED lost
           ELSE lost' = lost \cup {e} /\ UNCHANGED channel
        /\ UNCHANGED <<closed, subscriptionVars, phase, batch, flight, breaks, pushed, read>>

---------------------------------------------------------------------------
(***************************************************************************)
(* The listener task, _listen_loop.                                        *)
(***************************************************************************)
Connect ==
    /\ phase = "connecting"
    /\ phase' = "listening"
    /\ UNCHANGED <<closed, subscriptionVars, channel, batch, flight, breaks,
                   recipient, pushed, read, lost>>

\* The task has dispatched what it read and awaits notifies().
Waiting == phase = "listening" /\ batch = <<>> /\ flight = Idle

ChannelAfterBreakKept == channel

ChannelAfterBreak == <<>>

\* connect, LISTEN or notifies raises; what the connection held is lost.
Fails(next) ==
    /\ phase = "connecting" \/ Waiting
    /\ breaks < MaxBreaks
    /\ breaks' = breaks + 1
    /\ phase' = next
    /\ channel' = ChannelAfterBreak
    /\ lost' = lost \cup ToSet(channel)
    /\ UNCHANGED <<closed, subscriptionVars, batch, flight, recipient, pushed, read>>

\* An error of psycopg or of the system is caught.
Break == Fails("backoff")

\* Any other exception ends the task, and nothing starts another.
Crash == Fails("ended")

RetryOnce ==
    /\ phase = "backoff" /\ breaks < MaxBreaks
    /\ phase' = "connecting"
    /\ UNCHANGED <<closed, subscriptionVars, channel, batch, flight, breaks,
                   recipient, pushed, read, lost>>

\* The wait on _stop_event times out, after however many failures.
Retry ==
    /\ phase = "backoff"
    /\ phase' = "connecting"
    /\ UNCHANGED <<closed, subscriptionVars, channel, batch, flight, breaks,
                   recipient, pushed, read, lost>>

\* notifies() returns some of what has arrived.
Receive ==
    /\ Waiting
    /\ \E n \in 1..Len(channel) :
        /\ batch' = SubSeq(channel, 1, n)
        /\ channel' = SubSeq(channel, n + 1, Len(channel))
    /\ UNCHANGED <<closed, subscriptionVars, phase, flight, breaks, recipient, pushed, read, lost>>

TargetsLatest(m) == {subscribed[m]} \ {None}

\* The sockets a notification for m goes to, as they are when it is taken up.
Targets(m) == IF sessions[m] # {} THEN sessions[m] ELSE {subscribed[m]} \ {None}

FlightOf(e, targets) ==
    IF targets = {} THEN Idle ELSE [event |-> e, targets |-> targets]

\* _dispatch_notification, up to its first send.
Dispatch ==
    /\ batch # <<>>
    /\ flight = Idle
    /\ flight' = FlightOf(Head(batch), Targets(recipient[Head(batch)]))
    /\ batch' = Tail(batch)
    /\ UNCHANGED <<closed, subscriptionVars, phase, channel, breaks, recipient, pushed, read, lost>>

TargetsAfterRestarted(w) ==
    IF w \notin closed THEN flight.targets \ {w}
    ELSE Targets(recipient[flight.event]) \ {w}

TargetsAfter(w) == flight.targets \ {w}

\* send_to one target.  On a closed socket it raises, and the socket is dropped
\* for this member.
Push(w) ==
    /\ w \in flight.targets
    /\ IF w \notin closed
       THEN /\ pushed' = [pushed EXCEPT ![w] = Append(@, flight.event)]
            /\ UNCHANGED subscriptionVars
       ELSE /\ DropSession(recipient[flight.event], w)
            /\ UNCHANGED pushed
    /\ flight' = FlightOf(flight.event, TargetsAfter(w))
    /\ UNCHANGED <<closed, phase, channel, batch, breaks, recipient, read, lost>>

\* stop_listener cancels the task wherever it awaits.
Stop ==
    /\ phase # "stopped"
    /\ phase' = "stopped"
    /\ channel' = <<>>
    /\ batch' = <<>>
    /\ flight' = Idle
    /\ lost' = lost \cup ToSet(channel) \cup ToSet(batch) \cup ({flight.event} \ {0})
    /\ UNCHANGED <<closed, subscriptionVars, breaks, recipient, pushed, read>>

Listener == Connect \/ Retry \/ Receive \/ Dispatch \/ \E w \in Websocket : Push(w)

Next ==
    \/ \E w \in Websocket : Close(w)
    \/ \E w \in Websocket, m \in Moniker :
            Subscribe(w, m) \/ Unsubscribe(w, m) \/ ListPending(w, m)
    \/ \E m \in Moniker : Commit(m)
    \/ Listener
    \/ Break
    \/ Crash
    \/ Stop

\* The event loop runs the listener task as long as it is ready.
Spec == Init /\ [][Next]_vars /\ WF_vars(Listener)

---------------------------------------------------------------------------
(***************************************************************************)
(* Properties.                                                             *)
(***************************************************************************)

\* The two maps of subscriptions agree: the latest socket of a member is one of
\* its sockets, and there is one exactly when there are any.  The fallback of
\* Targets to the latest socket is therefore never taken.
MapsAgree ==
    \A m \in Moniker :
        IF sessions[m] = {} THEN subscribed[m] = None ELSE subscribed[m] \in sessions[m]

\* The event is on its way to the socket.
Coming(e, w) ==
    \/ e \in ToSet(channel) \cup ToSet(batch)
    \/ e = flight.event /\ w \in flight.targets

Knows(w, e) == e \in read[w] \cup ToSet(pushed[w])

\* A socket that subscribed and then listed the pending messages has been told
\* of every event of the member from the cursor it has reached, or will be: of
\* all when it followed the cursors to the end.  Only events the listener's
\* connection lost are excepted, whatever else is committed between two pages,
\* subscribes, unsubscribes, closes or fails to be sent to.
NothingMissed ==
    \A m \in Moniker, w \in Websocket : \A e \in Pending(m) \ lost :
        e >= cursor[m][w] => Knows(w, e) \/ Coming(e, w)

\* No socket is pushed an event twice or out of order.
InOrder ==
    [][\A w \in Websocket : pushed'[w] # pushed[w] =>
            \A e \in ToSet(pushed[w]) : e < Last(pushed'[w])]_vars

\* What is on its way to an open subscribed socket arrives, unless the socket
\* leaves or the connection fails.
Delivered ==
    \A w \in Websocket, m \in Moniker, e \in Event :
        (w \in sessions[m] /\ e \in Pending(m) /\ Coming(e, w)) ~>
            \/ e \in ToSet(pushed[w]) \cup lost
            \/ w \notin sessions[m]
            \/ w \in closed

\* After every failure that _listen_loop catches it comes to listen again, unless
\* it is stopped or fails of what it does not catch.
Recovers == phase \in {"connecting", "backoff"} ~> phase \in {"listening", "ended", "stopped"}
=============================================================================
