------------------------- MODULE MessagePushProofs -------------------------
(***************************************************************************)
(* The maps of subscriptions agree and no event is missed, for any number  *)
(* of members, sockets and events, and however often the listener fails.   *)
(*                                                                         *)
(* MapsAgree is inductive once the maps have their types.  Only Subscribe  *)
(* and _drop_session write them; the latter is called by Unsubscribe and   *)
(* by a Push whose socket is closed.                                       *)
(***************************************************************************)
EXTENDS MessagePush, TLAPS

MapsTypeOK ==
    /\ sessions \in [Moniker -> SUBSET Websocket]
    /\ subscribed \in [Moniker -> Websocket \cup {None}]

MapsInv == MapsTypeOK /\ MapsAgree

LEMMA MapsInit == Init => MapsInv
BY DEF Init, MapsInv, MapsTypeOK, MapsAgree

\* A subscribed socket is a socket of its member and its latest.
LEMMA SubscribeMaps ==
    ASSUME MapsInv, NEW w \in Websocket, NEW m \in Moniker, Subscribe(w, m)
    PROVE  MapsInv'
<1>1. /\ sessions' = [sessions EXCEPT ![m] = @ \cup {w}]
      /\ subscribed' = [subscribed EXCEPT ![m] = w]
  BY DEF Subscribe
<1>2. MapsTypeOK'
  BY <1>1 DEF MapsInv, MapsTypeOK
<1>3. MapsAgree'
  BY <1>1 DEF MapsInv, MapsTypeOK, MapsAgree
<1> QED
  BY <1>2, <1>3 DEF MapsInv

\* Dropping a socket leaves another of its member as the latest, or none when
\* it was the last; a member without subscriptions keeps none.
LEMMA DropSessionMaps ==
    ASSUME MapsInv, NEW w, NEW m, DropSession(m, w)
    PROVE  MapsInv'
<1>1. sessions' = [sessions EXCEPT ![m] = @ \ {w}]
  BY DEF DropSession
<1>2. PICK v \in IF subscribed[m] # w      THEN {subscribed[m]}
                 ELSE IF sessions'[m] # {} THEN sessions'[m]
                 ELSE {None} :
        subscribed' = [subscribed EXCEPT ![m] = v]
  BY DEF DropSession
<1>3. CASE m \notin Moniker
  BY <1>1, <1>2, <1>3 DEF MapsInv, MapsTypeOK, MapsAgree
<1>4. CASE m \in Moniker
  <2>1. sessions'[m] = sessions[m] \ {w} /\ subscribed'[m] = v
    BY <1>1, <1>2, <1>4 DEF MapsInv, MapsTypeOK
  <2>2. IF sessions'[m] = {} THEN v = None ELSE v \in sessions'[m]
    BY <1>2, <1>4, <2>1, PushAssumption DEF MapsInv, MapsTypeOK, MapsAgree
  <2>3. MapsTypeOK'
    <3>1. sessions' \in [Moniker -> SUBSET Websocket]
      BY <1>1, <1>4 DEF MapsInv, MapsTypeOK
    <3>2. v \in Websocket \cup {None}
      BY <1>4, <2>2, <3>1
    <3> QED
      BY <1>2, <3>1, <3>2 DEF MapsInv, MapsTypeOK
  <2>4. MapsAgree'
    <3> SUFFICES ASSUME NEW n \in Moniker
                 PROVE  IF sessions'[n] = {} THEN subscribed'[n] = None
                        ELSE subscribed'[n] \in sessions'[n]
      BY DEF MapsAgree
    <3>1. CASE n = m
      BY <2>1, <2>2, <3>1
    <3>2. CASE n # m
      BY <1>1, <1>2, <3>2 DEF MapsInv, MapsTypeOK, MapsAgree
    <3> QED
      BY <3>1, <3>2
  <2> QED
    BY <2>3, <2>4 DEF MapsInv
<1> QED
  BY <1>3, <1>4

LEMMA SameMaps ==
    ASSUME MapsInv, UNCHANGED <<sessions, subscribed>>
    PROVE  MapsInv'
BY DEF MapsInv, MapsTypeOK, MapsAgree

LEMMA ListenerMaps ==
    ASSUME MapsInv, Listener
    PROVE  MapsInv'
<1>1. CASE Connect \/ Retry \/ Receive \/ Dispatch
  BY <1>1, SameMaps DEF Connect, Retry, Receive, Dispatch, subscriptionVars
<1>2. ASSUME NEW w \in Websocket, Push(w)
      PROVE  MapsInv'
  <2>1. CASE w \notin closed
    BY <1>2, <2>1, SameMaps DEF Push, subscriptionVars
  <2>2. CASE w \in closed
    BY <1>2, <2>2, DropSessionMaps DEF Push
  <2> QED
    BY <2>1, <2>2
<1> QED
  BY <1>1, <1>2 DEF Listener

LEMMA MapsStep == MapsInv /\ [Next]_vars => MapsInv'
<1> SUFFICES ASSUME MapsInv, [Next]_vars PROVE MapsInv'
  OBVIOUS
<1>1. CASE UNCHANGED vars
  BY <1>1, SameMaps DEF vars, subscriptionVars
<1>2. ASSUME NEW w \in Websocket, Close(w) PROVE MapsInv'
  BY <1>2, SameMaps DEF Close, subscriptionVars
<1>3. ASSUME NEW w \in Websocket, NEW m \in Moniker,
             Subscribe(w, m) \/ Unsubscribe(w, m) \/ ListPending(w, m)
      PROVE  MapsInv'
  BY <1>3, SubscribeMaps, DropSessionMaps, SameMaps DEF Unsubscribe, ListPending
<1>4. ASSUME NEW m \in Moniker, Commit(m) PROVE MapsInv'
  BY <1>4, SameMaps DEF Commit, subscriptionVars
<1>5. CASE Break \/ Crash \/ Stop
  BY <1>5, SameMaps DEF Break, Crash, Fails, Stop, subscriptionVars
<1> QED
  BY <1>1, <1>2, <1>3, <1>4, <1>5, ListenerMaps DEF Next

\* The latest socket of a member is always one of its subscribed sockets, so the
\* dispatch never sends to a socket that unsubscribed before it was taken up.
THEOREM MapsAlwaysAgree == Spec => []MapsAgree
<1>1. MapsInv => MapsAgree
  BY DEF MapsInv
<1> QED
  BY <1>1, MapsInit, MapsStep, PTL DEF Spec

---------------------------------------------------------------------------
(***************************************************************************)
(* What the operators on sequences do to the set of their elements.        *)
(***************************************************************************)
LEMMA AppendSet ==
    ASSUME NEW S, NEW s \in Seq(S), NEW e \in S
    PROVE  Append(s, e) \in Seq(S) /\ ToSet(Append(s, e)) = ToSet(s) \cup {e}
<1> DEFINE r == Append(s, e)
<1>1. r \in Seq(S) /\ Len(r) = Len(s) + 1 /\ r[Len(s) + 1] = e
  OBVIOUS
<1>2. \A i \in 1..Len(s) : r[i] = s[i]
  OBVIOUS
<1>3. DOMAIN s = 1..Len(s) /\ DOMAIN r = 1..Len(s) + 1
  BY <1>1
<1>4. ASSUME NEW x \in ToSet(r) PROVE x \in ToSet(s) \cup {e}
  BY <1>1, <1>2, <1>3, <1>4 DEF ToSet
<1>5. ASSUME NEW x \in ToSet(s) PROVE x \in ToSet(r)
  BY <1>1, <1>2, <1>3, <1>5 DEF ToSet
<1>6. e \in ToSet(r)
  BY <1>1, <1>3 DEF ToSet
<1> QED
  BY <1>1, <1>4, <1>5, <1>6

LEMMA SplitSet ==
    ASSUME NEW S, NEW s \in Seq(S), NEW n \in 1..Len(s)
    PROVE  /\ SubSeq(s, 1, n) \in Seq(S)
           /\ SubSeq(s, n + 1, Len(s)) \in Seq(S)
           /\ ToSet(s) = ToSet(SubSeq(s, 1, n)) \cup ToSet(SubSeq(s, n + 1, Len(s)))
<1> DEFINE a == SubSeq(s, 1, n)
           b == SubSeq(s, n + 1, Len(s))
<1>1. a \in Seq(S) /\ Len(a) = n /\ DOMAIN a = 1..n /\ \A i \in 1..n : a[i] = s[i]
  OBVIOUS
<1>2. b \in Seq(S) /\ Len(b) = Len(s) - n /\ DOMAIN b = 1..(Len(s) - n)
  OBVIOUS
<1>3. \A i \in 1..(Len(s) - n) : b[i] = s[n + i]
  BY <1>2
<1>4. DOMAIN s = 1..Len(s)
  OBVIOUS
<1>5. ASSUME NEW i \in 1..Len(s) PROVE s[i] \in ToSet(a) \cup ToSet(b)
  <2>1. CASE i <= n
    <3>1. i \in DOMAIN a /\ a[i] = s[i]
      BY <1>1, <2>1
    <3> QED
      BY <3>1 DEF ToSet
  <2>2. CASE i > n
    <3>1. i - n \in DOMAIN b /\ b[i - n] = s[i]
      BY <1>2, <1>3, <2>2
    <3> QED
      BY <3>1 DEF ToSet
  <2> QED
    BY <2>1, <2>2
<1>6. ASSUME NEW x \in ToSet(a) PROVE x \in ToSet(s)
  BY <1>1, <1>4, <1>6 DEF ToSet
<1>7. ASSUME NEW x \in ToSet(b) PROVE x \in ToSet(s)
  <2>1. PICK i \in 1..(Len(s) - n) : x = b[i]
    BY <1>2, <1>7 DEF ToSet
  <2>2. n + i \in DOMAIN s /\ x = s[n + i]
    BY <1>3, <1>4, <2>1
  <2> QED
    BY <2>2 DEF ToSet
<1>8. ASSUME NEW x \in ToSet(s) PROVE x \in ToSet(a) \cup ToSet(b)
  BY <1>4, <1>5, <1>8 DEF ToSet
<1> QED
  BY <1>1, <1>2, <1>6, <1>7, <1>8

LEMMA HeadTailSet ==
    ASSUME NEW S, NEW s \in Seq(S), s # <<>>
    PROVE  /\ Head(s) \in S
           /\ Tail(s) \in Seq(S)
           /\ ToSet(s) = {Head(s)} \cup ToSet(Tail(s))
<1> DEFINE r == Tail(s)
<1>1. Len(s) \in Nat /\ Len(s) >= 1 /\ DOMAIN s = 1..Len(s) /\ Head(s) = s[1] /\ Head(s) \in S
  OBVIOUS
<1>2. r \in Seq(S) /\ Len(r) = Len(s) - 1 /\ DOMAIN r = 1..(Len(s) - 1)
  OBVIOUS
<1>3. \A i \in 1..(Len(s) - 1) : r[i] = s[i + 1]
  BY <1>2
<1>4. ASSUME NEW i \in 1..Len(s) PROVE s[i] \in {Head(s)} \cup ToSet(r)
  <2>1. CASE i = 1
    BY <1>1, <2>1
  <2>2. CASE i # 1
    <3>1. i - 1 \in DOMAIN r /\ r[i - 1] = s[i]
      BY <1>2, <1>3, <2>2
    <3> QED
      BY <3>1 DEF ToSet
  <2> QED
    BY <2>1, <2>2
<1>5. ASSUME NEW x \in ToSet(r) PROVE x \in ToSet(s)
  <2>1. PICK i \in 1..(Len(s) - 1) : x = r[i]
    BY <1>2, <1>5 DEF ToSet
  <2>2. i + 1 \in DOMAIN s /\ x = s[i + 1]
    BY <1>1, <1>3, <2>1
  <2> QED
    BY <2>2 DEF ToSet
<1>6. Head(s) \in ToSet(s)
  BY <1>1 DEF ToSet
<1>7. ASSUME NEW x \in ToSet(s) PROVE x \in {Head(s)} \cup ToSet(r)
  BY <1>1, <1>4, <1>7 DEF ToSet
<1> QED
  BY <1>1, <1>2, <1>5, <1>6, <1>7

LEMMA EmptySet == ToSet(<<>>) = {}
BY DEF ToSet

---------------------------------------------------------------------------
(***************************************************************************)
(* Types: in particular only committed events are on their way.            *)
(***************************************************************************)
LEMMA PushInitType == Init => TypeOK
<1> SUFFICES ASSUME Init PROVE TypeOK
  OBVIOUS
<1>1. recipient = <<>> /\ channel = <<>> /\ batch = <<>> /\ flight = Idle
  BY DEF Init
<1>2. pushed \in [Websocket -> Seq(Committed)] /\ read \in [Websocket -> SUBSET Committed]
  BY DEF Init
<1>3. cursor \in [Moniker -> [Websocket -> 0..Unlisted]]
  <2>1. Unlisted \in 0..Unlisted
    BY PushAssumption DEF Unlisted
  <2> QED
    BY <2>1 DEF Init
<1>4. Len(recipient) <= MaxEvents /\ breaks \in 0..MaxBreaks
  BY <1>1, PushAssumption DEF Init
<1> QED
  BY <1>1, <1>2, <1>3, <1>4 DEF Init, TypeOK, Flights

LEMMA CommittedAre ==
    ASSUME TypeOK
    PROVE  /\ Committed = 1..Len(recipient)
           /\ Len(recipient) \in Nat
           /\ \A e \in Committed : recipient[e] \in Moniker
BY DEF TypeOK, Committed

LEMMA SetOfSeq ==
    ASSUME NEW S, NEW s \in Seq(S)
    PROVE  ToSet(s) \subseteq S
BY DEF ToSet

LEMMA SeqGrows ==
    ASSUME NEW S, NEW T, S \subseteq T, NEW s \in Seq(S)
    PROVE  s \in Seq(T)
OBVIOUS

\* A cursor is reset or moved for one socket of one member.
LEMMA CursorType ==
    ASSUME TypeOK, NEW w, NEW m, NEW c \in 0..Unlisted,
           cursor' = [cursor EXCEPT ![m] = [@ EXCEPT ![w] = c]]
    PROVE  /\ cursor' \in [Moniker -> [Websocket -> 0..Unlisted]]
           /\ \A n \in Moniker, v \in Websocket :
                cursor'[n][v] = IF n = m /\ v = w THEN c ELSE cursor[n][v]
<1>1. cursor \in [Moniker -> [Websocket -> 0..Unlisted]]
  BY DEF TypeOK
<1>2. CASE m \in Moniker
  <2> DEFINE d == [cursor[m] EXCEPT ![w] = c]
  <2>1. cursor' = [cursor EXCEPT ![m] = d]
    OBVIOUS
  <2>2. cursor[m] \in [Websocket -> 0..Unlisted]
    BY <1>1, <1>2
  <2>3. /\ d \in [Websocket -> 0..Unlisted]
        /\ \A v \in Websocket : d[v] = IF v = w THEN c ELSE cursor[m][v]
    BY <2>2
  <2> HIDE DEF d
  <2>4. /\ cursor' \in [Moniker -> [Websocket -> 0..Unlisted]]
        /\ \A n \in Moniker : cursor'[n] = IF n = m THEN d ELSE cursor[n]
    BY <1>1, <1>2, <2>1, <2>3
  <2> QED
    BY <2>3, <2>4
<1>3. CASE m \notin Moniker
  <2>1. cursor' = cursor
    BY <1>1, <1>3
  <2> QED
    BY <1>1, <1>3, <2>1
<1> QED
  BY <1>2, <1>3

LEMMA UnlistedIs == Unlisted \in Nat /\ Unlisted = MaxEvents + 1 /\ Unlisted \in 0..Unlisted
BY PushAssumption DEF Unlisted

\* DropSession writes the subscriptions only, and with their types.
LEMMA DropSessionType ==
    ASSUME TypeOK, MapsAgree, NEW w, NEW m, DropSession(m, w)
    PROVE  /\ sessions' \in [Moniker -> SUBSET Websocket]
           /\ subscribed' \in [Moniker -> Websocket \cup {None}]
           /\ cursor' \in [Moniker -> [Websocket -> 0..Unlisted]]
<1>1. MapsInv'
  BY DropSessionMaps DEF MapsInv, MapsTypeOK, TypeOK
<1>2. cursor' = [cursor EXCEPT ![m] = [@ EXCEPT ![w] = Unlisted]]
  BY DEF DropSession
<1> QED
  BY <1>1, <1>2, CursorType, UnlistedIs DEF MapsInv, MapsTypeOK

\* The page from one cursor to another is listed to a socket for a member.
ListsPage(w, m, before, from) ==
    /\ IsPage(m, from, before)
    /\ \A v \in Websocket :
        read'[v] = IF v = w THEN read[v] \cup Page(m, from, before) ELSE read[v]
    /\ \/ cursor' = cursor
       \/ /\ w \in sessions[m]
          /\ \A n \in Moniker, v \in Websocket :
                cursor'[n][v] = IF n = m /\ v = w THEN NextCursor(m, from, before)
                                ELSE cursor[n][v]

LEMMA ListPendingIs ==
    ASSUME TypeOK, NEW w \in Websocket, NEW m \in Moniker, ListPending(w, m)
    PROVE  /\ read' \in [Websocket -> SUBSET Committed]
           /\ cursor' \in [Moniker -> [Websocket -> 0..Unlisted]]
           /\ \E before \in {Unlisted, cursor[m][w]}, from \in 0..MaxEvents :
                ListsPage(w, m, before, from)
<1>1. PICK before \in {Unlisted, cursor[m][w]}, from \in 0..MaxEvents :
        /\ IsPage(m, from, before)
        /\ read' = [read EXCEPT ![w] = @ \cup Page(m, from, before)]
        /\ IF w \in sessions[m]
           THEN cursor' = [cursor EXCEPT ![m] = [@ EXCEPT ![w] = NextCursor(m, from, before)]]
           ELSE UNCHANGED cursor
  BY DEF ListPending
<1>2. /\ read' \in [Websocket -> SUBSET Committed]
      /\ \A v \in Websocket :
            read'[v] = IF v = w THEN read[v] \cup Page(m, from, before) ELSE read[v]
  BY <1>1 DEF TypeOK, Page, Pending
<1>3. NextCursor(m, from, before) \in 0..Unlisted
  <2>1. from \in 0..Unlisted /\ 0 \in 0..Unlisted
    BY UnlistedIs, PushAssumption
  <2> QED
    BY <2>1 DEF NextCursor
<1> DEFINE next == NextCursor(m, from, before)
<1>4. CASE w \in sessions[m]
  <2>1. next \in 0..Unlisted /\ cursor' = [cursor EXCEPT ![m] = [@ EXCEPT ![w] = next]]
    BY <1>1, <1>3, <1>4
  <2> HIDE DEF next
  <2>2. /\ cursor' \in [Moniker -> [Websocket -> 0..Unlisted]]
        /\ \A n \in Moniker, v \in Websocket :
                cursor'[n][v] = IF n = m /\ v = w THEN next ELSE cursor[n][v]
    BY <2>1, CursorType
  <2>3. ListsPage(w, m, before, from)
    BY <1>1, <1>2, <1>4, <2>2 DEF ListsPage, next
  <2> QED
    BY <1>2, <2>2, <2>3
<1>5. CASE w \notin sessions[m]
  <2>1. cursor' = cursor
    BY <1>1, <1>5
  <2>2. ListsPage(w, m, before, from)
    BY <1>1, <1>2, <2>1 DEF ListsPage
  <2> QED
    BY <1>2, <2>1, <2>2 DEF TypeOK
<1> QED
  BY <1>4, <1>5

LEMMA RequestType ==
    ASSUME TypeOK, MapsAgree, NEW w \in Websocket, NEW m \in Moniker,
           Subscribe(w, m) \/ Unsubscribe(w, m) \/ ListPending(w, m)
    PROVE  TypeOK'
<1>1. CASE Subscribe(w, m)
  <2>1. /\ sessions' \in [Moniker -> SUBSET Websocket]
        /\ subscribed' \in [Moniker -> Websocket \cup {None}]
    BY <1>1 DEF Subscribe, TypeOK
  <2> QED
    BY <1>1, <2>1 DEF Subscribe, TypeOK, listenerVars, Committed, Flights
<1>2. CASE Unsubscribe(w, m)
  BY <1>2, DropSessionType DEF Unsubscribe, TypeOK, listenerVars, Committed, Flights
<1>3. CASE ListPending(w, m)
  <2>1. /\ read' \in [Websocket -> SUBSET Committed]
        /\ cursor' \in [Moniker -> [Websocket -> 0..Unlisted]]
    BY <1>3, ListPendingIs
  <2> QED
    BY <1>3, <2>1 DEF ListPending, TypeOK, listenerVars, Committed, Flights
<1> QED
  BY <1>1, <1>2, <1>3

LEMMA CommitAdds ==
    ASSUME TypeOK, NEW m \in Moniker, Commit(m)
    PROVE  /\ Committed' = Committed \cup {Len(recipient) + 1}
           /\ recipient' \in Seq(Moniker)
           /\ Len(recipient') <= MaxEvents
           /\ recipient'[Len(recipient) + 1] = m
           /\ \A e \in Committed : recipient'[e] = recipient[e]
<1>1. recipient' = Append(recipient, m) /\ Len(recipient) + 1 \in Event
  BY DEF Commit
<1>2. /\ recipient' \in Seq(Moniker)
      /\ Len(recipient') = Len(recipient) + 1
      /\ recipient'[Len(recipient) + 1] = m
      /\ \A e \in 1..Len(recipient) : recipient'[e] = recipient[e]
  BY <1>1 DEF TypeOK
<1>3. Committed' = 1..Len(recipient')
  BY <1>2 DEF Committed
<1>4. Committed = 1..Len(recipient) /\ Len(recipient) \in Nat
  BY CommittedAre
<1> QED
  BY <1>1, <1>2, <1>3, <1>4, PushAssumption DEF Event

LEMMA CommitType ==
    ASSUME TypeOK, NEW m \in Moniker, Commit(m)
    PROVE  TypeOK'
<1> DEFINE e == Len(recipient) + 1
<1>1. Committed \subseteq Committed' /\ e \in Committed'
  BY CommitAdds
<1>2. channel' \in Seq(Committed') /\ (phase # "listening" => channel' = channel)
  <2>1. channel \in Seq(Committed')
    BY <1>1, SeqGrows DEF TypeOK
  <2> QED
    BY <1>1, <2>1, AppendSet DEF Commit
<1>3. batch \in Seq(Committed')
  BY <1>1, SeqGrows DEF TypeOK
<1>4. ASSUME NEW w \in Websocket
      PROVE  pushed[w] \in Seq(Committed') /\ read[w] \in SUBSET Committed'
  <2>1. pushed[w] \in Seq(Committed)
    BY DEF TypeOK
  <2> QED
    BY <1>1, <2>1, SeqGrows DEF TypeOK
<1>5. pushed \in [Websocket -> Seq(Committed')] /\ read \in [Websocket -> SUBSET Committed']
  BY <1>4 DEF TypeOK
<1>6. flight \in Flights'
  BY <1>1 DEF TypeOK, Flights
<1>7. lost' \subseteq Committed'
  BY <1>1 DEF Commit, TypeOK
<1>8. recipient' \in Seq(Moniker) /\ Len(recipient') <= MaxEvents
  BY CommitAdds
<1> QED
  BY <1>2, <1>3, <1>5, <1>6, <1>7, <1>8 DEF Commit, TypeOK, subscriptionVars

LEMMA BreakType ==
    ASSUME TypeOK, Break \/ Crash \/ Stop
    PROVE  TypeOK'
<1>1. channel \in Seq(Committed) /\ batch \in Seq(Committed)
  BY DEF TypeOK
<1>2. ToSet(channel) \subseteq Committed /\ ToSet(batch) \subseteq Committed
  BY <1>1, SetOfSeq
<1>3. {flight.event} \ {0} \subseteq Committed
  BY DEF TypeOK, Flights, Idle
<1>4. Committed' = Committed /\ Flights' = Flights
  BY DEF Break, Crash, Fails, Stop, Committed, Flights
<1>5. CASE Break \/ Crash
  <2>1. channel' = <<>> /\ batch' = <<>> /\ flight' = Idle
    BY <1>5 DEF Break, Crash, Fails, Waiting, ChannelAfterBreak, TypeOK
  <2>2. breaks' \in 0..MaxBreaks
    BY <1>5, PushAssumption DEF Break, Crash, Fails, TypeOK
  <2> QED
    BY <1>2, <1>4, <1>5, <2>1, <2>2 DEF Break, Crash, Fails, TypeOK, subscriptionVars, Flights
<1>6. CASE Stop
  <2>1. lost' \subseteq Committed
    BY <1>2, <1>3, <1>6 DEF Stop, TypeOK
  <2> QED
    BY <1>4, <1>6, <2>1 DEF Stop, TypeOK, subscriptionVars, Flights
<1> QED
  BY <1>5, <1>6

LEMMA ListenerType ==
    ASSUME TypeOK, MapsAgree, Listener
    PROVE  TypeOK'
<1>0. Committed' = Committed /\ Flights' = Flights
  BY DEF Listener, Connect, Retry, Receive, Dispatch, Push, Committed, Flights
<1>1. CASE Connect \/ Retry
  BY <1>0, <1>1 DEF Connect, Retry, TypeOK, subscriptionVars
<1>2. CASE Receive
  <2>1. PICK n \in 1..Len(channel) : /\ batch' = SubSeq(channel, 1, n)
                                     /\ channel' = SubSeq(channel, n + 1, Len(channel))
    BY <1>2 DEF Receive
  <2>2. channel \in Seq(Committed) /\ phase = "listening"
    BY <1>2 DEF TypeOK, Receive, Waiting
  <2>3. batch' \in Seq(Committed) /\ channel' \in Seq(Committed)
    BY <2>1, <2>2, SplitSet
  <2> QED
    BY <1>0, <1>2, <2>2, <2>3 DEF Receive, TypeOK, subscriptionVars
<1>3. CASE Dispatch
  <2>1. batch \in Seq(Committed) /\ batch # <<>> /\ phase = "listening"
    BY <1>3 DEF Dispatch, TypeOK
  <2>2. Head(batch) \in Committed /\ batch' \in Seq(Committed)
    BY <1>3, <2>1, HeadTailSet DEF Dispatch
  <2>3. recipient[Head(batch)] \in Moniker
    BY <2>2, CommittedAre
  <2>4. Targets(recipient[Head(batch)]) \subseteq Websocket
    BY <2>3 DEF Targets, TypeOK
  <2>5. flight' \in Flights
    BY <1>3, <2>2, <2>4 DEF Dispatch, FlightOf, Flights
  <2> QED
    BY <1>0, <1>3, <2>1, <2>2, <2>5 DEF Dispatch, TypeOK, subscriptionVars
<1>4. ASSUME NEW w \in Websocket, Push(w)
      PROVE  TypeOK'
  <2>1. flight.event \in Committed /\ flight.targets \subseteq Websocket /\ phase = "listening"
    BY <1>4 DEF Push, TypeOK, Flights, Idle
  <2>2. flight' \in Flights
    BY <1>4, <2>1 DEF Push, FlightOf, TargetsAfter, Flights
  <2>3. CASE w \notin closed
    <3>1. pushed \in [Websocket -> Seq(Committed)]
      BY DEF TypeOK
    <3>2. Append(pushed[w], flight.event) \in Seq(Committed)
      BY <2>1, <3>1, AppendSet
    <3>3. pushed' = [pushed EXCEPT ![w] = Append(pushed[w], flight.event)]
      BY <1>4, <2>3 DEF Push
    <3>4. pushed' \in [Websocket -> Seq(Committed)]
      BY <3>1, <3>2, <3>3
    <3>5. UNCHANGED <<closed, sessions, subscribed, cursor, phase, channel, batch,
                      breaks, recipient, read, lost>>
      BY <1>4, <2>3 DEF Push, subscriptionVars
    <3> QED
      BY <1>0, <2>1, <2>2, <3>4, <3>5 DEF TypeOK
  <2>4. CASE w \in closed
    BY <1>0, <1>4, <2>1, <2>2, <2>4, DropSessionType DEF Push, TypeOK
  <2> QED
    BY <2>3, <2>4
<1> QED
  BY <1>1, <1>2, <1>3, <1>4 DEF Listener

LEMMA PushTypeStep ==
    ASSUME TypeOK, MapsAgree, [Next]_vars
    PROVE  TypeOK'
<1>1. CASE UNCHANGED vars
  BY <1>1 DEF vars, subscriptionVars, listenerVars, TypeOK, Committed, Flights
<1>2. ASSUME NEW w \in Websocket, Close(w) PROVE TypeOK'
  BY <1>2 DEF Close, subscriptionVars, listenerVars, TypeOK, Committed, Flights
<1> QED
  BY <1>1, <1>2, RequestType, CommitType, ListenerType, BreakType DEF Next

\* Whatever is on its way, was read or was lost is a committed event, and the
\* listener holds events only while it listens.
THEOREM PushTypeCorrect == Spec => []TypeOK
<1>1. TypeOK /\ MapsInv /\ [Next]_vars => TypeOK' /\ MapsInv'
  BY PushTypeStep, MapsStep DEF MapsInv
<1> QED
  BY <1>1, PushInitType, MapsInit, PTL DEF Spec

---------------------------------------------------------------------------
(***************************************************************************)
(* No event is missed.  NothingMissed needs one more fact to be inductive: *)
(* a socket whose listing has reached a cursor is subscribed, so that      *)
(* Dispatch, which reads sessions, takes the event to it.                  *)
(***************************************************************************)
ListedSubscribed ==
    \A m \in Moniker, w \in Websocket : cursor[m][w] # Unlisted => w \in sessions[m]

PushInv == TypeOK /\ MapsAgree /\ ListedSubscribed /\ NothingMissed

LEMMA PushInvInit == Init => PushInv
<1> SUFFICES ASSUME Init PROVE PushInv
  OBVIOUS
<1>1. /\ MapsAgree
      /\ \A m \in Moniker, w \in Websocket : cursor[m][w] = Unlisted
      /\ recipient = <<>>
  BY DEF Init, MapsAgree
<1>2. \A m \in Moniker : Pending(m) = {}
  BY <1>1 DEF Pending, Committed
<1> QED
  BY <1>1, <1>2, PushInitType DEF PushInv, ListedSubscribed, NothingMissed

\* Dropping a socket takes its cursor away, and moves no other.
LEMMA DropSessionCursor ==
    ASSUME TypeOK, ListedSubscribed, NEW w, NEW m, DropSession(m, w)
    PROVE  /\ ListedSubscribed'
           /\ \A n \in Moniker, v \in Websocket : cursor'[n][v] \in {cursor[n][v], Unlisted}
           /\ m \in Moniker /\ w \in Websocket => cursor'[m][w] = Unlisted
<1>1. /\ sessions' = [sessions EXCEPT ![m] = @ \ {w}]
      /\ cursor' = [cursor EXCEPT ![m] = [@ EXCEPT ![w] = Unlisted]]
  BY DEF DropSession
<1>2. \A n \in Moniker : sessions'[n] = IF n = m THEN sessions[n] \ {w} ELSE sessions[n]
  BY <1>1 DEF TypeOK
<1>3. \A n \in Moniker, v \in Websocket :
        cursor'[n][v] = IF n = m /\ v = w THEN Unlisted ELSE cursor[n][v]
  BY <1>1, CursorType, UnlistedIs
<1>4. ASSUME NEW n \in Moniker, NEW v \in Websocket, cursor'[n][v] # Unlisted
      PROVE  v \in sessions'[n]
  <2>1. ~ (n = m /\ v = w) /\ cursor'[n][v] = cursor[n][v]
    BY <1>3, <1>4
  <2>2. v \in sessions[n]
    BY <1>4, <2>1 DEF ListedSubscribed
  <2> QED
    BY <1>2, <2>1, <2>2
<1>5. ListedSubscribed'
  BY <1>4 DEF ListedSubscribed, Unlisted
<1> QED
  BY <1>3, <1>5

\* Only Subscribe adds to the sockets of a member, only ListPending moves a
\* cursor, and that of a subscribed socket.
LEMMA ListedStep ==
    ASSUME TypeOK, ListedSubscribed, [Next]_vars
    PROVE  ListedSubscribed'
<1>1. ASSUME UNCHANGED <<sessions, cursor>> PROVE ListedSubscribed'
  BY <1>1 DEF ListedSubscribed, Unlisted
<1>2. CASE UNCHANGED vars
  BY <1>1, <1>2 DEF vars, subscriptionVars
<1>3. ASSUME NEW w \in Websocket, Close(w) PROVE ListedSubscribed'
  BY <1>1, <1>3 DEF Close, subscriptionVars
<1>4. ASSUME NEW w \in Websocket, NEW m \in Moniker, Subscribe(w, m)
      PROVE  ListedSubscribed'
  <2>1. \A n \in Moniker : sessions[n] \subseteq sessions'[n]
    BY <1>4 DEF Subscribe, TypeOK
  <2>2. cursor' = cursor
    BY <1>4 DEF Subscribe
  <2> QED
    BY <2>1, <2>2 DEF ListedSubscribed, Unlisted
<1>5. ASSUME NEW w \in Websocket, NEW m \in Moniker, Unsubscribe(w, m)
      PROVE  ListedSubscribed'
  BY <1>5, DropSessionCursor DEF Unsubscribe
<1>6. ASSUME NEW w \in Websocket, NEW m \in Moniker, ListPending(w, m)
      PROVE  ListedSubscribed'
  <2>1. sessions' = sessions
    BY <1>6 DEF ListPending
  <2>2. \/ cursor' = cursor
        \/ /\ w \in sessions[m]
           /\ \A n \in Moniker, v \in Websocket : ~ (n = m /\ v = w) => cursor'[n][v] = cursor[n][v]
    <3>1. PICK before \in {Unlisted, cursor[m][w]}, from \in 0..MaxEvents :
            ListsPage(w, m, before, from)
      BY <1>6, ListPendingIs
    <3> QED
      BY <3>1 DEF ListsPage
  <2> QED
    BY <1>1, <2>1, <2>2 DEF ListedSubscribed, Unlisted
<1>7. ASSUME NEW m \in Moniker, Commit(m) PROVE ListedSubscribed'
  BY <1>1, <1>7 DEF Commit, subscriptionVars
<1>8. CASE Break \/ Crash \/ Stop \/ Connect \/ Retry \/ Receive \/ Dispatch
  BY <1>1, <1>8 DEF Break, Crash, Fails, Stop, Connect, Retry, Receive, Dispatch, subscriptionVars
<1>9. ASSUME NEW w \in Websocket, Push(w) PROVE ListedSubscribed'
  <2>1. CASE w \notin closed
    BY <1>1, <1>9, <2>1 DEF Push, subscriptionVars
  <2>2. CASE w \in closed
    BY <1>9, <2>2, DropSessionCursor DEF Push
  <2> QED
    BY <2>1, <2>2
<1> QED
  BY <1>2, <1>3, <1>4, <1>5, <1>6, <1>7, <1>8, <1>9 DEF Next, Listener

\* What has to hold of the next state, one socket and event at a time.
Safe(m, w, e) ==
    e >= cursor[m][w] /\ e \in Pending(m) \ lost => Knows(w, e) \/ Coming(e, w)

LEMMA SafeIsEnough ==
    ASSUME \A m \in Moniker, w \in Websocket, e \in Committed' : Safe(m, w, e)'
    PROVE  NothingMissed'
BY DEF NothingMissed, Safe, Pending

\* No event has the number of a socket without a cursor.
LEMMA BelowUnlisted ==
    ASSUME TypeOK, NEW e \in Committed
    PROVE  e \in Nat /\ ~ (e >= Unlisted)
BY CommittedAre, UnlistedIs, PushAssumption DEF TypeOK

\* A socket that moves on from one cursor to the next was told of what lies
\* between them; one that begins anew, of what lies after its new cursor.
LEMMA PageCovers ==
    ASSUME TypeOK, NEW m \in Moniker, NEW before \in 0..Unlisted, NEW from \in 0..MaxEvents,
           IsPage(m, from, before), NEW e \in Pending(m),
           e >= NextCursor(m, from, before), ~ (e >= before)
    PROVE  e \in Page(m, from, before)
<1>1. e \in Nat /\ from \in Nat /\ before \in Nat
  BY CommittedAre, UnlistedIs, PushAssumption DEF Pending
<1>2. e < before
  BY <1>1
<1>3. from <= e
  <2>1. CASE from = 0
    BY <1>1, <2>1
  <2>2. CASE Cardinality(Page(m, from, before)) = PageSize
    BY <1>1, <2>2, PushAssumption DEF NextCursor
  <2> QED
    BY <2>1, <2>2 DEF IsPage
<1> QED
  BY <1>2, <1>3 DEF Page

LEMMA RequestSafe ==
    ASSUME PushInv, TypeOK', NEW v \in Websocket, NEW n \in Moniker,
           Subscribe(v, n) \/ Unsubscribe(v, n) \/ ListPending(v, n)
    PROVE  NothingMissed'
<1>1. UNCHANGED <<recipient, channel, batch, flight, pushed, lost>>
  BY DEF Subscribe, Unsubscribe, ListPending, listenerVars
<1>2. ASSUME NEW m \in Moniker, NEW w \in Websocket, NEW e \in Committed'
      PROVE  Safe(m, w, e)'
  <2>1. e \in Committed /\ Pending(m)' = Pending(m) /\ Coming(e, w)' = Coming(e, w)
    BY <1>1, <1>2 DEF Committed, Pending, Coming
  <2>2. CASE Subscribe(v, n)
    <3>1. UNCHANGED <<cursor, read>>
      BY <2>2 DEF Subscribe
    <3> QED
      BY <1>1, <2>1, <3>1 DEF PushInv, NothingMissed, Safe, Knows
  <2>3. CASE Unsubscribe(v, n)
    <3>1. cursor'[m][w] \in {cursor[m][w], Unlisted}
      BY <2>3, DropSessionCursor DEF Unsubscribe, PushInv
    <3>2. UNCHANGED read
      BY <2>3 DEF Unsubscribe
    <3>3. e >= cursor'[m][w] => e >= cursor[m][w]
      BY <2>1, <3>1, BelowUnlisted DEF PushInv
    <3> QED
      BY <1>1, <2>1, <3>2, <3>3 DEF PushInv, NothingMissed, Safe, Knows
  <2>4. CASE ListPending(v, n)
    <3>1. PICK before \in {Unlisted, cursor[n][v]}, from \in 0..MaxEvents :
            ListsPage(v, n, before, from)
      BY <2>4, ListPendingIs DEF PushInv
    <3>2. read[w] \subseteq read'[w]
      BY <3>1 DEF ListsPage
    <3>3. CASE e >= cursor[m][w]
      BY <1>1, <2>1, <3>2, <3>3 DEF PushInv, NothingMissed, Safe, Knows
    <3>4. CASE ~ (e >= cursor[m][w]) /\ e >= cursor'[m][w] /\ e \in Pending(m)
      <4>1. m = n /\ w = v /\ e >= NextCursor(n, from, before)
        BY <3>1, <3>4 DEF ListsPage
      <4>2. before \in 0..Unlisted /\ ~ (e >= before)
        BY <2>1, <3>4, <4>1, BelowUnlisted, UnlistedIs DEF PushInv, TypeOK
      <4>3. e \in Page(n, from, before)
        BY <3>1, <3>4, <4>1, <4>2, PageCovers DEF PushInv, ListsPage
      <4> QED
        BY <3>1, <4>1, <4>3 DEF Safe, Knows, ListsPage
    <3> QED
      BY <2>1, <3>3, <3>4 DEF Safe
  <2> QED
    BY <2>2, <2>3, <2>4
<1> QED
  BY <1>2, SafeIsEnough

\* A new event is on its way if the listener listens, and lost otherwise.
LEMMA CommitSafe ==
    ASSUME PushInv, TypeOK', NEW n \in Moniker, Commit(n)
    PROVE  NothingMissed'
<1> DEFINE new == Len(recipient) + 1
<1>1. /\ Committed' = Committed \cup {new}
      /\ \A e \in Committed : recipient'[e] = recipient[e]
  BY CommitAdds DEF PushInv
<1>2. UNCHANGED <<cursor, batch, flight, pushed, read>>
  BY DEF Commit, subscriptionVars
<1>3. \/ lost' = lost \cup {new} /\ channel' = channel
      \/ lost' = lost /\ ToSet(channel') = ToSet(channel) \cup {new}
  <2>1. channel \in Seq(Committed') /\ new \in Committed'
    <3>1. channel \in Seq(Committed)
      BY DEF PushInv, TypeOK
    <3> QED
      BY <1>1, <3>1, SeqGrows
  <2>2. CASE phase = "listening"
    <3>1. channel' = Append(channel, new) /\ lost' = lost
      BY <2>2 DEF Commit
    <3> QED
      BY <2>1, <3>1, AppendSet
  <2>3. CASE phase # "listening"
    BY <2>3 DEF Commit
  <2> QED
    BY <2>2, <2>3
<1>4. ASSUME NEW m \in Moniker, NEW w \in Websocket, NEW e \in Committed'
      PROVE  Safe(m, w, e)'
  <2>1. CASE e = new
    BY <1>3, <2>1 DEF Safe, Coming
  <2>2. CASE e \in Committed
    <3>1. e \in Pending(m)' => e \in Pending(m)
      BY <1>1, <2>2 DEF Pending
    <3>2. Coming(e, w) => Coming(e, w)'
      BY <1>2, <1>3 DEF Coming
    <3>3. Knows(w, e)' = Knows(w, e)
      BY <1>2 DEF Knows
    <3> QED
      BY <1>2, <1>3, <3>1, <3>2, <3>3 DEF PushInv, NothingMissed, Safe
  <2> QED
    BY <1>1, <2>1, <2>2
<1> QED
  BY <1>4, SafeIsEnough

\* Connecting and receiving move events along; a break or a stop gives up those
\* on their way, and counts them as lost.
LEMMA MoveSafe ==
    ASSUME PushInv, TypeOK', Connect \/ Retry \/ Receive \/ Break \/ Crash \/ Stop
    PROVE  NothingMissed'
<1>1. UNCHANGED <<cursor, recipient, pushed, read>>
  BY DEF Connect, Retry, Receive, Break, Crash, Fails, Stop, subscriptionVars
<1>2. ASSUME NEW w \in Websocket, NEW e \in Committed, Coming(e, w)
      PROVE  Coming(e, w)' \/ e \in lost'
  <2>1. CASE Connect \/ Retry
    BY <1>2, <2>1 DEF Connect, Retry, Coming
  <2>2. CASE Receive
    <3>1. PICK n \in 1..Len(channel) : /\ batch' = SubSeq(channel, 1, n)
                                       /\ channel' = SubSeq(channel, n + 1, Len(channel))
      BY <2>2 DEF Receive
    <3>2. channel \in Seq(Committed) /\ batch = <<>> /\ UNCHANGED flight
      BY <2>2 DEF PushInv, TypeOK, Receive, Waiting
    <3>3. ToSet(channel) = ToSet(batch') \cup ToSet(channel')
      BY <3>1, <3>2, SplitSet
    <3> QED
      BY <1>2, <3>2, <3>3, EmptySet DEF Coming
  <2>3. CASE Break \/ Crash
    <3>1. batch = <<>> /\ flight = Idle /\ lost' = lost \cup ToSet(channel)
      BY <2>3 DEF Break, Crash, Fails, Waiting, PushInv, TypeOK
    <3> QED
      BY <1>2, <3>1, EmptySet DEF Coming, Idle
  <2>4. CASE Stop
    <3>1. e # 0
      BY <1>2, CommittedAre DEF PushInv
    <3> QED
      BY <1>2, <2>4, <3>1 DEF Stop, Coming
  <2> QED
    BY <2>1, <2>2, <2>3, <2>4
<1>3. lost \subseteq lost'
  BY DEF Connect, Retry, Receive, Break, Crash, Fails, Stop
<1>4. ASSUME NEW m \in Moniker, NEW w \in Websocket, NEW e \in Committed'
      PROVE  Safe(m, w, e)'
  <2>1. e \in Committed /\ Pending(m)' = Pending(m) /\ Knows(w, e)' = Knows(w, e)
    BY <1>1, <1>4 DEF Committed, Pending, Knows
  <2> QED
    BY <1>1, <1>2, <1>3, <2>1 DEF PushInv, NothingMissed, Safe
<1> QED
  BY <1>4, SafeIsEnough

\* An event that is taken up is sent to all sockets of its recipient.
LEMMA DispatchSafe ==
    ASSUME PushInv, TypeOK', Dispatch
    PROVE  NothingMissed'
<1> DEFINE h == Head(batch)
<1>1. UNCHANGED <<cursor, recipient, channel, pushed, read, lost>>
  BY DEF Dispatch, subscriptionVars
<1>2. /\ batch \in Seq(Committed) /\ batch # <<>> /\ flight = Idle
      /\ batch' = Tail(batch)
      /\ flight' = FlightOf(h, Targets(recipient[h]))
  BY DEF Dispatch, PushInv, TypeOK
<1>3. ToSet(batch) = {h} \cup ToSet(batch')
  BY <1>2, HeadTailSet
<1>4. ASSUME NEW m \in Moniker, NEW w \in Websocket, NEW e \in Committed'
      PROVE  Safe(m, w, e)'
  <2>1. e \in Committed /\ Pending(m)' = Pending(m) /\ Knows(w, e)' = Knows(w, e)
    BY <1>1, <1>4 DEF Committed, Pending, Knows
  <2>2. SUFFICES ASSUME e >= cursor[m][w], e \in Pending(m), Coming(e, w)
                 PROVE  Coming(e, w)'
    BY <1>1, <2>1 DEF PushInv, NothingMissed, Safe
  <2>3. e \in ToSet(channel) \cup ToSet(batch)
    BY <1>2, <2>2 DEF Coming, Idle
  <2>4. CASE e = h
    <3>1. recipient[h] = m
      BY <2>2, <2>4 DEF Pending
    <3>2. w \in Targets(m)
      BY <2>1, <2>2, BelowUnlisted DEF PushInv, ListedSubscribed, Targets
    <3>3. flight' = [event |-> h, targets |-> Targets(m)]
      BY <1>2, <3>1, <3>2 DEF FlightOf
    <3> QED
      BY <2>4, <3>2, <3>3 DEF Coming
  <2>5. CASE e # h
    BY <1>1, <1>3, <2>3, <2>5 DEF Coming
  <2> QED
    BY <2>4, <2>5
<1> QED
  BY <1>4, SafeIsEnough

\* A target that is sent the event knows it; one that closed is no longer among
\* the sockets of the recipient.  The other targets are still to come.
LEMMA PushSafe ==
    ASSUME PushInv, TypeOK', NEW v \in Websocket, Push(v)
    PROVE  NothingMissed'
<1> DEFINE f == flight.event
<1>1. UNCHANGED <<recipient, channel, batch, read, lost>>
  BY DEF Push
<1>2. v \in flight.targets /\ flight' = FlightOf(f, flight.targets \ {v})
  BY DEF Push, TargetsAfter
<1>3. f \in Committed /\ recipient[f] \in Moniker
  BY <1>2, CommittedAre DEF PushInv, TypeOK, Flights, Idle
<1>4. ASSUME NEW w \in Websocket, NEW e, Coming(e, w), ~ (e = f /\ w = v)
      PROVE  Coming(e, w)'
  <2>1. CASE e \in ToSet(channel) \cup ToSet(batch)
    BY <1>1, <2>1 DEF Coming
  <2>2. CASE e = f /\ w \in flight.targets
    <3>1. flight' = [event |-> f, targets |-> flight.targets \ {v}]
      BY <1>2, <1>4, <2>2 DEF FlightOf
    <3> QED
      BY <1>4, <2>2, <3>1 DEF Coming
  <2> QED
    BY <1>4, <2>1, <2>2 DEF Coming
<1>5. ASSUME NEW m \in Moniker, NEW w \in Websocket, NEW e \in Committed'
      PROVE  Safe(m, w, e)'
  <2>1. e \in Committed /\ Pending(m)' = Pending(m)
    BY <1>1, <1>5 DEF Committed, Pending
  <2>2. CASE v \notin closed
    <3>1. pushed' = [pushed EXCEPT ![v] = Append(@, f)] /\ UNCHANGED cursor
      BY <2>2 DEF Push, subscriptionVars
    <3>2. pushed \in [Websocket -> Seq(Committed)] /\ pushed[v] \in Seq(Committed)
      BY DEF PushInv, TypeOK
    <3>3. ToSet(pushed'[v]) = ToSet(pushed[v]) \cup {f}
      BY <1>3, <3>1, <3>2, AppendSet
    <3>4. ToSet(pushed[w]) \subseteq ToSet(pushed'[w])
      BY <3>1, <3>2, <3>3
    <3>5. Knows(w, e) => Knows(w, e)'
      BY <1>1, <3>4 DEF Knows
    <3>6. e = f /\ w = v => Knows(w, e)'
      BY <3>3 DEF Knows
    <3> QED
      BY <1>1, <1>4, <2>1, <3>1, <3>5, <3>6 DEF PushInv, NothingMissed, Safe
  <2>3. CASE v \in closed
    <3>1. DropSession(recipient[f], v) /\ UNCHANGED pushed
      BY <2>3 DEF Push
    <3>2. /\ cursor'[m][w] \in {cursor[m][w], Unlisted}
          /\ cursor'[recipient[f]][v] = Unlisted
      BY <1>3, <3>1, DropSessionCursor DEF PushInv
    <3>3. /\ e >= cursor'[m][w] => e >= cursor[m][w]
          /\ e = f /\ w = v /\ e \in Pending(m) => ~ (e >= cursor'[m][w])
      BY <2>1, <3>2, BelowUnlisted DEF PushInv, Pending
    <3>4. Knows(w, e)' = Knows(w, e)
      BY <1>1, <3>1 DEF Knows
    <3> QED
      BY <1>1, <1>4, <2>1, <3>3, <3>4 DEF PushInv, NothingMissed, Safe
  <2> QED
    BY <2>2, <2>3
<1> QED
  BY <1>5, SafeIsEnough

LEMMA PushInvStep == PushInv /\ [Next]_vars => PushInv'
<1> SUFFICES ASSUME PushInv, [Next]_vars PROVE PushInv'
  OBVIOUS
<1>1. TypeOK'
  BY PushTypeStep DEF PushInv
<1>2. MapsAgree'
  BY MapsStep DEF PushInv, MapsInv, MapsTypeOK, TypeOK
<1>3. ListedSubscribed'
  BY ListedStep DEF PushInv
<1>4. NothingMissed'
  <2>1. CASE UNCHANGED vars
    BY <2>1 DEF vars, subscriptionVars, listenerVars, PushInv, NothingMissed, Pending,
                Committed, Knows, Coming
  <2>2. ASSUME NEW w \in Websocket, Close(w) PROVE NothingMissed'
    BY <2>2 DEF Close, subscriptionVars, listenerVars, PushInv, NothingMissed, Pending,
                Committed, Knows, Coming
  <2> QED
    BY <1>1, <2>1, <2>2, RequestSafe, CommitSafe, MoveSafe, DispatchSafe, PushSafe
    DEF Next, Listener
<1> QED
  BY <1>1, <1>2, <1>3, <1>4 DEF PushInv

\* A socket that subscribed and listed the pending messages page by page misses
\* no event from its cursor on that the database told the listener of, whatever
\* the size of a page, whatever is committed meanwhile and other sockets do, and
\* however sends fail.
THEOREM NothingIsMissed == Spec => []NothingMissed
<1>1. PushInv => NothingMissed
  BY DEF PushInv
<1> QED
  BY <1>1, PushInvInit, PushInvStep, PTL DEF Spec

---------------------------------------------------------------------------
(***************************************************************************)
(* The order of pushes.  What the listener holds is in the order of the    *)
(* commits: the event being sent, then the batch, then the channel; and a  *)
(* socket was only ever sent what comes before all of that.                *)
(***************************************************************************)
Ascending(s) == \A i, j \in DOMAIN s : i < j => s[i] < s[j]

Before(S, T) == \A x \in S, y \in T : x < y

Queued == ToSet(batch) \cup ToSet(channel)

Ordered ==
    /\ Ascending(channel) /\ Ascending(batch)
    /\ Before(ToSet(batch), ToSet(channel))
    /\ Before({flight.event}, Queued)
    /\ \A w \in Websocket : Before(ToSet(pushed[w]), Queued)
    /\ \A w \in flight.targets : Before(ToSet(pushed[w]), {flight.event})

LEMMA AppendAscending ==
    ASSUME NEW s \in Seq(Nat), NEW e \in Nat, Ascending(s), Before(ToSet(s), {e})
    PROVE  Ascending(Append(s, e))
<1> DEFINE r == Append(s, e)
<1>1. DOMAIN s = 1..Len(s) /\ DOMAIN r = 1..Len(s) + 1 /\ Len(s) \in Nat /\ r[Len(s) + 1] = e
  OBVIOUS
<1>2. \A i \in 1..Len(s) : r[i] = s[i] /\ s[i] < e
  BY <1>1 DEF Before, ToSet
<1> HIDE DEF r
<1>3. ASSUME NEW i \in DOMAIN r, NEW j \in DOMAIN r, i < j PROVE r[i] < r[j]
  <2>1. i \in 1..Len(s)
    BY <1>1, <1>3
  <2>2. CASE j \in 1..Len(s)
    BY <1>1, <1>2, <1>3, <2>1, <2>2 DEF Ascending
  <2>3. CASE j = Len(s) + 1
    BY <1>1, <1>2, <2>1, <2>3
  <2> QED
    BY <1>1, <2>2, <2>3
<1> QED
  BY <1>3 DEF Ascending, r

LEMMA SplitAscending ==
    ASSUME NEW s \in Seq(Nat), NEW n \in 1..Len(s), Ascending(s)
    PROVE  /\ Ascending(SubSeq(s, 1, n)) /\ Ascending(SubSeq(s, n + 1, Len(s)))
           /\ Before(ToSet(SubSeq(s, 1, n)), ToSet(SubSeq(s, n + 1, Len(s))))
<1> DEFINE a == SubSeq(s, 1, n)
           b == SubSeq(s, n + 1, Len(s))
<1>1. DOMAIN s = 1..Len(s) /\ DOMAIN a = 1..n /\ \A i \in 1..n : a[i] = s[i]
  OBVIOUS
<1>2. DOMAIN b = 1..(Len(s) - n) /\ \A i \in 1..(Len(s) - n) : b[i] = s[n + i]
  OBVIOUS
<1>3. Len(s) \in Nat /\ n \in Nat
  OBVIOUS
<1> HIDE DEF a, b
<1>4. Ascending(a)
  BY <1>1, <1>3 DEF Ascending
<1>5. ASSUME NEW i \in DOMAIN b, NEW j \in DOMAIN b, i < j PROVE b[i] < b[j]
  <2>1. n + i \in DOMAIN s /\ n + j \in DOMAIN s /\ n + i < n + j
    BY <1>1, <1>2, <1>3, <1>5
  <2> QED
    BY <1>2, <2>1 DEF Ascending
<1>6. ASSUME NEW i \in DOMAIN a, NEW j \in DOMAIN b PROVE a[i] < b[j]
  <2>1. i \in DOMAIN s /\ n + j \in DOMAIN s /\ i < n + j
    BY <1>1, <1>2, <1>3
  <2> QED
    BY <1>1, <1>2, <2>1 DEF Ascending
<1>7. Ascending(b) /\ Before(ToSet(a), ToSet(b))
  BY <1>5, <1>6 DEF Ascending, Before, ToSet
<1> QED
  BY <1>4, <1>7 DEF a, b

LEMMA HeadTailAscending ==
    ASSUME NEW s \in Seq(Nat), s # <<>>, Ascending(s)
    PROVE  Ascending(Tail(s)) /\ Before({Head(s)}, ToSet(Tail(s)))
<1> DEFINE r == Tail(s)
<1>1. Len(s) \in Nat /\ Len(s) >= 1 /\ DOMAIN s = 1..Len(s) /\ Head(s) = s[1]
  OBVIOUS
<1>2. DOMAIN r = 1..(Len(s) - 1) /\ \A i \in 1..(Len(s) - 1) : r[i] = s[i + 1]
  OBVIOUS
<1> HIDE DEF r
<1>3. ASSUME NEW i \in DOMAIN r, NEW j \in DOMAIN r, i < j PROVE r[i] < r[j]
  <2>1. i + 1 \in DOMAIN s /\ j + 1 \in DOMAIN s /\ i + 1 < j + 1
    BY <1>1, <1>2, <1>3
  <2> QED
    BY <1>2, <2>1 DEF Ascending
<1>4. ASSUME NEW j \in DOMAIN r PROVE s[1] < r[j]
  <2>1. 1 \in DOMAIN s /\ j + 1 \in DOMAIN s /\ 1 < j + 1
    BY <1>1, <1>2
  <2> QED
    BY <1>2, <2>1 DEF Ascending
<1> QED
  BY <1>1, <1>3, <1>4 DEF Ascending, Before, ToSet, r

\* What is in flight is nothing, or a committed event.
LEMMA FlightIs ==
    ASSUME TypeOK
    PROVE  /\ flight.event = 0 \/ flight.event \in Committed
           /\ flight.targets \subseteq Websocket
<1>1. flight = Idle \/ flight \in [event : Committed, targets : SUBSET Websocket]
  BY DEF TypeOK, Flights
<1>2. CASE flight = Idle
  BY <1>2 DEF Idle
<1>3. CASE flight \in [event : Committed, targets : SUBSET Websocket]
  BY <1>3
<1> QED
  BY <1>1, <1>2, <1>3

\* Events are numbers, and what is held or was pushed is among the committed.
LEMMA HeldEvents ==
    ASSUME TypeOK
    PROVE  /\ Committed \subseteq Nat \ {0}
           /\ channel \in Seq(Nat) /\ batch \in Seq(Nat)
           /\ ToSet(channel) \subseteq Committed /\ ToSet(batch) \subseteq Committed
           /\ flight.event \in Nat /\ flight.targets \subseteq Websocket
           /\ \A w \in Websocket : pushed[w] \in Seq(Committed) /\ ToSet(pushed[w]) \subseteq Committed
<1>1. Committed \subseteq Nat \ {0}
  BY CommittedAre
<1>2. channel \in Seq(Committed) /\ batch \in Seq(Committed)
  BY DEF TypeOK
<1>3. channel \in Seq(Nat) /\ batch \in Seq(Nat)
  BY <1>1, <1>2, SeqGrows
<1>4. ToSet(channel) \subseteq Committed /\ ToSet(batch) \subseteq Committed
  BY <1>2, SetOfSeq
<1>5. flight.event \in Nat /\ flight.targets \subseteq Websocket
  <2>1. CASE flight.event = 0
    BY <2>1, FlightIs
  <2>2. CASE flight.event \in Committed
    BY <1>1, <2>2, FlightIs
  <2> QED
    BY <2>1, <2>2, FlightIs
<1>6. \A w \in Websocket : pushed[w] \in Seq(Committed)
  BY DEF TypeOK
<1> QED
  BY <1>1, <1>3, <1>4, <1>5, <1>6, SetOfSeq

LEMMA CommitOrdered ==
    ASSUME TypeOK, Ordered, NEW m \in Moniker, Commit(m)
    PROVE  Ordered'
<1> DEFINE e == Len(recipient) + 1
<1>1. e \in Nat /\ 0 < e /\ \A x \in Committed : x < e
  BY CommittedAre
<1>2. batch' = batch /\ flight' = flight /\ pushed' = pushed
  BY DEF Commit
<1>3. channel' = channel \/ channel' = Append(channel, e)
  BY DEF Commit
<1> HIDE DEF e
<1>4. CASE channel' = channel
  BY <1>2, <1>4 DEF Ordered, Queued
<1>5. CASE channel' = Append(channel, e)
  <2>1. ToSet(channel') = ToSet(channel) \cup {e}
    BY <1>1, <1>5, HeldEvents, AppendSet
  <2>2. Ascending(channel')
    BY <1>1, <1>5, HeldEvents, AppendAscending DEF Ordered, Before
  <2>3. flight.event < e
    BY <1>1, FlightIs
  <2>4. /\ \A x \in ToSet(batch) : x < e
        /\ \A w \in Websocket : \A x \in ToSet(pushed[w]) : x < e
    BY <1>1, HeldEvents
  <2> QED
    BY <1>2, <2>1, <2>2, <2>3, <2>4 DEF Ordered, Queued, Before
<1> QED
  BY <1>3, <1>4, <1>5

LEMMA ReceiveOrdered ==
    ASSUME TypeOK, Ordered, Receive
    PROVE  Ordered'
<1>1. PICK n \in 1..Len(channel) : /\ batch' = SubSeq(channel, 1, n)
                                   /\ channel' = SubSeq(channel, n + 1, Len(channel))
  BY DEF Receive
<1>2. ToSet(channel) = ToSet(batch') \cup ToSet(channel')
  BY <1>1, HeldEvents, SplitSet
<1>3. Ascending(batch') /\ Ascending(channel') /\ Before(ToSet(batch'), ToSet(channel'))
  BY <1>1, HeldEvents, SplitAscending DEF Ordered
<1>4. flight' = flight /\ pushed' = pushed
  BY DEF Receive
<1> QED
  BY <1>2, <1>3, <1>4 DEF Ordered, Queued, Before

LEMMA DispatchOrdered ==
    ASSUME TypeOK, Ordered, Dispatch
    PROVE  Ordered'
<1> DEFINE e == Head(batch)
<1>1. /\ batch # <<>> /\ batch' = Tail(batch) /\ channel' = channel /\ pushed' = pushed
      /\ flight' = Idle \/ \E targets : flight' = [event |-> e, targets |-> targets]
    BY DEF Dispatch, FlightOf
<1>2. ToSet(batch) = {e} \cup ToSet(batch')
  BY <1>1, HeldEvents, HeadTailSet
<1>3. Ascending(batch') /\ Before({e}, ToSet(batch'))
  BY <1>1, HeldEvents, HeadTailAscending DEF Ordered
<1> HIDE DEF e
<1>4. \A x \in Queued : x \in Nat /\ 0 < x
  BY HeldEvents DEF Queued
<1>5. flight'.targets \subseteq Websocket
  <2>1. flight'.targets \subseteq Targets(recipient[e])
    BY DEF Dispatch, FlightOf, Idle, e
  <2>2. recipient[e] \in Moniker
    BY <1>2, HeldEvents, CommittedAre
  <2> QED
    BY <2>1, <2>2 DEF Targets, TypeOK
<1>6. flight'.event = e \/ (flight'.event = 0 /\ flight'.targets = {})
  BY <1>1 DEF Idle
<1>7. /\ Before(ToSet(batch'), ToSet(channel'))
      /\ \A w \in Websocket : Before(ToSet(pushed'[w]), Queued')
      /\ \A w \in Websocket : Before(ToSet(pushed'[w]), {e})
      /\ Before({e}, Queued')
  BY <1>1, <1>2, <1>3 DEF Ordered, Queued, Before
<1>8. Before({0}, Queued')
  BY <1>1, <1>2, <1>4 DEF Queued, Before
<1> QED
  BY <1>1, <1>3, <1>5, <1>6, <1>7, <1>8 DEF Ordered

\* The event goes to a socket that has been sent earlier ones only.
LEMMA PushOrdered ==
    ASSUME TypeOK, Ordered, NEW v \in Websocket, Push(v)
    PROVE  /\ Ordered'
           /\ \A w \in Websocket : pushed'[w] # pushed[w] =>
                \A e \in ToSet(pushed[w]) : e < Last(pushed'[w])
<1> DEFINE f == flight.event
<1>1. /\ v \in flight.targets /\ channel' = channel /\ batch' = batch
      /\ flight' = FlightOf(f, TargetsAfter(v))
  BY DEF Push
<1>2. /\ flight'.event \in {f, 0} /\ flight'.targets \subseteq flight.targets \ {v}
      /\ flight'.targets # {} => flight'.event = f
  BY <1>1 DEF FlightOf, TargetsAfter, Idle
<1>3. f \in Committed /\ pushed \in [Websocket -> Seq(Committed)]
  BY <1>1 DEF TypeOK, Flights, Idle
<1>4. pushed' = pushed \/ pushed' = [pushed EXCEPT ![v] = Append(pushed[v], f)]
  BY DEF Push
<1>5. /\ Before(ToSet(pushed[v]), {f}) /\ Before({f}, Queued) /\ Queued' = Queued
  BY <1>1 DEF Ordered, Queued
<1>6. \A x \in Queued : x \in Nat /\ 0 < x
  BY HeldEvents DEF Queued
<1>7. /\ \A w \in Websocket : w # v => pushed'[w] = pushed[w]
      /\ ToSet(pushed'[v]) \subseteq ToSet(pushed[v]) \cup {f}
      /\ pushed'[v] = pushed[v] \/ Last(pushed'[v]) = f
  <2>1. CASE pushed' = pushed
    BY <2>1
  <2>2. CASE pushed' = [pushed EXCEPT ![v] = Append(pushed[v], f)]
    <3>1. pushed'[v] = Append(pushed[v], f) /\ \A w \in Websocket : w # v => pushed'[w] = pushed[w]
      BY <1>3, <2>2
    <3>2. pushed[v] \in Seq(Committed)
      BY <1>3
    <3>3. ToSet(Append(pushed[v], f)) = ToSet(pushed[v]) \cup {f}
      BY <1>3, <3>2, AppendSet
    <3>4. Last(Append(pushed[v], f)) = f
      BY <1>3, <3>2 DEF Last
    <3> QED
      BY <3>1, <3>3, <3>4
  <2> QED
    BY <1>4, <2>1, <2>2
<1> HIDE DEF f
<1>8. Before({flight'.event}, Queued')
  BY <1>2, <1>5, <1>6 DEF Before
<1>9. \A w \in Websocket : Before(ToSet(pushed'[w]), Queued')
  BY <1>5, <1>7 DEF Ordered, Before
<1>10. \A w \in flight'.targets : Before(ToSet(pushed'[w]), {flight'.event})
  <2> SUFFICES ASSUME NEW w \in flight'.targets PROVE Before(ToSet(pushed'[w]), {flight'.event})
    OBVIOUS
  <2>1. w \in flight.targets /\ w # v /\ w \in Websocket /\ flight'.event = f
    BY <1>2, HeldEvents
  <2> QED
    BY <1>7, <2>1 DEF Ordered, f
<1>11. Ordered'
  BY <1>1, <1>8, <1>9, <1>10 DEF Ordered
<1>12. \A w \in Websocket : pushed'[w] # pushed[w] =>
            \A e \in ToSet(pushed[w]) : e < Last(pushed'[w])
  BY <1>5, <1>7 DEF Before
<1> QED
  BY <1>11, <1>12

LEMMA OrderedStep ==
    ASSUME TypeOK, Ordered, [Next]_vars
    PROVE  /\ Ordered'
           /\ \A w \in Websocket : pushed'[w] # pushed[w] =>
                \A e \in ToSet(pushed[w]) : e < Last(pushed'[w])
<1>1. ASSUME UNCHANGED <<channel, batch, flight, pushed>>
      PROVE  Ordered'
  BY <1>1 DEF Ordered, Queued
<1>2. ASSUME UNCHANGED vars
      PROVE  Ordered' /\ pushed' = pushed
  BY <1>1, <1>2 DEF vars, listenerVars
<1>3. ASSUME NEW w \in Websocket, Close(w)
      PROVE  Ordered' /\ pushed' = pushed
  BY <1>1, <1>3 DEF Close, listenerVars
<1>4. ASSUME NEW w \in Websocket, NEW m \in Moniker,
             Subscribe(w, m) \/ Unsubscribe(w, m) \/ ListPending(w, m)
      PROVE  Ordered' /\ pushed' = pushed
  BY <1>1, <1>4 DEF Subscribe, Unsubscribe, ListPending, listenerVars
<1>5. ASSUME Connect \/ Retry
      PROVE  Ordered' /\ pushed' = pushed
  BY <1>1, <1>5 DEF Connect, Retry
<1>6. ASSUME Break \/ Crash \/ Stop
      PROVE  Ordered' /\ pushed' = pushed
  <2>1. channel' = <<>> /\ batch' = <<>> /\ flight' = Idle /\ pushed' = pushed
    BY <1>6 DEF Break, Crash, Fails, Stop, Waiting, ChannelAfterBreak, TypeOK
  <2>2. Ordered'
    BY <2>1, EmptySet DEF Ordered, Queued, Ascending, Before, Idle
  <2> QED
    BY <2>1, <2>2
<1>7. ASSUME NEW m \in Moniker, Commit(m)
      PROVE  Ordered' /\ pushed' = pushed
  BY <1>7, CommitOrdered DEF Commit
<1>8. ASSUME Receive \/ Dispatch
      PROVE  Ordered' /\ pushed' = pushed
  BY <1>8, ReceiveOrdered, DispatchOrdered DEF Receive, Dispatch
<1>9. pushed' = pushed \/ \E w \in Websocket : Push(w)
  BY <1>2, <1>3, <1>4, <1>5, <1>6, <1>7, <1>8 DEF Next, Listener
<1>10. Ordered'
  BY <1>2, <1>3, <1>4, <1>5, <1>6, <1>7, <1>8, PushOrdered DEF Next, Listener
<1> QED
  BY <1>9, <1>10, PushOrdered

LEMMA OrderedInit == Init => Ordered
<1> SUFFICES ASSUME Init PROVE Ordered
  OBVIOUS
<1>1. channel = <<>> /\ batch = <<>> /\ flight = Idle
  BY DEF Init
<1> QED
  BY <1>1, EmptySet DEF Ordered, Queued, Ascending, Before, Idle

\* No socket is pushed an event twice or out of order, however the listener
\* batches what it reads and however often it loses its connection.
THEOREM PushedInOrder == Spec => InOrder
<1> DEFINE Next1 == \A w \in Websocket : pushed'[w] # pushed[w] =>
                        \A e \in ToSet(pushed[w]) : e < Last(pushed'[w])
<1>1. Init => TypeOK /\ MapsInv /\ Ordered
  BY PushInitType, MapsInit, OrderedInit
<1>2. TypeOK /\ MapsInv /\ Ordered /\ [Next]_vars => TypeOK' /\ MapsInv' /\ Ordered'
  BY PushTypeStep, MapsStep, OrderedStep DEF MapsInv
<1>3. TypeOK /\ MapsInv /\ Ordered /\ [Next]_vars => [Next1]_vars
  BY OrderedStep
<1> QED
  BY <1>1, <1>2, <1>3, PTL DEF Spec, InOrder
=============================================================================
