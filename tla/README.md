# A verification project for bed

bed is a WebSocket daemon for a bulletin board: members log in and get a bearer
token; the services (bank, messages, casino, whiteboard) check that token on
every message. This directory holds TLA+ modules that model parts of it,
configurations that check them with TLC, and proofs checked by TLAPS. Paths
below are relative to the root of the repository (`src/bed/...`).

## 1. Inventory

| Part | State it keeps | Operations | Interacts with |
|---|---|---|---|
| Auth service, `api/auth.py` | none of its own | `_handle_auth`, `_handle_reconnect`, `_handle_auth_refresh`, `_handle_auth_revoke` | registry, token store, credential provider, policy of `bbsengine6` |
| Session registry, `api/session.py` | `_by_session`, `_by_websocket`, `_table_observers`, `SessionState` objects | `bind`, `drop`, `rebind_websocket`, pending requests, seats and spectators | called by auth service, gates, table routers |
| Token store, `api/token_store.py`, `store/`, `sql/bed_token_functions.sql` | token records, in memory or in PostgreSQL | `put`, `get`, `delete`, `gc_expired` | called by auth service, gates, collector thread |
| Token gates, `api/gate.py`, `api/message.py` | none | look up the session, validate a token, bind a socket lazily | run first by every service message |
| Message push, `api/message.py`, `push_subscriber.py` | `_sessions`, `_subscribed`, LISTEN connection | subscribe, unsubscribe, dispatch, drop dead socket, reconnect loop | PostgreSQL NOTIFY, sockets |
| Client connection, `client/connection.py`, `client/messageservice.py` | socket, lock, receive task, handlers, hooks | `send`, `subscribe`, receive loop with redial, `aclose` | the daemon |
| Client tokens, `client/authservice.py`, `tools/_token.py`, `tools/auth.py`, `push_subscriber.py` | the token file, `_resolved_token` of a tool | login, reconnect, refresh, revoke, write back a rotated token | the daemon |
| Daemon, `main.py`, `config.py` | `_running`, server, collector task, restart policy and count, pidfile | load, start, restart, stop, signals, reload, `_gc_loop` | all of the above |
| Secret file, `api/secret.py` | HMAC secret, instance id | create, load, upgrade v1 to v2 | daemon start |
| Bank, `api/bank.py`, `sql/bed_bank_*.sql`, `client/bankservice.py`, `tools/bank.py` | accounts, transactions, transfers; the balance a tool shows | add, remove, request, approve, reject, look up, draw the bar | PostgreSQL |
| Message and group tables, `sql/bed_message_*.sql`, `sql/bed_group_functions.sql` | messages, recipients, groups | send, mark read, membership | PostgreSQL, NOTIFY |
| Others | none | ping, dispatch, configuration, credential lookup, audit writes, command line | |

What is hard here, and where:

* **Partial failure.** Reconnect and refresh bind, put, delete and answer in
  that order; the database call in the middle may raise before or after it took
  effect. Nothing rolls back the bind.
* **Aliasing.** `bind()` writes the new key of `_by_websocket` and never removes
  the old one, so one `SessionState` can be held by several sockets and by a
  socket whose session id has meanwhile got another object.
* **Ordering and retries.** A client may repeat a reconnect whose answer was
  slow, or another process of the same member may hold an older token file.
* **Time.** Expiry is decided by the claim, by the store's `get`, by the hook
  before the dispatch and by the collector, on two clocks and in an order that
  differs between the gates.
* **Restarts.** The registry is lost, the database records stay, and the secret
  or the instance id may be different.
* **Concurrency** proper is in the message push, the client connection and the
  daemon, which await between a read and the write that relies on it, and in
  the token file and the pidfile, which several processes open, truncate and
  write without a lock.
* **Lost and late answers.** A client that gives up closes its socket; the daemon
  may have taken the request, or take it later.

For each part, what makes it correct: for tokens, a session has one live token
and a dead token stays dead; for the registry, both dictionaries lead to the
same session and the audience index is the truth of the sessions; for the gates,
what is let through is let through on a live token, or on the claims the message
brought itself, and what is refused is refused with the right reason; for push, a subscribed socket gets each
notification once while the listener is up; for the client, a call returns its
own answer and a subscription survives a redial; for the bank, a transfer is
settled once and no money is made; for the daemon, what is told to stop stops
and what failed to start leaves nothing behind.

## 2. Modules

| Module | Models |
|---|---|
| `SessionRegistry` | state of the registry and the effect of its writes; no actions of its own |
| `AuthService` | handlers of the auth service, token store, gates, collector, restart, over `SessionRegistry` |
| `BearerTokens` | abstract: what the above promises about tokens |
| `AuthRefinement` | the refinement mapping from `AuthService` to `BearerTokens` |
| `TableAudience` | seats, spectators, drops and socket moves, over `SessionRegistry` |
| `MessagePush` | subscriptions, the LISTEN task, dispatch to sockets, closes and lost connections |
| `TokenClient` | commands of several processes over one token file, with `BearerTokens` as the daemon |
| `BankLedger` | `engine.bed_bank_op`, the handlers, the client and the menu of the bank tool |
| `BedConnection` | a client connection: calls, the receive loop, redial and hooks, `aclose` |
| `DaemonLifecycle` | daemons over one pidfile and one port: start, restart, signals, stop, reload |
| `MC...` | constants and symmetry sets for TLC |
| `SessionRegistryProofs` | lemmas about `bind()`, used by `AuthProofs` and `AudienceProofs` |
| `AuthProofs` | theorems about `AuthService`, and that it implements `BearerTokens` |
| `TokenClientProofs` | theorems about `TokenClient`, and about `BearerTokens` as its daemon |
| `AudienceProofs`, `MessagePushProofs`, `BankProofs`, `ConnectionProofs`, `DaemonProofs` | theorems about `TableAudience`, `MessagePush`, `BankLedger`, `BedConnection`, `DaemonLifecycle` |

### SessionRegistry

Python dictionaries hold references, and the interesting behaviour comes from
two keys holding the same object, so an object is an element of `StateId`,
`heap` maps it to its fields, and `bySession` and `byWebsocket` map keys to it.
An object that no dictionary holds is collected; this keeps `StateId` finite and
changes nothing the code can observe. `Bind(s, w, state)` is `bind()`: the
eviction of the object found under `w` if it is another session's
(`Evicted`, `BoundSessions`, `BoundObservers`), then the bound object. The caller
passes the object's final fields, because each handler goes on to assign
`auth_service_token` or take the pending request in the same step.

### AuthService

One action is one handler. None of them awaits between its first read and last
write, so on the event loop a handler is atomic. Failing store calls are the
`put` and `del` parameters of the actions: `"ok"`, `"undone"` (raised, no
effect) or `"done"` (the connection broke after the statement was committed).
Which calls may raise is the constant `Faults`. A `get` that raises changes
nothing and ends the message with an error, so it is not a separate case.

The dispatcher calls a hook before any handler (`_pre_dispatch`,
`_verify_wire_token`, `set_caller` in `main.py`): it looks up the token of every
message, deletes a record that another instance wrote, and goes on whatever the
verdict, which only becomes the `_caller` that services outside of `src/` read. Each handler that has a
token starts from `AfterHook`, the store that the hook leaves. `HookRaises` is
the hook whose delete raises: the message is answered with an error and no
handler runs.

* `Login`: a fresh session id, bind, mint, persist. Refused credentials change
  nothing that is modelled.
* `Reconnect`: `RefusedInvalid`, `ReconnectExpired`, `ReconnectRevoked`,
  `ReconnectDenied`, `ReconnectOk`, which are the handler's early returns in
  order. `RotatedStore` is the put with its rollback and the delete. The
  handler's answer `bed_instance_mismatch` has no disjunct: the hook has deleted
  the record by then, so it is `token_revoked`.
* `Refresh`, `Revoke`: the same for their handlers.
* `Gate`: `GateClaimed`, `GateBound`, `GateUnbound`, `GateBinds`; `"bank"` is the
  validation in `gate.py` (store first), which casino and whiteboard use too,
  `"message"` the copy in `message.py` (expiry first). `GateClaimed` is a message
  over a bound socket that brings a `claims` key: bank, casino and message look at
  no token then (whiteboard does). `WireVerdict` and `WireStore` are what becomes
  of the token of the message, `SessionCode` and `SessionStore` of the one that
  the bound session remembers.
* `Expire`, `Lapse`, `CollectTokens`: time and the collector, each a step of its
  own between any two messages. The collector runs in a thread, but its only
  shared access is one locked or one SQL operation. A message in whose handler it
  runs, between the look at the claim and the one at the store, finds no record of
  a token that is lapsed, as it would without the collector.
* `Push`, `Acknowledge`: the router sends a request to a session and gets its
  acknowledgement (`next_request_id`, `record_pending`, `clear_pending`). No code
  in `src/` calls these; table routers in other repositories do.
* `Restart`: a new process, see above.

Abstractions. A token is opaque and fresh; the code derives it from its claims
and the clock and has no nonce, so this assumes that two mints of a session on a
socket never read the same time. A token's time passes twice: `expired` holds
the tokens whose claim says so when a handler looks, `lapsed` those whose record
the store's `get` and the collector no longer return. The second look comes
later than the first, and with PostgreSQL by the clock of another host: either
set may then be ahead. The in-memory store uses the same clock after the handler
did, so there a token lapses first: one that passes its time between the two
looks is `lapsed` and not `expired`. The policy `bbsengine6.auth.access` is not in the
repository; as its callers and tests use it, login is always allowed,
refresh needs the token's session to be bound to the socket, and reconnect is
allowed over an unbound socket. Over a socket that has a session reconnect may
be allowed or refused, and a revoke may be refused too: the code answers
`forbidden` and changes nothing.
Closing a socket does not touch the registry, because no code calls
`unbind_websocket` or `drop` when it happens.

### TableAudience

`Login` and `Reconnect` are the two ways `bind()` is called (with a new session
over any socket, or with a known one over a socket that is free or its own);
the other actions are one registry method each. The socket that `Rebind` moves a
session to may be another session's, which is overwritten as the code does. The history variable `reused`
records that a client logged in over a socket that served another session.

### MessagePush

The state of `MessageService` is `sessions` (`_sessions`) and `subscribed`
(`_subscribed`). The task `_listen_loop` is `phase` (what it awaits: a
connection, a notification, or the pause after a failure), `batch` (the list
`notifies()` returned; the phase is `"ended"` when the task died) and `flight` (the notification being dispatched, with the
targets of its loop that are still to be sent). `channel` is what the database
holds for the connection, `recipient` what was committed. `closed`, `pushed`
and `read` are the sockets. `cursor` is the `next_cursor` that a client has in
hand from its last page. `pushed`, `read` and `lost` record history for the
properties and are read by no action.

Interleaving is at the awaits. `_subscribed_lock` is only held over statements
that do not await, so a locked section is one step and the lock never waits. A
dispatch is `Dispatch` (the snapshot of the targets under the lock) and one
`Push` per target (the awaited `send_to`, with `_drop_session` if it raised);
requests run between any two of these. The targets are a set, sent in any
order; the list the code builds from its set has no order either.

* `Subscribe`, `Unsubscribe`, `ListPending`: the handlers, after their gates.
  `ListPending` is one page (`Page`, `IsPage`): the newest `PageSize` messages
  before the cursor. A full page comes with a cursor (`NextCursor`), which the
  client may follow or not. Each page is a step of its own, so commits, pushes and
  closes come between two of them. In the code a page has 50 messages unless the
  client asks for another number, and never more than 100.
* `Close`: a send to a closed socket raises, and that is the only thing that
  makes one raise. A socket that closes between two sends is found by the second.
* `Commit`: a transaction that inserts or updates a row of
  `engine.__message_recipient`; the triggers in `sql/` notify.
* `Connect`, `Receive`, `Dispatch`, `Push`, `Break`, `Crash`, `Retry`, `Stop`: the
  task. `Break` is an exception that the loop catches (`psycopg.Error`,
  `OSError`), and leads to the pause. `Crash` is any other: the task ends, and
  nothing starts it again.

Abstractions: a payload that cannot be parsed or names nobody reaches no
subscriber and is left out; so are the contents of the envelope and the length
of the pause. `notifies()` is the library's and not in the repository. `Receive`
models it as the code and its specification use it and its tests fake it: an
awaitable that returns a list of what has arrived, possibly only a part, after a
bounded wait. In psycopg 3 it is a generator, over which `await` raises a
`TypeError`; with such a connection the task is in `"ended"` after its first wait,
which is `Crash` here, and no push is ever sent.

### TokenClient

Each process runs one command after the other: the four of the auth tool, a
bank menu, `message send`, the other message commands (`"pending"`), or the
push subscriber. A command is where it has got to (`at`) and the tokens it
holds: the one it read from the file (`asked`), the one the daemon handed it
(`fresh`) and the one it sends with its calls (`wire`).

* `Begin` is `resolve_token`; `Serve` is the daemon's answer, a step of
  `BearerTokens`; `ServerKills` is expiry, a revocation elsewhere or a restart.
* `Accepted`, `Refused`, `PushAccepted`, `RevokeAccepted` are what the tools do
  with the reply. `TimeOut` ends a command before or after the daemon took its
  request.
* `Truncate`, `Write` and, in the auth tool, `Newline` are the system calls of a
  token write; each can fail. A process writes to the file it opened: `linked`
  says who has the file at the path open. What is written to one that was removed
  meanwhile is lost (`Overlaid`), and two processes that truncated the same file
  may leave a mixture, `Mixed`, which no daemon takes for a token (`Denial`).
  `Unlink` removes the file whatever it holds by then.
* `Open` decides the token of the calls: the bank tool keeps the one it was
  handed, `send` reads the file again, the other message commands send none.
  `CallRetried` is `_reload_token_from_file`.

`successor` and `dropped` are history: which token replaced which, and which
were handed out and kept by nobody.

### BankLedger

`account`, `posted` and `transfer` are the tables (of `bank.__transaction` only
the sum of a member's rows matters). A handler calls one definer function, which
is one transaction, so `Execute` is one step; with READ COMMITTED the guard
`balance >= amount` is evaluated again on the row that the UPDATE locks. The call
may also raise before (`Refuse`) or after (`Execute` with a failed answer) it
took effect. `Refuse` is possible for any request and stands for the gates too.

A tool waits for one call at a time. `GiveUp` is the timeout: the request stays
on the wire, and is executed later or lost with its socket. After each command
`DrawBar` looks the balance up if it is dirty, as `setbottombar` does through
the fragment. `misread` (a lookup failed), `told` (what a tool reported as done)
and `overtaken` are history; a tool is overtaken when a request of another tool,
or one of its own that it gave up on, moves its account after it was last told
the balance.

### BedConnection

An actor is a coroutine that uses the client, the receive loop, or the report of
the terminal. Steps are the stretches between two awaits: waiting for the lock,
dialing, sending, waiting in `recv()`, closing the socket after an error. `reader`
is the coroutine that waits in `recv()`: the websockets library refuses a second
one, and the code meets that in both directions. The reconnect hook runs `send()`
within the loop, so the loop goes through the same steps as a caller.

* A request draws its id from the counter of the connection (`ids`, `NextId`)
  before it takes the lock. A push carries an id of the daemon's own
  (`PushMessage`, `server:msg:<n>`). `Matches` is all that `send()` looks at, the
  id; whom a message was made for is in `to` and `n`, which only the history `own`
  reads.
* The report follows a dial of the loop or of `_ensure_recv_loop` (`WithReport`):
  it probes the terminal in a thread (`Probed`, or `ReportSkipped`) and then calls
  `send()`, which may dial. `_ensure_recv_loop` waits for it (`EnsureReported`). A
  failed call of the report stops the loop like any other.
* `aclose()` is `CloseBegins` (it cancels the loop and waits for it if there is
  one), the end of the loop, and `CloseEnds`. The cancelled loop gives up what it
  awaits (`LoopCancelled`), or its dial returns all the same and the socket is
  closed and not kept (`DialedTooLate`, the check of `_recv_stop` in
  `_recv_loop`). Other coroutines run meanwhile.

Abstractions. A loop cancelled by `_stop_recv_loop`, which nobody waits for, ends
before anything else runs. With Python before 3.12 `wait_for` may swallow a
cancellation and leave such a loop running; it is modelled only for the dial
under `aclose()`, where the code provides for it. A subscribe that returns while
a cancelled loop is ending waits for that. One coroutine at a time subscribes, as
the push subscriber and the tools do, and there is one report at a time.

### DaemonLifecycle

A process goes through `main_async`: `Launch` (configuration, router, database),
the pidfile call by call, then the restart loop. The pidfile is the file at the
path with the inode it has: a process writes to the file it opened, which may
have been removed. `Signal` and `Reload` happen where the event loop runs; `Stop`
is the task the handler creates and runs later than the handler. `Bound` sets
`_running`, whatever came before. `StartFails` covers every exception of
`start()`, with some of the listeners up or none.

`Policy` is the set of restart policies that the configuration can hold
(`autorestart`, `restart_on_bind_failure`, `max_restarts`): `Launch` takes one and
`Reload` replaces it whole, so the limit may rise above or fall below the counter
at any time. The clean-ups may fail: `Exit` and `WriteFails` may leave the file,
because an `OSError` of `unlink` is only logged, and `StartFails` and `Stop` may
leave listeners up, because a failing `server.stop()` is, and the server is
forgotten; they stay until the process ends. `ReadFails` is a pidfile that cannot
be read for another reason than the ones the code expects, which ends the start.
History: `ordered`, a signal came while the daemon ran or paused; `kept`, its
removal of the file failed; `unstopped`, a `stop()` of a server failed.

## 3. Runs

All bounds are the sizes of the constant sets and the named constants:
`MaxRequest` (requests pushed to one object), `MaxEvents` (commits), `PageSize`
(messages in a page), `MaxBreaks` (failures of the listener's connection), `MaxBalance`, `MaxCalls`, `MaxGiveUps`,
`MaxSockets`, `MaxPushes`, `MaxRestarts` (the largest limit in `Policy`). Deadlock is checked except where the
system may stop: the listener has been stopped and every socket has closed, all
menus were quit, the callers have made their calls, the daemons have ended.

| Run | Instance | Distinct states | Shows |
|---|---|---|---|
| `auth_memory` | 2 sessions, 2 sockets, 3 tokens, in-memory store, no requests pushed | 49,705 | `HomeSocket`, `GateGrantsLiveToken`, `BoundHasToken`, `SnapshotOfOwnSession`, `ExpiredSaysExpired` |
| `auth_database` | 2 sessions, 1 socket, 3 tokens, 2 instance ids, put may raise | 419,067 | `OneRecordPerSession`, `FailureKeepsToken`, `GateGrantsLiveToken`, refinement of `BearerTokens`, `TypeOK` |
| `auth_faults` | 2 sessions, 2 sockets, 2 tokens, 2 instance ids, 2 secrets, put and delete may raise | 242,452 | `GoneForGood`, `PendingSurvivesFailure` |
| `audience` | 2 sessions, 3 sockets, 3 objects, 1 table | 224,891 | `WatchersIndexed`, `ObserversExact` |
| `push` | 1 member, 2 sockets, 2 events, pages of one message, 1 failure | 356,088 | `TypeOK`, `MapsAgree`, `NothingMissed`, `InOrder`, `Delivered`, `Recovers` |
| `token_client` | 2 processes, 2 sessions, 4 tokens | 590,273 | `TypeOK`, `FileNotSuperseded`, `ToolsServed` |
| `bank` | a member and a sysop with a tool each on the member's account, 3 and 4 calls, 1 transfer, 1 call given up on | 3,902,332 | `TypeOK`, `BalancesMatch`, `ReportsAddUp`, `BarExact`, `DecisionsStand` |
| `connection` | 2 callers with 2 and 1 requests, one of them subscribes, 1 report, 2 sockets, 1 push | 526,657 | `TypeOK`, `OwnReply`, `ClosedStays`, `RedialSubscribed`, `CallEnds` |
| `daemon` | 2 processes, 3 policies with limits 0 and 1 | 109,808 | `TypeOK`, `NoStalePidfile`, `NoServerLeft`, `HealthyServes`, `StartEnds`, `StopEnds` |
| `pending_dropped` | as `auth_memory`, with a request pushed to a session | violation | `PendingReplayedToHolder` |
| `bank_approve` | as `bank`, each tool on its own account | violation | `ApprovedMoves` |
| `resubscribe` | as `connection` | violation | `AnyRedialSubscribed` |

Why the bounds are enough for what they are for: three tokens are a login and
two rotations of one session, or two logins and one rotation, which is what it
takes for an old token, a live one and a failed one to exist together. Two
sockets are a socket left behind and the one in use; two sessions are its old
and its new owner. The properties of `auth_database` are about rotations and
records, for which one socket does; the cases of two sockets are in the other
two runs. Three objects in the heap suffice for a session to have two
(one still held by a forgotten socket) next to another session's. For the push,
two events are what it takes for a second to wait behind the first or to be lost
while the first is sent, and two sockets of one member are a dead one and a live
one; members share nothing but the listener, and the theorems cover any number. Pages
of one message make the second page, the full last page and the end of the
listing all happen with two events.
One failure leads the task through each of its phases twice. For the token file,
four tokens are a login and three rotations by two processes that overlap, one
of them lost. For the bank, four calls are an opened account on either side, a
request and its answer. The tools share the member's account: both remove from a
balance that covers one of them, and one moves the balance behind the other's
back. For the connection, a subscription takes two requests, beside which one call of another
coroutine can fail, dial or close; the second socket is the redialed one, or the
one the report dials. For the daemon, one restart is the pause, the retry and the
giving up; a reload between the three policies lifts the limit above the counter
or puts it below; two processes are a dead or ending owner of the pidfile and a
new one. The theorems in section
5 do not depend on these bounds.

Symmetry is used on sessions, sockets, tables, instance ids, secrets and, for
the token file, processes, which no definition chooses from; tokens and object
ids are allocated with `CHOOSE` and are integers. Runs with a liveness property
use no symmetry, because TLC's reduction is not sound for it.

The properties:

* `OneRecordPerSession`: the store never has two records of a session. Holds
  although a put may raise after taking effect, because of the rollback in
  `reconnect` and `refresh`. A delete that raises can leave two, so it is stated
  for stores whose deletes do not fail.
* `FailureKeepsToken`: when a rotation fails because the record could not be
  put, the token the client presented still works.
* `GoneForGood`: a token that left the store never comes back, and a success
  reply of reconnect, refresh or revoke means the presented token has left.
* `GateGrantsLiveToken`, `BoundHasToken`, `SnapshotOfOwnSession`: what a service
  lets through, it lets through on a live token of this instance and secret,
  except a message with claims of its own over a bound socket, which it lets
  through unseen (section 4), and a session left without a token by a store that
  failed; that last case, the fallback to the bound session alone, is not reached
  while the store works; and the token remembered in any object still reachable is
  one of its session.
* `ExpiredSaysExpired`: a token that has expired when the handler of a reconnect,
  a refresh or a message looks at its claim is not called revoked, although the
  collector, the hook or another message may have taken its record before. Two
  cases are called revoked and excluded by name: a token that passes its time
  after that look, and one for which the database's clock is ahead. The bank's
  gate, which looks at the store first, is excluded too.
* `HomeSocket`: a registered session is reachable through the socket it names.
* `PendingSurvivesFailure`: a request in flight is dropped only by a reconnect
  that replays it or by one that reports the token dead.
* `WatchersIndexed`, `ObserversExact`: no watcher is missing from a table's
  observers; nobody else is among them, while no login took over the socket of
  another session (section 4).

* `MapsAgree`: the socket in `_subscribed` is one of `_sessions`, and there is one
  exactly when there are any, so the fallback of the dispatch to `_subscribed`
  never sends to a socket that has left.
* `NothingMissed`: a socket that subscribed and then listed knows each event of
  its member from the cursor of its listing on, which is every event when it
  followed the pages to the end, or the event is on its way, or the listener's
  connection lost it. This spans the gap between the snapshot of the targets and
  the sends: a socket that subscribes after the snapshot is covered by its
  listing. The client in the repository asks for one page (section 4).
* `InOrder`: no socket is pushed an event twice or behind a later one.
* `Delivered`: what is on its way to a subscribed open socket arrives unless it
  leaves, closes or the connection breaks; other sockets that are dead do not
  hold it up.
* `Recovers`: after a failure that the loop catches the listener listens again,
  or it is stopped, or a failure of another kind ended it.

* `FileNotSuperseded`: the token file is left with a superseded token only if the
  token that replaced it was lost. Two overlapping commands cannot write in the
  wrong order, because the second rotation needs the token of the first, which
  is nowhere but in the file.
* `ToolsServed`: the bank tool and `message send` use what they reconnected to.
* `BalancesMatch`: balances are never negative and are the sum of their rows; of
  two removes that the balance covers one of, one is refused.
* `ReportsAddUp`: an add or remove reported as done was done once; nothing else
  is in the ledger but what was sent and not reported as done.
* `BarExact`: the balance shown at the prompt is right, also after commands that
  failed and took effect, but for a failed lookup (section 4) and for a request of
  another tool, or one long given up on, that took effect after the tool was last
  told the balance.
* `DecisionsStand`: an approved or rejected transfer stays so.
* `OwnReply`: no call returns a push or the answer to another call, although it
  goes by the id alone and the late answers to calls that were given up on,
  cancelled or made by the hook or the report come over the same socket.
* `ClosedStays`: after an `aclose()` with no other operation going on there is no
  receive loop, be it one that was cancelled in the middle of a dial or of a hook,
  and no socket but one that a report already under way dials.
* `RedialSubscribed`: when the loop listens on a socket it redialed, the daemon
  has that socket subscribed, or refused to.
* `CallEnds`: every operation ends; no path keeps the lock.
* `NoStalePidfile`: a daemon that ended by itself is not named by the pidfile,
  unless the removal of the file failed.
* `NoServerLeft`: no listener of a failed start is open when the next one begins,
  unless the server's `stop()` failed.
* `HealthyServes`: a daemon that nobody told to stop and that runs also serves.
* `StartEnds`: the restart loop does not go on for ever without a run, whatever
  policies are loaded meanwhile and although the counter may be past the limit.
* `StopEnds`: a daemon told to stop while it runs or pauses ends.

Each property of a passing run has a mutant in `PROJECT.json`: a variant of a
modelled definition, next to the original in its module, under which TLC finds
the property violated.

## 4. Disagreements with the documentation

Shown by a run:

* `pending_dropped`. A reconnect with a token that was already rotated out is
  answered `token_revoked` and clears `pending_request` of the session, which is
  alive with its newer token. The docstring of `SessionState` says a reconnect
  replays that request. The trace: login, reconnect, a request is pushed, the
  first token is presented again.
* `bank_approve`. Approving a transfer sets its status; no balance changes and no
  row is posted, then or later. `specs/bank.md` gives the balances after the
  transfer in the reply.
* `resubscribe`. Whoever finds the socket gone dials. If a call does, the loop
  finds an open socket and runs no hook: the client believes it is subscribed
  (and says `already_subscribed`) over a socket the daemon knows nothing of. The
  comment in `messageservice.subscribe` says "after any redial".

Seen while modelling, without a run of their own:

* `gate.py` asks the store before it looks at the expiry, and the store does not
  return expired records: the bank, casino and whiteboard answer an expired token
  with `token_revoked`, not `token_expired` as the docstring says. A token that
  passes its time between the handler's look at the claim and the store's at the
  record is `token_revoked` everywhere.
* The gates of bank, casino and message take a message with a `claims` key as one
  that has been validated, and look at no token (`bank.py:332`, `message.py:505`).
  The hook that runs before them removes `_caller` and leaves that key in.
* `reconnect` and `auth_refresh` have an answer `bed_instance_mismatch`, which no
  token of a message gets: the hook has deleted the record before the handler
  runs, and the answer is `token_revoked`.
* When a login takes over a socket that still holds an old object of another
  session, `bind()` unregisters that session's new object by id and purges only
  the tables of the old one; `_reindex` documents that the index matches.
* The message commands other than `send` pass no token and use a new socket, so
  that the gate refuses them, although `tools/message.py` describes the session
  as bound. The push subscriber goes on with the token that its reconnect
  rotated out: the gate looks at the token of the message before the session of
  the socket, so its subscription is answered `token_revoked`.
* `auth refresh` of the command line cannot succeed: the policy wants the session
  bound to the socket, and the tool's socket is new.
* The message client reloads its token only on `not_authenticated`; a token that
  was rotated out is answered `token_revoked`.
* `_write_token_file` says "atomically" and truncates before it writes: a second
  writer's token may mix with the first's, and one written to a file that was
  removed after it was opened is lost. `revoke` unlinks the file even if it holds
  another session's token by then.
* The client's `list_pending` (`messageservice.py:238`) asks for one page and
  never follows `next_cursor`: a client with more pending messages than a page
  learns of the newest only.
* The listener task retries on `psycopg.Error` and `OSError`. Any other exception
  ends it for good, and the daemon goes on without pushes (`message.py:606`).
* A balance lookup that fails is shown as 0 in the bottom bar, although the
  docstring says that a failed lookup never blanks it; `bank_pending` reads keys that the
  rows do not have and ends the tool; `pending` lists what the member requested
  and not, as `specs/bank.md` says, what awaits the member's approval as well;
  the menu offers neither approve nor reject.
* Any call that fails stops the receive loop for good, while the client goes on
  to answer `already_subscribed`; the loop, refused in `recv()` because a call
  reads, drops the live socket without closing it, so that `aclose()` does not
  close it either; the terminal report that a redial starts may dial after
  `aclose()`. A failed `send()` of the hook or of the report is a failed call like
  any other: it stops the loop, the hook its own, and leaves a subscribed client
  without one.
* A failing `unlink` of the pidfile and a failing `stop()` of the server are
  logged and passed over (`main.py:273`, `main.py:288`, `main.py:1237`): the file
  goes on naming a daemon that has ended, and listeners stay up of which the
  daemon knows nothing.
* A SIGTERM during `await server.start()` sets `_running` to FALSE before
  `start()` sets it to TRUE: the daemon runs on. Two starts that find the same
  stale pidfile both get a claim, although `_write_pidfile` says "atomically
  claim", and the first to end removes the file of the other. A daemon that gives
  up after `max_restarts` exits with status 0. A reload overrides restart flags of
  the command line.

## 5. Proofs

Every invariant and every action property of a passing run is a theorem, for all
sizes of the constants. What the proofs assume of the constants:

* `RegistryAssumption`, `AuthAssumption`, `ClientAssumption`: None is not an id; the
  types of the flags.
* `ClientAssumption` moreover: `Mixed` is no token and not None.
* `PushAssumption`: None is not a socket; a page has at least one message; the
  bounds are numbers.
* `DaemonAssumption`: None is neither a process nor a policy; `MaxRestarts` is a
  number, and no policy has a larger limit.
* `BankAssumption`, `NoneAssumption`: each tool has an actor and an account;
  amounts are positive; transfer ids are finitely many numbers; None is not a
  member, a number, a request or an answer.
* `ConnectionAssumption`: the bounds are numbers, that of the calls one for each
  caller and the report; subscribers are callers; the loop and the report are
  distinct and no callers; None is none of them and no number.

### AuthService

* `TypeCorrect`: `Spec => []TypeOK`. One lemma per action. `BindType` covers the
  registry for all callers of `bind()`; `MintType` and `MintsNothingType` cover
  the tokens.
* `OneRecord`: `Spec => []OneRecordPerSession`. Inductive together with `TypeOK`.
  `TokenStep` reduces every step to one of three kinds: it mints nothing and the
  store does not grow, it starts a session, or it rotates a live token. A start
  takes a session that no minted token has, and a rotation removes the record it
  replaces or the one it put.
* `Gone`: `Spec => GoneForGood`, from the same three kinds and the fact that the
  new token was not minted before.
* `HomeSocketCorrect`: `Spec => []HomeSocket`. The point is `BindHomeSocket`: a
  session that stays registered cannot have had its home socket taken, because
  `bind()` would have found its object there and unregistered it.
* `GatesGrantLiveTokens`, `FailuresKeepTokens`: two invariants of the last reply
  and the tokens at that moment; the first says of every gate reply but those to
  messages with their own claims that the token let through decodes, has a record
  of this instance and is unexpired as far as the gate looked. `ReplyOf` says
  which handler a reply is from, the hook included; the rest is each handler's
  early returns against the store it leaves. They need no strengthening but
  `TypeOK`.
* `ExpiredTokensSayExpired`: `Spec => ExpiredSaysExpired`, a property of the steps:
  the reply is held against the clock at the beginning of the step, with the two
  clocks and the store in any state they can be in.
* `SnapshotsOfOwnSession`: the strengthening is `HeldOwnTokens`, which says it of
  every object that a dictionary holds, also one that only a forgotten socket
  holds: a gate or a refresh over that socket writes to it. `ObjectStep` reduces
  the steps to four kinds (no token is written, a bind with a token of the bound
  session, a refresh of a held object, a restart), and `ClaimsKept` says that the
  claims of a minted token never change. `HomeSocket` is needed where `bind()`
  takes the object of a registered session.
* `BoundSessionsHaveTokens`: inductive with the above, while no store call fails.
* `PendingSurvives`: `Spec => PendingSurvivesFailure`. `BindPending` says what a
  bind does to the object of a session that stays registered: its own session
  gets the fields the handler chose, any other keeps its pending request.
* `Refinement`: while deletes do not fail, `Spec` implies `BearerTokens`. The
  first kind of token step maps to `Kill`, a start to `Start` or `Spoil`, a
  rotation to `Replace` or `Spoil`.

### TokenClient and BearerTokens

* `OneLive`: `BearerTokens` has one live token per session. `ClientsKeepDaemon`:
  `Spec` of `TokenClient` implies it, so this holds of the daemon the clients
  talk to.
* `ClientTypes`, `NoSupersededToken`, `ToolsAreServed`: `[]TypeOK`,
  `[]FileNotSuperseded` and `[]ToolsServed`, from one inductive invariant.
  `Unissued`: a token that the daemon has not issued is nowhere. `Private`: a
  token that was handed out and not yet written is known to its process alone,
  so nobody else can have it rotated or write it. `Stages`: what a command has
  in hand at each place; in particular, once a tool has truncated the file, the
  token it asked with does not come back into it. `FileNotSuperseded` alone is
  not inductive: it does not exclude a second process that is about to write a
  token which has been replaced.

### TableAudience

* `NoWatcherMissed`: `Spec => []WatchersIndexed`. The strengthening is `Owned`:
  the object of a registered session is of that session. Without it, a write to
  one session's object could change what another watches. `HomeSocket` is not
  available here, since `unbind_websocket` breaks it.
* `ObserverSetsExact`: `Spec => []ObserversExact`. The other half is `NoneStale`:
  as long as no socket was reused, an observer is registered and watches. A bind
  that evicts nobody keeps it, and one that evicts sets `reused`.

### MessagePush

* `MapsAlwaysAgree`: `Spec => []MapsAgree`, inductive together with the types of
  the two maps. `_drop_session` is the case that matters.
* `PushTypeCorrect`: `Spec => []TypeOK`. Every event on its way, pushed, read or
  lost is a committed one.
* `NothingIsMissed`: `Spec => []NothingMissed`. The strengthening is
  `ListedSubscribed`, a socket whose listing has a cursor is in `sessions`, without
  which a dispatch could take an event past it. An event from the new
  cursor on is from the old one on or in the page, for every size of the page. One lemma per kind of step shows that an
  event on its way to a socket stays so, is pushed to it, is lost, or the socket
  leaves. `AppendSet`, `SplitSet` and `HeadTailSet` say what the queues do to the
  set of their elements.
* `PushedInOrder`: `Spec => InOrder`. The invariant is `Ordered`: batch and
  channel are ascending, the batch comes before the channel, what is in flight
  and what was pushed to any socket comes before both, and what was pushed to the
  targets still to be sent comes before the event in flight. A dispatch that took up an event twice, or a
  connection whose old channel survived a failure, would break it.

### BankLedger

* `BankTypeCorrect`, `BalancesAlwaysMatch`: `Spec => []TypeOK` and
  `[]BalancesMatch`. `TypeOK` already says that no stored balance is negative.
  `PerformStep` covers what the daemon may do to the tables, and every other
  action leaves them alone. The invariant adds `Asking`, that a tool with an
  answer has a call, which gives the type of what it makes of the answer.
* `DecisionsAlwaysStand`: `Spec => DecisionsStand`, from `PerformStep`. A request
  could overwrite a decided row only under an id in use, so `SmallestFree` shows
  that the id it takes is free.
* `BarAlwaysExact`: `Spec => []BarExact`. The strengthening is `Bars`: between the
  change of a balance and the moment the tool shows it, the balance is in the
  answer the tool has not read yet, or the bar is dirty, or the tool has been
  overtaken by another request on its account. `Queued` ties the request on the wire to the call of the tool: a
  request of an earlier call is one that was given up on.
* `ReportsAlwaysAddUp`: `Spec => []ReportsAddUp`. The invariant is `Accounted`:
  the requests still on the wire and the answers not yet read fit in what is
  left between the ledger and the reports, on either side. This needs sums over
  sets of requests of any size, which a recursive definition would put out of
  the prover's reach; `SumsTo(S, f, v)` says instead that there is a function on
  the subsets of S that adds one element at a time and gives v for S, and the
  lemmas add, remove and replace one element of S.

### BedConnection

* `ConnectionTypes`, `OwnReplies`, `ClosedForGood`, `RedialsSubscribe`: `[]TypeOK`,
  `[]OwnReply`, `[]ClosedStays` and `[]RedialSubscribed`, from one inductive
  invariant. Its parts: a coroutine within `send()` has the lock (`Holders`); one
  caller at a time subscribes, and a running loop means a subscribed client
  (`Subscribers`); sockets in use were dialed (`Dialled`); no two calls have the
  same id, and every request, and every reply that is still to be read, with the
  id of a call under way is that call's (`Ids`); a request has its number to itself
  and is answered once (`Numbers`); an unsubscribe on the connection's socket is
  one that somebody waits for, because the socket of a call that gave up is closed
  (`Unsubscribes`); a subscription that was answered is known to the daemon
  (`Replies`); the loop does not get back to its top before it has subscribed on
  the socket it dialed (`Covered`); a loop that is being cancelled is one an
  `aclose()` waits for (`Stops`); an `aclose()` with nothing else going on has
  stopped the loop, and only the report may touch the socket (`Quiet`).
  `OwnReply` rests on `Ids`: that ids are drawn before the lock, from a counter
  that all coroutines share, and that the daemon's own never look like them.
  `ClosedStays` rests on `Stops` and `Quiet`, through every place in which the
  cancellation can find the loop. `RedialSubscribed` by itself says nothing of the
  time between the dial and the reply, in which calls, closes and timeouts of the
  other coroutines come. TLC checked the whole invariant on the instance of the
  `connection` run and on one in which both callers subscribe (7.4 million states),
  and simulated larger ones, before it was proved.

### DaemonLifecycle

* `DaemonTypeCorrect`, `NoStalePidfileLeft`, `NoServerIsLeft`,
  `HealthyDaemonServes`: `Spec => []TypeOK`, `[]NoStalePidfile`, `[]NoServerLeft`
  and `[]HealthyServes`, from one inductive invariant. It says of each process by
  itself (`Sound`) that only a daemon in the loop of `start()` listens, until
  somebody clears `_running` or a `stop()` of the server failed, that a `stop()`
  task comes from a recorded signal, and that a process about to write has the
  file open; and of the pidfile (`Answers`) that the process it names was killed,
  could not remove it, or is on a path that ends in the attempt to. `NoStalePidfile` alone is not inductive: it says
  nothing of a process that the file names and that has not ended yet.
  `OneBecomes` is the one place where the other processes are looked at; each
  action then shows only what its own process becomes.

### Only model-checked

`Delivered`, `Recovers`, `CallEnds`, `StartEnds` and `StopEnds`: liveness under
fairness, and ENABLED, are out of the prover's reach. What recursive definitions
compute would be as well, and no module has any. The three violations are TLC's
counterexamples.

## 6. Fairness

`MessagePush` assumes weak fairness of `Listener`, the steps the task takes by
itself: connecting, the retry after a pause, receiving, taking up a notification
and sending. The code justifies it because the event loop runs a task that is
ready, the pause has a timeout and `notifies()` is called with one. It also
takes for granted that a connection attempt ends, and that `send_to` returns or
raises. The second is decided in bbsengine6: nothing in `_dispatch_notification`
limits the wait, and a socket that takes no data would hold up every other
member's pushes. That connections fail finitely often is the bound `MaxBreaks`.
`Crash` is not fair and not excluded: `Recovers` lets the task end by it, and
`Delivered` counts what it had in hand among the lost. Nothing else is fair: clients may fall silent, nobody need commit, the listener
may be stopped or not.

`BedConnection` assumes weak fairness of each caller, of the loop and of the
report: the event loop runs a coroutine that can go on, a cancelled one included;
a dial, a `recv()` in a call and the pause of the loop have timeouts; the thread
that probes the terminal returns. The daemon need not answer, and sockets may break.

`DaemonLifecycle` assumes weak fairness of the steps a process takes by itself and
of the `stop()` task: system calls return and the event loop runs its tasks.
Signals, reloads and kills need not come. For `StartEnds`, the start of the server
ends, one way or the other.

The other modules state no liveness and assume no fairness.

## 7. Not modelled

Formatting, logging and the wire format; credential checks and the member
lookups around a login; the audit calls `login_failed` and `client_exit`; the
policy module and the WebSocket server, which are in bbsengine6. The secret file
itself, of which only the effect of a change is in `AuthService`. The SQL of
messages, groups and read state: single statements without a state that outlives
them but the tables, which nothing else in `src/` keeps a copy of. The direct
backend of the tools and the `--token` flag, which go around the daemon and the
token file. Casino and whiteboard operations, which other repositories hold. Of the client
connection, `force_close`, a second report while one runs, and a loop that
outlives its cancellation elsewhere than in a dial under `aclose()` (section 2).

## 8. Plan

What remains, most important first:

1. Proofs of the safety that the liveness properties rest on, stated as action
   properties: that a broken listener's step back to `connecting` is never left
   out, that the restart counter only falls after a run, that a caller's place in
   `send()` only moves forward.
2. The exact conditions of the violations, as theorems: in which states a pending
   request can be dropped, and a redialed socket stay without a subscription; and
   of a subscribed client that is left without a loop.
3. The secret file with its upgrade, at the granularity of system calls.
4. Groups and read state.
