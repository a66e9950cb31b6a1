---------------------------- MODULE TokenClient ----------------------------
(***************************************************************************)
(* The client side of bearer tokens: the command line tools                *)
(* (src/bed/tools/auth.py, _token.py, bank.py, message.py), the auth       *)
(* client they call (src/bed/client/authservice.py) and the push           *)
(* subscriber (src/bed/push_subscriber.py), all sharing one token file.    *)
(*                                                                         *)
(* A command reads the file, has the daemon rotate the token, writes the   *)
(* new one back and goes on with it.  Commands of several processes        *)
(* interleave at every request, reply and system call on the file; a reply *)
(* may be lost, a write may fail and a process may be killed.              *)
(*                                                                         *)
(* The daemon is BearerTokens, the specification AuthService implements.   *)
(***************************************************************************)
EXTENDS Naturals, FiniteSets

CONSTANTS
    Process,   \* processes that run a command now and then
    Session, Token, None,
    Mixed      \* what two writers may leave: bytes of two tokens, which is no token

ASSUME ClientAssumption == None \notin Session \cup Token /\ Mixed \notin Token \cup {None}

VARIABLES
    owner, status,   \* the daemon's tokens (BearerTokens)
    file,            \* the token in the token file; None: missing or empty
    proc,            \* what each process is doing
    successor,       \* the token a rotation replaced a token by
    dropped,         \* the tokens handed out that no client kept
    linked           \* the processes that have the file at the path open

vars == <<owner, status, file, proc, successor, dropped, linked>>
serverVars == <<owner, status>>

Daemon == INSTANCE BearerTokens

Live(t) == t \in Token /\ status[t] = "live"

Content == Token \cup {None, Mixed}

\* "pending" stands for the subscribe, unsubscribe, pending, list, show and
\* watch commands of the message tool, "send" for its send, "push" for the
\* push subscriber of a long-lived process.
Command == {"login", "reconnect", "refresh", "revoke", "bank", "send", "pending", "push"}

\* The commands that begin with a reconnect.
Reconnecting == {"reconnect", "bank", "send", "pending", "push"}

\* The commands that go on to call a service.
Calling == {"bank", "send", "pending", "push"}

At == {"idle", "send", "reply", "write", "truncated", "newline", "unlink", "open", "call", "done"}

Proc == [cmd   : Command \cup {"none"},
         at    : At,
         asked : Content,                \* the token it reconnects with
         fresh : Token \cup {None},      \* the token it was handed
         wire  : Content,                \* the token it sends with its calls
         bound : Session \cup {None},    \* the session its open socket is bound to
         reply : {"none", "ok", "token_revoked", "refused"}]

Idle == [cmd |-> "none", at |-> "idle", asked |-> None, fresh |-> None,
         wire |-> None, bound |-> None, reply |-> "none"]

TypeOK ==
    /\ Daemon!TypeOK
    /\ file \in Content
    /\ proc \in [Process -> Proc]
    /\ successor \in [Token -> Token \cup {None}]
    /\ dropped \subseteq Token
    /\ linked \subseteq Process

Init ==
    /\ Daemon!Init
    /\ file = None
    /\ proc = [p \in Process |-> Idle]
    /\ successor = [t \in Token |-> None]
    /\ dropped = {}
    /\ linked = {}

---------------------------------------------------------------------------
Become(p, state) == proc' = [proc EXCEPT ![p] = state]

Goto(p, place) == Become(p, [proc[p] EXCEPT !.at = place])

\* p stops and forgets the token it was handed and has not written.
Forget(p) ==
    /\ Become(p, Idle)
    /\ linked' = linked \ {p}
    /\ dropped' = dropped \cup ({proc[p].fresh} \ {None})

NewToken == CHOOSE t \in Token : status[t] = "new"

NewSession == CHOOSE s \in Session : \A t \in Token : owner[t] # s

CanMint == \E t \in Token : status[t] = "new"

CanLogin == CanMint /\ \E s \in Session : \A t \in Token : owner[t] # s

\* resolve_token.  Without a token every command but login ends here.
Begin(p, c) ==
    /\ proc[p].at = "idle"
    /\ c = "login" \/ file # None
    /\ Become(p, [Idle EXCEPT !.cmd = c, !.at = "send",
                              !.asked = IF c = "login" THEN None ELSE file])
    /\ UNCHANGED <<serverVars, file, successor, dropped, linked>>

---------------------------------------------------------------------------
(***************************************************************************)
(* The daemon answers.  What it refuses leaves its state alone.            *)
(***************************************************************************)
Replied(p, code, t, s) ==
    Become(p, [proc[p] EXCEPT !.at = "reply", !.reply = code, !.fresh = t, !.bound = s])

\* A login succeeds, or the credentials are wrong.
ServeLogin(p) ==
    /\ proc[p].cmd = "login"
    /\ \/ /\ CanLogin
          /\ Daemon!Start(NewToken, NewSession)
          /\ Replied(p, "ok", NewToken, NewSession)
       \/ /\ Replied(p, "refused", None, None)
          /\ UNCHANGED serverVars
    /\ UNCHANGED successor

\* What does not decode is answered token_invalid.
Denial(t) == IF t = Mixed THEN "refused" ELSE "token_revoked"

ServeReconnect(p) ==
    LET t == proc[p].asked
    IN  /\ proc[p].cmd \in Reconnecting
        /\ \/ /\ Live(t)
              /\ CanMint
              /\ Daemon!Replace(t, NewToken)
              /\ successor' = [successor EXCEPT ![t] = NewToken]
              /\ Replied(p, "ok", NewToken, owner[t])
           \/ /\ ~Live(t)
              /\ Replied(p, Denial(t), None, None)
              /\ UNCHANGED <<serverVars, successor>>

\* The tool's socket is new, so no session is bound to it, and auth_refresh is
\* refused whatever the token.
ServeRefresh(p) ==
    /\ proc[p].cmd = "refresh"
    /\ Replied(p, IF Live(proc[p].asked) THEN "refused" ELSE Denial(proc[p].asked), None, None)
    /\ UNCHANGED <<serverVars, successor>>

\* A token is revoked, is gone already, or the policy refuses.
ServeRevoke(p) ==
    LET t == proc[p].asked
    IN  /\ proc[p].cmd = "revoke"
        /\ \/ /\ t \in Token
              /\ status' = [status EXCEPT ![t] = "dead"]
              /\ Replied(p, IF Live(t) THEN "ok" ELSE "token_revoked", None, None)
           \/ /\ Replied(p, "refused", None, None)
              /\ UNCHANGED status
        /\ UNCHANGED <<owner, successor>>

Serve(p) ==
    /\ proc[p].at = "send"
    /\ ServeLogin(p) \/ ServeReconnect(p) \/ ServeRefresh(p) \/ ServeRevoke(p)
    /\ UNCHANGED <<file, dropped, linked>>

\* Tokens expire, are revoked elsewhere, or a restart refuses them.
ServerKills ==
    /\ Daemon!Kill
    /\ UNCHANGED <<file, proc, successor, dropped, linked>>

---------------------------------------------------------------------------
(***************************************************************************)
(* The reply is read, or the call times out or loses its socket before or  *)
(* after the daemon took the request: the command ends either way.         *)
(***************************************************************************)
TimeOut(p) ==
    /\ proc[p].at \in {"send", "reply"}
    /\ Forget(p)
    /\ UNCHANGED <<serverVars, file, successor>>

Refused(p) ==
    /\ proc[p].at = "reply"
    /\ proc[p].reply # "ok"
    /\ proc[p].cmd = "revoke" => proc[p].reply # "token_revoked"
    /\ Become(p, Idle)
    /\ UNCHANGED <<serverVars, file, successor, dropped, linked>>

\* run_with_connection closes the socket when the call ends.
Accepted(p) ==
    /\ proc[p].at = "reply"
    /\ proc[p].reply = "ok"
    /\ proc[p].cmd \notin {"revoke", "push"}
    /\ Become(p, [proc[p] EXCEPT !.at = "write", !.bound = None])
    /\ UNCHANGED <<serverVars, file, successor, dropped, linked>>

\* The push subscriber keeps the socket, and goes on with the token it asked
\* with: it never looks at the one it was handed.  It stops if the session is
\* another member's.
PushAccepted(p) ==
    /\ proc[p].at = "reply"
    /\ proc[p].reply = "ok"
    /\ proc[p].cmd = "push"
    /\ \/ Become(p, [proc[p] EXCEPT !.at = "call", !.wire = proc[p].asked])
       \/ Become(p, Idle)
    /\ dropped' = dropped \cup {proc[p].fresh}
    /\ UNCHANGED <<serverVars, file, successor, linked>>

RevokeAccepted(p) ==
    /\ proc[p].at = "reply"
    /\ proc[p].cmd = "revoke"
    /\ proc[p].reply \in {"ok", "token_revoked"}
    /\ Goto(p, "unlink")
    /\ UNCHANGED <<serverVars, file, successor, dropped, linked>>

---------------------------------------------------------------------------
(***************************************************************************)
(* The file.  It is opened with O_TRUNC and then written, so that other    *)
(* processes can find it empty; either call can fail.  A write goes to the *)
(* file that was opened, at its start: to one that is at the path no more, *)
(* or over what another process has written to it meanwhile.               *)
(***************************************************************************)
TruncatedFilePartial == 0

TruncatedFile == None

Truncate(p) ==
    /\ proc[p].at = "write"
    /\ file' = TruncatedFile
    /\ linked' = linked \cup {p}
    /\ Goto(p, "truncated")
    /\ UNCHANGED <<serverVars, successor, dropped>>

WrittenAsked(p) == IF proc[p].cmd = "login" THEN proc[p].fresh ELSE proc[p].asked

Written(p) == proc[p].fresh

\* Over another token, whose end shows if it is the longer one.
Overlaid(p) == IF file = None THEN {Written(p)} ELSE {Written(p), Mixed}

\* The auth tool writes the newline by a call of its own.
Write(p) ==
    /\ proc[p].at = "truncated"
    /\ IF p \in linked
       THEN file' \in Overlaid(p) /\ UNCHANGED dropped
       ELSE dropped' = dropped \cup {proc[p].fresh} /\ UNCHANGED file
    /\ IF proc[p].cmd \in Calling
       THEN Goto(p, "open") /\ linked' = linked \ {p}
       ELSE Goto(p, "newline") /\ UNCHANGED linked
    /\ UNCHANGED <<serverVars, successor>>

\* Its place is after the token, where another process may have written, or
\* truncated the file, by now.
Newline(p) ==
    /\ proc[p].at = "newline"
    /\ IF p \in linked /\ file # proc[p].fresh
       THEN file' \in {Mixed} \cup ({file} \ {None})
       ELSE UNCHANGED file
    /\ Become(p, Idle)
    /\ linked' = linked \ {p}
    /\ UNCHANGED <<serverVars, successor, dropped>>

WriteFails(p) ==
    /\ \/ proc[p].at \in {"write", "truncated"} /\ Forget(p)
       \/ /\ proc[p].at = "newline"
          /\ Become(p, Idle)
          /\ linked' = linked \ {p}
          /\ UNCHANGED dropped
    /\ UNCHANGED <<serverVars, file, successor>>

\* _truncate_token_file removes the file, whatever it holds by now.
Unlink(p) ==
    /\ proc[p].at = "unlink"
    /\ file' = None
    /\ linked' = {}
    /\ Become(p, Idle)
    /\ UNCHANGED <<serverVars, successor, dropped>>

---------------------------------------------------------------------------
(***************************************************************************)
(* Calls to the services.  The bank tool keeps the token it was handed for *)
(* every call of its menu, "send" reads the file again, and the other      *)
(* message commands send no token.  Each call has a socket of its own.     *)
(***************************************************************************)
WireTokenAsked(p) == proc[p].asked

WireToken(p) ==
    CASE proc[p].cmd = "bank" -> proc[p].fresh
      [] proc[p].cmd = "send" -> file
      [] OTHER                -> None

Open(p) ==
    /\ proc[p].at = "open"
    /\ Become(p, [proc[p] EXCEPT !.at = "call", !.wire = WireToken(p)])
    /\ UNCHANGED <<serverVars, file, successor, dropped, linked>>

\* The gate: the token decides, and without one the session of the socket.
Passes(p) == IF proc[p].wire # None THEN Live(proc[p].wire) ELSE proc[p].bound # None

\* A call without a token is answered not_authenticated; the message client
\* then reads its file, which only "send" has, and tries once more.
Retries(p) == proc[p].cmd = "send" /\ proc[p].wire = None /\ file # None

CallServed(p) ==
    /\ proc[p].at = "call"
    /\ Passes(p)
    /\ Become(p, IF proc[p].cmd = "bank" THEN [proc[p] EXCEPT !.reply = "ok"] ELSE Idle)
    /\ UNCHANGED <<serverVars, file, successor, dropped, linked>>

CallRetried(p) ==
    /\ proc[p].at = "call"
    /\ ~Passes(p)
    /\ Retries(p)
    /\ Become(p, [proc[p] EXCEPT !.wire = file])
    /\ UNCHANGED <<serverVars, file, successor, dropped, linked>>

CallRefused(p) ==
    /\ proc[p].at = "call"
    /\ ~Passes(p)
    /\ ~Retries(p)
    /\ Become(p, [proc[p] EXCEPT !.at = "done", !.reply = "refused"])
    /\ UNCHANGED <<serverVars, file, successor, dropped, linked>>

\* The tool returns; the bank tool to its menu, or it quits.
Finish(p) ==
    /\ \/ proc[p].at = "done" /\ \/ Become(p, Idle)
                                 \/ proc[p].cmd = "bank" /\ Goto(p, "call")
       \/ proc[p].at = "call" /\ proc[p].cmd = "bank" /\ Become(p, Idle)
    /\ UNCHANGED <<serverVars, file, successor, dropped, linked>>

\* The process is killed.  A token it has written is in the file.
Die(p) ==
    /\ proc[p].at # "idle"
    /\ Become(p, Idle)
    /\ dropped' = IF proc[p].at \in {"reply", "write", "truncated"}
                  THEN dropped \cup ({proc[p].fresh} \ {None})
                  ELSE dropped
    /\ linked' = linked \ {p}
    /\ UNCHANGED <<serverVars, file, successor>>

Next ==
    \/ \E p \in Process, c \in Command : Begin(p, c)
    \/ \E p \in Process :
        \/ Serve(p) \/ TimeOut(p) \/ Refused(p)
        \/ Accepted(p) \/ PushAccepted(p) \/ RevokeAccepted(p)
        \/ Truncate(p) \/ Write(p) \/ Newline(p) \/ WriteFails(p) \/ Unlink(p)
        \/ Open(p) \/ CallServed(p) \/ CallRetried(p) \/ CallRefused(p)
        \/ Finish(p) \/ Die(p)
    \/ ServerKills

Spec == Init /\ [][Next]_vars

---------------------------------------------------------------------------
\* p was handed t and has yet to write it (tools/auth.py auth_reconnect,
\* tools/bank.py _authenticate_ws).
Writing(p, t) == proc[p].fresh = t /\ proc[p].at \in {"reply", "write"}

\* The token file holds a token that a rotation replaced only while the process
\* that asked for the rotation is about to write the new one, or when that
\* token was lost: its reply, its write or its process failed, or the push
\* subscriber ignored it.  However commands overlap, a slow writer never puts a
\* superseded token back (_write_token_file, _authenticate_ws).
FileNotSuperseded ==
    (file \in Token /\ successor[file] # None) =>
        \/ successor[file] \in dropped
        \/ \E p \in Process : Writing(p, successor[file])

\* A command of kind c whose reconnect was granted has its calls refused only
\* if its new token died since, or if somebody else has changed the file.
Served(c) == \A p \in Process :
    (proc[p].at = "done" /\ proc[p].cmd = c) =>
        \/ ~Live(proc[p].fresh)
        \/ file \notin {proc[p].fresh, proc[p].asked}

\* The bank tool and "message send" can use the session they reconnected to
\* (tools/bank.py _resolve_call_token, tools/message.py _bed_send_client).  The
\* other message commands cannot: they send no token, over a socket of its own.
ToolsServed == Served("bank") /\ Served("send")
=============================================================================
