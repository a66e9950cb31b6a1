-------------------------- MODULE DaemonLifecycle --------------------------
(***************************************************************************)
(* The life of bed daemons (src/bed/main.py): main_async with its restart  *)
(* loop and signal handlers, BED.start and BED.stop, the pidfile, and the  *)
(* loading and reloading of the restart policy (src/bed/config.py).        *)
(*                                                                         *)
(* Daemons share a pidfile and a port.  They interleave at every system    *)
(* call on the pidfile; within a daemon, signals are handled only where    *)
(* the event loop runs: while the server starts, while it runs, and in the *)
(* pause before a restart.                                                 *)
(***************************************************************************)
EXTENDS Naturals, FiniteSets

CONSTANTS
    Process,       \* processes that start a daemon, once each; also their pids
    Policy,        \* the restart policies of the configurations there are
    MaxRestarts,   \* the largest max_restarts among them
    None

ASSUME DaemonAssumption ==
    /\ MaxRestarts \in Nat
    /\ None \notin Process \cup Policy
    \* get_restart_config, without the delay.
    /\ Policy \subseteq [autorestart : BOOLEAN, restartOnBindFailure : BOOLEAN,
                         maxRestarts : 0 .. MaxRestarts]

VARIABLES
    pidfile,   \* the file at the path of the pidfile, None if there is none
    proc       \* the processes

vars == <<pidfile, proc>>

\* The file a process created; pid is None while nothing is written.
PidFile == [inode : Process, pid : Process \cup {None}]

ProcState ==
    [at        : {"off", "probe", "judge", "open", "reopen", "write",     \* up to the pidfile
                  "start", "bind", "running", "backoff", "exit",          \* the restart loop
                  "exited", "killed"},
     seen      : Process \cup {None},   \* existing_pid
     fd        : Process \cup {None},   \* the inode of pidfile_fd, None: no claim
     policy    : Policy \cup {None},    \* None: no configuration is loaded
     count     : 0 .. MaxRestarts,      \* restart_count, where a start is awaited
     up        : BOOLEAN,               \* a server of this process listens
     unstopped : BOOLEAN,               \* history: a server.stop() failed and left listeners
     kept      : BOOLEAN,               \* history: the pidfile could not be removed
     running   : BOOLEAN,               \* _running
     stopping  : BOOLEAN,               \* a stop() task of the signal handler is to run
     shutdown  : BOOLEAN,               \* shutdown_requested
     ordered   : BOOLEAN]               \* a signal came with the start over, or in a pause

\* A process without any state: before it is started, and what is left of one
\* that is gone.
NoState(place) ==
    [at |-> place, seen |-> None, fd |-> None, policy |-> None, count |-> 0,
     up |-> FALSE, unstopped |-> FALSE, kept |-> FALSE, running |-> FALSE,
     stopping |-> FALSE, shutdown |-> FALSE, ordered |-> FALSE]

TypeOK ==
    /\ pidfile \in PidFile \cup {None}
    /\ proc \in [Process -> ProcState]

Init ==
    /\ pidfile = None
    /\ proc = [p \in Process |-> NoState("off")]

---------------------------------------------------------------------------
At(p, places) == proc[p].at \in places

Become(p, state) == proc' = [proc EXCEPT ![p] = state]

Goto(p, place) == Become(p, [proc[p] EXCEPT !.at = place])

\* os.kill(pid, 0) finds the process.
Alive(p) == ~At(p, {"off", "exited", "killed"})

End(p) == Become(p, NoState("exited"))

(***************************************************************************)
(* main_async up to the pidfile.                                           *)
(***************************************************************************)
\* load_config: a file that cannot be read for a reason that may pass is
\* replaced by the packaged default if autorestart was asked for, on the command
\* line or in a first look at the file.
Loads(outcome, asked) == outcome = "loaded" \/ (outcome = "unreadable" /\ asked)

\* The policy is that of the command line over the configuration.  A broken
\* configuration, a router that does not load or a database that is not there
\* ends the start.
Launch(p, policy, outcome, asked) ==
    /\ At(p, {"off"})
    /\ \/ /\ Loads(outcome, asked)
          /\ Become(p, [proc[p] EXCEPT !.at = "probe", !.policy = policy])
       \/ /\ ~Loads(outcome, asked)
          /\ End(p)
    /\ UNCHANGED pidfile

---------------------------------------------------------------------------
(***************************************************************************)
(* _write_pidfile.                                                         *)
(***************************************************************************)
\* Back in main_async; what was read of the file is forgotten.
Return(state) == [state EXCEPT !.at = "start", !.seen = None]

\* A file without a number in it counts as no file.
ReadPid(p) ==
    /\ At(p, {"probe"})
    /\ Become(p, [proc[p] EXCEPT !.at = "judge",
                                 !.seen = IF pidfile = None THEN None ELSE pidfile.pid])
    /\ UNCHANGED pidfile

\* A file that cannot be read for another reason ends the start.
ReadFails(p) ==
    /\ At(p, {"probe"})
    /\ End(p)
    /\ UNCHANGED pidfile

\* The process named by the file lives: exit before the restart loop.
Judge(p) ==
    /\ At(p, {"judge"})
    /\ \/ /\ proc[p].seen \notin {None, p}
          /\ Alive(proc[p].seen)
          /\ End(p)
       \/ /\ proc[p].seen \notin {None, p} => ~Alive(proc[p].seen)
          /\ Goto(p, "open")
    /\ UNCHANGED pidfile

\* O_EXCL for a fresh start, tried twice; without a claim the start goes on.
OpenFresh(p) ==
    /\ At(p, {"open", "reopen"})
    /\ proc[p].seen = None
    /\ \/ /\ pidfile = None
          /\ pidfile' = [inode |-> p, pid |-> None]
          /\ Become(p, [proc[p] EXCEPT !.at = "write", !.fd = p])
       \/ /\ pidfile # None
          /\ IF At(p, {"open"}) THEN Goto(p, "reopen") ELSE Become(p, Return(proc[p]))
          /\ UNCHANGED pidfile

\* O_TRUNC over a stale file, or whatever is there by now.
OpenStale(p) ==
    /\ At(p, {"open"})
    /\ proc[p].seen # None
    /\ pidfile' = [inode |-> IF pidfile = None THEN p ELSE pidfile.inode, pid |-> None]
    /\ Become(p, [proc[p] EXCEPT !.at = "write", !.fd = pidfile'.inode])

OpenFails(p) ==
    /\ At(p, {"open", "reopen"})
    /\ Become(p, Return(proc[p]))
    /\ UNCHANGED pidfile

ReturnUnclaimed(state) == [Return(state) EXCEPT !.fd = None]

\* The descriptor that was written to is what the finally clause goes by.
ReturnClaimed(state) == Return(state)

\* The write goes to the file that was opened, at the path or not.
WritePid(p) ==
    /\ At(p, {"write"})
    /\ pidfile' = IF pidfile # None /\ pidfile.inode = proc[p].fd
                  THEN [pidfile EXCEPT !.pid = p] ELSE pidfile
    /\ Become(p, ReturnClaimed(proc[p]))

\* What is at the path is removed, if that does not fail as well.
WriteFails(p) ==
    /\ At(p, {"write"})
    /\ pidfile' \in {None, pidfile}
    /\ Become(p, ReturnUnclaimed(proc[p]))

---------------------------------------------------------------------------
(***************************************************************************)
(* The restart loop.                                                       *)
(***************************************************************************)
\* A new BED, up to the server; its steps before that have no await.
StartServer(p) ==
    /\ At(p, {"start"})
    /\ \/ proc[p].shutdown /\ Goto(p, "exit")
       \/ ~proc[p].shutdown /\ Goto(p, "bind")
    /\ UNCHANGED pidfile

PortFree == \A p \in Process : ~proc[p].up

\* server.start() succeeds: whatever happened meanwhile, the daemon runs.
Bound(p) ==
    /\ At(p, {"bind"})
    /\ PortFree
    /\ Become(p, [proc[p] EXCEPT !.at = "running", !.up = TRUE, !.running = TRUE])
    /\ UNCHANGED pidfile

CleanedUpServerLeft(state, stops) == [state EXCEPT !.running = FALSE]

\* _cleanup_partial_start forgets the server, whether its stop() succeeded or
\* not; listeners that a failed stop() left are there until the process ends.
CleanedUp(state, stops) ==
    [state EXCEPT !.running   = FALSE,
                  !.up        = @ /\ (state.unstopped \/ ~stops),
                  !.unstopped = @ \/ (state.up /\ ~stops)]

\* A port that is taken, or may not be had, is tried again only on demand.
Retries(policy, bindFailure) ==
    IF bindFailure THEN policy.restartOnBindFailure ELSE policy.autorestart

CountAfterFailureKept(count) == count

CountAfterFailure(count) == count + 1

GivesUpLate(policy, count) == count > policy.maxRestarts + 1

GivesUp(policy, count) == count > policy.maxRestarts

\* The database, the secret, a service or the port fails; some listeners of
\* the server may be up when another one fails.
StartFails(p, bindFailure, partly, stops) ==
    /\ At(p, {"bind"})
    /\ partly => PortFree
    /\ LET state == [CleanedUp([proc[p] EXCEPT !.up = @ \/ partly], stops)
                         EXCEPT !.stopping = FALSE]
           count == CountAfterFailure(state.count)
       IN  \/ /\ ~state.shutdown
              /\ Retries(state.policy, bindFailure)
              /\ ~GivesUp(state.policy, count)
              /\ Become(p, [state EXCEPT !.at = "backoff", !.count = count])
           \/ /\ \/ state.shutdown
                 \/ ~Retries(state.policy, bindFailure)
                 \/ GivesUp(state.policy, count)
              /\ Become(p, [state EXCEPT !.at = "exit"])
    /\ UNCHANGED pidfile

BackoffEnds(p) ==
    /\ At(p, {"backoff"})
    /\ Goto(p, "start")
    /\ UNCHANGED pidfile

\* The loop of start() sees _running and returns.
RunEnds(p) ==
    /\ At(p, {"running"})
    /\ ~proc[p].running
    /\ Become(p, [proc[p] EXCEPT !.count = 0,
                                 !.at = IF proc[p].shutdown \/ ~proc[p].policy.autorestart
                                        THEN "exit" ELSE "start"])
    /\ UNCHANGED pidfile

\* The finally clause: a process with a claim removes what is at the path; a
\* removal that fails is only logged.
Exit(p, removes) ==
    /\ At(p, {"exit"})
    /\ ~removes => proc[p].fd # None
    /\ pidfile' = IF proc[p].fd # None /\ removes THEN None ELSE pidfile
    /\ Become(p, [NoState("exited") EXCEPT !.kept = ~removes])

---------------------------------------------------------------------------
(***************************************************************************)
(* Signals.                                                                *)
(***************************************************************************)
HandledSignalUnrecorded(state) ==
    [state EXCEPT !.stopping = state.at # "backoff",
                  !.ordered  = @ \/ state.at # "bind"]

\* signal_handler.  It knows no BED in a pause.
HandledSignal(state) ==
    [state EXCEPT !.shutdown = TRUE,
                  !.stopping = state.at # "backoff",
                  !.ordered  = @ \/ state.at # "bind"]

\* SIGTERM or SIGINT; a signal that came earlier is handled in the first
\* await of the start.
Signal(p) ==
    /\ At(p, {"bind", "running", "backoff"})
    /\ Become(p, HandledSignal(proc[p]))
    /\ UNCHANGED pidfile

RunningAfterStopKept == TRUE

RunningAfterStop == FALSE

\* stop(), as the task the handler made.  It clears _running before anything
\* in it can fail.
Stop(p, stops) ==
    /\ proc[p].stopping
    /\ At(p, {"bind", "running"})
    /\ Become(p, [proc[p] EXCEPT !.running   = RunningAfterStop,
                                 !.up        = @ /\ (At(p, {"bind"}) \/ ~stops),
                                 !.unstopped = @ \/ (proc[p].up /\ ~stops),
                                 !.stopping  = FALSE])
    /\ UNCHANGED pidfile

\* SIGHUP: the restart policy is the file's from now on; it is ignored where
\* there is no BED, and a reload that fails changes nothing.
Reload(p, policy) ==
    /\ At(p, {"bind", "running"})
    /\ policy # proc[p].policy
    /\ Become(p, [proc[p] EXCEPT !.policy = policy])
    /\ UNCHANGED pidfile

\* SIGKILL, or a crash of the host's own.
Kill(p) ==
    /\ Alive(p)
    /\ Become(p, NoState("killed"))
    /\ UNCHANGED pidfile

---------------------------------------------------------------------------
Step(p) ==
    \/ ReadPid(p) \/ ReadFails(p) \/ Judge(p) \/ OpenFresh(p) \/ OpenStale(p) \/ OpenFails(p)
    \/ WritePid(p) \/ WriteFails(p)
    \/ StartServer(p) \/ Bound(p)
    \/ \E bindFailure, partly, stops \in BOOLEAN : StartFails(p, bindFailure, partly, stops)
    \/ BackoffEnds(p) \/ RunEnds(p)
    \/ \E removes \in BOOLEAN : Exit(p, removes)

Stops(p) == \E stops \in BOOLEAN : Stop(p, stops)

Next ==
    \E p \in Process :
        \/ \E policy \in Policy :
              \/ \E outcome \in {"loaded", "unreadable", "broken"}, asked \in BOOLEAN :
                    Launch(p, policy, outcome, asked)
              \/ Reload(p, policy)
        \/ Step(p) \/ Stops(p) \/ Signal(p) \/ Kill(p)

\* A process runs on, and its event loop runs the tasks it has.
Fairness == \A p \in Process : WF_vars(Step(p)) /\ WF_vars(Stops(p))

Spec == Init /\ [][Next]_vars /\ Fairness

---------------------------------------------------------------------------
\* A daemon that ends in an orderly way, on whatever path, leaves no pidfile
\* that names it, unless the removal itself failed: a later start finds no pid of
\* an ended daemon that the system may have given to somebody else
\* (_write_pidfile, _remove_pidfile, the finally clause).
NoStalePidfile == \A p \in Process :
    At(p, {"exited"}) => pidfile = None \/ pidfile.pid # p \/ proc[p].kept

\* A start that failed half way leaves no server behind, unless its stop()
\* failed: none holds the port while the next start is awaited or prepared, or
\* under a daemon that is gone (start, _cleanup_partial_start).
NoServerLeft == \A p \in Process :
    At(p, {"backoff", "start", "exited"}) => ~proc[p].up \/ proc[p].unstopped

\* No daemon is idle and pretends to be healthy: one that nobody told to stop
\* and that runs listens (start, stop).
HealthyServes == \A p \in Process :
    (At(p, {"running"}) /\ ~proc[p].shutdown) => proc[p].up /\ proc[p].running

\* A start comes to an end: the daemon runs or is gone; it is not stuck in
\* restarts, whatever policy is loaded meanwhile, a limit below the counter
\* included, and whatever a failed clean-up left (main_async,
\* _reload_config_and_apply).
StartEnds == \A p \in Process :
    At(p, {"probe", "start"}) ~> At(p, {"running", "exited", "killed"})

\* A daemon told to stop while it runs, or in the pause before a restart, ends
\* (signal_handler, stop).
StopEnds == \A p \in Process : proc[p].ordered ~> At(p, {"exited", "killed"})
=============================================================================
