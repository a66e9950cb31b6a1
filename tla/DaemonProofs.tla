---------------------------- MODULE DaemonProofs ----------------------------
(***************************************************************************)
(* Safety of the daemon's life, for any number of processes and restarts.  *)
(***************************************************************************)
EXTENDS DaemonLifecycle, TLAPS

\* What holds of each process by itself.  Only a daemon in the loop of start()
\* listens, until somebody clears _running, and one that could not stop its
\* server; a stop() task comes from a recorded signal; a process that is about
\* to write has the file open.
Sound(state) ==
    /\ state.up => state.unstopped \/ (state.at = "running" /\ state.running)
    /\ state.stopping => state.shutdown
    /\ (state.at = "running" /\ ~state.shutdown) => state.up /\ state.running
    /\ state.at = "write" => state.fd # None
    /\ state.kept => state.at = "exited"
    /\ state.at \notin {"off", "exited", "killed"} => state.policy # None

\* A process that the pidfile names will remove the file, or was killed, or could
\* not remove it.
Answers(state) ==
    \/ state.at = "killed"
    \/ state.kept
    \/ state.fd # None /\ state.at \in {"start", "bind", "running", "backoff", "exit"}

Named(file, p) == file # None /\ file.pid = p

Inv ==
    /\ TypeOK
    /\ \A p \in Process : Sound(proc[p])
    /\ \A p \in Process : Named(pidfile, p) => Answers(proc[p])

\* One process becomes a sound state and the others stay as they are.
LEMMA OneBecomes ==
    ASSUME Inv, NEW p \in Process, NEW state \in ProcState, Become(p, state), Sound(state),
           pidfile' \in PidFile \cup {None},
           \A q \in Process \ {p} : Named(pidfile', q) => Named(pidfile, q),
           Named(pidfile', p) => Answers(state)
    PROVE  Inv'
<1>1. proc' \in [Process -> ProcState] /\ proc'[p] = state
    BY DEF Inv, TypeOK, Become
<1>2. \A q \in Process \ {p} : proc'[q] = proc[q]
    BY DEF Inv, TypeOK, Become
<1>3. \A q \in Process : Sound(proc'[q])
    BY <1>1, <1>2 DEF Inv
<1>4. \A q \in Process : Named(pidfile', q) => Answers(proc'[q])
    BY <1>1, <1>2 DEF Inv
<1> QED
    BY <1>1, <1>3, <1>4 DEF Inv, TypeOK

\* The same, with the pidfile left alone.
LEMMA OneMoves ==
    ASSUME Inv, NEW p \in Process, NEW state \in ProcState, Become(p, state), Sound(state),
           UNCHANGED pidfile, Answers(proc[p]) => Answers(state)
    PROVE  Inv'
<1>1. pidfile' \in PidFile \cup {None}
    BY DEF Inv, TypeOK
<1>2. \A q \in Process : Named(pidfile', q) => Named(pidfile, q)
    OBVIOUS
<1>3. Named(pidfile', p) => Answers(state)
    BY <1>2 DEF Inv
<1> QED
    BY <1>1, <1>2, <1>3, OneBecomes

LEMMA ProcFacts ==
    ASSUME Inv, NEW p \in Process
    PROVE  proc[p] \in ProcState /\ Sound(proc[p])
BY DEF Inv, TypeOK

\* A process without any state is sound.
LEMMA NoStateFacts ==
    ASSUME NEW place \in {"off", "exited", "killed"}
    PROVE  NoState(place) \in ProcState /\ Sound(NoState(place)) /\ NoState(place).at = place
BY DaemonAssumption DEF NoState, ProcState, Sound

LEMMA LaunchStep ==
    ASSUME Inv, NEW p \in Process, NEW policy \in Policy, NEW outcome, NEW asked,
           Launch(p, policy, outcome, asked)
    PROVE  Inv'
<1> DEFINE loaded == [proc[p] EXCEPT !.at = "probe", !.policy = policy]
<1>1. /\ proc[p] \in ProcState
      /\ Sound(proc[p])
      /\ proc[p].at = "off"
    BY ProcFacts DEF Launch, At
<1>2. loaded \in ProcState /\ Sound(loaded)
    <2>1. policy # None
        BY DaemonAssumption
    <2> QED
        BY <1>1, <2>1 DEF ProcState, Sound
<1>4. ~Answers(proc[p])
    BY <1>1 DEF Answers, Sound
<1>5. CASE Become(p, loaded)
    BY <1>2, <1>4, <1>5, OneMoves DEF Launch
<1>6. CASE End(p)
    BY <1>4, <1>6, NoStateFacts, OneMoves DEF Launch, End
<1> QED
    BY <1>5, <1>6 DEF Launch

\* The steps on the pidfile.
LEMMA ReadPidStep == ASSUME Inv, NEW p \in Process, ReadPid(p) PROVE Inv'
<1> DEFINE state == [proc[p] EXCEPT !.at = "judge",
                                    !.seen = IF pidfile = None THEN None ELSE pidfile.pid]
<1>1. proc[p] \in ProcState /\ Sound(proc[p]) /\ proc[p].at = "probe"
    BY ProcFacts DEF ReadPid, At
<1>2. (IF pidfile = None THEN None ELSE pidfile.pid) \in Process \cup {None}
    BY DEF Inv, TypeOK, PidFile
<1>3. state \in ProcState /\ Sound(state)
    BY <1>1, <1>2 DEF ProcState, Sound
<1>4. ~Answers(proc[p])
    BY <1>1 DEF Answers, Sound
<1> QED
    BY <1>3, <1>4, OneMoves DEF ReadPid

LEMMA ReadFailsStep == ASSUME Inv, NEW p \in Process, ReadFails(p) PROVE Inv'
<1>1. Sound(proc[p]) /\ proc[p].at = "probe"
    BY ProcFacts DEF ReadFails, At
<1>2. ~Answers(proc[p])
    BY <1>1 DEF Answers, Sound
<1> QED
    BY <1>2, NoStateFacts, OneMoves DEF ReadFails, End

LEMMA JudgeStep == ASSUME Inv, NEW p \in Process, Judge(p) PROVE Inv'
<1> DEFINE open == [proc[p] EXCEPT !.at = "open"]
<1>1. proc[p] \in ProcState /\ Sound(proc[p]) /\ proc[p].at = "judge"
    BY ProcFacts DEF Judge, At
<1>2. open \in ProcState /\ Sound(open)
    BY <1>1 DEF ProcState, Sound
<1>4. ~Answers(proc[p])
    BY <1>1 DEF Answers, Sound
<1>5. Become(p, open) \/ End(p)
    BY DEF Judge, Goto
<1> QED
    BY <1>2, <1>4, <1>5, NoStateFacts, OneMoves DEF Judge, End

\* Going back to main_async keeps the claim and nothing else of the file.
LEMMA ReturnFacts ==
    ASSUME NEW state \in ProcState, Sound(state), state.at \in {"open", "reopen", "write"}
    PROVE  /\ Return(state) \in ProcState
           /\ Sound(Return(state))
           /\ Return(state).fd = state.fd
           /\ Return(state).at = "start"
BY DaemonAssumption DEF ProcState, Sound, Return

LEMMA OpenFreshStep == ASSUME Inv, NEW p \in Process, OpenFresh(p) PROVE Inv'
<1> DEFINE again == [proc[p] EXCEPT !.at = "reopen"]
           claim == [proc[p] EXCEPT !.at = "write", !.fd = p]
           file  == [inode |-> p, pid |-> None]
<1>1. proc[p] \in ProcState /\ Sound(proc[p]) /\ proc[p].at \in {"open", "reopen"}
    BY ProcFacts DEF OpenFresh, At
<1>2. again \in ProcState /\ Sound(again)
    BY <1>1 DEF ProcState, Sound
<1>3. claim \in ProcState /\ Sound(claim)
    BY <1>1, DaemonAssumption DEF ProcState, Sound
<1>4. ~Answers(proc[p])
    BY <1>1 DEF Answers, Sound
<1>5. CASE pidfile' = file /\ Become(p, claim)
    <2>1. pidfile' \in PidFile \cup {None}
        BY <1>5 DEF PidFile
    <2>2. \A q \in Process : ~Named(pidfile', q)
        BY <1>5, DaemonAssumption DEF Named
    <2> QED
        BY <1>3, <1>5, <2>1, <2>2, OneBecomes
<1>6. CASE UNCHANGED pidfile /\ Become(p, again)
    BY <1>2, <1>4, <1>6, OneMoves
<1>7. CASE UNCHANGED pidfile /\ Become(p, Return(proc[p]))
    BY <1>1, <1>4, <1>7, ReturnFacts, OneMoves
<1> QED
    BY <1>5, <1>6, <1>7 DEF OpenFresh, Goto

LEMMA OpenStaleStep == ASSUME Inv, NEW p \in Process, OpenStale(p) PROVE Inv'
<1> DEFINE node  == IF pidfile = None THEN p ELSE pidfile.inode
           claim == [proc[p] EXCEPT !.at = "write", !.fd = node]
<1>1. proc[p] \in ProcState /\ Sound(proc[p])
    BY ProcFacts
<1>2. node \in Process
    BY DEF Inv, TypeOK, PidFile
<1>3. pidfile' = [inode |-> node, pid |-> None]
    BY DEF OpenStale
<1>4. Become(p, claim)
    BY <1>3 DEF OpenStale
<1>5. claim \in ProcState /\ Sound(claim)
    <2>1. claim \in ProcState
        BY <1>1, <1>2 DEF ProcState
    <2>2. proc[p].at = "open"
        BY DEF OpenStale, At
    <2> QED
        BY <1>1, <1>2, <2>1, <2>2, DaemonAssumption DEF ProcState, Sound
<1>6. pidfile' \in PidFile \cup {None}
    BY <1>2, <1>3 DEF PidFile
<1>7. \A q \in Process : ~Named(pidfile', q)
    BY <1>3, DaemonAssumption DEF Named
<1> QED
    BY <1>4, <1>5, <1>6, <1>7, OneBecomes

LEMMA OpenFailsStep == ASSUME Inv, NEW p \in Process, OpenFails(p) PROVE Inv'
<1>1. proc[p] \in ProcState /\ Sound(proc[p]) /\ proc[p].at \in {"open", "reopen"}
    BY ProcFacts DEF OpenFails, At
<1>2. ~Answers(proc[p])
    BY <1>1 DEF Answers, Sound
<1> QED
    BY <1>1, <1>2, ReturnFacts, OneMoves DEF OpenFails

LEMMA WritePidStep == ASSUME Inv, NEW p \in Process, WritePid(p) PROVE Inv'
<1> DEFINE state == Return(proc[p])
<1>1. proc[p] \in ProcState /\ Sound(proc[p]) /\ proc[p].at = "write"
    BY ProcFacts DEF WritePid, At
<1>2. state \in ProcState /\ Sound(state) /\ Answers(state)
    <2>1. proc[p].fd # None
        BY <1>1 DEF Sound
    <2> QED
        BY <1>1, <2>1, ReturnFacts DEF Answers
<1>3. Become(p, state)
    BY DEF WritePid, ReturnClaimed
<1>4. CASE pidfile' = pidfile
    BY <1>2, <1>3, <1>4, OneMoves
<1>5. CASE pidfile # None /\ pidfile' = [pidfile EXCEPT !.pid = p]
    <2>1. pidfile \in PidFile
        BY <1>5 DEF Inv, TypeOK
    <2>2. pidfile' \in PidFile \cup {None} /\ pidfile'.pid = p
        BY <1>5, <2>1 DEF PidFile
    <2>3. \A q \in Process \ {p} : ~Named(pidfile', q)
        BY <2>2 DEF Named
    <2> QED
        BY <1>2, <1>3, <2>2, <2>3, OneBecomes
<1> QED
    BY <1>4, <1>5 DEF WritePid

LEMMA WriteFailsStep == ASSUME Inv, NEW p \in Process, WriteFails(p) PROVE Inv'
<1> DEFINE state == ReturnUnclaimed(proc[p])
<1>1. proc[p] \in ProcState /\ Sound(proc[p]) /\ proc[p].at = "write"
    BY ProcFacts DEF WriteFails, At
<1>2. state \in ProcState /\ Sound(state)
    BY <1>1, DaemonAssumption DEF ProcState, Sound, ReturnUnclaimed, Return
<1>3. pidfile' \in PidFile \cup {None}
    BY DEF WriteFails, Inv, TypeOK
<1>4. \A q \in Process : Named(pidfile', q) => Named(pidfile, q)
    BY DEF WriteFails, Named
<1>5. ~Named(pidfile', p)
    <2>1. ~Answers(proc[p])
        BY <1>1 DEF Answers, Sound
    <2> QED
        BY <1>4, <2>1 DEF Inv
<1> QED
    BY <1>2, <1>3, <1>4, <1>5, OneBecomes DEF WriteFails

\* The restart loop.
LEMMA StartServerStep == ASSUME Inv, NEW p \in Process, StartServer(p) PROVE Inv'
<1>1. proc[p] \in ProcState /\ Sound(proc[p]) /\ proc[p].at = "start"
    BY ProcFacts DEF StartServer, At
<1>2. ASSUME NEW place \in {"exit", "bind"}, Become(p, [proc[p] EXCEPT !.at = place])
      PROVE  Inv'
    <2> DEFINE state == [proc[p] EXCEPT !.at = place]
    <2>1. state \in ProcState /\ Sound(state)
        BY <1>1 DEF ProcState, Sound
    <2>2. Answers(proc[p]) => Answers(state)
        BY <1>1 DEF ProcState, Answers
    <2> QED
        BY <1>2, <2>1, <2>2, OneMoves DEF StartServer
<1> QED
    BY <1>2 DEF StartServer, Goto

LEMMA BoundStep == ASSUME Inv, NEW p \in Process, Bound(p) PROVE Inv'
<1> DEFINE state == [proc[p] EXCEPT !.at = "running", !.up = TRUE, !.running = TRUE]
<1>1. proc[p] \in ProcState /\ Sound(proc[p]) /\ proc[p].at = "bind"
    BY ProcFacts DEF Bound, At
<1>2. state \in ProcState /\ Sound(state)
    BY <1>1 DEF ProcState, Sound
<1>3. Answers(proc[p]) => Answers(state)
    BY <1>1 DEF ProcState, Answers
<1> QED
    BY <1>2, <1>3, OneMoves DEF Bound

\* A clean-up leaves listeners only where stopping the server failed.
LEMMA CleanedUpFacts ==
    ASSUME NEW half \in ProcState, NEW stops \in BOOLEAN
    PROVE  LET state == [CleanedUp(half, stops) EXCEPT !.stopping = FALSE]
           IN  /\ state \in ProcState /\ ~state.stopping /\ (state.up => state.unstopped)
               /\ state.fd = half.fd /\ state.kept = half.kept /\ state.policy = half.policy
<1> DEFINE clean == CleanedUp(half, stops)
<1>1. /\ clean \in ProcState /\ (clean.up => clean.unstopped)
      /\ clean.fd = half.fd /\ clean.kept = half.kept /\ clean.policy = half.policy
    <2>1. \A up, unstopped \in BOOLEAN :
             [half EXCEPT !.running = FALSE, !.up = up, !.unstopped = unstopped] \in ProcState
        BY DEF ProcState
    <2>2. (half.up /\ (half.unstopped \/ ~stops)) \in BOOLEAN
        OBVIOUS
    <2>3. (half.unstopped \/ (half.up /\ ~stops)) \in BOOLEAN
        OBVIOUS
    <2>4. clean \in ProcState
        BY <2>1, <2>2, <2>3, Zenon DEF CleanedUp
    <2> QED
        BY <2>4 DEF ProcState, CleanedUp
<1> QED
    BY <1>1 DEF ProcState

\* A pause before a restart and the end of the loop, after such a clean-up.  The
\* counter stays within its range because the loop gives up.
LEMMA LeavesStart ==
    ASSUME Inv, NEW p \in Process, proc[p].at = "bind", UNCHANGED pidfile,
           NEW state \in ProcState, ~state.stopping, state.up => state.unstopped,
           state.fd = proc[p].fd, state.kept = proc[p].kept, state.policy = proc[p].policy,
           NEW count, count = CountAfterFailure(state.count),
           \/ /\ ~GivesUp(state.policy, count)
              /\ Become(p, [state EXCEPT !.at = "backoff", !.count = count])
           \/ Become(p, [state EXCEPT !.at = "exit"])
    PROVE  Inv'
<1> DEFINE pause == [state EXCEPT !.at = "backoff", !.count = count]
           gone  == [state EXCEPT !.at = "exit"]
<1>1. proc[p] \in ProcState /\ Sound(proc[p])
    BY ProcFacts
<1>2. ~state.kept /\ state.policy # None
    BY <1>1 DEF Sound
<1>3. CASE ~GivesUp(state.policy, count) /\ Become(p, pause)
    <2>1. count \in 0 .. MaxRestarts
        BY <1>2, <1>3, DaemonAssumption DEF ProcState, CountAfterFailure, GivesUp
    <2>2. pause \in ProcState
        BY <2>1 DEF ProcState
    <2>3. Sound(pause) /\ (Answers(proc[p]) => Answers(pause))
        BY <1>1, <1>2 DEF ProcState, Sound, Answers
    <2> QED
        BY <1>3, <2>2, <2>3, OneMoves
<1>4. CASE Become(p, gone)
    <2>1. gone \in ProcState
        BY DEF ProcState
    <2>2. Sound(gone) /\ (Answers(proc[p]) => Answers(gone))
        BY <1>1, <1>2 DEF ProcState, Sound, Answers
    <2> QED
        BY <1>4, <2>1, <2>2, OneMoves
<1> QED
    BY <1>3, <1>4

LEMMA StartFailsStep ==
    ASSUME Inv, NEW p \in Process,
           NEW bindFailure \in BOOLEAN, NEW partly \in BOOLEAN, NEW stops \in BOOLEAN,
           StartFails(p, bindFailure, partly, stops)
    PROVE  Inv'
<1> DEFINE half  == [proc[p] EXCEPT !.up = @ \/ partly]
           state == [CleanedUp(half, stops) EXCEPT !.stopping = FALSE]
           count == CountAfterFailure(state.count)
<1>1. proc[p] \in ProcState /\ proc[p].at = "bind"
    BY ProcFacts DEF StartFails, At
<1>2. /\ half \in ProcState /\ half.fd = proc[p].fd
      /\ half.kept = proc[p].kept /\ half.policy = proc[p].policy
    BY <1>1 DEF ProcState
<1>3. /\ state \in ProcState /\ ~state.stopping /\ (state.up => state.unstopped)
      /\ state.fd = proc[p].fd
      /\ state.kept = proc[p].kept /\ state.policy = proc[p].policy
    <2>1. /\ state \in ProcState /\ ~state.stopping /\ (state.up => state.unstopped)
          /\ state.fd = half.fd /\ state.kept = half.kept /\ state.policy = half.policy
        BY <1>2, CleanedUpFacts, Zenon
    <2> QED
        BY <1>2, <2>1, Zenon
<1>4. /\ \/ /\ ~GivesUp(state.policy, count)
            /\ Become(p, [state EXCEPT !.at = "backoff", !.count = count])
         \/ Become(p, [state EXCEPT !.at = "exit"])
      /\ UNCHANGED pidfile
    BY DEF StartFails
<1> QED
    BY <1>1, <1>3, <1>4, LeavesStart

LEMMA BackoffEndsStep == ASSUME Inv, NEW p \in Process, BackoffEnds(p) PROVE Inv'
<1> DEFINE state == [proc[p] EXCEPT !.at = "start"]
<1>1. proc[p] \in ProcState /\ Sound(proc[p]) /\ proc[p].at = "backoff"
    BY ProcFacts DEF BackoffEnds, At
<1>2. state \in ProcState /\ Sound(state)
    BY <1>1 DEF ProcState, Sound
<1>3. Answers(proc[p]) => Answers(state)
    BY <1>1 DEF ProcState, Answers
<1> QED
    BY <1>2, <1>3, OneMoves DEF BackoffEnds, Goto

LEMMA RunEndsStep == ASSUME Inv, NEW p \in Process, RunEnds(p) PROVE Inv'
<1>1. proc[p] \in ProcState /\ Sound(proc[p]) /\ proc[p].at = "running" /\ ~proc[p].running
    BY ProcFacts DEF RunEnds, At
<1>2. ASSUME NEW place \in {"exit", "start"},
             Become(p, [proc[p] EXCEPT !.count = 0, !.at = place])
      PROVE  Inv'
    <2> DEFINE state == [proc[p] EXCEPT !.count = 0, !.at = place]
    <2>1. 0 \in 0 .. MaxRestarts
        BY DaemonAssumption
    <2>2. state \in ProcState
        BY <1>1, <2>1 DEF ProcState
    <2>3. Sound(state) /\ (Answers(proc[p]) => Answers(state))
        BY <1>1 DEF ProcState, Sound, Answers
    <2> QED
        BY <1>2, <2>2, <2>3, OneMoves DEF RunEnds
<1> QED
    BY <1>2 DEF RunEnds

LEMMA ExitStep ==
    ASSUME Inv, NEW p \in Process, NEW removes \in BOOLEAN, Exit(p, removes)
    PROVE  Inv'
<1> DEFINE state == [NoState("exited") EXCEPT !.kept = ~removes]
<1>1. proc[p] \in ProcState /\ Sound(proc[p]) /\ proc[p].at = "exit"
    BY ProcFacts DEF Exit, At
<1>2. state \in ProcState /\ Sound(state) /\ (~removes => Answers(state))
    <2>1. /\ NoState("exited") \in ProcState /\ Sound(NoState("exited"))
          /\ NoState("exited").at = "exited"
        BY NoStateFacts
    <2> QED
        BY <2>1 DEF ProcState, Sound, Answers
<1>3. pidfile' \in PidFile \cup {None}
    BY DEF Exit, Inv, TypeOK
<1>4. \A q \in Process : Named(pidfile', q) => Named(pidfile, q)
    BY DEF Exit, Named
<1>5. Named(pidfile', p) => Answers(state)
    <2>1. CASE proc[p].fd # None /\ removes
        BY <2>1 DEF Exit, Named
    <2>2. CASE proc[p].fd = None
        <3>1. ~Answers(proc[p])
            BY <1>1, <2>2 DEF Answers, Sound
        <3> QED
            BY <1>4, <3>1 DEF Inv
    <2> QED
        BY <1>2, <2>1, <2>2
<1>6. Become(p, state)
    BY DEF Exit
<1> QED
    BY <1>2, <1>3, <1>4, <1>5, <1>6, OneBecomes

\* Signals, reloads and kills.
LEMMA SignalStep == ASSUME Inv, NEW p \in Process, Signal(p) PROVE Inv'
<1> DEFINE state == HandledSignal(proc[p])
<1>1. proc[p] \in ProcState /\ Sound(proc[p])
    BY ProcFacts
<1>2. state \in ProcState /\ Sound(state)
    BY <1>1 DEF ProcState, Sound, HandledSignal
<1>3. Answers(proc[p]) => Answers(state)
    BY <1>1 DEF ProcState, Answers, HandledSignal
<1> QED
    BY <1>2, <1>3, OneMoves DEF Signal

LEMMA StopStep ==
    ASSUME Inv, NEW p \in Process, NEW stops \in BOOLEAN, Stop(p, stops)
    PROVE  Inv'
<1> DEFINE state == [proc[p] EXCEPT !.running   = FALSE,
                                    !.up        = @ /\ (At(p, {"bind"}) \/ ~stops),
                                    !.unstopped = @ \/ (proc[p].up /\ ~stops),
                                    !.stopping  = FALSE]
<1>1. /\ proc[p] \in ProcState /\ Sound(proc[p])
      /\ proc[p].stopping /\ proc[p].at \in {"bind", "running"}
    BY ProcFacts DEF Stop, At
<1>2. state \in ProcState
    <2>1. \A up, unstopped \in BOOLEAN :
             [proc[p] EXCEPT !.running = FALSE, !.up = up, !.unstopped = unstopped,
                             !.stopping = FALSE] \in ProcState
        BY <1>1 DEF ProcState
    <2>2. (proc[p].up /\ (At(p, {"bind"}) \/ ~stops)) \in BOOLEAN
        OBVIOUS
    <2>3. (proc[p].unstopped \/ (proc[p].up /\ ~stops)) \in BOOLEAN
        OBVIOUS
    <2> QED
        BY <2>1, <2>2, <2>3, Zenon
<1>3. /\ state.up => state.unstopped
      /\ state.at = proc[p].at /\ state.fd = proc[p].fd /\ state.shutdown = proc[p].shutdown
      /\ ~state.stopping /\ state.kept = proc[p].kept /\ state.policy = proc[p].policy
    BY <1>1 DEF ProcState, Sound, At
<1>4. Become(p, state)
    BY DEF Stop, RunningAfterStop
<1>5. Sound(state) /\ (Answers(proc[p]) => Answers(state))
    BY <1>1, <1>3 DEF Sound, Answers
<1> QED
    BY <1>2, <1>4, <1>5, OneMoves DEF Stop

LEMMA ReloadStep ==
    ASSUME Inv, NEW p \in Process, NEW policy \in Policy, Reload(p, policy)
    PROVE  Inv'
<1> DEFINE state == [proc[p] EXCEPT !.policy = policy]
<1>1. proc[p] \in ProcState /\ Sound(proc[p])
    BY ProcFacts
<1>2. state \in ProcState /\ Sound(state)
    <2>1. policy # None
        BY DaemonAssumption
    <2> QED
        BY <1>1, <2>1 DEF ProcState, Sound
<1>3. Answers(proc[p]) => Answers(state)
    BY <1>1 DEF ProcState, Answers
<1> QED
    BY <1>2, <1>3, OneMoves DEF Reload

LEMMA KillStep == ASSUME Inv, NEW p \in Process, Kill(p) PROVE Inv'
BY NoStateFacts, OneMoves DEF Kill, Answers

---------------------------------------------------------------------------
\* The inductive invariant holds in the first state and every step keeps it.
LEMMA Inductive == Spec => []Inv
<1>1. Init => Inv
    <2> SUFFICES ASSUME Init PROVE Inv
        OBVIOUS
    <2>1. NoState("off") \in ProcState /\ Sound(NoState("off"))
        BY NoStateFacts
    <2>2. TypeOK /\ \A p \in Process : Sound(proc[p])
        BY <2>1 DEF Init, TypeOK
    <2>3. \A p \in Process : ~Named(pidfile, p)
        BY DEF Init, Named
    <2> QED
        BY <2>2, <2>3 DEF Inv
<1>2. Inv /\ [Next]_vars => Inv'
    <2> SUFFICES ASSUME Inv, [Next]_vars PROVE Inv'
        OBVIOUS
    <2>1. CASE UNCHANGED vars
        BY <2>1 DEF Inv, TypeOK, vars
    <2>2. ASSUME NEW p \in Process, Step(p) PROVE Inv'
        BY <2>2, ReadPidStep, ReadFailsStep, JudgeStep, OpenFreshStep, OpenStaleStep, OpenFailsStep,
           WritePidStep, WriteFailsStep, StartServerStep, BoundStep, StartFailsStep,
           BackoffEndsStep, RunEndsStep, ExitStep DEF Step
    <2>3. ASSUME NEW p \in Process, Stops(p) \/ Signal(p) \/ Kill(p) PROVE Inv'
        BY <2>3, StopStep, SignalStep, KillStep DEF Stops
    <2> QED
        BY <2>1, <2>2, <2>3, LaunchStep, ReloadStep DEF Next
<1> QED
    BY <1>1, <1>2, PTL DEF Spec

\* Type correctness: in particular the restart counter never passes
\* the largest max_restarts where a start is awaited, whatever is reloaded.
THEOREM DaemonTypeCorrect == Spec => []TypeOK
<1>1. Inv => TypeOK
    BY DEF Inv
<1> QED
    BY <1>1, Inductive, PTL

\* A daemon that ends in an orderly way is not named by the pidfile, unless it
\* could not remove it, however many daemons claim, overwrite and remove the file
\* (_write_pidfile, main_async).
THEOREM NoStalePidfileLeft == Spec => []NoStalePidfile
<1>1. Inv => NoStalePidfile
    BY DEF Inv, NoStalePidfile, Named, Answers, At
<1> QED
    BY <1>1, Inductive, PTL

\* A failed start leaves no listener behind unless the server would not stop
\* (start, _cleanup_partial_start).
THEOREM NoServerIsLeft == Spec => []NoServerLeft
<1>1. Inv => NoServerLeft
    BY DEF Inv, NoServerLeft, Sound, At
<1> QED
    BY <1>1, Inductive, PTL

\* A daemon that runs and was not told to stop serves (start, stop,
\* signal_handler).
THEOREM HealthyDaemonServes == Spec => []HealthyServes
<1>1. Inv => HealthyServes
    BY DEF Inv, HealthyServes, Sound, At
<1> QED
    BY <1>1, Inductive, PTL
=============================================================================
