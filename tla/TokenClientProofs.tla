------------------------- MODULE TokenClientProofs -------------------------
(***************************************************************************)
(* The clients of one token file, for any number of processes, sessions    *)
(* and tokens: no superseded token is put back, and the tools that         *)
(* reconnect can use what they were handed.  And what the daemon's side,   *)
(* BearerTokens, promises: a session has at most one live token.           *)
(***************************************************************************)
EXTENDS TokenClient, TLAPS

LEMMA BearerType == Daemon!TypeOK /\ [Daemon!Next]_(Daemon!vars) => Daemon!TypeOK'
BY DEF Daemon!TypeOK, Daemon!Next, Daemon!Start, Daemon!Spoil, Daemon!Replace, Daemon!Kill,
       Daemon!vars

LEMMA LiveStep ==
    Daemon!TypeOK /\ Daemon!OneLiveToken /\ [Daemon!Next]_(Daemon!vars) => Daemon!OneLiveToken'
<1> SUFFICES ASSUME Daemon!TypeOK, Daemon!OneLiveToken, [Daemon!Next]_(Daemon!vars),
                    NEW p \in Token, NEW q \in Token,
                    status'[p] = "live", status'[q] = "live", owner'[p] = owner'[q]
             PROVE  p = q
  BY DEF Daemon!OneLiveToken
<1>1. ASSUME NEW t \in Token, NEW s \in Session, Daemon!Start(t, s)
      PROVE  p = q
  BY <1>1 DEF Daemon!Start, Daemon!TypeOK, Daemon!OneLiveToken
<1>2. ASSUME NEW t \in Token, NEW s \in Session, Daemon!Spoil(t, s)
      PROVE  p = q
  BY <1>2 DEF Daemon!Spoil, Daemon!TypeOK, Daemon!OneLiveToken
<1>3. ASSUME NEW t \in Token, NEW u \in Token, Daemon!Replace(t, u)
      PROVE  p = q
  BY <1>3 DEF Daemon!Replace, Daemon!TypeOK, Daemon!OneLiveToken
<1>4. CASE Daemon!Kill
  BY <1>4 DEF Daemon!Kill, Daemon!TypeOK, Daemon!OneLiveToken
<1>5. CASE UNCHANGED Daemon!vars
  BY <1>5 DEF Daemon!vars, Daemon!OneLiveToken
<1> QED
  BY <1>1, <1>2, <1>3, <1>4, <1>5 DEF Daemon!Next

\* A session never has two live tokens, for any number of sessions and tokens.
THEOREM OneLive == Daemon!Spec => []Daemon!OneLiveToken
<1>1. Daemon!Init => Daemon!TypeOK /\ Daemon!OneLiveToken
  BY DEF Daemon!Init, Daemon!TypeOK, Daemon!OneLiveToken
<1> QED
  BY <1>1, BearerType, LiveStep, PTL DEF Daemon!Spec

---------------------------------------------------------------------------
(***************************************************************************)
(* The inductive invariant.  A token that was handed out and not written   *)
(* yet is known to its process alone; a token nobody was issued is known   *)
(* to nobody; and each place of a command has its own facts (Stage).       *)
(***************************************************************************)
Handed == {"reply", "write", "truncated"}

Holding(p) == proc[p].fresh # None /\ proc[p].at \in Handed

Unissued ==
    \A t \in Token : status[t] = "new" =>
        /\ file # t
        /\ successor[t] = None
        /\ \A q \in Process : proc[q].asked # t /\ proc[q].fresh # t

Private ==
    \A p \in Process : Holding(p) =>
        /\ file # proc[p].fresh
        /\ successor[proc[p].fresh] = None
        /\ \A q \in Process : proc[q].asked # proc[p].fresh
        /\ \A q \in Process : q # p => proc[q].fresh # proc[p].fresh

\* The tools that promise to use what their reconnect was granted.
Tool == {"bank", "send"}

\* A command with record r, while the file holds f and the daemon's tokens are
\* in the states st.  Once a tool has truncated the file, the token it asked
\* with is never in the file again; the new one is not again once replaced.
Stage(r, f, st) ==
    /\ r.at = "reply" => (r.fresh # None <=> (r.reply = "ok" /\ r.cmd # "revoke"))
    /\ r.at \in {"write", "truncated", "open", "newline"} => r.fresh # None
    /\ (r.fresh # None \/ r.cmd = "login") => r.asked # Mixed
    /\ r.cmd \in Tool => r.asked # None
    /\ (r.cmd \in Tool /\ r.at \in {"call", "done"}) => r.fresh # None
    /\ (r.cmd \in Tool /\ r.at \in {"truncated", "open", "call", "done"}) => f # r.asked
    /\ (r.cmd = "bank" /\ r.at \in {"call", "done"}) => r.wire = r.fresh
    /\ (r.cmd = "bank" /\ r.at = "done") => st[r.fresh] # "live"
    /\ (r.cmd = "send" /\ r.at = "call") => (r.wire = r.fresh \/ f # r.fresh)
    /\ (r.cmd = "send" /\ r.at = "done") => (st[r.fresh] # "live" \/ f # r.fresh)

Stages == \A p \in Process : Stage(proc[p], file, status)

IInv == TypeOK /\ Unissued /\ Private /\ Stages /\ FileNotSuperseded

LEMMA InitIInv == Init => IInv
<1> SUFFICES ASSUME Init PROVE IInv
  OBVIOUS
<1>1. TypeOK
  BY DEF Init, Daemon!Init, TypeOK, Daemon!TypeOK, Idle, Proc, Command, At, Content
<1>2. \A p \in Process : proc[p] = Idle
  BY DEF Init
<1>3. Unissued
  BY <1>2, ClientAssumption DEF Init, Unissued, Idle, ClientAssumption
<1>4. Private /\ Stages
  BY <1>2 DEF Private, Holding, Stages, Stage, Idle, Handed, Tool
<1>5. FileNotSuperseded
  BY ClientAssumption DEF Init, FileNotSuperseded
<1> QED
  BY <1>1, <1>3, <1>4, <1>5 DEF IInv

---------------------------------------------------------------------------
(***************************************************************************)
(* The steps of one process that leave the file and the daemon alone.      *)
(***************************************************************************)
\* What the process p may become: it learns no token but the one in the file,
\* is handed none, and does not lose one without it being counted as dropped.
Advances(p, r) ==
    /\ r \in Proc
    /\ r.fresh \in {None, proc[p].fresh}
    /\ r.asked \in {None, proc[p].asked, file}
    /\ (r.fresh # None /\ r.at \in Handed) => proc[p].at \in Handed
    /\ Stage(r, file, status)
    /\ (proc[p].fresh # None /\ proc[p].at \in {"reply", "write"}) =>
            proc[p].fresh \in dropped' \/ (r.fresh = proc[p].fresh /\ r.at \in {"reply", "write"})

LEMMA AdvanceIInv ==
    ASSUME IInv, NEW p \in Process, NEW r, Become(p, r), Advances(p, r),
           UNCHANGED <<serverVars, file, successor>>,
           dropped \subseteq dropped', dropped' \subseteq Token, linked' \subseteq Process
    PROVE  IInv'
<1>1. /\ TypeOK /\ proc' = [proc EXCEPT ![p] = r] /\ r \in Proc
      /\ owner' = owner /\ status' = status /\ file' = file /\ successor' = successor
  BY DEF IInv, Become, Advances, serverVars
<1>2. \A q \in Process : proc'[q] = IF q = p THEN r ELSE proc[q]
  BY <1>1 DEF TypeOK
<1>3. TypeOK'
  BY <1>1 DEF TypeOK, Daemon!TypeOK
<1>4. Unissued'
  BY <1>1, <1>2, ClientAssumption DEF IInv, Unissued, Advances, ClientAssumption
<1>5. Private'
  <2> SUFFICES ASSUME NEW x \in Process, Holding(x)'
               PROVE  /\ file' # proc'[x].fresh
                      /\ successor'[proc'[x].fresh] = None
                      /\ \A q \in Process : proc'[q].asked # proc'[x].fresh
                      /\ \A q \in Process : q # x => proc'[q].fresh # proc'[x].fresh
    BY DEF Private
  <2>1. Holding(x) /\ proc'[x].fresh = proc[x].fresh /\ proc[x].fresh # None
    BY <1>2 DEF Holding, Advances
  <2>2. /\ file # proc[x].fresh /\ successor[proc[x].fresh] = None
        /\ \A q \in Process : proc[q].asked # proc[x].fresh
        /\ \A q \in Process : q # x => proc[q].fresh # proc[x].fresh
    BY <2>1 DEF IInv, Private
  <2>3. \A q \in Process : /\ proc'[q].asked \in {None, proc[q].asked, file}
                           /\ proc'[q].fresh \in {None, proc[q].fresh}
    BY <1>2 DEF Advances
  <2> QED
    BY <1>1, <2>1, <2>2, <2>3
<1>6. Stages'
  BY <1>1, <1>2 DEF IInv, Stages, Advances
<1>7. FileNotSuperseded'
  <2> SUFFICES ASSUME file \in Token, successor[file] # None
               PROVE  \/ successor[file] \in dropped'
                      \/ \E x \in Process : Writing(x, successor[file])'
    BY <1>1 DEF FileNotSuperseded, Writing
  <2>1. CASE successor[file] \in dropped
    BY <2>1
  <2>2. ASSUME NEW x \in Process, Writing(x, successor[file])
        PROVE  successor[file] \in dropped' \/ Writing(x, successor[file])'
    BY <1>1, <1>2, <2>2 DEF Writing, Advances
  <2> QED
    BY <2>1, <2>2 DEF IInv, FileNotSuperseded
<1> QED
  BY <1>3, <1>4, <1>5, <1>6, <1>7 DEF IInv

\* Nothing is known of a process that has stopped.
LEMMA IdleStage == \A f, st : Stage(Idle, f, st)
BY DEF Stage, Idle, Tool

LEMMA IdleType == Idle \in Proc /\ Idle.fresh = None /\ Idle.asked = None /\ Idle.at = "idle"
BY DEF Idle, Proc, Command, At, Content

LEMMA StopIInv ==
    ASSUME IInv, NEW p \in Process, Become(p, Idle), UNCHANGED <<serverVars, file, successor>>,
           dropped \subseteq dropped', dropped' \subseteq Token, linked' \subseteq Process,
           (proc[p].fresh # None /\ proc[p].at \in {"reply", "write"}) => proc[p].fresh \in dropped'
    PROVE  IInv'
<1>1. Advances(p, Idle)
  BY IdleStage, IdleType DEF Advances
<1> QED
  BY <1>1, AdvanceIInv

LEMMA FreshType ==
    ASSUME IInv, NEW p \in Process
    PROVE  /\ proc[p] \in Proc
           /\ proc[p].fresh \in Token \cup {None} /\ {proc[p].fresh} \ {None} \subseteq Token
           /\ proc[p].asked \in Content
           /\ linked \subseteq Process /\ linked \cup {p} \subseteq Process /\ linked \ {p} \subseteq Process
           /\ Stage(proc[p], file, status)
BY DEF IInv, TypeOK, Proc, Stages

LEMMA BeginIInv ==
    ASSUME IInv, NEW p \in Process, NEW c \in Command, Begin(p, c)
    PROVE  IInv'
<1> DEFINE r == [Idle EXCEPT !.cmd = c, !.at = "send",
                             !.asked = IF c = "login" THEN None ELSE file]
<1>1. /\ r.cmd = c /\ r.at = "send" /\ r.fresh = None
      /\ r.asked = IF c = "login" THEN None ELSE file
  BY DEF Idle
<1>2. r \in Proc
  BY DEF IInv, TypeOK, Idle, Proc, At, Content
<1>3. Become(p, r) /\ (c = "login" \/ file # None) /\ UNCHANGED <<serverVars, file, successor, dropped, linked>>
      /\ proc[p].at = "idle"
  BY DEF Begin
<1> HIDE DEF r
<1>4. Stage(r, file, status)
  BY <1>1, <1>3, ClientAssumption DEF Stage, Tool, ClientAssumption
<1>5. Advances(p, r)
  BY <1>1, <1>2, <1>3, <1>4 DEF Advances
<1> QED
  BY <1>3, <1>5, AdvanceIInv DEF IInv, TypeOK

LEMMA EndsIInv ==
    ASSUME IInv, NEW p \in Process,
           TimeOut(p) \/ Refused(p) \/ WriteFails(p) \/ Die(p)
    PROVE  IInv'
<1>1. /\ dropped \subseteq Token /\ {proc[p].fresh} \ {None} \subseteq Token
      /\ linked \subseteq Process /\ linked \ {p} \subseteq Process
  BY FreshType DEF IInv, TypeOK
<1>2. CASE TimeOut(p) \/ WriteFails(p)
  BY <1>1, <1>2, StopIInv DEF TimeOut, WriteFails, Forget
<1>3. CASE Refused(p)
  <2>1. proc[p].fresh = None
    BY <1>3, FreshType DEF Refused, Stage
  <2> QED
    BY <1>1, <1>3, <2>1, StopIInv DEF Refused
<1>4. CASE Die(p)
  BY <1>1, <1>4, StopIInv DEF Die
<1> QED
  BY <1>2, <1>3, <1>4

LEMMA ReplyIInv ==
    ASSUME IInv, NEW p \in Process,
           Accepted(p) \/ PushAccepted(p) \/ RevokeAccepted(p)
    PROVE  IInv'
<1>1. /\ proc[p] \in Proc /\ Stage(proc[p], file, status) /\ dropped \subseteq Token
      /\ linked \subseteq Process
      /\ proc[p].fresh \in Token \cup {None} /\ proc[p].asked \in Content
  BY FreshType DEF IInv, TypeOK
<1>2. CASE Accepted(p)
  <2> DEFINE r == [proc[p] EXCEPT !.at = "write", !.bound = None]
  <2>1. /\ r \in Proc /\ r.cmd = proc[p].cmd /\ r.at = "write"
        /\ r.fresh = proc[p].fresh /\ r.asked = proc[p].asked
    BY <1>1 DEF Proc, At
  <2>2. Become(p, r)
    BY <1>2 DEF Accepted
  <2> HIDE DEF r
  <2>3. Stage(r, file, status)
    BY <1>1, <1>2, <2>1 DEF Accepted, Stage, Tool
  <2>4. Advances(p, r)
    BY <1>2, <2>1, <2>3 DEF Accepted, Advances, Handed
  <2> QED
    BY <1>1, <1>2, <2>2, <2>4, AdvanceIInv DEF Accepted
<1>3. CASE PushAccepted(p)
  <2> DEFINE r == [proc[p] EXCEPT !.at = "call", !.wire = proc[p].asked]
  <2>1. /\ r \in Proc /\ r.cmd = "push" /\ r.at = "call"
        /\ r.fresh = proc[p].fresh /\ r.asked = proc[p].asked
    BY <1>1, <1>3 DEF PushAccepted, Proc, At
  <2>2. Become(p, r) \/ Become(p, Idle)
    BY <1>3 DEF PushAccepted
  <2> HIDE DEF r
  <2>3. /\ proc[p].fresh \in Token /\ proc[p].fresh \in dropped' /\ dropped \subseteq dropped'
        /\ dropped' \subseteq Token /\ linked' \subseteq Process /\ UNCHANGED <<serverVars, file, successor>>
    BY <1>1, <1>3 DEF PushAccepted, Stage
  <2>4. Stage(r, file, status)
    BY <1>1, <2>1 DEF Stage, Tool
  <2>5. Advances(p, r)
    BY <2>1, <2>3, <2>4 DEF Advances, Handed
  <2> QED
    BY <1>3, <2>2, <2>3, <2>5, AdvanceIInv, StopIInv DEF PushAccepted
<1>4. CASE RevokeAccepted(p)
  <2> DEFINE r == [proc[p] EXCEPT !.at = "unlink"]
  <2>1. /\ r \in Proc /\ r.cmd = "revoke" /\ r.at = "unlink"
        /\ r.fresh = proc[p].fresh /\ r.asked = proc[p].asked
    BY <1>1, <1>4 DEF RevokeAccepted, Proc, At
  <2>2. Become(p, r)
    BY <1>4 DEF RevokeAccepted, Goto
  <2> HIDE DEF r
  <2>3. Stage(r, file, status)
    BY <1>1, <2>1 DEF Stage, Tool
  <2>4. proc[p].fresh = None
    BY <1>1, <1>4 DEF RevokeAccepted, Stage
  <2>5. Advances(p, r)
    BY <2>1, <2>3, <2>4 DEF Advances
  <2> QED
    BY <1>1, <1>4, <2>2, <2>5, AdvanceIInv DEF RevokeAccepted
<1> QED
  BY <1>2, <1>3, <1>4

LEMMA CallIInv ==
    ASSUME IInv, NEW p \in Process,
           Open(p) \/ CallServed(p) \/ CallRetried(p) \/ CallRefused(p) \/ Finish(p)
    PROVE  IInv'
<1>1. /\ proc[p] \in Proc /\ Stage(proc[p], file, status) /\ dropped \subseteq Token
      /\ linked \subseteq Process
      /\ proc[p].at \notin Handed /\ file \in Content
      /\ proc[p].fresh \in Token \cup {None} /\ proc[p].asked \in Content
      /\ UNCHANGED <<serverVars, file, successor, dropped, linked>>
  BY FreshType DEF IInv, TypeOK, Open, CallServed, CallRetried, CallRefused, Finish, Handed
<1>2. ASSUME NEW r \in Proc, Become(p, r), r.fresh = proc[p].fresh, r.asked = proc[p].asked,
             r.at \notin Handed, Stage(r, file, status)
      PROVE  IInv'
  <2>1. Advances(p, r)
    BY <1>1, <1>2 DEF Advances, Handed
  <2> QED
    BY <1>1, <1>2, <2>1, AdvanceIInv
<1>3. CASE Become(p, Idle)
  BY <1>1, <1>3, StopIInv DEF Handed
<1>4. CASE Open(p)
  <2> DEFINE r == [proc[p] EXCEPT !.at = "call", !.wire = WireToken(p)]
  <2>1. WireToken(p) \in Content
    BY <1>1 DEF WireToken, Content
  <2>2. /\ r \in Proc /\ r.cmd = proc[p].cmd /\ r.at = "call" /\ r.wire = WireToken(p)
        /\ r.fresh = proc[p].fresh /\ r.asked = proc[p].asked
    BY <1>1, <2>1 DEF Proc, At
  <2>3. Become(p, r) /\ proc[p].at = "open"
    BY <1>4 DEF Open
  <2> HIDE DEF r
  <2>4. /\ proc[p].cmd = "bank" => r.wire = proc[p].fresh
        /\ proc[p].cmd = "send" => r.wire = file
    BY <2>2 DEF WireToken
  <2>5. Stage(r, file, status)
    BY <1>1, <2>2, <2>3, <2>4 DEF Stage, Tool
  <2> QED
    BY <1>2, <2>2, <2>3, <2>5 DEF Handed
<1>5. CASE CallServed(p) /\ proc[p].cmd = "bank"
  <2> DEFINE r == [proc[p] EXCEPT !.reply = "ok"]
  <2>1. /\ r \in Proc /\ r.cmd = proc[p].cmd /\ r.at = proc[p].at /\ r.wire = proc[p].wire
        /\ r.fresh = proc[p].fresh /\ r.asked = proc[p].asked
    BY <1>1 DEF Proc
  <2>2. Become(p, r) /\ proc[p].at = "call"
    BY <1>5 DEF CallServed
  <2> HIDE DEF r
  <2>3. Stage(r, file, status)
    BY <1>1, <2>1, <2>2 DEF Stage, Tool
  <2> QED
    BY <1>2, <2>1, <2>2, <2>3 DEF Handed
<1>6. CASE CallRetried(p)
  <2> DEFINE r == [proc[p] EXCEPT !.wire = file]
  <2>1. /\ r \in Proc /\ r.cmd = proc[p].cmd /\ r.at = proc[p].at /\ r.wire = file
        /\ r.fresh = proc[p].fresh /\ r.asked = proc[p].asked
    BY <1>1 DEF Proc
  <2>2. Become(p, r) /\ proc[p].at = "call" /\ proc[p].cmd = "send"
    BY <1>6 DEF CallRetried, Retries
  <2> HIDE DEF r
  <2>3. Stage(r, file, status)
    BY <1>1, <2>1, <2>2 DEF Stage, Tool
  <2> QED
    BY <1>2, <2>1, <2>2, <2>3 DEF Handed
<1>7. CASE CallRefused(p)
  <2> DEFINE r == [proc[p] EXCEPT !.at = "done", !.reply = "refused"]
  <2>1. /\ r \in Proc /\ r.cmd = proc[p].cmd /\ r.at = "done" /\ r.wire = proc[p].wire
        /\ r.fresh = proc[p].fresh /\ r.asked = proc[p].asked
    BY <1>1 DEF Proc, At
  <2>2. Become(p, r) /\ proc[p].at = "call" /\ (proc[p].wire \in Token => status[proc[p].wire] # "live")
    BY <1>7, ClientAssumption DEF CallRefused, Passes, Live, ClientAssumption
  <2> HIDE DEF r
  <2>3. Stage(r, file, status)
    BY <1>1, <2>1, <2>2 DEF Stage, Tool
  <2> QED
    BY <1>2, <2>1, <2>2, <2>3 DEF Handed
<1>8. CASE Finish(p) /\ proc[p].cmd = "bank" /\ proc[p].at = "done" /\ Goto(p, "call")
  <2> DEFINE r == [proc[p] EXCEPT !.at = "call"]
  <2>1. /\ r \in Proc /\ r.cmd = "bank" /\ r.at = "call" /\ r.wire = proc[p].wire
        /\ r.fresh = proc[p].fresh /\ r.asked = proc[p].asked
    BY <1>1, <1>8 DEF Proc, At
  <2>2. Become(p, r) /\ proc[p].at = "done" /\ proc[p].cmd = "bank"
    BY <1>8 DEF Goto
  <2> HIDE DEF r
  <2>3. Stage(r, file, status)
    BY <1>1, <2>1, <2>2 DEF Stage, Tool
  <2> QED
    BY <1>2, <2>1, <2>2, <2>3 DEF Handed
<1> QED
  BY <1>3, <1>4, <1>5, <1>6, <1>7, <1>8 DEF CallServed, Finish

---------------------------------------------------------------------------
(***************************************************************************)
(* The steps on the file.                                                  *)
(***************************************************************************)
\* Whatever a step makes of the file, it is no token, or one that only the
\* process p held, and p no longer holds it.
LEMMA FileIInv ==
    ASSUME IInv, NEW p \in Process, NEW r \in Proc, Become(p, r),
           UNCHANGED <<serverVars, successor, dropped>>, linked' \subseteq Process,
           file' \in {None, Mixed} \/ (file' = proc[p].fresh /\ Holding(p)),
           r.fresh \in {None, proc[p].fresh}, r.asked \in {None, proc[p].asked},
           r.fresh # None /\ r.at \in Handed => proc[p].at \in Handed /\ file' = None,
           Stage(r, file', status)
    PROVE  IInv'
<1>1. /\ TypeOK /\ proc' = [proc EXCEPT ![p] = r]
      /\ owner' = owner /\ status' = status /\ successor' = successor /\ dropped' = dropped
  BY DEF IInv, Become, serverVars
<1>2. \A q \in Process : proc'[q] = IF q = p THEN r ELSE proc[q]
  BY <1>1 DEF TypeOK
<1>3. file' \in Content
  BY FreshType DEF Content
<1>4. TypeOK'
  BY <1>1, <1>3 DEF TypeOK, Daemon!TypeOK
<1>5. Holding(p) => /\ successor[proc[p].fresh] = None
                    /\ \A q \in Process : proc[q].asked # proc[p].fresh
                    /\ \A q \in Process : q # p => proc[q].fresh # proc[p].fresh
  BY DEF IInv, Private
<1>6. Unissued'
  <2> SUFFICES ASSUME NEW t \in Token, status[t] = "new"
               PROVE  /\ file' # t /\ successor[t] = None
                      /\ \A q \in Process : proc'[q].asked # t /\ proc'[q].fresh # t
    BY <1>1 DEF Unissued
  <2>1. successor[t] = None /\ \A q \in Process : proc[q].asked # t /\ proc[q].fresh # t
    BY DEF IInv, Unissued
  <2> QED
    BY <1>2, <2>1, FreshType, ClientAssumption DEF ClientAssumption
<1>7. Private'
  <2> SUFFICES ASSUME NEW x \in Process, Holding(x)'
               PROVE  /\ file' # proc'[x].fresh
                      /\ successor'[proc'[x].fresh] = None
                      /\ \A q \in Process : proc'[q].asked # proc'[x].fresh
                      /\ \A q \in Process : q # x => proc'[q].fresh # proc'[x].fresh
    BY DEF Private
  <2>1. Holding(x) /\ proc'[x].fresh = proc[x].fresh /\ proc[x].fresh # None
    BY <1>2 DEF Holding
  <2>2. /\ successor[proc[x].fresh] = None
        /\ \A q \in Process : proc[q].asked # proc[x].fresh
        /\ \A q \in Process : q # x => proc[q].fresh # proc[x].fresh
    BY <2>1 DEF IInv, Private
  <2>3. \A q \in Process : /\ proc'[q].asked \in {None, proc[q].asked}
                           /\ proc'[q].fresh \in {None, proc[q].fresh}
    BY <1>2
  <2>4. file' # proc'[x].fresh
    <3>1. CASE x = p
      BY <1>2, <2>1, <3>1 DEF Holding
    <3>2. CASE x # p
      BY <2>1, <2>2, <3>2, FreshType, ClientAssumption DEF ClientAssumption
    <3> QED
      BY <3>1, <3>2
  <2> QED
    BY <1>1, <2>1, <2>2, <2>3, <2>4
<1>8. Stages'
  <2> SUFFICES ASSUME NEW x \in Process
               PROVE  Stage(proc'[x], file', status)
    BY <1>1 DEF Stages
  <2>1. CASE x = p
    BY <1>2, <2>1
  <2>2. CASE x # p
    <3>1. proc'[x] = proc[x] /\ Stage(proc[x], file, status)
      BY <1>2, <2>2, FreshType
    <3>2. CASE file' \in {None, Mixed}
      <4>1. proc[x].fresh # Mixed
        BY FreshType, ClientAssumption DEF ClientAssumption
      <4> QED
        BY <3>1, <3>2, <4>1 DEF Stage, Tool
    <3>3. CASE file' = proc[p].fresh /\ Holding(p)
      <4>1. file' # proc[x].asked /\ file' # proc[x].fresh
        BY <1>5, <2>2, <3>3
      <4> QED
        BY <3>1, <4>1 DEF Stage
    <3> QED
      BY <3>2, <3>3
  <2> QED
    BY <2>1, <2>2
<1>9. FileNotSuperseded'
  BY <1>1, <1>5, ClientAssumption DEF FileNotSuperseded, ClientAssumption
<1> QED
  BY <1>4, <1>6, <1>7, <1>8, <1>9 DEF IInv

\* Where the process goes after its write.
LEMMA WriteIInv ==
    ASSUME IInv, NEW p \in Process, Write(p)
    PROVE  IInv'
<1> DEFINE place == IF proc[p].cmd \in Calling THEN "open" ELSE "newline"
           r == [proc[p] EXCEPT !.at = place]
<1>1. /\ proc[p] \in Proc /\ Stage(proc[p], file, status) /\ proc[p].at = "truncated"
      /\ proc[p].fresh \in Token /\ proc[p].asked \in Content
      /\ dropped \subseteq Token /\ linked' \subseteq Process
      /\ UNCHANGED <<serverVars, successor>>
  BY FreshType DEF Write, Stage, IInv, TypeOK
<1>2. Become(p, r)
  BY DEF Write, Goto
<1>3. /\ place \in {"open", "newline"} /\ (proc[p].cmd \in Tool => place = "open")
  BY DEF Calling, Tool
<1>4. /\ r \in Proc /\ r.cmd = proc[p].cmd /\ r.at = place
      /\ r.fresh = proc[p].fresh /\ r.asked = proc[p].asked
  <2> HIDE DEF place
  <2> QED
    BY <1>1, <1>3 DEF Proc, At
<1> HIDE DEF place, r
<1>5. r.at \notin Handed /\ Holding(p)
  BY <1>1, <1>3, <1>4, ClientAssumption DEF Handed, Holding, ClientAssumption
<1>6. /\ file # proc[p].asked \/ proc[p].cmd \notin Tool
      /\ proc[p].fresh # proc[p].asked /\ proc[p].asked # Mixed
  BY <1>1, <1>5, ClientAssumption DEF Stage, IInv, Private, ClientAssumption
<1>7. ASSUME p \in linked, file' \in Overlaid(p), UNCHANGED dropped
      PROVE  IInv'
  <2>1. file' = proc[p].fresh \/ file' = Mixed
    BY <1>7 DEF Overlaid, Written
  <2>2. file' # proc[p].asked
    BY <1>6, <2>1
  <2>3. Stage(r, file', status)
    BY <1>1, <1>3, <1>4, <1>6, <2>2 DEF Stage, Tool
  <2> QED
    BY <1>1, <1>2, <1>4, <1>5, <1>7, <2>1, <2>3, FileIInv
<1>8. ASSUME dropped' = dropped \cup {proc[p].fresh}, UNCHANGED file
      PROVE  IInv'
  <2>1. Stage(r, file, status)
    BY <1>1, <1>3, <1>4, <1>6 DEF Stage, Tool
  <2>2. Advances(p, r)
    BY <1>1, <1>4, <1>5, <1>8, <2>1 DEF Advances
  <2> QED
    BY <1>1, <1>2, <1>8, <2>2, AdvanceIInv
<1> QED
  BY <1>7, <1>8 DEF Write

LEMMA NewlineIInv ==
    ASSUME IInv, NEW p \in Process, Newline(p)
    PROVE  IInv'
<1>1. /\ proc[p].at = "newline" /\ Become(p, Idle) /\ linked' \subseteq Process
      /\ dropped \subseteq Token /\ UNCHANGED <<serverVars, successor, dropped>>
      /\ Idle.fresh = None /\ Idle.asked = None
  BY FreshType, IdleType DEF Newline, IInv, TypeOK
<1>2. CASE file' = file
  BY <1>1, <1>2, StopIInv DEF Newline
<1>3. CASE file' = Mixed
  BY <1>1, <1>3, IdleType, IdleStage, FileIInv
<1> QED
  BY <1>2, <1>3 DEF Newline

LEMMA FileStepIInv ==
    ASSUME IInv, NEW p \in Process, Truncate(p) \/ Unlink(p)
    PROVE  IInv'
<1>1. /\ proc[p] \in Proc /\ Stage(proc[p], file, status)
      /\ proc[p].fresh \in Token \cup {None} /\ proc[p].asked \in Content
      /\ linked \cup {p} \subseteq Process
  BY FreshType
<1>2. CASE Truncate(p)
  <2> DEFINE r == [proc[p] EXCEPT !.at = "truncated"]
  <2>1. /\ r \in Proc /\ r.cmd = proc[p].cmd /\ r.at = "truncated"
        /\ r.fresh = proc[p].fresh /\ r.asked = proc[p].asked
    BY <1>1 DEF Proc, At
  <2>2. Become(p, r) /\ file' = None /\ proc[p].at = "write"
    BY <1>2 DEF Truncate, TruncatedFile, Goto
  <2> HIDE DEF r
  <2>3. Stage(r, file', status)
    BY <1>1, <2>1, <2>2 DEF Stage, Tool
  <2> QED
    BY <1>1, <1>2, <2>1, <2>2, <2>3, FileIInv DEF Truncate, Handed
<1>3. CASE Unlink(p)
  <2>1. linked' \subseteq Process
    BY <1>3 DEF Unlink
  <2> QED
    BY <1>3, <2>1, IdleType, IdleStage, FileIInv DEF Unlink
<1> QED
  BY <1>2, <1>3

---------------------------------------------------------------------------
(***************************************************************************)
(* The steps of the daemon.                                                *)
(***************************************************************************)
\* A token that was issued is never again anything but live or dead, and never
\* live again once dead.
Ages == \A t \in Token : status[t] # "new" =>
            status'[t] # "new" /\ (status[t] # "live" => status'[t] # "live")

LEMMA AgesStage ==
    ASSUME IInv, Ages, NEW q \in Process
    PROVE  Stage(proc[q], file, status')
<1>1. Stage(proc[q], file, status) /\ proc[q].fresh \in Token \cup {None}
  BY FreshType
<1>2. proc[q].fresh # None => status[proc[q].fresh] # "new"
  BY <1>1 DEF IInv, TypeOK, Daemon!TypeOK, Unissued
<1> QED
  BY <1>1, <1>2 DEF Stage, Ages, Tool

\* The daemon answers with a new token, or with none.
LEMMA ReplyStep ==
    ASSUME IInv, NEW p \in Process, proc[p].at = "send", Ages,
           NEW code \in {"none", "ok", "token_revoked", "refused"},
           NEW t \in Token \cup {None}, NEW s \in Session \cup {None}, Replied(p, code, t, s),
           t # None <=> (code = "ok" /\ proc[p].cmd # "revoke"),
           t # None => status[t] = "new" /\ status'[t] = "live" /\ proc[p].asked # Mixed,
           Daemon!TypeOK', UNCHANGED <<file, dropped, linked>>,
           successor' = successor \/
               (t # None /\ \E u \in Token : /\ u = proc[p].asked
                                             /\ successor' = [successor EXCEPT ![u] = t])
    PROVE  IInv'
<1> DEFINE r == [proc[p] EXCEPT !.at = "reply", !.reply = code, !.fresh = t, !.bound = s]
<1>1. /\ TypeOK /\ proc[p] \in Proc /\ proc' = [proc EXCEPT ![p] = r]
      /\ file' = file /\ dropped' = dropped
  BY FreshType DEF IInv, Replied, Become
<1>2. /\ r \in Proc /\ r.cmd = proc[p].cmd /\ r.at = "reply" /\ r.reply = code
      /\ r.fresh = t /\ r.asked = proc[p].asked
  BY <1>1 DEF Proc, At
<1> HIDE DEF r
<1>3. \A q \in Process : proc'[q] = IF q = p THEN r ELSE proc[q]
  BY <1>1 DEF TypeOK
<1>4. /\ successor' \in [Token -> Token \cup {None}]
      /\ \A u \in Token : successor'[u] # successor[u] => u = proc[p].asked /\ successor'[u] = t
  BY <1>1 DEF TypeOK
<1>5. TypeOK'
  BY <1>1, <1>2, <1>4 DEF TypeOK
<1>6. \A u \in Token : status'[u] = "new" => status[u] = "new" /\ u # t
  BY ClientAssumption DEF Ages, ClientAssumption
<1>7. t # None => /\ t \in Token /\ file # t /\ successor[t] = None
                  /\ \A q \in Process : proc[q].asked # t /\ proc[q].fresh # t
  BY DEF IInv, Unissued
<1>8. Unissued'
  <2> SUFFICES ASSUME NEW u \in Token, status'[u] = "new"
               PROVE  /\ file # u /\ successor'[u] = None
                      /\ \A q \in Process : proc'[q].asked # u /\ proc'[q].fresh # u
    BY <1>1 DEF Unissued
  <2>1. /\ u # t /\ file # u /\ successor[u] = None
        /\ \A q \in Process : proc[q].asked # u /\ proc[q].fresh # u
    BY <1>6 DEF IInv, Unissued
  <2> QED
    BY <1>2, <1>3, <1>4, <2>1
<1>9. Private'
  <2> SUFFICES ASSUME NEW x \in Process, Holding(x)'
               PROVE  /\ file # proc'[x].fresh
                      /\ successor'[proc'[x].fresh] = None
                      /\ \A q \in Process : proc'[q].asked # proc'[x].fresh
                      /\ \A q \in Process : q # x => proc'[q].fresh # proc'[x].fresh
    BY <1>1 DEF Private
  <2>1. \A q \in Process : proc'[q].asked = proc[q].asked
    BY <1>2, <1>3
  <2>2. CASE x = p
    <3>1. proc'[x].fresh = t /\ t # None
      BY <1>2, <1>3, <2>2 DEF Holding
    <3> QED
      BY <1>3, <1>4, <1>7, <2>1, <2>2, <3>1
  <2>3. CASE x # p
    <3>1. proc'[x] = proc[x] /\ Holding(x) /\ proc[x].fresh \in Token
      BY <1>3, <2>3, FreshType DEF Holding
    <3>2. /\ file # proc[x].fresh /\ successor[proc[x].fresh] = None
          /\ \A q \in Process : proc[q].asked # proc[x].fresh
          /\ \A q \in Process : q # x => proc[q].fresh # proc[x].fresh
      BY <3>1 DEF IInv, Private
    <3>3. proc'[p].fresh # proc[x].fresh
      BY <1>2, <1>3, <1>7, <3>1, ClientAssumption DEF ClientAssumption
    <3> QED
      BY <1>3, <1>4, <2>1, <3>1, <3>2, <3>3
  <2> QED
    BY <2>2, <2>3
<1>10. Stages'
  <2> SUFFICES ASSUME NEW x \in Process
               PROVE  Stage(proc'[x], file, status')
    BY <1>1 DEF Stages
  <2>1. Stage(proc[x], file, status')
    BY AgesStage
  <2>2. CASE x = p
    <3>1. Stage(r, file, status')
      BY <1>2, <2>1, <2>2 DEF Stage, Tool
    <3> QED
      BY <1>3, <2>2, <3>1
  <2>3. CASE x # p
    BY <1>3, <2>1, <2>3
  <2> QED
    BY <2>2, <2>3
<1>11. FileNotSuperseded'
  <2> SUFFICES ASSUME file \in Token, successor'[file] # None
               PROVE  \/ successor'[file] \in dropped
                      \/ \E x \in Process : /\ proc'[x].fresh = successor'[file]
                                            /\ proc'[x].at \in {"reply", "write"}
    BY <1>1 DEF FileNotSuperseded, Writing
  <2>1. file \in Token
    BY <1>1 DEF TypeOK
  <2>2. CASE successor'[file] = successor[file]
    <3>1. ASSUME NEW x \in Process, proc[x].fresh = successor[file], proc[x].at \in {"reply", "write"}
          PROVE  proc'[x].fresh = successor[file] /\ proc'[x].at \in {"reply", "write"}
      BY <1>3, <3>1
    <3> QED
      BY <2>2, <3>1 DEF IInv, FileNotSuperseded, Writing
  <2>3. CASE successor'[file] # successor[file]
    BY <1>2, <1>3, <1>4, <2>1, <2>3
  <2> QED
    BY <2>2, <2>3
<1> QED
  BY <1>5, <1>8, <1>9, <1>10, <1>11 DEF IInv

LEMMA NewTokenIsNew == CanMint => NewToken \in Token /\ status[NewToken] = "new"
BY DEF CanMint, NewToken

LEMMA ServeIInv ==
    ASSUME IInv, NEW p \in Process, Serve(p)
    PROVE  IInv'
<1>1. /\ proc[p].at = "send" /\ UNCHANGED <<file, dropped, linked>> /\ Daemon!TypeOK
      /\ proc[p].asked \in Content
      /\ status \in [Token -> {"new", "live", "dead"}]
      /\ owner \in [Token -> Session \cup {None}]
  BY FreshType DEF Serve, IInv, TypeOK, Daemon!TypeOK
<1>2. UNCHANGED serverVars => Ages /\ Daemon!TypeOK'
  BY <1>1 DEF serverVars, Ages, Daemon!TypeOK
<1>3. CASE UNCHANGED <<serverVars, successor>> /\
           \E code \in {"token_revoked", "refused"} : Replied(p, code, None, None)
  BY <1>1, <1>2, <1>3, ReplyStep
<1>4. CASE ServeLogin(p)
  <2>1. CASE CanLogin /\ Daemon!Start(NewToken, NewSession) /\ Replied(p, "ok", NewToken, NewSession)
    <3>1. NewToken \in Token /\ status[NewToken] = "new" /\ NewSession \in Session
      BY <2>1, NewTokenIsNew DEF CanLogin, NewSession
    <3>2. NewToken # None
      BY <3>1, ClientAssumption DEF ClientAssumption
    <3>3. status' = [status EXCEPT ![NewToken] = "live"] /\ owner' = [owner EXCEPT ![NewToken] = NewSession]
      BY <2>1 DEF Daemon!Start
    <3> HIDE DEF NewToken, NewSession
    <3>4. Ages /\ Daemon!TypeOK' /\ status'[NewToken] = "live"
      BY <1>1, <3>1, <3>3 DEF Ages, Daemon!TypeOK
    <3>5. successor' = successor /\ proc[p].cmd # "revoke" /\ proc[p].asked # Mixed
      BY <1>4, FreshType DEF ServeLogin, Stage
    <3> QED
      BY <1>1, <2>1, <3>1, <3>2, <3>4, <3>5, ReplyStep
  <2> QED
    BY <1>3, <1>4, <2>1 DEF ServeLogin
<1>5. CASE ServeReconnect(p)
  <2> DEFINE t == proc[p].asked
  <2>1. CASE /\ Live(t) /\ CanMint /\ Daemon!Replace(t, NewToken)
             /\ successor' = [successor EXCEPT ![t] = NewToken]
             /\ Replied(p, "ok", NewToken, owner[t])
    <3>1. NewToken \in Token /\ status[NewToken] = "new"
      BY <2>1, NewTokenIsNew
    <3>2. NewToken # None /\ t \in Token /\ owner[t] \in Session \cup {None}
      BY <1>1, <2>1, <3>1, ClientAssumption DEF ClientAssumption, Live
    <3>3. /\ status' = [status EXCEPT ![t] = "dead", ![NewToken] = "live"] /\ status[t] = "live"
          /\ owner' = [owner EXCEPT ![NewToken] = owner[t]]
      BY <2>1 DEF Daemon!Replace
    <3> HIDE DEF NewToken, t
    <3>4. Ages /\ Daemon!TypeOK' /\ status'[NewToken] = "live"
      BY <1>1, <3>1, <3>2, <3>3 DEF Ages, Daemon!TypeOK
    <3>5. proc[p].cmd # "revoke" /\ t = proc[p].asked /\ t # Mixed
      BY <1>5, <3>2, ClientAssumption DEF ClientAssumption, ServeReconnect, Reconnecting, t
    <3> QED
      BY <1>1, <2>1, <3>1, <3>2, <3>4, <3>5, ReplyStep
  <2> QED
    BY <1>3, <1>5, <2>1 DEF ServeReconnect, Denial
<1>6. CASE ServeRefresh(p)
  BY <1>3, <1>6 DEF ServeRefresh, Denial
<1>7. CASE ServeRevoke(p)
  <2> DEFINE t == proc[p].asked
  <2>1. CASE /\ status' = [status EXCEPT ![t] = "dead"]
             /\ Replied(p, IF Live(t) THEN "ok" ELSE "token_revoked", None, None)
    <3>1. Ages /\ Daemon!TypeOK'
      BY <1>1, <1>7, <2>1 DEF ServeRevoke, Ages, Daemon!TypeOK
    <3>2. proc[p].cmd = "revoke" /\ successor' = successor
      BY <1>7 DEF ServeRevoke
    <3>3. PICK code \in {"ok", "token_revoked"} : Replied(p, code, None, None)
      BY <2>1
    <3> QED
      BY <1>1, <3>1, <3>2, <3>3, ReplyStep
  <2> QED
    BY <1>3, <1>7, <2>1 DEF ServeRevoke, serverVars
<1> QED
  BY <1>4, <1>5, <1>6, <1>7 DEF Serve

LEMMA KillIInv == IInv /\ ServerKills => IInv'
<1> SUFFICES ASSUME IInv, ServerKills PROVE IInv'
  OBVIOUS
<1>1. UNCHANGED <<file, proc, successor, dropped, linked, owner>>
  BY DEF ServerKills, Daemon!Kill
<1>2. Ages /\ Daemon!TypeOK' /\ \A t \in Token : status'[t] = "new" => status[t] = "new"
  BY DEF IInv, TypeOK, Daemon!TypeOK, ServerKills, Daemon!Kill, Ages
<1>3. TypeOK' /\ Unissued'
  BY <1>1, <1>2 DEF IInv, TypeOK, Unissued, ServerKills
<1>4. Private' /\ FileNotSuperseded'
  BY <1>1 DEF IInv, Private, Holding, FileNotSuperseded, Writing
<1>5. Stages'
  BY <1>1, <1>2, AgesStage DEF Stages
<1> QED
  BY <1>3, <1>4, <1>5 DEF IInv

LEMMA StepIInv == IInv /\ [Next]_vars => IInv'
<1> SUFFICES ASSUME IInv, [Next]_vars PROVE IInv'
  OBVIOUS
<1>1. CASE UNCHANGED vars
  BY <1>1 DEF vars, IInv, TypeOK, Daemon!TypeOK, Unissued, Private, Holding, Stages,
              FileNotSuperseded, Writing
<1> QED
  BY <1>1, BeginIInv, EndsIInv, ReplyIInv, CallIInv, FileStepIInv, WriteIInv, NewlineIInv, ServeIInv, KillIInv DEF Next

LEMMA Invariance == Spec => []IInv
BY InitIInv, StepIInv, PTL DEF Spec

\* The records of the commands, the file and the daemon's tokens stay well
\* formed through every interleaving, loss and kill.
THEOREM ClientTypes == Spec => []TypeOK
<1>1. IInv => TypeOK
  BY DEF IInv
<1> QED
  BY <1>1, Invariance, PTL

\* No slow writer puts a superseded token back: the file holds one only while
\* its successor is about to be written or was lost.
THEOREM NoSupersededToken == Spec => []FileNotSuperseded
<1>1. IInv => FileNotSuperseded
  BY DEF IInv
<1> QED
  BY <1>1, Invariance, PTL

\* The calls of the bank tool and of "message send" are refused only if the new
\* token died or somebody else changed the file.
THEOREM ToolsAreServed == Spec => []ToolsServed
<1>1. IInv => ToolsServed
  BY DEF IInv, Stages, Stage, ToolsServed, Served, Live, Tool
<1> QED
  BY <1>1, Invariance, PTL

---------------------------------------------------------------------------
\* A step of the clients takes a step of the daemon or leaves it alone; that a
\* token to revoke was issued before is what Unissued is for.
LEMMA DaemonStep == IInv /\ [Next]_vars => [Daemon!Next]_(Daemon!vars)
<1> SUFFICES ASSUME IInv, [Next]_vars, ~UNCHANGED serverVars PROVE Daemon!Next
  BY DEF Daemon!vars, serverVars
<1>1. status \in [Token -> {"new", "live", "dead"}]
  BY DEF IInv, TypeOK, Daemon!TypeOK
<1>2. CASE ServerKills
  BY <1>2 DEF ServerKills, Daemon!Next
<1>3. ASSUME NEW p \in Process, Serve(p)
      PROVE  Daemon!Next
  <2> DEFINE t == proc[p].asked
  <2>1. t \in Content
    BY FreshType
  <2>2. CASE CanLogin /\ Daemon!Start(NewToken, NewSession)
    <3>1. NewToken \in Token /\ NewSession \in Session
      BY <2>2, NewTokenIsNew DEF CanLogin, NewSession
    <3> QED
      BY <2>2, <3>1 DEF Daemon!Next
  <2>3. CASE Live(t) /\ CanMint /\ Daemon!Replace(t, NewToken)
    <3>1. NewToken \in Token /\ t \in Token
      BY <2>1, <2>3, NewTokenIsNew DEF Live
    <3> QED
      BY <2>3, <3>1 DEF Daemon!Next
  <2>4. CASE status' = [status EXCEPT ![t] = "dead"] /\ UNCHANGED owner
    <3>1. t \in Token
      BY <1>1, <2>1, <2>4 DEF serverVars
    <3>2. status[t] # "new"
      BY <3>1 DEF IInv, Unissued
    <3>3. status[t] = "live"
      BY <1>1, <2>4, <3>1, <3>2 DEF serverVars
    <3>4. \E dead \in SUBSET {u \in Token : status[u] = "live"} :
             status' = [u \in Token |-> IF u \in dead THEN "dead" ELSE status[u]]
      <4>1. {t} \in SUBSET {u \in Token : status[u] = "live"}
        BY <3>1, <3>3
      <4>2. status' = [u \in Token |-> IF u \in {t} THEN "dead" ELSE status[u]]
        BY <1>1, <2>4
      <4> QED
        BY <4>1, <4>2
    <3> QED
      BY <2>4, <3>4 DEF Daemon!Next, Daemon!Kill
  <2> QED
    BY <1>3, <2>2, <2>3, <2>4
       DEF Serve, ServeLogin, ServeReconnect, ServeRefresh, ServeRevoke, serverVars
<1> QED
  BY <1>2, <1>3
     DEF Next, vars, serverVars, Begin, TimeOut, Refused, Accepted, PushAccepted, RevokeAccepted,
         Truncate, Write, Newline, WriteFails, Unlink, Open, CallServed, CallRetried, CallRefused, Finish, Die

\* Whatever the clients do, the daemon they talk to behaves as BearerTokens
\* says, so that a session never has two live tokens here either.
THEOREM ClientsKeepDaemon == Spec => Daemon!Spec
<1>1. Init => Daemon!Init
  BY DEF Init
<1> QED
  BY <1>1, Invariance, DaemonStep, PTL DEF Spec, Daemon!Spec
=============================================================================
