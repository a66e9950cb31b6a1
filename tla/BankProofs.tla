----------------------------- MODULE BankProofs -----------------------------
(***************************************************************************)
(* Safety of the ledger, for any number of members, tools, amounts and     *)
(* transfers.                                                              *)
(***************************************************************************)
EXTENDS BankLedger, FiniteSetTheorems, WellFoundedInduction, TLAPS

LedgerType ==
    /\ account \in [Member -> Nat \cup {None}]
    /\ posted \in [Member -> Int]
    /\ transfer \in [TransferId -> Transfer \cup {None}]

\* What the fields of a request are.
LEMMA OpFields ==
    ASSUME NEW op \in Op
    PROVE  /\ op.op \in {"add", "remove", "transfer", "approve", "reject",
                         "balance", "pending", "read"}
           /\ op.op \in {"add", "remove", "transfer"} => op.amount \in Amount
           /\ op.op = "transfer" => op.to \in Member
           /\ op.op \in {"approve", "reject"} => op.id \in TransferId
<1>1. CASE op \in MoveOp
    BY <1>1 DEF MoveOp
<1>2. CASE op \in TransferOp
    BY <1>2 DEF TransferOp
<1>3. CASE op \in ResponseOp
    BY <1>3 DEF ResponseOp
<1>4. CASE op \in LookOp
    BY <1>4 DEF LookOp
<1> QED
    BY <1>1, <1>2, <1>3, <1>4 DEF Op

LEMMA ToolFacts ==
    ASSUME NEW p \in Tool
    PROVE  Actor[p] \in Member /\ Account[p] \in Member
BY BankAssumption

LEMMA BalanceFacts ==
    ASSUME LedgerType, NEW m \in Member
    PROVE  BalanceOf(m) \in Nat /\ (account[m] # None => account[m] \in Nat)
BY DEF LedgerType, BalanceOf

\* A new transfer takes an id that no transfer has.
LEMMA SmallestFree ==
    ASSUME FreeIds # {}
    PROVE  (CHOOSE i \in FreeIds : \A j \in FreeIds : i <= j) \in FreeIds
<1> DEFINE Less == {pair \in Nat \X Nat : pair[1] < pair[2]}
<1>1. FreeIds \subseteq Nat
    BY BankAssumption DEF FreeIds
<1>2. IsWellFoundedOn(Less, Nat)
    BY NatLessThanWellFounded DEF OpToRel
<1>3. \E i \in FreeIds : \A j \in FreeIds : <<j, i>> \notin Less
    <2> HIDE DEF Less
    <2> QED
        BY <1>1, <1>2, WFMin, Zenon
<1>4. PICK i \in FreeIds : \A j \in FreeIds : <<j, i>> \notin Less
    BY <1>3
<1>5. \A a, b \in Nat : a < b => <<a, b>> \in Less
    OBVIOUS
<1>6. \A j \in FreeIds : i <= j
    <2> SUFFICES ASSUME NEW j \in FreeIds PROVE i <= j
        OBVIOUS
    <2>1. i \in Nat /\ j \in Nat
        BY <1>1
    <2>2. ~(j < i)
        <3> HIDE DEF Less
        <3> QED
            BY <1>4, <1>5, <2>1, Zenon
    <2> QED
        BY <2>1, <2>2
<1> QED
    BY <1>4, <1>6

---------------------------------------------------------------------------
LEMMA AddStep ==
    ASSUME LedgerType, NEW p \in Tool, NEW op \in Op, Add(p, op)
    PROVE  LedgerType' /\ (BalancesMatch => BalancesMatch')
<1> DEFINE m == Account[p]
<1>1. m \in Member /\ op.amount \in Nat
    BY ToolFacts, OpFields, BankAssumption DEF Add
<1>2. /\ account' = [account EXCEPT ![m] = BalanceOf(m) + op.amount]
      /\ posted' = [posted EXCEPT ![m] = posted[m] + op.amount]
      /\ transfer' = transfer
    BY DEF Add, AddBalance, Post
<1>3. BalanceOf(m) \in Nat
    BY <1>1, BalanceFacts
<1>4. LedgerType'
    BY <1>1, <1>2, <1>3 DEF LedgerType
<1>5. ASSUME BalancesMatch, NEW n \in Member
      PROVE  BalanceOf(n)' >= 0 /\ BalanceOf(n)' = posted'[n]
    <2>1. BalanceOf(n) = posted[n] /\ BalanceOf(n) >= 0 /\ BalanceOf(n) \in Nat
        BY <1>5, BalanceFacts DEF BalancesMatch
    <2>2. CASE n = m
        <3>1. account'[n] = BalanceOf(n) + op.amount /\ account'[n] \in Nat
            BY <1>1, <1>2, <1>3, <2>2 DEF LedgerType
        <3>2. BalanceOf(n)' = account'[n]
            BY <3>1, BankAssumption DEF BalanceOf
        <3> QED
            BY <1>1, <1>2, <2>1, <2>2, <3>1, <3>2 DEF LedgerType
    <2>3. CASE n # m
        BY <1>1, <1>2, <2>1, <2>3 DEF LedgerType, BalanceOf
    <2> QED
        BY <2>2, <2>3
<1> QED
    BY <1>4, <1>5 DEF BalancesMatch

LEMMA RemoveStep ==
    ASSUME LedgerType, NEW p \in Tool, NEW op \in Op, Remove(p, op)
    PROVE  LedgerType' /\ (BalancesMatch => BalancesMatch')
<1> DEFINE m == Account[p]
<1>1. m \in Member /\ op.amount \in Nat
    BY ToolFacts, OpFields, BankAssumption DEF Remove
<1>2. /\ account' = [account EXCEPT ![m] = account[m] - op.amount]
      /\ posted' = [posted EXCEPT ![m] = posted[m] + (-op.amount)]
      /\ transfer' = transfer
    BY DEF Remove, Post
<1>3. account[m] # None /\ account[m] \in Nat /\ account[m] - op.amount \in Nat
    BY <1>1, BalanceFacts DEF Remove, Enough
<1>4. LedgerType'
    BY <1>1, <1>2, <1>3 DEF LedgerType
<1>5. ASSUME BalancesMatch, NEW n \in Member
      PROVE  BalanceOf(n)' >= 0 /\ BalanceOf(n)' = posted'[n]
    <2>1. BalanceOf(n) = posted[n] /\ BalanceOf(n) >= 0 /\ BalanceOf(n) \in Nat
        BY <1>5, BalanceFacts DEF BalancesMatch
    <2>2. CASE n = m
        <3>1. BalanceOf(n) = account[n]
            BY <1>3, <2>2 DEF BalanceOf
        <3>2. account'[n] = account[n] - op.amount /\ account'[n] \in Nat
            BY <1>1, <1>2, <1>3, <2>2 DEF LedgerType
        <3>3. BalanceOf(n)' = account'[n]
            BY <3>2, BankAssumption DEF BalanceOf
        <3> QED
            BY <1>1, <1>2, <2>1, <2>2, <3>1, <3>2, <3>3 DEF LedgerType
    <2>3. CASE n # m
        BY <1>1, <1>2, <2>1, <2>3 DEF LedgerType, BalanceOf
    <2> QED
        BY <2>2, <2>3
<1> QED
    BY <1>4, <1>5 DEF BalancesMatch

\* A request adds a row under a free id; an answer changes the status of one
\* that is pending.  Neither touches a balance.
Decided(i) == transfer[i] # None /\ ~(transfer[i].status = "pending")

LEMMA RequestStep ==
    ASSUME LedgerType, NEW p \in Tool, NEW op \in Op, RequestTransfer(p, op)
    PROVE  /\ LedgerType' /\ UNCHANGED <<account, posted>>
           /\ \A i \in TransferId : Decided(i) => transfer'[i] = transfer[i]
<1> DEFINE new == CHOOSE i \in FreeIds : \A j \in FreeIds : i <= j
           row == [from |-> Account[p], to |-> op.to, amount |-> op.amount,
                   status |-> "pending", by |-> Actor[p]]
<1>1. new \in TransferId /\ transfer[new] = None
    BY SmallestFree DEF RequestTransfer, FreeIds
<1>2. transfer' = [transfer EXCEPT ![new] = row] /\ UNCHANGED <<account, posted>>
    BY DEF RequestTransfer
<1>3. row \in Transfer
    BY ToolFacts, OpFields DEF RequestTransfer, Transfer
<1> HIDE DEF new, row
<1> QED
    BY <1>1, <1>2, <1>3 DEF LedgerType, Decided

LEMMA RespondStep ==
    ASSUME LedgerType, NEW p \in Tool, NEW op \in Op, Respond(p, op)
    PROVE  /\ LedgerType' /\ UNCHANGED <<account, posted>>
           /\ \A i \in TransferId : Decided(i) => transfer'[i] = transfer[i]
<1> DEFINE new == IF op.op = "approve" THEN "approved" ELSE "rejected"
           row == [transfer[op.id] EXCEPT !.status = new]
<1>1. /\ op.id \in TransferId /\ transfer[op.id] # None
      /\ transfer[op.id].status = "pending"
    BY OpFields DEF Respond, Open
<1>2. transfer[op.id] \in Transfer
    BY <1>1 DEF LedgerType
<1>3. row \in Transfer
    BY <1>2 DEF Transfer
<1>4. transfer' = [transfer EXCEPT ![op.id] = row] /\ UNCHANGED <<account, posted>>
    BY DEF Respond
<1> HIDE DEF row
<1> QED
    BY <1>1, <1>3, <1>4 DEF LedgerType, Decided

\* Whatever operation the daemon performs.
LEMMA PerformStep ==
    ASSUME LedgerType, NEW p \in Tool, NEW op \in Op, Perform(p, op)
    PROVE  /\ LedgerType'
           /\ BalancesMatch => BalancesMatch'
           /\ \A i \in TransferId : Decided(i) => transfer'[i] = transfer[i]
<1>1. CASE Add(p, op)
    BY <1>1, AddStep DEF Add
<1>2. CASE Remove(p, op)
    BY <1>2, RemoveStep DEF Remove
<1>3. CASE RequestTransfer(p, op)
    BY <1>3, RequestStep DEF BalancesMatch, BalanceOf
<1>4. CASE Respond(p, op)
    BY <1>4, RespondStep DEF BalancesMatch, BalanceOf
<1>5. CASE Look(p, op)
    BY <1>5 DEF Look, ledgerVars, LedgerType, BalancesMatch, BalanceOf
<1> QED
    BY <1>1, <1>2, <1>3, <1>4, <1>5 DEF Perform

---------------------------------------------------------------------------
LEMMA PendingCount ==
    ASSUME NEW p \in Tool
    PROVE  Cardinality(PendingFor(p)) \in Nat
<1>1. PendingFor(p) \subseteq TransferId
    BY DEF PendingFor
<1>2. IsFiniteSet(PendingFor(p))
    BY <1>1, FS_Subset, BankAssumption
<1> QED
    BY <1>2, FS_CardinalityType

\* The answer to a request leaves every tool well typed.
LEMMA ToldStep ==
    ASSUME TypeOK, NEW r \in wire, NEW ok \in BOOLEAN, NEW value \in Nat, Told(r, ok, value)
    PROVE  tool' \in [Tool -> ToolState] /\ overtaken' \subseteq Tool
<1> DEFINE p == r.tool
           heard == [tool[p] EXCEPT !.answer = [ok |-> ok, value |-> value]]
<1>1. p \in Tool /\ tool[p] \in ToolState
    BY DEF TypeOK, Request
<1>2. heard \in ToolState
    <2>1. [ok |-> ok, value |-> value] \in Answer
        BY DEF Answer
    <2> QED
        BY <1>1, <2>1 DEF ToolState
<1>3. tool' = [tool EXCEPT ![p] = heard] \/ tool' = tool
    BY DEF Told, Update
<1>4. overtaken' \subseteq Tool
    BY Zenon DEF Told
<1> HIDE DEF heard
<1> QED
    BY <1>1, <1>2, <1>3, <1>4 DEF TypeOK

LEMMA AfterType ==
    ASSUME TypeOK, NEW p \in Tool, NEW ok \in BOOLEAN, NEW value \in Nat, tool[p].op # None
    PROVE  AfterCall(tool[p], ok, value) \in ToolState
<1>1. tool[p] \in ToolState /\ tool[p].op \in Op
    BY DEF TypeOK, ToolState
<1>2. ASSUME NEW balance \in Nat, NEW found \in BOOLEAN
      PROVE  Cached(tool[p], balance, found) \in ToolState
    BY <1>1 DEF Cached, ToolState
<1>3. [tool[p] EXCEPT !.dirty = TRUE] \in ToolState
    BY <1>1 DEF ToolState
<1>4. AfterLookup(tool[p], ok, value) \in ToolState
    BY <1>2 DEF AfterLookup
<1>5. AfterMove(tool[p], ok, value) \in ToolState
    BY <1>2, <1>3 DEF AfterMove, FailedCommand
<1>6. AfterTransfer(tool[p]) \in ToolState
    BY <1>3 DEF AfterTransfer
<1> QED
    BY <1>1, <1>4, <1>5, <1>6 DEF AfterCall

\* What follows a call leaves the tool well typed.
LEMMA ReturnStep ==
    ASSUME TypeOK, NEW p \in Tool, NEW ok \in BOOLEAN, NEW value \in Nat,
           tool[p].op # None, Return(p, ok, value)
    PROVE  tool' \in [Tool -> ToolState]
<1> DEFINE after == AfterCall(tool[p], ok, value)
           place == CASE Crashes(p, ok, value) -> "quit"
                      [] tool[p].at = "bar"    -> "menu"
                      [] OTHER                 -> "command"
           state == [after EXCEPT !.at = place, !.op = None, !.answer = None]
<1>1. after \in ToolState
    BY AfterType
<1>2. place \in {"quit", "menu", "command"}
    OBVIOUS
<1>3. tool' = [tool EXCEPT ![p] = state]
    BY DEF Return, Update
<1>4. state \in ToolState
    <2> HIDE DEF after, place
    <2> QED
        BY <1>1, <1>2 DEF ToolState
<1> HIDE DEF state
<1> QED
    BY <1>3, <1>4 DEF TypeOK

LEMMA CallStep ==
    ASSUME TypeOK, NEW p \in Tool, NEW place \in {"command", "bar"}, NEW op \in Op,
           Call(p, place, op)
    PROVE  TypeOK'
<1> DEFINE state == [tool[p] EXCEPT !.at = place, !.calls = @ + 1, !.op = op, !.answer = None]
           m == Account[p]
<1>1. tool[p] \in ToolState /\ m \in Member /\ told[m] \in Reports
    BY ToolFacts DEF TypeOK
<1>2. tool[p].calls + 1 \in Nat
    BY <1>1 DEF ToolState
<1>3. state \in ToolState
    <2> DEFINE next == tool[p].calls + 1
    <2>1. next \in Nat
        BY <1>2
    <2>2. state = [tool[p] EXCEPT !.at = place, !.calls = next, !.op = op, !.answer = None]
        BY <1>1 DEF ToolState
    <2> HIDE DEF next, state
    <2> QED
        BY <1>1, <2>1, <2>2 DEF ToolState
<1>4. [tool |-> p, n |-> tool[p].calls + 1, op |-> op] \in Request
    BY <1>1 DEF ToolState, Request
<1>5. Sent(op, told[m]) \in Reports
    <2>1. op.op \in {"add", "remove"} => op.amount \in Nat
        BY OpFields, BankAssumption
    <2> QED
        BY <1>1, <2>1 DEF Sent, Reports
<1>6. tool' \in [Tool -> ToolState]
    <2> HIDE DEF state
    <2>1. tool' = [tool EXCEPT ![p] = state]
        BY DEF Call, Update, state
    <2> QED
        BY <1>3, <2>1 DEF TypeOK
<1>7. told' \in [Member -> Reports]
    BY <1>1, <1>5 DEF Call, TypeOK
<1>8. wire' \subseteq Request
    BY <1>4 DEF Call, TypeOK
<1> QED
    BY <1>6, <1>7, <1>8 DEF Call, TypeOK, ledgerVars

LEMMA ExecuteStep ==
    ASSUME TypeOK, NEW r \in wire, Execute(r)
    PROVE  /\ TypeOK'
           /\ BalancesMatch => BalancesMatch'
           /\ \A i \in TransferId : Decided(i) => transfer'[i] = transfer[i]
<1>1. r.tool \in Tool /\ r.op \in Op /\ LedgerType
    BY DEF TypeOK, Request, LedgerType
<1>2. /\ LedgerType'
      /\ BalancesMatch => BalancesMatch'
      /\ \A i \in TransferId : Decided(i) => transfer'[i] = transfer[i]
    BY <1>1, PerformStep DEF Execute
<1>3. tool' \in [Tool -> ToolState] /\ overtaken' \subseteq Tool
    <2> DEFINE value == CASE r.op.op = "pending"              -> Cardinality(PendingFor(r.tool))
                          [] account'[Account[r.tool]] = None -> 0
                          [] OTHER                            -> account'[Account[r.tool]]
    <2>1. account'[Account[r.tool]] \in Nat \cup {None}
        BY <1>1, <1>2, ToolFacts DEF LedgerType
    <2>2. value \in Nat
        BY <1>1, <2>1, PendingCount
    <2>3. Told(r, TRUE, value) \/ Told(r, FALSE, 0)
        BY DEF Execute
    <2> HIDE DEF value
    <2> QED
        BY <1>2, <2>2, <2>3, ToldStep
<1>4. wire' \subseteq Request
    BY DEF Execute, Taken, TypeOK
<1> QED
    BY <1>2, <1>3, <1>4 DEF Execute, TypeOK, LedgerType

LEMMA RefuseStep == ASSUME TypeOK, NEW r \in wire, Refuse(r) PROVE TypeOK'
<1>1. LedgerType'
    BY DEF Refuse, ledgerVars, TypeOK, LedgerType
<1>2. tool' \in [Tool -> ToolState] /\ overtaken' \subseteq Tool
    BY ToldStep DEF Refuse
<1> QED
    BY <1>1, <1>2 DEF Refuse, Taken, TypeOK, LedgerType

LEMMA LoseStep == ASSUME TypeOK, NEW r \in wire, Lose(r) PROVE TypeOK'
BY DEF Lose, Taken, TypeOK, ledgerVars

LEMMA DeclineStep == ASSUME TypeOK, NEW p \in Tool, Decline(p) PROVE TypeOK'
<1>1. PICK dirty \in {TRUE, tool[p].dirty} :
        tool' = [tool EXCEPT ![p] = [tool[p] EXCEPT !.at = "command", !.dirty = dirty]]
    BY DEF Decline, Update
<1>2. [tool[p] EXCEPT !.at = "command", !.dirty = dirty] \in ToolState
    BY DEF TypeOK, ToolState
<1>3. tool' \in [Tool -> ToolState]
    BY <1>1, <1>2 DEF TypeOK
<1> QED
    BY <1>3 DEF Decline, TypeOK, ledgerVars

LEMMA ConfirmedType ==
    ASSUME NEW op \in Op, NEW report \in Reports
    PROVE  Confirmed(op, report) \in Reports
<1> DEFINE a == report.added - op.amount
           r == report.removed - op.amount
           up == report.confirmed + op.amount
           down == report.confirmed - op.amount
<1>1. report.added \in Int /\ report.removed \in Int /\ report.confirmed \in Int
    BY DEF Reports
<1>2. ASSUME op.op \in {"add", "remove"}
      PROVE  a \in Int /\ r \in Int /\ up \in Int /\ down \in Int
    <2>1. op.amount \in Amount
        BY <1>2, OpFields
    <2>2. op.amount \in Nat
        BY <2>1, BankAssumption
    <2> QED
        BY <1>1, <2>2
<1>3. CASE op.op = "add"
    <2>1. Confirmed(op, report) = [report EXCEPT !.added = a, !.confirmed = up]
        BY <1>3 DEF Confirmed, Reports
    <2>2. a \in Int /\ up \in Int
        BY <1>2, <1>3
    <2> HIDE DEF a, up
    <2> QED
        BY <2>1, <2>2 DEF Reports
<1>4. CASE op.op = "remove"
    <2>1. Confirmed(op, report) = [report EXCEPT !.removed = r, !.confirmed = down]
        BY <1>4 DEF Confirmed, Reports
    <2>2. r \in Int /\ down \in Int
        BY <1>2, <1>4
    <2> HIDE DEF r, down
    <2> QED
        BY <2>1, <2>2 DEF Reports
<1>5. CASE op.op \notin {"add", "remove"}
    BY <1>5 DEF Confirmed
<1> QED
    BY <1>3, <1>4, <1>5

LEMMA ReceiveStep == ASSUME TypeOK, NEW p \in Tool, Receive(p), tool[p].op # None PROVE TypeOK'
<1> DEFINE m == Account[p]
           op == tool[p].op
<1>1. /\ tool[p].answer.ok \in BOOLEAN /\ tool[p].answer.value \in Nat
      /\ op \in Op /\ m \in Member /\ told[m] \in Reports
    BY ToolFacts DEF Receive, TypeOK, ToolState, Answer
<1>2. tool' \in [Tool -> ToolState]
    BY <1>1, ReturnStep DEF Receive
<1>3. Confirmed(op, told[m]) \in Reports
    BY <1>1, ConfirmedType
<1>4. told' \in [Member -> Reports]
    BY <1>1, <1>3 DEF Receive, TypeOK
<1> QED
    BY <1>2, <1>4 DEF Receive, TypeOK, ledgerVars

LEMMA GiveUpStep == ASSUME TypeOK, NEW p \in Tool, GiveUp(p) PROVE TypeOK'
<1>1. tool' \in [Tool -> ToolState]
    BY ReturnStep DEF GiveUp
<1>2. giveUps' \in 0 .. MaxGiveUps
    BY BankAssumption DEF GiveUp, TypeOK
<1> QED
    BY <1>1, <1>2 DEF GiveUp, TypeOK, ledgerVars

LEMMA MenuStep ==
    ASSUME TypeOK, NEW p \in Tool, NEW place \in {"menu", "quit"},
           Update(p, [tool[p] EXCEPT !.at = place]),
           UNCHANGED <<ledgerVars, wire, giveUps, told, overtaken>>
    PROVE  TypeOK'
<1>1. [tool[p] EXCEPT !.at = place] \in ToolState
    BY DEF TypeOK, ToolState
<1>2. tool' \in [Tool -> ToolState]
    BY <1>1 DEF TypeOK, Update
<1> QED
    BY <1>2 DEF TypeOK, ledgerVars

---------------------------------------------------------------------------
(***************************************************************************)
(* The inductive invariant.  The balances need the types alone; Asking is  *)
(* there for the type of what Receive makes of an answer.                  *)
(***************************************************************************)
Asking == \A p \in Tool : tool[p].answer # None => tool[p].op # None

Inv == TypeOK /\ Asking /\ BalancesMatch

LEMMA InitInv == Init => Inv
<1> SUFFICES ASSUME Init PROVE Inv
    OBVIOUS
<1>1. Started \in ToolState
    BY DEF Started, ToolState
<1>2. TypeOK
    BY <1>1, BankAssumption DEF Init, TypeOK, Reports
<1>3. Asking
    BY DEF Init, Asking, Started
<1>4. BalancesMatch
    BY DEF Init, BalancesMatch, BalanceOf
<1> QED
    BY <1>2, <1>3, <1>4 DEF Inv

\* The bank's tables change in Execute only.
LEMMA LedgerKept ==
    ASSUME BalancesMatch, UNCHANGED ledgerVars
    PROVE  /\ BalancesMatch'
           /\ \A i \in TransferId : Decided(i) => transfer'[i] = transfer[i]
BY DEF BalancesMatch, BalanceOf, ledgerVars

\* Asking, for a step that changes the state of one tool.
LEMMA AskingKept ==
    ASSUME TypeOK, Asking, NEW p \in Tool, NEW state, tool' = [tool EXCEPT ![p] = state],
           state.answer # None => state.op # None
    PROVE  Asking'
BY DEF TypeOK, Asking

LEMMA ToldAsking ==
    ASSUME TypeOK, Asking, NEW r \in wire, NEW ok, NEW value, Told(r, ok, value)
    PROVE  Asking'
<1> DEFINE p == r.tool
           heard == [tool[p] EXCEPT !.answer = [ok |-> ok, value |-> value]]
<1>1. p \in Tool /\ tool[p] \in ToolState
    BY DEF TypeOK, Request
<1>2. CASE Awaited(r)
    <2>1. tool' = [tool EXCEPT ![p] = heard]
        BY <1>2 DEF Told, Update
    <2>2. heard.op # None
        BY <1>1, <1>2 DEF Awaited, ToolState
    <2> HIDE DEF heard
    <2> QED
        BY <1>1, <2>1, <2>2, AskingKept
<1>3. CASE ~Awaited(r)
    BY <1>3 DEF Told, Asking
<1> QED
    BY <1>2, <1>3

LEMMA ReturnAsking ==
    ASSUME TypeOK, Asking, NEW p \in Tool, NEW ok \in BOOLEAN, NEW value \in Nat,
           tool[p].op # None, Return(p, ok, value)
    PROVE  Asking'
<1>1. tool'[p].answer = None
    <2> DEFINE after == AfterCall(tool[p], ok, value)
    <2>1. after \in ToolState
        BY AfterType
    <2>2. PICK place : tool' = [tool EXCEPT ![p] = [after EXCEPT !.at = place, !.op = None, !.answer = None]]
        BY DEF Return, Update
    <2> HIDE DEF after
    <2> QED
        BY <2>1, <2>2 DEF TypeOK, ToolState
<1>2. \A q \in Tool : q # p => tool'[q] = tool[q]
    BY DEF Return, Update, TypeOK
<1> QED
    BY <1>1, <1>2 DEF Asking

LEMMA CallAsking ==
    ASSUME TypeOK, Asking, NEW p \in Tool, NEW place, NEW op, Call(p, place, op)
    PROVE  Asking'
<1> DEFINE state == [tool[p] EXCEPT !.at = place, !.calls = @ + 1, !.op = op, !.answer = None]
<1>1. state.answer = None
    BY DEF TypeOK, ToolState
<1>2. tool' = [tool EXCEPT ![p] = state]
    BY DEF Call, Update
<1> HIDE DEF state
<1> QED
    BY <1>1, <1>2, AskingKept

\* A step that only moves the tool, and may mark its balance dirty.
LEMMA MoveAsking ==
    ASSUME TypeOK, Asking, NEW p \in Tool, NEW place, NEW dirty,
           \/ tool' = [tool EXCEPT ![p] = [tool[p] EXCEPT !.at = place]]
           \/ tool' = [tool EXCEPT ![p] = [tool[p] EXCEPT !.at = place, !.dirty = dirty]]
    PROVE  Asking'
<1> DEFINE moved == [tool[p] EXCEPT !.at = place]
           marked == [tool[p] EXCEPT !.at = place, !.dirty = dirty]
<1>1. /\ moved.op = tool[p].op /\ moved.answer = tool[p].answer
      /\ marked.op = tool[p].op /\ marked.answer = tool[p].answer
    BY DEF TypeOK, ToolState
<1>2. tool' = [tool EXCEPT ![p] = moved] \/ tool' = [tool EXCEPT ![p] = marked]
    OBVIOUS
<1> HIDE DEF moved, marked
<1> QED
    BY <1>1, <1>2, AskingKept DEF Asking

LEMMA Inductive ==
    ASSUME Inv, [Next]_vars
    PROVE  Inv' /\ \A i \in TransferId : Decided(i) => transfer'[i] = transfer[i]
<1> USE DEF Inv
<1>1. ASSUME NEW r \in wire, Execute(r)
      PROVE  Inv' /\ \A i \in TransferId : Decided(i) => transfer'[i] = transfer[i]
    <2>1. Asking'
        BY <1>1, ToldAsking DEF Execute
    <2> QED
        BY <1>1, <2>1, ExecuteStep
<1>2. ASSUME NEW r \in wire, Refuse(r)
      PROVE  Inv' /\ UNCHANGED ledgerVars
    <2>1. Asking'
        BY <1>2, ToldAsking DEF Refuse
    <2>2. UNCHANGED ledgerVars
        BY <1>2 DEF Refuse
    <2> QED
        BY <1>2, <2>1, <2>2, RefuseStep, LedgerKept
<1>3. ASSUME NEW r \in wire, Lose(r)
      PROVE  Inv' /\ UNCHANGED ledgerVars
    <2>1. UNCHANGED ledgerVars /\ UNCHANGED tool
        BY <1>3 DEF Lose
    <2> QED
        BY <1>3, <2>1, LoseStep, LedgerKept DEF Asking
<1>4. ASSUME NEW p \in Tool, NEW op \in Op, Command(p, op)
      PROVE  Inv' /\ UNCHANGED ledgerVars
    <2>1. Call(p, "command", op) /\ UNCHANGED ledgerVars
        BY <1>4 DEF Command, Call
    <2> QED
        BY <2>1, CallStep, CallAsking, LedgerKept
<1>5. ASSUME NEW p \in Tool, Decline(p)
      PROVE  Inv' /\ UNCHANGED ledgerVars
    <2>1. UNCHANGED ledgerVars
        BY <1>5 DEF Decline
    <2>2. PICK dirty : tool' = [tool EXCEPT ![p] = [tool[p] EXCEPT !.at = "command", !.dirty = dirty]]
        BY <1>5 DEF Decline, Update
    <2> QED
        BY <1>5, <2>1, <2>2, DeclineStep, MoveAsking, LedgerKept
<1>6. ASSUME NEW p \in Tool, Receive(p)
      PROVE  Inv' /\ UNCHANGED ledgerVars
    <2>1. UNCHANGED ledgerVars /\ tool[p].op # None
        BY <1>6 DEF Receive, Asking
    <2>2. tool[p].answer.ok \in BOOLEAN /\ tool[p].answer.value \in Nat
        BY <1>6 DEF Receive, TypeOK, ToolState, Answer
    <2>3. Asking'
        BY <1>6, <2>1, <2>2, ReturnAsking DEF Receive
    <2> QED
        BY <1>6, <2>1, <2>3, ReceiveStep, LedgerKept
<1>7. ASSUME NEW p \in Tool, GiveUp(p)
      PROVE  Inv' /\ UNCHANGED ledgerVars
    <2>1. UNCHANGED ledgerVars /\ tool[p].op # None
        BY <1>7 DEF GiveUp
    <2>2. Asking'
        BY <1>7, <2>1, ReturnAsking DEF GiveUp
    <2> QED
        BY <1>7, <2>1, <2>2, GiveUpStep, LedgerKept
<1>8. ASSUME NEW p \in Tool, DrawBar(p)
      PROVE  Inv' /\ UNCHANGED ledgerVars
    <2>1. CASE Call(p, "bar", [op |-> "balance"])
        <3>1. [op |-> "balance"] \in Op /\ UNCHANGED ledgerVars
            BY <2>1 DEF Op, LookOp, Call
        <3> QED
            BY <2>1, <3>1, CallStep, CallAsking, LedgerKept
    <2>2. CASE /\ Update(p, [tool[p] EXCEPT !.at = "menu"])
               /\ UNCHANGED <<ledgerVars, wire, giveUps, told, overtaken>>
        <3>1. TypeOK'
            BY <2>2, MenuStep
        <3>2. Asking'
            BY <2>2, MoveAsking DEF Update
        <3> QED
            BY <2>2, <3>1, <3>2, LedgerKept
    <2> QED
        BY <1>8, <2>1, <2>2 DEF DrawBar
<1>9. ASSUME NEW p \in Tool, Quit(p)
      PROVE  Inv' /\ UNCHANGED ledgerVars
    <2>1. /\ Update(p, [tool[p] EXCEPT !.at = "quit"])
          /\ UNCHANGED <<ledgerVars, wire, giveUps, told, overtaken>>
        BY <1>9 DEF Quit
    <2>2. TypeOK'
        BY <2>1, MenuStep
    <2>3. Asking'
        BY <2>1, MoveAsking DEF Update
    <2> QED
        BY <2>1, <2>2, <2>3, LedgerKept
<1>10. ASSUME UNCHANGED vars
       PROVE  Inv' /\ UNCHANGED ledgerVars
    BY <1>10 DEF vars, ledgerVars, TypeOK, Asking, BalancesMatch, BalanceOf, Awaited
<1>11. CASE \E r \in wire : Execute(r)
    BY <1>1, <1>11
<1>12. CASE Inv' /\ UNCHANGED ledgerVars
    BY <1>12, LedgerKept
<1> QED
    <2> USE DEF Next
    <2> QED
        BY <1>2, <1>3, <1>4, <1>5, <1>6, <1>7, <1>8, <1>9, <1>10, <1>11, <1>12

\* Every state of the bank and of its tools is well typed: no balance goes
\* below zero, however the calls of several tools cross or are given up on
\* (engine.bed_bank_op, bankservice, the menu of tools/bank.py).
THEOREM BankTypeCorrect == Spec => []TypeOK
<1>1. Init => Inv
    BY InitInv
<1>2. Inv /\ [Next]_vars => Inv'
    BY Inductive
<1>3. Inv => TypeOK
    BY DEF Inv
<1> QED
    BY <1>1, <1>2, <1>3, PTL DEF Spec

\* A balance is never negative and is the sum of the rows posted to it, for
\* any number of members, tools, amounts and calls, given up on or not: the
\* guard of the UPDATE in remove is enough (engine.bed_bank_op).
THEOREM BalancesAlwaysMatch == Spec => []BalancesMatch
<1>1. Init => Inv
    BY InitInv
<1>2. Inv /\ [Next]_vars => Inv'
    BY Inductive
<1>3. Inv => BalancesMatch
    BY DEF Inv
<1> QED
    BY <1>1, <1>2, <1>3, PTL DEF Spec

\* A transfer that was approved or rejected keeps that decision, and its row,
\* whatever crosses it: the UPDATE names a pending row, and a new transfer
\* takes an id of its own (transfer_request, transfer_approve,
\* transfer_reject of engine.bed_bank_op).
THEOREM DecisionsAlwaysStand == Spec => DecisionsStand
<1>1. Init => Inv
    BY InitInv
<1>2. Inv /\ [Next]_vars => Inv'
    BY Inductive
<1>3. Inv /\ [Next]_vars =>
        [\A i \in TransferId :
            (transfer[i] # None /\ ~(transfer[i].status = "pending")) =>
                transfer'[i] = transfer[i]]_vars
    BY Inductive DEF Decided
<1> QED
    BY <1>1, <1>2, <1>3, PTL DEF Spec, DecisionsStand

---------------------------------------------------------------------------
(***************************************************************************)
(* What the steps do to a tool, field by field.                            *)
(***************************************************************************)
LEMMA ToldFields ==
    ASSUME TypeOK, NEW r \in wire, NEW ok \in BOOLEAN, NEW value, Told(r, ok, value)
    PROVE  /\ r.tool \in Tool /\ r.op \in Op
           /\ \A q \in Tool : q # r.tool => tool'[q] = tool[q]
           /\ tool'[r.tool].at = tool[r.tool].at
           /\ tool'[r.tool].calls = tool[r.tool].calls
           /\ tool'[r.tool].op = tool[r.tool].op
           /\ tool'[r.tool].shown = tool[r.tool].shown
           /\ tool'[r.tool].dirty = tool[r.tool].dirty
           /\ tool'[r.tool].misread = tool[r.tool].misread
           /\ Awaited(r) => tool'[r.tool].answer = [ok |-> ok, value |-> value]
           /\ ~Awaited(r) => tool'[r.tool].answer = tool[r.tool].answer
<1> DEFINE p == r.tool
           heard == [tool[p] EXCEPT !.answer = [ok |-> ok, value |-> value]]
<1>1. p \in Tool /\ r.op \in Op /\ tool[p] \in ToolState /\ tool \in [Tool -> ToolState]
    BY DEF TypeOK, Request
<1>2. tool' = IF Awaited(r) THEN [tool EXCEPT ![p] = heard] ELSE tool
    BY <1>1 DEF Told, Update
<1>3. /\ heard.at = tool[p].at /\ heard.calls = tool[p].calls /\ heard.op = tool[p].op
      /\ heard.shown = tool[p].shown /\ heard.dirty = tool[p].dirty
      /\ heard.misread = tool[p].misread
      /\ heard.answer = [ok |-> ok, value |-> value]
    BY <1>1 DEF ToolState
<1>4. /\ \A q \in Tool : q # p => tool'[q] = tool[q]
      /\ Awaited(r) => tool'[p] = heard
      /\ ~Awaited(r) => tool'[p] = tool[p]
    BY <1>1, <1>2
<1> HIDE DEF heard
<1>5. CASE Awaited(r)
    BY <1>1, <1>3, <1>4, <1>5
<1>6. CASE ~Awaited(r)
    BY <1>1, <1>4, <1>6
<1> QED
    BY <1>5, <1>6

\* A reply with the balance brings a tool up to date; the tools of the same
\* account that are not given it are overtaken.
LEMMA ToldOvertakes ==
    ASSUME TypeOK, NEW r \in wire, NEW ok, NEW value, Told(r, ok, value), NEW q \in Tool,
           q \notin overtaken'
    PROVE  IF q = r.tool /\ Awaited(r)
           THEN q \notin overtaken \/ (ok /\ GivesBalance(r.op))
           ELSE q \notin overtaken /\ account'[Account[q]] = account[Account[q]]
BY DEF Told

LEMMA CallFields ==
    ASSUME TypeOK, NEW p \in Tool, NEW place, NEW op, Call(p, place, op)
    PROVE  /\ \A q \in Tool : q # p => tool'[q] = tool[q]
           /\ tool'[p].at = place /\ tool'[p].op = op /\ tool'[p].answer = None
           /\ tool[p].calls \in Nat /\ tool'[p].calls = tool[p].calls + 1
           /\ tool'[p].shown = tool[p].shown /\ tool'[p].dirty = tool[p].dirty
           /\ tool'[p].misread = tool[p].misread
<1> DEFINE next == tool[p].calls + 1
           state == [tool[p] EXCEPT !.at = place, !.calls = next, !.op = op, !.answer = None]
<1>1. tool[p] \in ToolState /\ tool[p].calls \in Nat
    BY DEF TypeOK, ToolState
<1>2. tool' = [tool EXCEPT ![p] = state]
    BY <1>1 DEF Call, Update, ToolState
<1> HIDE DEF next
<1>3. /\ state.at = place /\ state.op = op /\ state.answer = None /\ state.calls = next
      /\ state.shown = tool[p].shown /\ state.dirty = tool[p].dirty
      /\ state.misread = tool[p].misread
    BY <1>1 DEF ToolState
<1> HIDE DEF state
<1>4. tool'[p] = state /\ \A q \in Tool : q # p => tool'[q] = tool[q]
    BY <1>2 DEF TypeOK
<1> QED
    BY <1>1, <1>3, <1>4 DEF next

\* A step that only moves the tool, and may mark its balance dirty.
Moves(p, place) ==
    /\ \A q \in Tool : q # p => tool'[q] = tool[q]
    /\ tool'[p].at = place /\ tool'[p].op = tool[p].op /\ tool'[p].answer = tool[p].answer
    /\ tool'[p].calls = tool[p].calls /\ tool'[p].shown = tool[p].shown
    /\ tool'[p].dirty \in {TRUE, tool[p].dirty}
    /\ tool'[p].misread = tool[p].misread

LEMMA MoveFields ==
    ASSUME TypeOK, NEW p \in Tool, NEW place, NEW dirty \in {TRUE, tool[p].dirty},
           \/ tool' = [tool EXCEPT ![p] = [tool[p] EXCEPT !.at = place]]
           \/ tool' = [tool EXCEPT ![p] = [tool[p] EXCEPT !.at = place, !.dirty = dirty]]
    PROVE  Moves(p, place)
<1> DEFINE moved == [tool[p] EXCEPT !.at = place]
           marked == [tool[p] EXCEPT !.at = place, !.dirty = dirty]
<1>1. tool[p] \in ToolState /\ tool \in [Tool -> ToolState]
    BY DEF TypeOK
<1>2. /\ moved.at = place /\ moved.op = tool[p].op /\ moved.answer = tool[p].answer
      /\ moved.calls = tool[p].calls /\ moved.shown = tool[p].shown
      /\ moved.dirty = tool[p].dirty
      /\ moved.misread = tool[p].misread
    BY <1>1 DEF ToolState
<1>3. /\ marked.at = place /\ marked.op = tool[p].op /\ marked.answer = tool[p].answer
      /\ marked.calls = tool[p].calls /\ marked.shown = tool[p].shown
      /\ marked.dirty = dirty
      /\ marked.misread = tool[p].misread
    BY <1>1 DEF ToolState
<1>4. /\ \A q \in Tool : q # p => tool'[q] = tool[q]
      /\ tool'[p] = moved \/ tool'[p] = marked
    BY <1>1
<1> HIDE DEF moved, marked
<1>5. CASE tool'[p] = moved
    BY <1>2, <1>4, <1>5 DEF Moves
<1>6. CASE tool'[p] = marked
    BY <1>3, <1>4, <1>6 DEF Moves
<1> QED
    BY <1>4, <1>5, <1>6

\* What a command makes of the bar, by the call it made and its outcome.
LEMMA AfterFields ==
    ASSUME NEW t \in ToolState, t.op # None, NEW ok \in BOOLEAN, NEW value \in Nat,
           NEW s, s = AfterCall(t, ok, value)
    PROVE  /\ s \in ToolState /\ s.calls = t.calls
           /\ t.op.op = "balance" =>
                /\ ~s.dirty /\ (s.misread <=> ~ok)
                /\ ok => s.shown = value
           /\ t.op.op \in {"add", "remove"} =>
                /\ ok => ~s.dirty /\ ~s.misread /\ s.shown = value
                /\ ~ok => s.dirty
           /\ t.op.op \in {"transfer", "approve"} => s.dirty
           /\ t.op.op \notin {"balance", "add", "remove", "transfer", "approve"} => s = t
<1>1. ASSUME NEW balance \in Nat, NEW found \in BOOLEAN, s = Cached(t, balance, found)
      PROVE  /\ s \in ToolState /\ s.calls = t.calls
             /\ s.dirty = FALSE /\ s.misread = ~found /\ s.shown = balance
    <2> DEFINE missed == ~found
    <2>1. missed \in BOOLEAN
        OBVIOUS
    <2>2. s = [t EXCEPT !.shown = balance, !.dirty = FALSE, !.misread = missed]
        BY <1>1 DEF Cached
    <2> HIDE DEF missed
    <2>3. /\ s \in ToolState /\ s.calls = t.calls
          /\ s.dirty = FALSE /\ s.misread = missed /\ s.shown = balance
        BY <2>1, <2>2 DEF ToolState
    <2> QED
        BY <2>3 DEF missed
<1>2. ASSUME s = [t EXCEPT !.dirty = TRUE]
      PROVE  s \in ToolState /\ s.calls = t.calls /\ s.dirty = TRUE
    BY <1>2 DEF ToolState
<1>3. CASE t.op.op = "balance"
    <2> DEFINE balance == IF ok THEN value ELSE 0
    <2>1. s = Cached(t, balance, ok)
        BY <1>3 DEF AfterCall, AfterLookup
    <2>2. balance \in Nat
        OBVIOUS
    <2>3. /\ s \in ToolState /\ s.calls = t.calls
          /\ s.dirty = FALSE /\ s.misread = ~ok /\ s.shown = balance
        <3> HIDE DEF balance
        <3> QED
            BY <1>1, <2>1, <2>2
    <2> QED
        BY <1>3, <2>3
<1>4. CASE t.op.op \in {"add", "remove"}
    <2>1. CASE ok
        <3>1. s = Cached(t, value, TRUE)
            BY <1>4, <2>1 DEF AfterCall, AfterMove
        <3>2. /\ s \in ToolState /\ s.calls = t.calls
              /\ s.dirty = FALSE /\ s.misread = FALSE /\ s.shown = value
            BY <1>1, <3>1
        <3> QED
            BY <1>4, <2>1, <3>2
    <2>2. CASE ~ok
        <3>1. s = [t EXCEPT !.dirty = TRUE]
            BY <1>4, <2>2 DEF AfterCall, AfterMove, FailedCommand
        <3> QED
            BY <1>2, <1>4, <2>2, <3>1
    <2> QED
        BY <2>1, <2>2
<1>5. CASE t.op.op \in {"transfer", "approve"}
    <2>1. s = [t EXCEPT !.dirty = TRUE]
        BY <1>5 DEF AfterCall, AfterTransfer
    <2> QED
        BY <1>2, <1>5, <2>1
<1>6. CASE t.op.op \notin {"balance", "add", "remove", "transfer", "approve"}
    <2>1. s = t
        BY <1>6 DEF AfterCall
    <2> QED
        BY <1>6, <2>1
<1> QED
    BY <1>3, <1>4, <1>5, <1>6

LEMMA ReturnFields ==
    ASSUME TypeOK, NEW p \in Tool, NEW ok \in BOOLEAN, NEW value \in Nat,
           tool[p].op # None, Return(p, ok, value),
           NEW s, s = AfterCall(tool[p], ok, value)
    PROVE  /\ \A q \in Tool : q # p => tool'[q] = tool[q]
           /\ tool'[p].op = None /\ tool'[p].answer = None
           /\ tool'[p].calls = s.calls
           /\ tool'[p].dirty = s.dirty /\ tool'[p].misread = s.misread /\ tool'[p].shown = s.shown
           /\ tool'[p].at # "bar" /\ (tool'[p].at = "menu" => tool[p].at = "bar")
<1> DEFINE place == CASE Crashes(p, ok, value) -> "quit"
                      [] tool[p].at = "bar"    -> "menu"
                      [] OTHER                 -> "command"
           state == [s EXCEPT !.at = place, !.op = None, !.answer = None]
<1>1. s \in ToolState
    BY AfterType
<1>2. place # "bar" /\ (place = "menu" => tool[p].at = "bar")
    OBVIOUS
<1>3. tool' = [tool EXCEPT ![p] = state]
    BY DEF Return, Update
<1> HIDE DEF place
<1>4. /\ state.op = None /\ state.answer = None /\ state.calls = s.calls
      /\ state.dirty = s.dirty /\ state.misread = s.misread /\ state.shown = s.shown
      /\ state.at = place
    BY <1>1 DEF ToolState
<1> HIDE DEF state
<1>5. tool'[p] = state /\ \A q \in Tool : q # p => tool'[q] = tool[q]
    BY <1>3 DEF TypeOK
<1> QED
    BY <1>2, <1>4, <1>5

---------------------------------------------------------------------------
(***************************************************************************)
(* The bar.  A request on its way is one its tool has made, and the one it *)
(* waits for is the one it made last.  The balance a tool shows, unless it *)
(* is marked dirty, or the balance in an answer it is about to read, is    *)
(* the one in the ledger.                                                  *)
(***************************************************************************)
Queued == \A r \in wire :
    /\ r.n <= tool[r.tool].calls
    /\ (r.n = tool[r.tool].calls /\ tool[r.tool].op # None) => r.op = tool[r.tool].op

Shows(t, balance) == (~t.dirty /\ ~t.misread) => t.shown = balance

Bar(p, t, behind, balance) ==
    /\ t.at = "menu" => t.op = None /\ ~t.dirty
    /\ t.at = "bar" => t.op # None /\ t.op.op = "balance"
    /\ t.answer # None => t.op # None
    /\ p \notin behind => IF t.answer # None /\ GivesBalance(t.op)
                         THEN t.answer.ok => t.answer.value = balance
                         ELSE Shows(t, balance)

BalanceAfter(m) == IF account'[m] = None THEN 0 ELSE account'[m]

Bars == \A p \in Tool : Bar(p, tool[p], overtaken, BalanceOf(Account[p]))

\* Only adds and removes of the tools of an account move its balance.
LEMMA PerformAccount ==
    ASSUME LedgerType, NEW p \in Tool, NEW op \in Op, Perform(p, op), NEW m \in Member,
           m # Account[p] \/ op.op \notin {"add", "remove"}
    PROVE  account'[m] = account[m]
BY DEF Perform, Add, AddBalance, Remove, RequestTransfer, Respond, Look, ledgerVars, LedgerType

LEMMA QueuedStep ==
    ASSUME Inv, Queued, [Next]_vars
    PROVE  Queued'
<1>1. TypeOK /\ Asking
    BY DEF Inv
<1>2. \A r \in wire : /\ r.tool \in Tool /\ r.n \in Nat
                      /\ tool[r.tool] \in ToolState /\ tool[r.tool].calls \in Nat
    BY <1>1 DEF TypeOK, Request, ToolState
<1>3. ASSUME wire' \subseteq wire,
             \A q \in Tool : /\ tool'[q].calls = tool[q].calls
                             /\ tool'[q].op \in {None, tool[q].op}
      PROVE  Queued'
    BY <1>2, <1>3 DEF Queued
<1>4. ASSUME NEW r \in wire, Execute(r) \/ Refuse(r)
      PROVE  Queued'
    <2>1. PICK ok \in BOOLEAN : \E value : Told(r, ok, value)
        BY <1>4 DEF Execute, Refuse
    <2>2. \A q \in Tool : tool'[q].calls = tool[q].calls /\ tool'[q].op = tool[q].op
        BY <1>1, <2>1, ToldFields
    <2>3. wire' \subseteq wire
        BY <1>4 DEF Execute, Refuse, Taken
    <2> QED
        BY <1>3, <2>2, <2>3
<1>5. ASSUME NEW r \in wire, Lose(r)
      PROVE  Queued'
    BY <1>3, <1>5 DEF Lose, Taken
<1>6. ASSUME NEW p \in Tool, NEW place, NEW op, Call(p, place, op)
      PROVE  Queued'
    <2> DEFINE new == [tool |-> p, n |-> tool[p].calls + 1, op |-> op]
    <2>1. wire' = wire \cup {new}
        BY <1>6 DEF Call
    <2>2. /\ \A q \in Tool : q # p => tool'[q] = tool[q]
          /\ tool[p].calls \in Nat /\ tool'[p].calls = tool[p].calls + 1 /\ tool'[p].op = op
        BY <1>1, <1>6, CallFields
    <2>3. new.tool = p /\ new.n = tool[p].calls + 1 /\ new.op = op
        OBVIOUS
    <2> HIDE DEF new
    <2>4. ASSUME NEW r \in wire'
          PROVE  /\ r.n <= tool'[r.tool].calls
                 /\ (r.n = tool'[r.tool].calls /\ tool'[r.tool].op # None) => r.op = tool'[r.tool].op
        <3>1. CASE r = new
            BY <2>2, <2>3, <3>1
        <3>2. CASE r \in wire /\ r.tool = p
            BY <1>2, <2>2, <3>2 DEF Queued
        <3>3. CASE r \in wire /\ r.tool # p
            BY <1>2, <2>2, <3>3 DEF Queued
        <3> QED
            BY <2>1, <2>4, <3>1, <3>2, <3>3
    <2> QED
        BY <2>4 DEF Queued
<1>7. ASSUME NEW p \in Tool, Receive(p) \/ GiveUp(p)
      PROVE  Queued'
    <2>1. tool[p].op # None /\ wire' = wire /\ tool[p] \in ToolState
        BY <1>1, <1>7 DEF Receive, GiveUp, Asking, TypeOK
    <2>2. PICK ok \in BOOLEAN, value \in Nat : Return(p, ok, value)
        <3>1. CASE Receive(p)
            BY <2>1, <3>1 DEF Receive, ToolState, Answer
        <3>2. CASE GiveUp(p)
            BY <3>2 DEF GiveUp
        <3> QED
            BY <1>7, <3>1, <3>2
    <2>3. tool'[p].calls = tool[p].calls /\ tool'[p].op = None
        <3>1. PICK s : s = AfterCall(tool[p], ok, value)
            OBVIOUS
        <3>2. s.calls = tool[p].calls
            BY <2>1, <3>1, AfterFields
        <3> QED
            BY <1>1, <2>1, <2>2, <3>1, <3>2, ReturnFields
    <2>4. \A q \in Tool : q # p => tool'[q] = tool[q]
        BY <1>1, <2>1, <2>2, ReturnFields
    <2> QED
        BY <1>3, <2>1, <2>3, <2>4
<1>8. ASSUME NEW p \in Tool, NEW place, Moves(p, place), wire' = wire
      PROVE  Queued'
    BY <1>3, <1>8 DEF Moves
<1>9. ASSUME NEW p \in Tool, Decline(p) \/ Quit(p)
      PROVE  Queued'
    BY <1>1, <1>8, <1>9, MoveFields DEF Decline, Quit, Update
<1>10. ASSUME NEW p \in Tool, DrawBar(p)
       PROVE  Queued'
    <2>1. CASE Call(p, "bar", [op |-> "balance"])
        BY <1>6, <2>1
    <2>2. CASE Update(p, [tool[p] EXCEPT !.at = "menu"]) /\ wire' = wire
        BY <1>1, <1>8, <2>2, MoveFields DEF Update
    <2> QED
        BY <1>10, <2>1, <2>2 DEF DrawBar
<1>11. CASE UNCHANGED vars
    BY <1>3, <1>11 DEF vars
<1> QED
    BY <1>4, <1>5, <1>6, <1>7, <1>9, <1>10, <1>11 DEF Next, Command

LEMMA BarsStep ==
    ASSUME Inv, Queued, Bars, [Next]_vars
    PROVE  Bars'
<1>1. TypeOK /\ Asking /\ LedgerType
    BY DEF Inv, TypeOK, LedgerType
<1> SUFFICES ASSUME NEW p \in Tool
             PROVE  Bar(p, tool'[p], overtaken', BalanceAfter(Account[p]))
    BY DEF Bars, BalanceOf, BalanceAfter
<1> DEFINE m == Account[p]
<1>2. Bar(p, tool[p], overtaken, BalanceOf(m)) /\ tool[p] \in ToolState /\ m \in Member
    BY <1>1, ToolFacts DEF Bars, TypeOK
<1>3. account'[m] = account[m] => BalanceAfter(m) = BalanceOf(m)
    BY DEF BalanceOf, BalanceAfter
<1>4. ASSUME tool'[p] = tool[p],
             p \notin overtaken' => p \notin overtaken /\ account'[m] = account[m]
      PROVE  Bar(p, tool'[p], overtaken', BalanceAfter(m))
    BY <1>2, <1>3, <1>4 DEF Bar
<1>5. ASSUME NEW r \in wire, r.tool = p, NEW ok \in BOOLEAN, NEW value \in Nat, Told(r, ok, value),
             r.op.op \notin {"add", "remove"} => account'[m] = account[m],
             (ok /\ GivesBalance(r.op)) => value = BalanceAfter(m)
      PROVE  Bar(p, tool'[p], overtaken', BalanceAfter(m))
    <2>1. CASE Awaited(r)
        <3>1. /\ tool[p].op # None /\ tool[p].answer = None /\ r.op = tool[p].op
            BY <1>5, <2>1 DEF Awaited, Queued
        <3>2. /\ tool'[p].at = tool[p].at /\ tool'[p].op = tool[p].op
              /\ tool'[p].answer = [ok |-> ok, value |-> value]
              /\ tool'[p].shown = tool[p].shown /\ tool'[p].dirty = tool[p].dirty
              /\ tool'[p].misread = tool[p].misread
            BY <1>1, <1>5, <2>1, ToldFields
        <3>5. p \notin overtaken' => p \notin overtaken \/ (ok /\ GivesBalance(r.op))
            BY <1>1, <1>5, <2>1, ToldOvertakes
        <3>3. CASE GivesBalance(r.op)
            <4>1. tool'[p].answer # None /\ tool'[p].answer.ok = ok /\ tool'[p].answer.value = value
                BY <3>2, NoneAssumption DEF NoneAssumption, Answer
            <4> QED
                BY <1>2, <1>5, <3>1, <3>2, <3>3, <3>5, <4>1 DEF Bar
        <3>4. CASE ~GivesBalance(r.op)
            <4>1. BalanceAfter(m) = BalanceOf(m)
                BY <1>3, <1>5, <3>4 DEF GivesBalance
            <4> QED
                BY <1>2, <3>1, <3>2, <3>4, <3>5, <4>1 DEF Bar, Shows
        <3> QED
            BY <3>3, <3>4
    <2>2. CASE ~Awaited(r)
        <3>1. /\ tool'[p].at = tool[p].at /\ tool'[p].op = tool[p].op
              /\ tool'[p].answer = tool[p].answer
              /\ tool'[p].shown = tool[p].shown /\ tool'[p].dirty = tool[p].dirty
              /\ tool'[p].misread = tool[p].misread
            BY <1>1, <1>5, <2>2, ToldFields
        <3>2. p \notin overtaken' => p \notin overtaken /\ BalanceAfter(m) = BalanceOf(m)
            BY <1>1, <1>3, <1>5, <2>2, ToldOvertakes
        <3> QED
            BY <1>2, <3>1, <3>2 DEF Bar, Shows
    <2> QED
        BY <2>1, <2>2
<1>6. ASSUME NEW r \in wire, Execute(r)
      PROVE  Bar(p, tool'[p], overtaken', BalanceAfter(m))
    <2>1. r.tool \in Tool /\ r.op \in Op /\ Perform(r.tool, r.op)
        BY <1>1, <1>6 DEF Execute, TypeOK, Request
    <2>2. CASE r.tool # p
        <3>1. PICK ok \in BOOLEAN : \E value : Told(r, ok, value)
            BY <1>6 DEF Execute
        <3>2. tool'[p] = tool[p]
            BY <1>1, <2>2, <3>1, ToldFields
        <3>3. p \notin overtaken' => p \notin overtaken /\ account'[m] = account[m]
            BY <1>1, <2>2, <3>1, ToldOvertakes
        <3> QED
            BY <1>4, <3>2, <3>3
    <2>3. CASE r.tool = p
        <3> DEFINE value == CASE r.op.op = "pending"  -> Cardinality(PendingFor(r.tool))
                              [] account'[Account[r.tool]] = None -> 0
                              [] OTHER                            -> account'[Account[r.tool]]
        <3>1. GivesBalance(r.op) => value = BalanceAfter(m)
            BY <2>3 DEF GivesBalance, BalanceAfter
        <3>2. Told(r, TRUE, value) \/ Told(r, FALSE, 0)
            BY <1>6 DEF Execute
        <3>3. r.op.op \notin {"add", "remove"} => account'[m] = account[m]
            BY <1>1, <1>2, <2>1, PerformAccount
        <3>4. value \in Nat
            <4>1. account'[m] \in Nat \cup {None}
                BY <1>1, <1>2, <2>1, PerformStep DEF LedgerType
            <4> QED
                BY <2>1, <2>3, <4>1, PendingCount
        <3> HIDE DEF value
        <3> QED
            BY <1>5, <2>3, <3>1, <3>2, <3>3, <3>4
    <2> QED
        BY <2>2, <2>3
<1>7. ASSUME NEW r \in wire, Refuse(r)
      PROVE  Bar(p, tool'[p], overtaken', BalanceAfter(m))
    <2>1. Told(r, FALSE, 0) /\ account'[m] = account[m]
        BY <1>7 DEF Refuse, ledgerVars
    <2>2. CASE r.tool # p
        BY <1>1, <1>4, <2>1, <2>2, ToldFields, ToldOvertakes
    <2>3. CASE r.tool = p
        BY <1>5, <2>1, <2>3
    <2> QED
        BY <2>2, <2>3
<1>8. ASSUME NEW q \in Tool, NEW place, NEW op, Call(q, place, op), tool[q].op = None,
             place = "command" \/ (place = "bar" /\ op # None /\ op.op = "balance")
      PROVE  Bar(p, tool'[p], overtaken', BalanceAfter(m))
    <2>1. account'[m] = account[m] /\ overtaken' = overtaken
        BY <1>8 DEF Call, ledgerVars
    <2>2. CASE q # p
        BY <1>1, <1>4, <1>8, <2>1, <2>2, CallFields
    <2>3. CASE q = p
        <3>1. /\ tool'[p].at = place /\ tool'[p].op = op /\ tool'[p].answer = None
              /\ tool'[p].shown = tool[p].shown /\ tool'[p].dirty = tool[p].dirty
              /\ tool'[p].misread = tool[p].misread
            BY <1>1, <1>8, <2>3, CallFields
        <3>2. tool[p].answer = None
            BY <1>1, <1>8, <2>3 DEF Asking
        <3> QED
            BY <1>2, <1>3, <1>8, <2>1, <3>1, <3>2 DEF Bar, Shows
    <2> QED
        BY <2>2, <2>3
<1>9. ASSUME NEW q \in Tool, NEW place, Moves(q, place), UNCHANGED <<ledgerVars, overtaken>>,
             place \in {"command", "quit"} \/ (place = "menu" /\ tool[q].op = None /\ ~tool'[q].dirty)
      PROVE  Bar(p, tool'[p], overtaken', BalanceAfter(m))
    <2>1. account'[m] = account[m] /\ overtaken' = overtaken
        BY <1>9 DEF ledgerVars
    <2>2. CASE q # p
        BY <1>4, <1>9, <2>1, <2>2 DEF Moves
    <2>3. CASE q = p
        BY <1>2, <1>3, <1>9, <2>1, <2>3 DEF Bar, Shows, Moves
    <2> QED
        BY <2>2, <2>3
<1>10. ASSUME NEW q \in Tool, Receive(q) \/ GiveUp(q)
       PROVE  Bar(p, tool'[p], overtaken', BalanceAfter(m))
    <2>1. /\ tool[q].op # None /\ tool[q] \in ToolState
          /\ account'[m] = account[m] /\ overtaken' = overtaken
        BY <1>1, <1>10 DEF Receive, GiveUp, Asking, ledgerVars, TypeOK
    <2>2. PICK ok \in BOOLEAN, value \in Nat :
            /\ Return(q, ok, value)
            /\ ok => tool[q].answer # None /\ tool[q].answer.ok /\ value = tool[q].answer.value
        <3>1. CASE Receive(q)
            BY <2>1, <3>1 DEF Receive, ToolState, Answer
        <3>2. CASE GiveUp(q)
            BY <3>2 DEF GiveUp
        <3> QED
            BY <1>10, <3>1, <3>2
    <2>3. CASE q # p
        BY <1>1, <1>4, <2>1, <2>2, <2>3, ReturnFields
    <2>4. CASE q = p
        <3>0. PICK s : s = AfterCall(tool[p], ok, value)
            OBVIOUS
        <3>1. /\ tool'[p].op = None /\ tool'[p].answer = None
              /\ tool'[p].dirty = s.dirty
              /\ tool'[p].misread = s.misread /\ tool'[p].shown = s.shown
              /\ tool'[p].at # "bar" /\ (tool'[p].at = "menu" => tool[p].at = "bar")
            BY <1>1, <2>1, <2>2, <2>4, <3>0, ReturnFields
        <3>2. /\ tool[p].op.op = "balance" =>
                   /\ ~s.dirty /\ (s.misread <=> ~ok)
                   /\ ok => s.shown = value
              /\ tool[p].op.op \in {"add", "remove"} =>
                   /\ ok => ~s.dirty /\ ~s.misread /\ s.shown = value
                   /\ ~ok => s.dirty
              /\ tool[p].op.op \in {"transfer", "approve"} => s.dirty
              /\ tool[p].op.op \notin {"balance", "add", "remove", "transfer", "approve"} =>
                    s = tool[p]
            <4>1. tool[p] \in ToolState /\ tool[p].op # None
                BY <2>1, <2>4
            <4> QED
                BY <3>0, <4>1, AfterFields
        <3>3. tool'[p].at = "menu" => ~tool'[p].dirty
            BY <1>2, <3>1, <3>2 DEF Bar
        <3>4. ASSUME p \notin overtaken'
              PROVE  Shows(tool'[p], BalanceOf(m))
            <4>1. p \notin overtaken
                BY <2>1, <3>4
            <4>2. CASE GivesBalance(tool[p].op)
                BY <1>2, <2>2, <2>4, <3>1, <3>2, <4>1, <4>2 DEF Bar, Shows, GivesBalance
            <4>3. CASE ~GivesBalance(tool[p].op)
                BY <1>2, <3>1, <3>2, <4>1, <4>3 DEF Bar, Shows, GivesBalance
            <4> QED
                BY <4>2, <4>3
        <3> QED
            BY <1>3, <2>1, <3>1, <3>3, <3>4 DEF Bar
    <2> QED
        BY <2>3, <2>4
<1>11. ASSUME NEW q \in Tool, NEW op \in Op, Command(q, op)
       PROVE  Bar(p, tool'[p], overtaken', BalanceAfter(m))
    <2>1. CASE q = p
        BY <1>2, <1>8, <1>11, <2>1 DEF Command, Bar
    <2>2. CASE q # p
        BY <1>1, <1>4, <1>11, <2>2, CallFields DEF Command, Call, ledgerVars
    <2> QED
        BY <2>1, <2>2
<1>12. ASSUME NEW q \in Tool, Decline(q) \/ Quit(q)
       PROVE  Bar(p, tool'[p], overtaken', BalanceAfter(m))
    BY <1>1, <1>9, <1>12, MoveFields DEF Decline, Quit, Update
<1>13. ASSUME NEW q \in Tool, DrawBar(q)
       PROVE  Bar(p, tool'[p], overtaken', BalanceAfter(m))
    <2>1. CASE Call(q, "bar", [op |-> "balance"])
        <3>1. [op |-> "balance"] # None /\ [op |-> "balance"].op = "balance"
            BY NoneAssumption DEF NoneAssumption, Op, LookOp
        <3> QED
            BY <1>8, <1>13, <2>1, <3>1 DEF DrawBar
    <2>2. CASE /\ ~tool[q].dirty /\ Update(q, [tool[q] EXCEPT !.at = "menu"])
               /\ UNCHANGED <<ledgerVars, overtaken>>
        <3>1. Moves(q, "menu")
            BY <1>1, <2>2, MoveFields DEF Update
        <3>2. tool'[q].dirty = tool[q].dirty
            BY <1>1, <2>2 DEF Update, TypeOK, ToolState
        <3> QED
            BY <1>9, <1>13, <2>2, <3>1, <3>2 DEF DrawBar
    <2> QED
        BY <1>13, <2>1, <2>2 DEF DrawBar
<1>14. CASE UNCHANGED vars
    BY <1>4, <1>14 DEF vars
<1>15. ASSUME NEW r \in wire, Lose(r)
       PROVE  Bar(p, tool'[p], overtaken', BalanceAfter(m))
    BY <1>4, <1>15 DEF Lose, ledgerVars
<1> QED
    BY <1>6, <1>7, <1>10, <1>11, <1>12, <1>13, <1>14, <1>15 DEF Next

LEMMA InitBars == Init => Queued /\ Bars
<1> SUFFICES ASSUME Init PROVE Queued /\ Bars
    OBVIOUS
<1>1. \A p \in Tool : /\ tool[p].at = "command" /\ tool[p].answer = None
                      /\ tool[p].dirty = TRUE
    BY DEF Init, Started
<1>2. wire = {}
    BY DEF Init
<1> QED
    BY <1>1, <1>2 DEF Queued, Bars, Bar, Shows

\* The bar is right at the prompt, for any number of tools on an account, calls
\* and calls given up on, unless the lookup failed or another request moved the
\* balance after the last the tool was told (_cache_balance,
\* _mark_balance_dirty).
THEOREM BarAlwaysExact == Spec => []BarExact
<1>1. Inv /\ Queued /\ Bars /\ [Next]_vars => Inv' /\ Queued' /\ Bars'
    BY Inductive, QueuedStep, BarsStep
<1>2. Bars => BarExact
    BY DEF Bars, Bar, Shows, BarExact
<1>3. Init => Inv /\ Queued /\ Bars
    BY InitInv, InitBars
<1>4. Inv /\ Queued /\ Bars => BarExact
    BY <1>2
<1> QED
    BY <1>1, <1>3, <1>4, PTL DEF Spec

---------------------------------------------------------------------------
(***************************************************************************)
(* What users were told.  The room between the ledger and the reports is   *)
(* at least the sum of the amounts on their way and of those in answers    *)
(* that are not read yet.  That v is the sum of f over S is stated without *)
(* recursion: some function on the subsets of S adds one element at a time *)
(* and gives v for S.  Such a function survives taking an element out, and *)
(* is extended when one comes in.                                          *)
(***************************************************************************)
Sums(g, S, f) ==
    /\ \A x \in S : f[x] \in Nat
    /\ g \in [SUBSET S -> Nat]
    /\ g[{}] = 0
    /\ \A T \in SUBSET S : \A x \in S \ T : g[T \cup {x}] = g[T] + f[x]

SumsTo(S, f, v) == \E g : Sums(g, S, f) /\ g[S] = v

LEMMA SumOfNone == \A f : SumsTo({}, f, 0)
<1> SUFFICES ASSUME NEW f PROVE SumsTo({}, f, 0)
    OBVIOUS
<1> DEFINE g == [T \in SUBSET {} |-> 0]
<1>1. Sums(g, {}, f) /\ g[{}] = 0
    BY DEF Sums
<1> QED
    BY <1>1 DEF SumsTo

LEMMA SumWith ==
    ASSUME NEW S, NEW f, NEW v, SumsTo(S, f, v), NEW y, y \notin S, f[y] \in Nat
    PROVE  v \in Nat /\ SumsTo(S \cup {y}, f, v + f[y])
<1>1. PICK g : Sums(g, S, f) /\ g[S] = v
    BY DEF SumsTo
<1> DEFINE U == S \cup {y}
           h == [T \in SUBSET U |-> IF y \in T THEN g[T \ {y}] + f[y] ELSE g[T]]
<1>2. \A T \in SUBSET U : T \ {y} \in SUBSET S /\ (y \notin T => T \in SUBSET S)
    OBVIOUS
<1>3. \A T \in SUBSET S : g[T] \in Nat
    BY <1>1 DEF Sums
<1>4. h \in [SUBSET U -> Nat]
    <2>1. ASSUME NEW T \in SUBSET U
          PROVE  (IF y \in T THEN g[T \ {y}] + f[y] ELSE g[T]) \in Nat
        <3>1. CASE y \in T
            <4>1. g[T \ {y}] \in Nat
                BY <1>2, <1>3
            <4> QED
                BY <3>1, <4>1
        <3>2. CASE y \notin T
            BY <1>2, <1>3, <3>2
        <3> QED
            BY <3>1, <3>2
    <2> QED
        BY <2>1
<1>5. h[{}] = 0
    <2>1. {} \in SUBSET U /\ y \notin {}
        OBVIOUS
    <2>2. h[{}] = g[{}]
        BY <2>1
    <2> QED
        BY <1>1, <2>2 DEF Sums
<1>6. ASSUME NEW T \in SUBSET U, NEW x \in U \ T
      PROVE  h[T \cup {x}] = h[T] + f[x]
    <2>0. T \cup {x} \in SUBSET U
        OBVIOUS
    <2>1. CASE x = y
        <3>1. T \in SUBSET S /\ y \in T \cup {x} /\ (T \cup {x}) \ {y} = T
            BY <1>2, <1>6, <2>1
        <3>2. h[T \cup {x}] = g[(T \cup {x}) \ {y}] + f[y]
            BY <2>0, <3>1
        <3>3. h[T] = g[T]
            BY <1>6, <2>1
        <3>4. h[T \cup {x}] = g[T] + f[y]
            BY <3>1, <3>2
        <3> QED
            BY <2>1, <3>3, <3>4
    <2>2. CASE x # y /\ y \in T
        <3>1. /\ x \in S \ (T \ {y}) /\ T \ {y} \in SUBSET S
              /\ (T \cup {x}) \ {y} = (T \ {y}) \cup {x} /\ y \in T \cup {x}
            BY <1>2, <1>6, <2>2
        <3>2. h[T \cup {x}] = g[(T \cup {x}) \ {y}] + f[y]
            BY <2>0, <3>1
        <3>3. h[T] = g[T \ {y}] + f[y]
            BY <2>2
        <3>4. g[(T \ {y}) \cup {x}] = g[T \ {y}] + f[x]
            BY <1>1, <3>1 DEF Sums
        <3>5. h[T \cup {x}] = (g[T \ {y}] + f[x]) + f[y]
            BY <3>1, <3>2, <3>4
        <3>6. g[T \ {y}] \in Nat /\ g[(T \ {y}) \cup {x}] \in Nat
            <4>1. (T \ {y}) \cup {x} \in SUBSET S
                BY <3>1
            <4> QED
                BY <1>3, <3>1, <4>1
        <3>7. f[x] \in Nat
            BY <1>1, <3>1 DEF Sums
        <3> HIDE DEF h
        <3> QED
            BY <3>3, <3>4, <3>5, <3>6, <3>7
    <2>3. CASE x # y /\ y \notin T
        <3>1. T \in SUBSET S /\ x \in S \ T /\ y \notin T \cup {x}
            BY <1>2, <1>6, <2>3
        <3>2. h[T \cup {x}] = g[T \cup {x}] /\ h[T] = g[T]
            BY <2>0, <2>3, <3>1
        <3> QED
            BY <1>1, <3>1, <3>2 DEF Sums
    <2> QED
        BY <2>1, <2>2, <2>3
<1>7. h[U] = v + f[y] /\ v \in Nat
    <2>1. U \in SUBSET U /\ y \in U /\ U \ {y} = S /\ S \in SUBSET S
        OBVIOUS
    <2>2. h[U] = g[U \ {y}] + f[y]
        BY <2>1
    <2> QED
        BY <1>1, <1>3, <2>1, <2>2
<1>8. \A x \in U : f[x] \in Nat
    BY <1>1 DEF Sums
<1> HIDE DEF h, U
<1>9. Sums(h, U, f)
    BY <1>4, <1>5, <1>6, <1>8 DEF Sums
<1> QED
    BY <1>7, <1>9 DEF SumsTo, U

LEMMA SumWithout ==
    ASSUME NEW S, NEW f, NEW v, SumsTo(S, f, v), NEW y \in S, f[y] \in Nat
    PROVE  v \in Nat /\ v - f[y] \in Nat /\ SumsTo(S \ {y}, f, v - f[y])
<1>1. PICK g : Sums(g, S, f) /\ g[S] = v
    BY DEF SumsTo
<1> DEFINE U == S \ {y}
           h == [T \in SUBSET U |-> g[T]]
<1>2. \A T \in SUBSET U : T \in SUBSET S /\ g[T] \in Nat
    BY <1>1 DEF Sums
<1>3. Sums(h, U, f)
    <2>1. h \in [SUBSET U -> Nat]
        BY <1>2
    <2>2. h[{}] = 0
        BY <1>1 DEF Sums
    <2>3. ASSUME NEW T \in SUBSET U, NEW x \in U \ T
          PROVE  h[T \cup {x}] = h[T] + f[x]
        <3>1. T \cup {x} \in SUBSET U /\ T \in SUBSET S /\ x \in S \ T
            OBVIOUS
        <3>2. h[T \cup {x}] = g[T \cup {x}] /\ h[T] = g[T]
            BY <3>1
        <3> QED
            BY <1>1, <3>1, <3>2 DEF Sums
    <2>4. \A x \in U : f[x] \in Nat
        BY <1>1 DEF Sums
    <2> HIDE DEF h, U
    <2> QED
        BY <2>1, <2>2, <2>3, <2>4 DEF Sums
<1>4. g[S] = g[U] + f[y] /\ g[U] \in Nat
    <2>1. U \in SUBSET S /\ y \in S \ U /\ U \cup {y} = S /\ U \in SUBSET U
        OBVIOUS
    <2>2. g[U \cup {y}] = g[U] + f[y]
        BY <1>1, <2>1 DEF Sums
    <2> QED
        BY <1>2, <2>1, <2>2
<1>5. h[U] = g[U] /\ v = g[U] + f[y]
    BY <1>1, <1>4
<1>6. h[U] = v - f[y] /\ v \in Nat /\ v - f[y] \in Nat
    <2> HIDE DEF h, U
    <2> QED
        BY <1>4, <1>5
<1> HIDE DEF h, U
<1> QED
    BY <1>3, <1>6 DEF SumsTo, U

---------------------------------------------------------------------------
\* The amount of a request, if it is of that kind and for that member.
Amounts(kind, m) ==
    [r \in Request |-> IF r.op.op = kind /\ Account[r.tool] = m THEN r.op.amount ELSE 0]

\* The requests whose tool has the answer that they are done, and has not read it.
Answered ==
    {r \in Request : /\ tool[r.tool].answer # None /\ tool[r.tool].answer.ok
                     /\ r.n = tool[r.tool].calls /\ r.op = tool[r.tool].op}

\* What is on its way and what is answered fits in the room x.
Fits(S, T, kind, other, m, x) ==
    \E a, b \in Nat : /\ SumsTo(S, Amounts(kind, m), a)
                      /\ SumsTo(T, Amounts(other, m), b)
                      /\ a + b <= x

RoomAbove(m) == told[m].confirmed + told[m].added - posted[m]
RoomBelow(m) == posted[m] - told[m].confirmed + told[m].removed

Accounted == \A m \in Member :
    /\ Fits(wire, Answered, "add", "remove", m, RoomAbove(m))
    /\ Fits(wire, Answered, "remove", "add", m, RoomBelow(m))

LEMMA AmountType ==
    ASSUME NEW r \in Request, NEW m, NEW kind \in {"add", "remove"}
    PROVE  /\ Amounts(kind, m)[r] \in Nat
           /\ Amounts(kind, m)[r] =
                 IF r.op.op = kind /\ Account[r.tool] = m THEN r.op.amount ELSE 0
<1>1. Amounts(kind, m)[r] = IF r.op.op = kind /\ Account[r.tool] = m THEN r.op.amount ELSE 0
    BY DEF Amounts
<1>2. r.op \in Op
    BY DEF Request
<1>3. r.op.op = kind => r.op.amount \in Nat
    BY <1>2, OpFields, BankAssumption
<1> QED
    BY <1>1, <1>3

\* The changes the steps make to the two sets.
LEMMA FitsTaken ==
    ASSUME NEW S, NEW T, NEW kind \in {"add", "remove"}, NEW other, NEW m, NEW x \in Int,
           Fits(S, T, kind, other, m, x), NEW r \in Request, r \in S, NEW y \in Int,
           x - Amounts(kind, m)[r] <= y
    PROVE  Fits(S \ {r}, T, kind, other, m, y)
<1>1. PICK a \in Nat, b \in Nat : /\ SumsTo(S, Amounts(kind, m), a)
                                  /\ SumsTo(T, Amounts(other, m), b) /\ a + b <= x
    BY DEF Fits
<1> DEFINE w == Amounts(kind, m)[r]
<1>2. w \in Nat /\ a - w \in Nat /\ SumsTo(S \ {r}, Amounts(kind, m), a - w)
    BY <1>1, AmountType, SumWithout
<1> HIDE DEF w
<1>3. (a - w) + b <= y
    BY <1>1, <1>2 DEF w
<1> QED
    BY <1>1, <1>2, <1>3 DEF Fits

LEMMA FitsSent ==
    ASSUME NEW S, NEW T, NEW kind \in {"add", "remove"}, NEW other, NEW m, NEW x \in Int,
           Fits(S, T, kind, other, m, x), NEW r \in Request, r \notin S, NEW y \in Int,
           x + Amounts(kind, m)[r] <= y
    PROVE  Fits(S \cup {r}, T, kind, other, m, y)
<1>1. PICK a \in Nat, b \in Nat : /\ SumsTo(S, Amounts(kind, m), a)
                                  /\ SumsTo(T, Amounts(other, m), b) /\ a + b <= x
    BY DEF Fits
<1> DEFINE w == Amounts(kind, m)[r]
<1>2. w \in Nat /\ SumsTo(S \cup {r}, Amounts(kind, m), a + w)
    BY <1>1, AmountType, SumWith
<1>3. x + w <= y
    OBVIOUS
<1> HIDE DEF w
<1>4. (a + w) + b <= y /\ a + w \in Nat
    BY <1>1, <1>2, <1>3
<1> QED
    BY <1>1, <1>2, <1>4 DEF Fits

\* The same for the answers that are not read yet.
LEMMA FitsRead ==
    ASSUME NEW S, NEW T, NEW kind, NEW other \in {"add", "remove"}, NEW m, NEW x \in Int,
           Fits(S, T, kind, other, m, x), NEW r \in Request, r \in T, NEW y \in Int,
           x - Amounts(other, m)[r] <= y
    PROVE  Fits(S, T \ {r}, kind, other, m, y)
<1>1. PICK a \in Nat, b \in Nat : /\ SumsTo(S, Amounts(kind, m), a)
                                  /\ SumsTo(T, Amounts(other, m), b) /\ a + b <= x
    BY DEF Fits
<1> DEFINE w == Amounts(other, m)[r]
<1>2. w \in Nat /\ b - w \in Nat /\ SumsTo(T \ {r}, Amounts(other, m), b - w)
    BY <1>1, AmountType, SumWithout
<1>3. x - w <= y
    OBVIOUS
<1> HIDE DEF w
<1>4. a + (b - w) <= y
    BY <1>1, <1>2, <1>3
<1> QED
    BY <1>1, <1>2, <1>4 DEF Fits

LEMMA FitsAnswered ==
    ASSUME NEW S, NEW T, NEW kind, NEW other \in {"add", "remove"}, NEW m, NEW x \in Int,
           Fits(S, T, kind, other, m, x), NEW r \in Request, r \notin T, NEW y \in Int,
           x + Amounts(other, m)[r] <= y
    PROVE  Fits(S, T \cup {r}, kind, other, m, y)
<1>1. PICK a \in Nat, b \in Nat : /\ SumsTo(S, Amounts(kind, m), a)
                                  /\ SumsTo(T, Amounts(other, m), b) /\ a + b <= x
    BY DEF Fits
<1> DEFINE w == Amounts(other, m)[r]
<1>2. w \in Nat /\ SumsTo(T \cup {r}, Amounts(other, m), b + w)
    BY <1>1, AmountType, SumWith
<1>3. x + w <= y
    OBVIOUS
<1> HIDE DEF w
<1>4. a + (b + w) <= y /\ b + w \in Nat
    BY <1>1, <1>2, <1>3
<1> QED
    BY <1>1, <1>2, <1>4 DEF Fits

LEMMA FitsMore ==
    ASSUME NEW S, NEW T, NEW kind, NEW other, NEW m, NEW x \in Int, NEW y \in Int, x <= y,
           Fits(S, T, kind, other, m, x)
    PROVE  Fits(S, T, kind, other, m, y)
<1>1. PICK a \in Nat, b \in Nat : /\ SumsTo(S, Amounts(kind, m), a)
                                  /\ SumsTo(T, Amounts(other, m), b) /\ a + b <= x
    BY DEF Fits
<1>2. a + b <= y
    BY <1>1
<1> QED
    BY <1>1, <1>2 DEF Fits

LEMMA RoomType ==
    ASSUME TypeOK, NEW m \in Member
    PROVE  /\ posted[m] \in Int /\ told[m] \in Reports
           /\ told[m].confirmed \in Int /\ told[m].added \in Int /\ told[m].removed \in Int
           /\ RoomAbove(m) \in Int /\ RoomBelow(m) \in Int
<1>1. /\ posted[m] \in Int /\ told[m] \in Reports
      /\ told[m].confirmed \in Int /\ told[m].added \in Int /\ told[m].removed \in Int
    BY DEF TypeOK, Reports
<1> QED
    BY <1>1 DEF RoomAbove, RoomBelow

LEMMA RoomTypeAfter ==
    ASSUME TypeOK', NEW m \in Member
    PROVE  RoomAbove(m)' \in Int /\ RoomBelow(m)' \in Int
<1>1. /\ posted'[m] \in Int /\ told'[m].confirmed \in Int
      /\ told'[m].added \in Int /\ told'[m].removed \in Int
    BY DEF TypeOK, Reports
<1> QED
    BY <1>1 DEF RoomAbove, RoomBelow

LEMMA PerformPosts ==
    ASSUME LedgerType, NEW r \in Request, Perform(r.tool, r.op), NEW m \in Member
    PROVE  posted'[m] = posted[m] + Amounts("add", m)[r] - Amounts("remove", m)[r]
<1> DEFINE p == r.tool
           op == r.op
           up == Amounts("add", m)[r]
           down == Amounts("remove", m)[r]
<1>1. p \in Tool /\ op \in Op /\ Account[p] \in Member /\ posted[m] \in Int
    BY ToolFacts DEF Request, LedgerType
<1>2. /\ up \in Nat /\ up = IF op.op = "add" /\ Account[p] = m THEN op.amount ELSE 0
      /\ down \in Nat /\ down = IF op.op = "remove" /\ Account[p] = m THEN op.amount ELSE 0
    BY AmountType
<1> HIDE DEF up, down
<1>3. CASE Add(p, op)
    <2>1. posted' = [posted EXCEPT ![Account[p]] = posted[Account[p]] + op.amount] /\ op.op = "add"
        BY <1>3 DEF Add, Post
    <2>2. down = 0
        BY <1>2, <2>1
    <2>3. CASE Account[p] = m
        <3>1. posted'[m] = posted[m] + op.amount /\ up = op.amount
            BY <1>1, <1>2, <2>1, <2>3 DEF LedgerType
        <3> QED
            BY <1>1, <1>2, <2>2, <3>1 DEF up, down
    <2>4. CASE Account[p] # m
        <3>1. posted'[m] = posted[m] /\ up = 0
            BY <1>1, <1>2, <2>1, <2>4 DEF LedgerType
        <3> QED
            BY <1>1, <2>2, <3>1 DEF up, down
    <2> QED
        BY <2>3, <2>4
<1>4. CASE Remove(p, op)
    <2>1. posted' = [posted EXCEPT ![Account[p]] = posted[Account[p]] + (-op.amount)] /\ op.op = "remove"
        BY <1>4 DEF Remove, Post
    <2>2. up = 0
        BY <1>2, <2>1
    <2>3. CASE Account[p] = m
        <3>1. posted'[m] = posted[m] + (-op.amount) /\ down = op.amount
            BY <1>1, <1>2, <2>1, <2>3 DEF LedgerType
        <3> QED
            BY <1>1, <1>2, <2>2, <3>1 DEF up, down
    <2>4. CASE Account[p] # m
        <3>1. posted'[m] = posted[m] /\ down = 0
            BY <1>1, <1>2, <2>1, <2>4 DEF LedgerType
        <3> QED
            BY <1>1, <2>2, <3>1 DEF up, down
    <2> QED
        BY <2>3, <2>4
<1>5. CASE RequestTransfer(p, op) \/ Respond(p, op) \/ Look(p, op)
    <2>1. posted' = posted /\ op.op \notin {"add", "remove"}
        BY <1>5 DEF RequestTransfer, Respond, Look, ledgerVars
    <2>2. up = 0 /\ down = 0
        BY <1>2, <2>1
    <2> QED
        BY <1>1, <2>1, <2>2 DEF up, down
<1> QED
    BY <1>3, <1>4, <1>5 DEF Perform

\* An answer that is not there, or says that nothing was done, is not counted.
LEMMA AnsweredSame ==
    ASSUME \A q \in Tool :
              \/ /\ tool'[q].answer = tool[q].answer /\ tool'[q].calls = tool[q].calls
                 /\ tool'[q].op = tool[q].op
              \/ /\ tool[q].answer = None \/ ~tool[q].answer.ok
                 /\ tool'[q].answer = None \/ ~tool'[q].answer.ok
    PROVE  Answered' = Answered
<1>1. ASSUME NEW r \in Request
      PROVE  r \in Answered' <=> r \in Answered
    <2>1. r.tool \in Tool
        BY DEF Request
    <2> QED
        BY <2>1 DEF Answered
<1> QED
    BY <1>1 DEF Answered

LEMMA ToldAnswered ==
    ASSUME TypeOK, Queued, NEW r \in wire, NEW ok \in BOOLEAN, NEW value \in Nat,
           Told(r, ok, value)
    PROVE  \/ Answered' = Answered
           \/ ok /\ r \notin Answered /\ Answered' = Answered \cup {r}
<1> DEFINE p == r.tool
<1>1. /\ r \in Request /\ p \in Tool /\ \A q \in Tool : q # p => tool'[q] = tool[q]
      /\ tool'[p].calls = tool[p].calls /\ tool'[p].op = tool[p].op
    BY ToldFields DEF TypeOK
<1>2. CASE ~Awaited(r)
    <2>1. tool'[p].answer = tool[p].answer
        BY <1>2, ToldFields
    <2> QED
        BY <1>1, <2>1, AnsweredSame
<1>3. CASE Awaited(r)
    <2>1. /\ tool[p].answer = None /\ tool[p].calls = r.n /\ tool[p].op = r.op
          /\ tool'[p].answer = [ok |-> ok, value |-> value]
        BY <1>3, ToldFields DEF Awaited, Queued
    <2>2. tool'[p].answer # None /\ (tool'[p].answer.ok <=> ok)
        BY <2>1, NoneAssumption DEF NoneAssumption, Answer
    <2>3. CASE ~ok
        BY <1>1, <2>1, <2>2, <2>3, AnsweredSame
    <2>4. CASE ok
        <3>1. r \notin Answered
            BY <2>1 DEF Answered
        <3>2. ASSUME NEW x \in Request
              PROVE  x \in Answered' <=> x \in Answered \cup {r}
            <4>1. x.tool \in Tool
                BY DEF Request
            <4>2. CASE x.tool # p
                BY <1>1, <4>1, <4>2 DEF Answered
            <4>3. CASE x.tool = p
                <5>1. x \notin Answered
                    BY <2>1, <4>3 DEF Answered
                <5>2. x \in Answered' <=> (x.n = r.n /\ x.op = r.op)
                    BY <1>1, <2>1, <2>2, <2>4, <4>3 DEF Answered
                <5>3. (x.n = r.n /\ x.op = r.op) <=> x = r
                    BY <1>1, <4>3 DEF Request
                <5> QED
                    BY <5>1, <5>2, <5>3
            <4> QED
                BY <4>2, <4>3
        <3>3. Answered' \subseteq Request /\ Answered \cup {r} \subseteq Request
            BY <1>1 DEF Answered
        <3>4. Answered' = Answered \cup {r}
            BY <3>2, <3>3
        <3> QED
            BY <2>4, <3>1, <3>4
    <2> QED
        BY <2>3, <2>4
<1> QED
    BY <1>2, <1>3

LEMMA ReturnAnswered ==
    ASSUME TypeOK, NEW p \in Tool, NEW ok \in BOOLEAN, NEW value \in Nat,
           tool[p].op # None, Return(p, ok, value)
    PROVE  LET own == [tool |-> p, n |-> tool[p].calls, op |-> tool[p].op] IN
           IF tool[p].answer # None /\ tool[p].answer.ok
           THEN own \in Request /\ own \in Answered /\ Answered' = Answered \ {own}
           ELSE Answered' = Answered
<1> DEFINE own == [tool |-> p, n |-> tool[p].calls, op |-> tool[p].op]
<1>1. tool'[p].answer = None /\ \A q \in Tool : q # p => tool'[q] = tool[q]
    <2>1. PICK s : s = AfterCall(tool[p], ok, value)
        OBVIOUS
    <2> QED
        BY <2>1, ReturnFields
<1>2. CASE tool[p].answer # None /\ tool[p].answer.ok
    <2>1. own \in Request /\ own \in Answered
        BY <1>2 DEF TypeOK, ToolState, Request, Answered
    <2>2. ASSUME NEW x \in Request
          PROVE  x \in Answered' <=> x \in Answered \ {own}
        <3>1. x.tool \in Tool
            BY DEF Request
        <3>2. CASE x.tool # p
            BY <1>1, <3>1, <3>2 DEF Answered
        <3>3. CASE x.tool = p
            <4>1. x \notin Answered'
                BY <1>1, <3>3 DEF Answered
            <4>2. x \in Answered => x = own
                BY <3>3 DEF Answered, Request
            <4> QED
                BY <4>1, <4>2
        <3> QED
            BY <3>2, <3>3
    <2>3. Answered' \subseteq Request /\ Answered \subseteq Request
        BY DEF Answered
    <2>4. Answered' = Answered \ {own}
        BY <2>2, <2>3
    <2> QED
        BY <1>2, <2>1, <2>4
<1>3. CASE ~(tool[p].answer # None /\ tool[p].answer.ok)
    <2>1. Answered' = Answered
        BY <1>1, <1>3, AnsweredSame
    <2> QED
        BY <1>3, <2>1
<1> QED
    BY <1>2, <1>3

\* The daemon takes a request: the ledger moves as the room does.
LEMMA TakenAccounted ==
    ASSUME Inv, Inv', Queued, Accounted, NEW r \in wire, Execute(r) \/ Refuse(r) \/ Lose(r)
    PROVE  Accounted'
<1> SUFFICES ASSUME NEW m \in Member
             PROVE  /\ Fits(wire', Answered', "add", "remove", m, RoomAbove(m)')
                    /\ Fits(wire', Answered', "remove", "add", m, RoomBelow(m)')
    BY DEF Accounted
<1>1. TypeOK /\ TypeOK' /\ LedgerType /\ r \in Request
    BY DEF Inv, TypeOK, LedgerType
<1> DEFINE up == Amounts("add", m)[r]
           down == Amounts("remove", m)[r]
           above == RoomAbove(m)
           below == RoomBelow(m)
           above1 == RoomAbove(m)'
           below1 == RoomBelow(m)'
           rest == wire \ {r}
<1>2. up \in Nat /\ down \in Nat
    BY <1>1, AmountType
<1>3. /\ above \in Int /\ below \in Int
      /\ posted[m] \in Int /\ told[m].confirmed \in Int
      /\ told[m].added \in Int /\ told[m].removed \in Int
    BY <1>1, RoomType
<1>4. above1 \in Int /\ below1 \in Int
    BY <1>1, RoomTypeAfter
<1>5. wire' = rest /\ told' = told
    BY DEF Execute, Refuse, Lose, Taken
<1>6. /\ Fits(wire, Answered, "add", "remove", m, above)
      /\ Fits(wire, Answered, "remove", "add", m, below)
    BY DEF Accounted
<1>7. CASE Execute(r)
    <2>1. posted'[m] = posted[m] + up - down
        BY <1>1, <1>7, PerformPosts DEF Execute
    <2> HIDE DEF up, down
    <2>2. above1 = above - up + down /\ below1 = below + up - down
        BY <1>2, <1>3, <1>5, <2>1 DEF RoomAbove, RoomBelow
    <2>3. \/ Answered' = Answered
          \/ r \notin Answered /\ Answered' = Answered \cup {r}
        <3> DEFINE value == CASE r.op.op = "pending"              -> Cardinality(PendingFor(r.tool))
                              [] account'[Account[r.tool]] = None -> 0
                              [] OTHER                            -> account'[Account[r.tool]]
        <3>1. Told(r, TRUE, value) \/ Told(r, FALSE, 0)
            BY <1>7 DEF Execute
        <3>2. value \in Nat
            <4>1. r.tool \in Tool
                BY <1>1 DEF Request
            <4>2. account'[Account[r.tool]] \in Nat \cup {None}
                BY <1>1, <4>1, ToolFacts DEF TypeOK
            <4> QED
                BY <4>1, <4>2, PendingCount
        <3> HIDE DEF value
        <3> QED
            BY <1>1, <3>1, <3>2, ToldAnswered
    <2> DEFINE amidA == above - up
               amidB == below - down
    <2>4. amidA \in Int /\ amidB \in Int /\ above - up <= amidA /\ below - down <= amidB
        BY <1>2, <1>3
    <2> HIDE DEF above, below, above1, below1, rest
    <2>5. Fits(rest, Answered, "add", "remove", m, amidA)
        BY <1>1, <1>3, <1>6, <2>4, FitsTaken DEF up, rest
    <2>6. Fits(rest, Answered, "remove", "add", m, amidB)
        BY <1>1, <1>3, <1>6, <2>4, FitsTaken DEF down, rest
    <2>7. amidA + down <= above1 /\ amidB + up <= below1
        BY <1>2, <1>3, <1>4, <2>2
    <2>8. amidA <= above1 /\ amidB <= below1
        BY <1>2, <1>3, <1>4, <2>2
    <2> HIDE DEF amidA, amidB
    <2>9. CASE Answered' = Answered
        <3>1. Fits(rest, Answered, "add", "remove", m, above1)
            BY <1>4, <2>4, <2>5, <2>8, FitsMore
        <3>2. Fits(rest, Answered, "remove", "add", m, below1)
            BY <1>4, <2>4, <2>6, <2>8, FitsMore
        <3> QED
            BY <1>5, <2>9, <3>1, <3>2 DEF above1, below1
    <2>10. CASE r \notin Answered /\ Answered' = Answered \cup {r}
        <3>1. Fits(rest, Answered \cup {r}, "add", "remove", m, above1)
            BY <1>1, <1>4, <2>4, <2>5, <2>7, <2>10, FitsAnswered DEF down
        <3>2. Fits(rest, Answered \cup {r}, "remove", "add", m, below1)
            BY <1>1, <1>4, <2>4, <2>6, <2>7, <2>10, FitsAnswered DEF up
        <3> QED
            BY <1>5, <2>10, <3>1, <3>2 DEF above1, below1
    <2> QED
        BY <2>3, <2>9, <2>10
<1>8. CASE Refuse(r) \/ Lose(r)
    <2>1. posted'[m] = posted[m]
        BY <1>8 DEF Refuse, Lose, ledgerVars
    <2>2. above1 = above /\ below1 = below
        BY <1>5, <2>1 DEF RoomAbove, RoomBelow
    <2>3. Answered' = Answered
        <3>1. CASE Lose(r)
            BY <3>1, AnsweredSame DEF Lose
        <3>2. CASE Refuse(r)
            BY <1>1, <3>2, ToldAnswered DEF Refuse
        <3> QED
            BY <1>8, <3>1, <3>2
    <2> HIDE DEF above, below, above1, below1, rest, up, down
    <2>4. above - up <= above /\ below - down <= below
        BY <1>2, <1>3
    <2>5. Fits(rest, Answered, "add", "remove", m, above)
        BY <1>1, <1>3, <1>6, <2>4, FitsTaken DEF up, rest
    <2>6. Fits(rest, Answered, "remove", "add", m, below)
        BY <1>1, <1>3, <1>6, <2>4, FitsTaken DEF down, rest
    <2> QED
        BY <1>5, <2>2, <2>3, <2>5, <2>6 DEF above1, below1
<1> QED
    BY <1>7, <1>8

\* What a tool sends off, or reads as done, goes to the reports.
LEMMA SentFields ==
    ASSUME TypeOK, NEW r \in Request, NEW m \in Member,
           told' = [told EXCEPT ![Account[r.tool]] = Sent(r.op, told[Account[r.tool]])]
    PROVE  /\ told'[m].confirmed = told[m].confirmed
           /\ told'[m].added = told[m].added + Amounts("add", m)[r]
           /\ told'[m].removed = told[m].removed + Amounts("remove", m)[r]
<1> DEFINE a == Account[r.tool]
           op == r.op
           up == Amounts("add", m)[r]
           down == Amounts("remove", m)[r]
<1>1. /\ a \in Member /\ op \in Op /\ told[m] \in Reports
      /\ told[m].confirmed \in Int /\ told[m].added \in Int /\ told[m].removed \in Int
    BY ToolFacts, RoomType DEF Request
<1>2. /\ up \in Nat /\ up = IF op.op = "add" /\ a = m THEN op.amount ELSE 0
      /\ down \in Nat /\ down = IF op.op = "remove" /\ a = m THEN op.amount ELSE 0
    BY AmountType
<1> HIDE DEF up, down
<1>3. told'[m] = IF a = m THEN Sent(op, told[m]) ELSE told[m]
    BY <1>1 DEF TypeOK
<1>4. CASE a = m /\ op.op = "add"
    <2> DEFINE sum == told[m].added + op.amount
    <2>1. told'[m] = [told[m] EXCEPT !.added = sum]
        BY <1>1, <1>3, <1>4 DEF Sent, Reports
    <2>2. up = op.amount /\ down = 0
        BY <1>2, <1>4
    <2>3. sum = told[m].added + up
        BY <2>2
    <2> HIDE DEF sum
    <2>4. /\ told'[m].confirmed = told[m].confirmed /\ told'[m].removed = told[m].removed
          /\ told'[m].added = sum
        BY <1>1, <2>1 DEF Reports
    <2> QED
        BY <1>1, <2>2, <2>3, <2>4 DEF up, down
<1>5. CASE a = m /\ op.op = "remove"
    <2> DEFINE sum == told[m].removed + op.amount
    <2>1. told'[m] = [told[m] EXCEPT !.removed = sum]
        BY <1>1, <1>3, <1>5 DEF Sent, Reports
    <2>2. up = 0 /\ down = op.amount
        BY <1>2, <1>5
    <2>3. sum = told[m].removed + down
        BY <2>2
    <2> HIDE DEF sum
    <2>4. /\ told'[m].confirmed = told[m].confirmed /\ told'[m].removed = sum
          /\ told'[m].added = told[m].added
        BY <1>1, <2>1 DEF Reports
    <2> QED
        BY <1>1, <2>2, <2>3, <2>4 DEF up, down
<1>6. CASE a # m \/ op.op \notin {"add", "remove"}
    <2>1. told'[m] = told[m] /\ up = 0 /\ down = 0
        BY <1>2, <1>3, <1>6 DEF Sent
    <2> QED
        BY <1>1, <2>1 DEF up, down
<1> QED
    BY <1>4, <1>5, <1>6

LEMMA ConfirmedFields ==
    ASSUME TypeOK, NEW r \in Request, NEW m \in Member,
           told' = [told EXCEPT ![Account[r.tool]] = Confirmed(r.op, told[Account[r.tool]])]
    PROVE  /\ told'[m].confirmed =
                told[m].confirmed + Amounts("add", m)[r] - Amounts("remove", m)[r]
           /\ told'[m].added = told[m].added - Amounts("add", m)[r]
           /\ told'[m].removed = told[m].removed - Amounts("remove", m)[r]
<1> DEFINE a == Account[r.tool]
           op == r.op
           up == Amounts("add", m)[r]
           down == Amounts("remove", m)[r]
<1>1. /\ a \in Member /\ op \in Op /\ told[m] \in Reports
      /\ told[m].confirmed \in Int /\ told[m].added \in Int /\ told[m].removed \in Int
    BY ToolFacts, RoomType DEF Request
<1>2. /\ up \in Nat /\ up = IF op.op = "add" /\ a = m THEN op.amount ELSE 0
      /\ down \in Nat /\ down = IF op.op = "remove" /\ a = m THEN op.amount ELSE 0
    BY AmountType
<1> HIDE DEF up, down
<1>3. told'[m] = IF a = m THEN Confirmed(op, told[m]) ELSE told[m]
    BY <1>1 DEF TypeOK
<1>4. CASE a = m /\ op.op = "add"
    <2> DEFINE less == told[m].added - op.amount
               sum == told[m].confirmed + op.amount
    <2>1. told'[m] = [told[m] EXCEPT !.added = less, !.confirmed = sum]
        BY <1>1, <1>3, <1>4 DEF Confirmed, Reports
    <2>2. up = op.amount /\ down = 0
        BY <1>2, <1>4
    <2>3. sum = told[m].confirmed + up /\ less = told[m].added - up
        BY <2>2
    <2> HIDE DEF sum, less
    <2>4. /\ told'[m].confirmed = sum /\ told'[m].removed = told[m].removed
          /\ told'[m].added = less
        BY <1>1, <2>1 DEF Reports
    <2> QED
        BY <1>1, <1>2, <2>2, <2>3, <2>4 DEF up, down
<1>5. CASE a = m /\ op.op = "remove"
    <2> DEFINE less == told[m].removed - op.amount
               sum == told[m].confirmed - op.amount
    <2>1. told'[m] = [told[m] EXCEPT !.removed = less, !.confirmed = sum]
        BY <1>1, <1>3, <1>5 DEF Confirmed, Reports
    <2>2. up = 0 /\ down = op.amount
        BY <1>2, <1>5
    <2>3. sum = told[m].confirmed - down /\ less = told[m].removed - down
        BY <2>2
    <2> HIDE DEF sum, less
    <2>4. /\ told'[m].confirmed = sum /\ told'[m].removed = less
          /\ told'[m].added = told[m].added
        BY <1>1, <2>1 DEF Reports
    <2> QED
        BY <1>1, <1>2, <2>2, <2>3, <2>4 DEF up, down
<1>6. CASE a # m \/ op.op \notin {"add", "remove"}
    <2>1. told'[m] = told[m] /\ up = 0 /\ down = 0
        BY <1>2, <1>3, <1>6 DEF Confirmed
    <2> QED
        BY <1>1, <2>1 DEF up, down
<1> QED
    BY <1>4, <1>5, <1>6

LEMMA CallAccounted ==
    ASSUME Inv, Inv', Queued, Accounted, NEW p \in Tool, NEW place, NEW op \in Op,
           Call(p, place, op), tool[p].op = None
    PROVE  Accounted'
<1> SUFFICES ASSUME NEW m \in Member
             PROVE  /\ Fits(wire', Answered', "add", "remove", m, RoomAbove(m)')
                    /\ Fits(wire', Answered', "remove", "add", m, RoomBelow(m)')
    BY DEF Accounted
<1> DEFINE r == [tool |-> p, n |-> tool[p].calls + 1, op |-> op]
           up == Amounts("add", m)[r]
           down == Amounts("remove", m)[r]
           above == RoomAbove(m)
           below == RoomBelow(m)
           above1 == RoomAbove(m)'
           below1 == RoomBelow(m)'
<1>1. TypeOK /\ TypeOK' /\ tool[p].calls \in Nat
    BY DEF Inv, TypeOK, ToolState
<1>2. r \in Request /\ r.tool = p /\ r.n = tool[p].calls + 1 /\ r.op = op
    BY <1>1 DEF Request
<1>3. /\ wire' = wire \cup {r} /\ posted' = posted
      /\ told' = [told EXCEPT ![Account[p]] = Sent(op, told[Account[p]])]
    BY DEF Call, ledgerVars
<1> HIDE DEF r
<1>4. r \notin wire
    <2> SUFFICES ASSUME r \in wire PROVE FALSE
        OBVIOUS
    <2>1. r.n <= tool[p].calls
        BY <1>2 DEF Queued
    <2> QED
        BY <1>1, <1>2, <2>1
<1>5. Answered' = Answered
    <2>1. tool[p].answer = None
        BY DEF Inv, Asking
    <2>2. tool'[p].answer = None /\ \A q \in Tool : q # p => tool'[q] = tool[q]
        BY <1>1, CallFields
    <2> QED
        BY <2>1, <2>2, AnsweredSame
<1>6. up \in Nat /\ down \in Nat
    BY <1>2, AmountType
<1>7. /\ above \in Int /\ below \in Int /\ above1 \in Int /\ below1 \in Int
      /\ posted[m] \in Int /\ told[m].confirmed \in Int
      /\ told[m].added \in Int /\ told[m].removed \in Int
    BY <1>1, RoomType, RoomTypeAfter
<1>8. /\ told'[m].confirmed = told[m].confirmed
      /\ told'[m].added = told[m].added + up
      /\ told'[m].removed = told[m].removed + down
    BY <1>1, <1>2, <1>3, SentFields
<1> HIDE DEF up, down
<1>9. above1 = above + up /\ below1 = below + down
    BY <1>3, <1>6, <1>7, <1>8 DEF RoomAbove, RoomBelow
<1>10. /\ Fits(wire, Answered, "add", "remove", m, above)
       /\ Fits(wire, Answered, "remove", "add", m, below)
    BY DEF Accounted
<1> HIDE DEF above, below, above1, below1
<1>11. above + up <= above1 /\ below + down <= below1
    BY <1>6, <1>7, <1>9
<1>12. Fits(wire \cup {r}, Answered, "add", "remove", m, above1)
    BY <1>2, <1>4, <1>7, <1>10, <1>11, FitsSent DEF up
<1>13. Fits(wire \cup {r}, Answered, "remove", "add", m, below1)
    BY <1>2, <1>4, <1>7, <1>10, <1>11, FitsSent DEF down
<1> QED
    BY <1>3, <1>5, <1>12, <1>13 DEF above1, below1

\* An answer is read, or the tool gives up on it.
LEMMA ReturnAccounted ==
    ASSUME Inv, Inv', Accounted, NEW p \in Tool, Receive(p) \/ GiveUp(p)
    PROVE  Accounted'
<1> SUFFICES ASSUME NEW m \in Member
             PROVE  /\ Fits(wire', Answered', "add", "remove", m, RoomAbove(m)')
                    /\ Fits(wire', Answered', "remove", "add", m, RoomBelow(m)')
    BY DEF Accounted
<1> DEFINE r == [tool |-> p, n |-> tool[p].calls, op |-> tool[p].op]
           up == Amounts("add", m)[r]
           down == Amounts("remove", m)[r]
           above == RoomAbove(m)
           below == RoomBelow(m)
           above1 == RoomAbove(m)'
           below1 == RoomBelow(m)'
           done == tool[p].answer # None /\ tool[p].answer.ok
<1>1. /\ TypeOK /\ TypeOK' /\ tool[p] \in ToolState /\ tool[p].op # None
      /\ wire' = wire /\ posted' = posted
    BY DEF Inv, TypeOK, Asking, Receive, GiveUp, ledgerVars
<1>2. PICK ok \in BOOLEAN, value \in Nat : Return(p, ok, value)
    <2>1. CASE Receive(p)
        BY <1>1, <2>1 DEF Receive, ToolState, Answer
    <2>2. CASE GiveUp(p)
        BY <2>2 DEF GiveUp
    <2> QED
        BY <2>1, <2>2
<1>3. IF done THEN r \in Request /\ r \in Answered /\ Answered' = Answered \ {r}
              ELSE Answered' = Answered
    BY <1>1, <1>2, ReturnAnswered
<1>4. r.tool = p /\ r.op = tool[p].op
    OBVIOUS
<1>5. \/ told' = told
      \/ done /\ told' = [told EXCEPT ![Account[p]] = Confirmed(tool[p].op, told[Account[p]])]
    BY DEF Receive, GiveUp
<1> HIDE DEF r, done
<1>6. /\ above \in Int /\ below \in Int /\ above1 \in Int /\ below1 \in Int
      /\ posted[m] \in Int /\ told[m].confirmed \in Int
      /\ told[m].added \in Int /\ told[m].removed \in Int
    BY <1>1, RoomType, RoomTypeAfter
<1>7. /\ Fits(wire, Answered, "add", "remove", m, above)
      /\ Fits(wire, Answered, "remove", "add", m, below)
    BY DEF Accounted
<1>8. told' = told => above1 = above /\ below1 = below
    BY <1>1 DEF RoomAbove, RoomBelow
<1>9. CASE ~done
    BY <1>1, <1>3, <1>5, <1>7, <1>8, <1>9
<1>10. CASE done
    <2>1. r \in Request /\ r \in Answered /\ Answered' = Answered \ {r}
        BY <1>3, <1>10
    <2>2. up \in Nat /\ down \in Nat
        BY <2>1, AmountType
    <2>3. above - down <= above1 /\ below - up <= below1
        <3>1. CASE told' = told
            <4> HIDE DEF up, down, above, above1, below, below1
            <4> QED
                BY <1>6, <1>8, <2>2, <3>1
        <3>2. CASE told' = [told EXCEPT ![Account[p]] = Confirmed(tool[p].op, told[Account[p]])]
            <4>1. /\ told'[m].confirmed = told[m].confirmed + up - down
                  /\ told'[m].added = told[m].added - up
                  /\ told'[m].removed = told[m].removed - down
                BY <1>1, <1>4, <2>1, <3>2, ConfirmedFields
            <4> HIDE DEF up, down
            <4>2. above1 = above - down /\ below1 = below - up
                BY <1>1, <1>6, <2>2, <4>1 DEF RoomAbove, RoomBelow
            <4> HIDE DEF above, above1, below, below1
            <4> QED
                BY <1>6, <2>2, <4>2
        <3> QED
            BY <1>5, <3>1, <3>2
    <2> HIDE DEF above, above1, below, below1
    <2>4. Fits(wire, Answered \ {r}, "add", "remove", m, above1)
        BY <1>6, <1>7, <2>1, <2>3, FitsRead
    <2>5. Fits(wire, Answered \ {r}, "remove", "add", m, below1)
        BY <1>6, <1>7, <2>1, <2>3, FitsRead
    <2> QED
        BY <1>1, <2>1, <2>4, <2>5 DEF above1, below1
<1> QED
    BY <1>9, <1>10

\* A tool at its prompt waits for nothing.
AtPrompt == \A p \in Tool : tool[p].at = "menu" => tool[p].op = None

LEMMA AtPromptStep ==
    ASSUME Inv, AtPrompt, [Next]_vars
    PROVE  AtPrompt'
<1>1. TypeOK
    BY DEF Inv
<1>2. ASSUME NEW p \in Tool, \A q \in Tool : q # p => tool'[q] = tool[q],
             tool'[p].at = "menu" => tool'[p].op = None
      PROVE  AtPrompt'
    BY <1>2 DEF AtPrompt
<1>3. ASSUME NEW r \in wire, NEW ok \in BOOLEAN, NEW value, Told(r, ok, value)
      PROVE  AtPrompt'
    <2>1. /\ r.tool \in Tool /\ \A q \in Tool : q # r.tool => tool'[q] = tool[q]
          /\ tool'[r.tool].at = tool[r.tool].at /\ tool'[r.tool].op = tool[r.tool].op
        BY <1>1, <1>3, ToldFields
    <2> QED
        BY <1>2, <2>1 DEF AtPrompt
<1>4. ASSUME NEW r \in wire, Execute(r) \/ Refuse(r) \/ Lose(r)
      PROVE  AtPrompt'
    <2>1. tool' = tool \/ \E ok \in BOOLEAN : \E value : Told(r, ok, value)
        BY <1>4 DEF Execute, Refuse, Lose
    <2> QED
        BY <1>3, <2>1 DEF AtPrompt
<1>5. ASSUME NEW p \in Tool, NEW place \in {"command", "bar"}, NEW op, Call(p, place, op)
      PROVE  AtPrompt'
    <2>1. tool'[p].at = place /\ \A q \in Tool : q # p => tool'[q] = tool[q]
        BY <1>1, <1>5, CallFields
    <2> QED
        BY <1>2, <2>1
<1>6. ASSUME NEW p \in Tool, Receive(p) \/ GiveUp(p)
      PROVE  AtPrompt'
    <2>1. tool[p] \in ToolState /\ tool[p].op # None
        BY <1>1, <1>6 DEF Inv, TypeOK, Asking, Receive, GiveUp
    <2>2. PICK ok \in BOOLEAN, value \in Nat : Return(p, ok, value)
        <3>1. CASE Receive(p)
            BY <2>1, <3>1 DEF Receive, ToolState, Answer
        <3>2. CASE GiveUp(p)
            BY <3>2 DEF GiveUp
        <3> QED
            BY <1>6, <3>1, <3>2
    <2>3. tool'[p].op = None /\ \A q \in Tool : q # p => tool'[q] = tool[q]
        BY <1>1, <2>1, <2>2, ReturnFields
    <2> QED
        BY <1>2, <2>3
<1>7. ASSUME NEW p \in Tool, NEW place, Moves(p, place), place = "menu" => tool[p].op = None
      PROVE  AtPrompt'
    BY <1>2, <1>7 DEF Moves
<1>8. ASSUME NEW p \in Tool, Decline(p) \/ Quit(p)
      PROVE  AtPrompt'
    <2>1. Moves(p, "command") \/ Moves(p, "quit")
        BY <1>1, <1>8, MoveFields DEF Decline, Quit, Update
    <2> QED
        BY <1>7, <2>1
<1>9. ASSUME NEW p \in Tool, DrawBar(p)
      PROVE  AtPrompt'
    <2>1. CASE Call(p, "bar", [op |-> "balance"])
        BY <1>5, <2>1
    <2>2. CASE Update(p, [tool[p] EXCEPT !.at = "menu"])
        <3>1. Moves(p, "menu") /\ tool[p].op = None
            BY <1>1, <1>9, <2>2, MoveFields DEF Update, DrawBar
        <3> QED
            BY <1>7, <3>1
    <2> QED
        BY <1>9, <2>1, <2>2 DEF DrawBar
<1>10. ASSUME NEW p \in Tool, NEW op \in Op, Command(p, op)
       PROVE  AtPrompt'
    BY <1>5, <1>10 DEF Command
<1>11. CASE UNCHANGED vars
    BY <1>11 DEF AtPrompt, vars
<1> QED
    BY <1>4, <1>6, <1>8, <1>9, <1>10, <1>11 DEF Next

LEMMA InitAtPrompt == Init => AtPrompt
    BY DEF Init, Started, AtPrompt

LEMMA AccountedStep ==
    ASSUME Inv, Queued, AtPrompt, Accounted, [Next]_vars
    PROVE  Accounted'
<1>1. TypeOK /\ Inv'
    BY Inductive DEF Inv
<1>2. ASSUME UNCHANGED <<wire, posted, told>>, Answered' = Answered
      PROVE  Accounted'
    BY <1>2 DEF Accounted, RoomAbove, RoomBelow
<1>3. ASSUME NEW p \in Tool, NEW place, Moves(p, place), UNCHANGED <<wire, posted, told>>
      PROVE  Accounted'
    BY <1>2, <1>3, AnsweredSame DEF Moves
<1>4. ASSUME NEW p \in Tool, NEW op \in Op, Command(p, op)
      PROVE  Accounted'
    <2>1. Call(p, "command", op) /\ tool[p].op = None
        BY <1>4 DEF Command, AtPrompt
    <2> QED
        BY <1>1, <2>1, CallAccounted
<1>5. ASSUME NEW p \in Tool, Decline(p) \/ Quit(p)
      PROVE  Accounted'
    BY <1>1, <1>3, <1>5, MoveFields DEF Decline, Quit, Update, ledgerVars
<1>6. ASSUME NEW p \in Tool, DrawBar(p)
      PROVE  Accounted'
    <2>1. CASE Call(p, "bar", [op |-> "balance"])
        <3>1. [op |-> "balance"] \in Op /\ tool[p].op = None
            BY <1>6 DEF Op, LookOp, DrawBar
        <3> QED
            BY <1>1, <2>1, <3>1, CallAccounted
    <2>2. CASE Update(p, [tool[p] EXCEPT !.at = "menu"]) /\ UNCHANGED <<wire, posted, told>>
        BY <1>1, <1>3, <2>2, MoveFields DEF Update
    <2> QED
        BY <1>6, <2>1, <2>2 DEF DrawBar, ledgerVars
<1>7. CASE UNCHANGED vars
    <2>1. Answered' = Answered
        BY <1>7, AnsweredSame DEF vars
    <2> QED
        BY <1>2, <1>7, <2>1 DEF vars
<1> QED
    BY <1>1, <1>4, <1>5, <1>6, <1>7, TakenAccounted, ReturnAccounted DEF Next

LEMMA InitAccounted == Init => Accounted
<1> SUFFICES ASSUME Init, NEW m \in Member
             PROVE  /\ Fits(wire, Answered, "add", "remove", m, RoomAbove(m))
                    /\ Fits(wire, Answered, "remove", "add", m, RoomBelow(m))
    BY DEF Accounted
<1>1. wire = {} /\ RoomAbove(m) = 0 /\ RoomBelow(m) = 0
    BY DEF Init, RoomAbove, RoomBelow
<1>2. Answered = {}
    BY DEF Init, Started, Answered, Request
<1> QED
    BY <1>1, <1>2, SumOfNone DEF Fits

\* What users were told adds up, for any number of members, tools, amounts and
\* calls: every add and remove reported as done is in the ledger, once, and
\* whatever else is there was sent and has no report, or a report of failure.
THEOREM ReportsAlwaysAddUp == Spec => []ReportsAddUp
<1>1. Init => Inv /\ Queued /\ AtPrompt /\ Accounted
    BY InitInv, InitBars, InitAtPrompt, InitAccounted
<1>2. Inv /\ Queued /\ AtPrompt /\ Accounted /\ [Next]_vars
         => Inv' /\ Queued' /\ AtPrompt' /\ Accounted'
    BY Inductive, QueuedStep, AtPromptStep, AccountedStep
<1>3. Inv /\ Queued /\ AtPrompt /\ Accounted => ReportsAddUp
    <2> SUFFICES ASSUME Inv, Accounted, NEW m \in Member
                 PROVE  /\ posted[m] <= told[m].confirmed + told[m].added
                        /\ posted[m] >= told[m].confirmed - told[m].removed
        BY DEF ReportsAddUp
    <2>1. /\ posted[m] \in Int /\ told[m].confirmed \in Int
          /\ told[m].added \in Int /\ told[m].removed \in Int
        BY RoomType DEF Inv
    <2>2. 0 <= RoomAbove(m) /\ 0 <= RoomBelow(m)
        <3>1. RoomAbove(m) \in Int /\ RoomBelow(m) \in Int
            BY RoomType DEF Inv
        <3> QED
            BY <3>1 DEF Accounted, Fits
    <2> QED
        BY <2>1, <2>2 DEF RoomAbove, RoomBelow
<1> QED
    BY <1>1, <1>2, <1>3, PTL DEF Spec
=============================================================================
