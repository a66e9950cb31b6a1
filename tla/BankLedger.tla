----------------------------- MODULE BankLedger ----------------------------
(***************************************************************************)
(* The bank: the definer function engine.bed_bank_op behind the handlers   *)
(* of src/bed/api/bank.py, the client src/bed/client/bankservice.py, and   *)
(* the menu of src/bed/tools/bank.py with the balance in its bottom bar.   *)
(*                                                                         *)
(* A handler does not await, and its one database call is a transaction:   *)
(* a request takes effect in one step, or not at all.  The call may raise  *)
(* before or after that.  A tool that waits too long gives up and closes   *)
(* its socket; the daemon may still take the request later.                *)
(***************************************************************************)
EXTENDS Integers, FiniteSets

CONSTANTS
    Member,
    Sysop,        \* the members engine.bed_is_sysop accepts
    Tool,         \* running bank menus
    Actor,        \* the member a tool's token is of
    Account,      \* the member whose account the tool is about
    Amount,       \* amounts a user may enter
    MaxBalance,   \* bound on a balance
    MaxCalls,     \* bound on the calls of each tool
    MaxGiveUps,   \* bound on the calls all the tools together give up on
    TransferId,   \* ids of bank.__transfer, in their order
    None

ASSUME BankAssumption ==
    /\ Sysop \subseteq Member
    /\ Actor \in [Tool -> Member]
    /\ Account \in [Tool -> Member]
    /\ Amount \subseteq Nat \ {0}
    /\ MaxBalance \in Nat
    /\ MaxCalls \in [Tool -> Nat]
    /\ MaxGiveUps \in Nat
    /\ TransferId \subseteq Nat
    /\ IsFiniteSet(TransferId)
    /\ None \notin Member \cup Nat

VARIABLES
    account,    \* bank.__account: the balance of a member, None without account
    posted,     \* bank.__transaction: the sum of a member's rows
    transfer,   \* bank.__transfer
    wire,       \* the requests on their way to the daemon
    giveUps,    \* how many calls were given up on
    tool,       \* what a tool waits for and what its bottom bar shows
    told,       \* what the users of an account were told (history)
    overtaken   \* the tools whose account another request moved since the last
                \* balance they were given (history)

vars == <<account, posted, transfer, wire, giveUps, tool, told, overtaken>>
ledgerVars == <<account, posted, transfer>>

Transfer == [from : Member, to : Member, amount : Amount,
             status : {"pending", "approved", "rejected"},
             by : Member]        \* requestedby

\* The requests of the client.  "read" is its history and its list_all.
MoveOp     == [op : {"add", "remove"}, amount : Amount]
TransferOp == [op : {"transfer"}, amount : Amount, to : Member]
ResponseOp == [op : {"approve", "reject"}, id : TransferId]
LookOp     == [op : {"balance", "pending", "read"}]
Op == MoveOp \cup TransferOp \cup ResponseOp \cup LookOp

Request == [tool : Tool, n : Nat, op : Op]

Answer == [ok : BOOLEAN,
           value : Nat]    \* the new balance; for "pending" the number of rows

ASSUME NoneAssumption == None \notin Op \cup Answer

\* Confirmed is the sum of the adds and removes reported as done; added and
\* removed are the amounts sent off and not, or not yet, reported as done.
Reports == [confirmed : Int, added : Int, removed : Int]

ToolState ==
    [at      : {"menu", "command", "bar", "quit"},  \* at the prompt, in a command, redrawing
     calls   : Nat,
     op      : Op \cup {None},
     answer  : Answer \cup {None},
     shown   : Nat \cup {None},     \* _current_balance
     dirty   : BOOLEAN,             \* _balance_dirty
     misread : BOOLEAN]             \* shown is the 0 of a lookup that failed

TypeOK ==
    /\ account \in [Member -> Nat \cup {None}]
    /\ posted \in [Member -> Int]
    /\ transfer \in [TransferId -> Transfer \cup {None}]
    /\ wire \subseteq Request
    /\ giveUps \in 0 .. MaxGiveUps
    /\ tool \in [Tool -> ToolState]
    /\ told \in [Member -> Reports]
    /\ overtaken \subseteq Tool

\* menu(): the bar is dirty and drawn before the first prompt.
Started == [at |-> "command", calls |-> 0, op |-> None, answer |-> None, shown |-> None,
            dirty |-> TRUE, misread |-> FALSE]

Init ==
    /\ account = [m \in Member |-> None]
    /\ posted = [m \in Member |-> 0]
    /\ transfer = [i \in TransferId |-> None]
    /\ wire = {}
    /\ giveUps = 0
    /\ tool = [p \in Tool |-> Started]
    /\ told = [m \in Member |-> [confirmed |-> 0, added |-> 0, removed |-> 0]]
    /\ overtaken = {}

---------------------------------------------------------------------------
(***************************************************************************)
(* The ledger: engine.bed_bank_op and engine.bed_bank_balance.  A refused  *)
(* operation changes nothing.                                              *)
(***************************************************************************)
BalanceOf(m) == IF account[m] = None THEN 0 ELSE account[m]

MayActFor(p, m) == Actor[p] = m \/ Actor[p] \in Sysop

\* add opens the account first if need be.
AddBalance(m, amount) == account' = [account EXCEPT ![m] = BalanceOf(m) + amount]

Post(m, amount) == posted' = [posted EXCEPT ![m] = @ + amount]

Add(p, op) ==
    /\ op.op = "add"
    /\ MayActFor(p, Account[p])
    /\ BalanceOf(Account[p]) + op.amount <= MaxBalance
    /\ AddBalance(Account[p], op.amount)
    /\ Post(Account[p], op.amount)
    /\ UNCHANGED transfer

EnoughAtRequest(m, amount) == account[m] # None

\* The guard of the UPDATE: a member without an account has no row.
Enough(m, amount) == account[m] # None /\ account[m] >= amount

Remove(p, op) ==
    /\ op.op = "remove"
    /\ MayActFor(p, Account[p])
    /\ Enough(Account[p], op.amount)
    /\ account' = [account EXCEPT ![Account[p]] = @ - op.amount]
    /\ Post(Account[p], -op.amount)
    /\ UNCHANGED transfer

FreeIds == {i \in TransferId : transfer[i] = None}

\* transfer_request queues a row for two existing accounts.
RequestTransfer(p, op) ==
    /\ op.op = "transfer"
    /\ MayActFor(p, Account[p])
    /\ account[Account[p]] # None
    /\ account[op.to] # None
    /\ FreeIds # {}
    /\ transfer' = [transfer EXCEPT
            ![CHOOSE i \in FreeIds : \A j \in FreeIds : i <= j] =
                [from |-> Account[p], to |-> op.to, amount |-> op.amount,
                 status |-> "pending", by |-> Actor[p]]]
    /\ UNCHANGED <<account, posted>>

OpenAlways(row) == TRUE

Open(row) == row.status = "pending"

\* transfer_approve and transfer_reject set the status, and nothing else.
Respond(p, op) ==
    /\ op.op \in {"approve", "reject"}
    /\ transfer[op.id] # None
    /\ MayActFor(p, transfer[op.id].to)
    /\ Open(transfer[op.id])
    /\ transfer' = [transfer EXCEPT
            ![op.id].status = IF op.op = "approve" THEN "approved" ELSE "rejected"]
    /\ UNCHANGED <<account, posted>>

\* The rows of "pending".
PendingFor(p) ==
    {i \in TransferId : /\ transfer[i] # None
                        /\ Open(transfer[i])
                        /\ transfer[i].by = Actor[p] \/ Actor[p] \in Sysop}

\* balance, pending, history and list_all; the last two are "read".  Only a
\* sysop may list_all: for others that "read" is the one Refuse answers.
Look(p, op) ==
    /\ op.op \in {"balance", "pending", "read"}
    /\ MayActFor(p, Account[p])
    /\ UNCHANGED ledgerVars

Perform(p, op) ==
    Add(p, op) \/ Remove(p, op) \/ RequestTransfer(p, op) \/ Respond(p, op) \/ Look(p, op)

---------------------------------------------------------------------------
Update(p, state) == tool' = [tool EXCEPT ![p] = state]

\* The calls whose answer has the balance of the tool's account.
GivesBalance(op) == op.op \in {"balance", "add", "remove"}

\* The tool still waits for this request.
Awaited(r) ==
    /\ tool[r.tool].op # None
    /\ tool[r.tool].calls = r.n
    /\ tool[r.tool].answer = None

Told(r, ok, value) ==
    /\ IF Awaited(r)
       THEN Update(r.tool, [tool[r.tool] EXCEPT !.answer = [ok |-> ok, value |-> value]])
       ELSE UNCHANGED tool
    /\ overtaken' =
            {q \in Tool : IF q = r.tool /\ Awaited(r)
                          THEN q \in overtaken /\ ~(ok /\ GivesBalance(r.op))
                          ELSE q \in overtaken \/ account'[Account[q]] # account[Account[q]]}

TakenTwice(r) == UNCHANGED wire

Taken(r) == wire' = wire \ {r}

\* The daemon takes a request: it goes through, and the reply has the balance
\* after it; or it goes through and the database call still raises.
Execute(r) ==
    /\ r \in wire
    /\ Perform(r.tool, r.op)
    /\ Taken(r)
    /\ \/ Told(r, TRUE,
               CASE r.op.op = "pending"              -> Cardinality(PendingFor(r.tool))
                 [] account'[Account[r.tool]] = None -> 0
                 [] OTHER                            -> account'[Account[r.tool]])
       \/ Told(r, FALSE, 0)
    /\ UNCHANGED <<giveUps, told>>

\* It is refused, by a gate or the ledger, or the database call raises first.
Refuse(r) ==
    /\ r \in wire
    /\ Taken(r)
    /\ UNCHANGED <<ledgerVars, giveUps, told>>
    /\ Told(r, FALSE, 0)

\* A request the tool gave up on is lost with its socket.
Lose(r) ==
    /\ r \in wire
    /\ ~Awaited(r)
    /\ Taken(r)
    /\ UNCHANGED <<ledgerVars, giveUps, tool, told, overtaken>>

---------------------------------------------------------------------------
(***************************************************************************)
(* The tool.  Each command is one call; when the call has ended the bar is *)
(* drawn, which looks the balance up if it is dirty.                       *)
(***************************************************************************)
Sent(op, report) ==
    CASE op.op = "add"    -> [report EXCEPT !.added = @ + op.amount]
      [] op.op = "remove" -> [report EXCEPT !.removed = @ + op.amount]
      [] OTHER            -> report

Confirmed(op, report) ==
    CASE op.op = "add"    -> [report EXCEPT !.added = @ - op.amount, !.confirmed = @ + op.amount]
      [] op.op = "remove" -> [report EXCEPT !.removed = @ - op.amount, !.confirmed = @ - op.amount]
      [] OTHER            -> report

Call(p, place, op) ==
    /\ tool[p].calls < MaxCalls[p]
    /\ wire' = wire \cup {[tool |-> p, n |-> tool[p].calls + 1, op |-> op]}
    /\ Update(p, [tool[p] EXCEPT !.at = place, !.calls = @ + 1, !.op = op, !.answer = None])
    /\ told' = [told EXCEPT ![Account[p]] = Sent(op, @)]
    /\ UNCHANGED <<ledgerVars, giveUps, overtaken>>

\* The functions of the tool; its menu offers all but approve and reject.
Command(p, op) ==
    /\ tool[p].at = "menu"
    /\ Call(p, "command", op)

\* The command ends before its call: a bad amount, or _check_access refuses.
\* Balance, add and remove then mark the balance dirty, the others do not.
Decline(p) ==
    /\ tool[p].at = "menu"
    /\ \E dirty \in {TRUE, tool[p].dirty} :
            Update(p, [tool[p] EXCEPT !.at = "command", !.dirty = dirty])
    /\ UNCHANGED <<ledgerVars, wire, giveUps, told, overtaken>>

\* _cache_balance.
Cached(state, balance, found) ==
    [state EXCEPT !.shown = balance, !.dirty = FALSE, !.misread = ~found]

FailedKeepsClean(state) == state

\* A failed add or remove may have taken effect.
FailedCommand(state) == [state EXCEPT !.dirty = TRUE]

\* The bar and bank_balance take a failed lookup for a balance of 0.
AfterLookup(state, ok, balance) == Cached(state, IF ok THEN balance ELSE 0, ok)

\* bank_add and bank_remove.
AfterMove(state, ok, balance) == IF ok THEN Cached(state, balance, TRUE) ELSE FailedCommand(state)

\* bank_transfer and bank_approve, done or failed.
AfterTransfer(state) == [state EXCEPT !.dirty = TRUE]

\* bank_reject and the listings leave the bar alone.
AfterCall(state, ok, balance) ==
    CASE state.op.op = "balance"                 -> AfterLookup(state, ok, balance)
      [] state.op.op \in {"add", "remove"}       -> AfterMove(state, ok, balance)
      [] state.op.op \in {"transfer", "approve"} -> AfterTransfer(state)
      [] OTHER                                   -> state

\* bank_pending names fields its rows do not have: a row ends the tool.
Crashes(p, ok, value) == tool[p].op.op = "pending" /\ ok /\ value > 0

Return(p, ok, value) ==
    Update(p, [AfterCall(tool[p], ok, value) EXCEPT
        !.at = CASE Crashes(p, ok, value) -> "quit"
                 [] tool[p].at = "bar"    -> "menu"
                 [] OTHER                 -> "command",
        !.op = None, !.answer = None])

\* The reply comes, or the call times out or loses its socket.
Receive(p) ==
    /\ tool[p].answer # None
    /\ Return(p, tool[p].answer.ok, tool[p].answer.value)
    /\ told' = IF tool[p].answer.ok
               THEN [told EXCEPT ![Account[p]] = Confirmed(tool[p].op, @)]
               ELSE told
    /\ UNCHANGED <<ledgerVars, wire, giveUps, overtaken>>

GiveUp(p) ==
    /\ tool[p].op # None
    /\ giveUps < MaxGiveUps
    /\ giveUps' = giveUps + 1
    /\ Return(p, FALSE, 0)
    /\ UNCHANGED <<ledgerVars, wire, told, overtaken>>

\* setbottombar at the end of a command.
DrawBar(p) ==
    /\ tool[p].at = "command"
    /\ tool[p].op = None
    /\ \/ /\ tool[p].dirty
          /\ Call(p, "bar", [op |-> "balance"])
       \/ /\ ~tool[p].dirty
          /\ Update(p, [tool[p] EXCEPT !.at = "menu"])
          /\ UNCHANGED <<ledgerVars, wire, giveUps, told, overtaken>>

\* The user quits; the model also stops a tool that has used up its calls.
Quit(p) ==
    /\ tool[p].op = None
    /\ tool[p].at = "menu" \/ (tool[p].at = "command" /\ tool[p].calls = MaxCalls[p])
    /\ Update(p, [tool[p] EXCEPT !.at = "quit"])
    /\ UNCHANGED <<ledgerVars, wire, giveUps, told, overtaken>>

Next ==
    \/ \E r \in wire : Execute(r) \/ Refuse(r) \/ Lose(r)
    \/ \E p \in Tool : \/ \E op \in Op : Command(p, op)
                       \/ Decline(p) \/ Receive(p) \/ GiveUp(p) \/ DrawBar(p) \/ Quit(p)

Spec == Init /\ [][Next]_vars

---------------------------------------------------------------------------
\* No balance is ever negative, and each is the sum of the rows posted to it,
\* however the adds and removes of several tools on one account are taken: of
\* two removes on their way that the balance covers one of, one is refused
\* (engine.bed_bank_op, _handle_add, _handle_remove).
BalancesMatch == \A m \in Member : BalanceOf(m) >= 0 /\ BalanceOf(m) = posted[m]

\* What users were told adds up: every add and remove reported as done is in
\* the ledger, once, and whatever else is there was sent and has no report
\* yet, or was reported as failed (bankservice.add_funds, remove_funds).
ReportsAddUp == \A m \in Member :
    /\ posted[m] <= told[m].confirmed + told[m].added
    /\ posted[m] >= told[m].confirmed - told[m].removed

\* A decided transfer keeps its decision, however approve and reject calls of
\* several tools cross (transfer_approve, transfer_reject).
DecisionsStand ==
    [][\A i \in TransferId :
        (transfer[i] # None /\ ~(transfer[i].status = "pending")) => transfer'[i] = transfer[i]]_vars

\* The bar is right at the prompt, also after calls that failed, unless the
\* lookup itself failed or a request of another tool, or one that was given up
\* on, moved the balance after the tool was last told it (_cache_balance,
\* _mark_balance_dirty, _bank_moniker_balance_fragment).
BarExact == \A p \in Tool :
    (/\ tool[p].at = "menu"
     /\ ~tool[p].misread
     /\ p \notin overtaken) => tool[p].shown = BalanceOf(Account[p])

\* An approved transfer moves the amount: the reply to approve carries the
\* balances after it, and "we don't know the new balance until the recipient
\* approves" (specs/bank.md).
ApprovedMoves ==
    [][\A i \in TransferId :
        (/\ transfer[i] # None
         /\ transfer[i].status = "pending"
         /\ transfer'[i].status = "approved"
         /\ transfer[i].from # transfer[i].to) =>
            account'[transfer[i].to] = account[transfer[i].to] + transfer[i].amount]_vars
=============================================================================
