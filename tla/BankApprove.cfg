\* Approval moves no money.
SPECIFICATION Spec
CONSTANTS
    alice = alice
    teller = teller
    t1 = t1
    t2 = t2
    Member = {alice, teller}
    Sysop = {teller}
    Tool = {t1, t2}
    Actor <- MCActor
    Account <- MCOwnAccount
    Amount = {1}
    MaxBalance = 2
    MaxCalls <- MCMaxCalls
    MaxGiveUps = 1
    TransferId = {1}
    None = None
PROPERTIES
    ApprovedMoves
\* Every tool may quit.
CHECK_DEADLOCK FALSE
