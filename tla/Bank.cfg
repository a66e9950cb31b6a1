\* A member and a sysop, each at a bank menu for the account of the member.
SPECIFICATION Spec
CONSTANTS
    alice = alice
    teller = teller
    t1 = t1
    t2 = t2
    Member = {alice, teller}
    Sysop = {teller}
    Tool = {t1, t2}
    Actor <- MCActor
    Account <- MCOneAccount
    Amount = {1}
    MaxBalance = 2
    MaxCalls <- MCMaxCalls
    MaxGiveUps = 1
    TransferId = {1}
    None = None
INVARIANTS
    TypeOK
    BalancesMatch
    ReportsAddUp
    BarExact
PROPERTIES
    DecisionsStand
\* Every tool may quit.
CHECK_DEADLOCK FALSE
