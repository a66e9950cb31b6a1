---------------------------- MODULE MCBankLedger ---------------------------
EXTENDS BankLedger, TLC

\* The teller is a sysop, who may work on any account.
CONSTANTS alice, teller, t1, t2

MCActor == t1 :> alice @@ t2 :> teller
MCOneAccount == t1 :> alice @@ t2 :> alice
MCOwnAccount == t1 :> alice @@ t2 :> teller
MCMaxCalls == t1 :> 3 @@ t2 :> 4
=============================================================================
