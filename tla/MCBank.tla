------------------------------- MODULE MCBank -------------------------------
(* Instances of Bank for TLC: the requests the clients of a run send.      *)
EXTENDS BankInv, TLC

Opens    == [code : {"OPEN"}, arg : Names]
Sessions == [code : {"START"}, arg : Names]
Moves    == [code : {"CREDIT", "DEBIT"}, arg : Amounts]
Ends     == [code : {"FINISH", "EXIT"}, arg : {0}]
Asks     == [code : {"BALANCE"}, arg : {0}]

SessionRequests == Opens \cup Sessions \cup Ends \cup Asks
MoneyRequests == Opens \cup Sessions \cup Moves \cup [code : {"FINISH"}, arg : {0}]

Interchangeable == Permutations(Handlers) \cup Permutations(Names)
=============================================================================
