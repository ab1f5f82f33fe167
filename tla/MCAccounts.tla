----------------------------- MODULE MCAccounts -----------------------------
EXTENDS Accounts, TLC

CONSTANTS p, l1, t1

Sessions == Permutations(SessionIds)

New == [root |-> EmptyBlock, legacy |-> None]
Admin == [password |-> p, admin |-> TRUE, timeout |-> Unset]
Current == [root |-> Block(l1 :> Admin, t1 :> FALSE, Unset), legacy |-> None]
Old == [root |-> EmptyBlock, legacy |-> Block(l1 :> Admin, t1 :> FALSE, Unset)]

CurrentFiles == {New, Current}
OldFiles == {Old}
=============================================================================
