---------------------------- MODULE AccountStore ----------------------------
(***************************************************************************)
(* What the user is promised about the account, whatever dialogue writes   *)
(* it and in how many steps: it comes into being whole, its password       *)
(* changes in one go, its name never changes, and it is only lost or       *)
(* replaced once the card has failed or power went in the middle.          *)
(***************************************************************************)
CONSTANTS Accounts, NoAccount, UserOf(_)

VARIABLES
  account,   \* the account /etc/passwd holds, or NoAccount
  damaged    \* the card failed or power was lost while it was in use

Init == account = NoAccount /\ damaged = FALSE

Create == account = NoAccount /\ account' \in Accounts /\ UNCHANGED damaged

ChangePassword ==
  /\ account # NoAccount
  /\ account' \in {a \in Accounts : UserOf(a) = UserOf(account)}
  /\ UNCHANGED damaged

Damage == damaged' /\ account' \in Accounts \cup {NoAccount}

Next == Create \/ ChangePassword \/ Damage

Spec == Init /\ [][Next]_<<account, damaged>>
=============================================================================
