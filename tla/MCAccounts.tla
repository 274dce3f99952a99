----------------------------- MODULE MCAccounts -----------------------------
(* Instances of Accounts small enough for TLC: the installer's account, which is
   an administrator, and one person made earlier, whose entry in the register may
   be of the old form (its identifier and nothing else) and whose entity shows
   its own identifier for the user's. Both are called Anna.                   *)
EXTENDS Accounts, TLC

CONSTANTS h1, h2, h3, installer, anna, newUser1, newUser2,
          pAnna, pNew1, pNew2, lInstaller, lAnna, lNew

Given ==
    [users |-> {installer, anna},
     name |-> [u \in User |-> IF u \in {installer, anna} THEN lAnna ELSE None],
     login |-> [n \in Login |-> CASE n = lInstaller -> installer [] n = lAnna -> anna
                                  [] OTHER -> None],
     persons |-> {pAnna},
     attrs |-> {[p \in Person |-> IF p = pAnna THEN pAnna ELSE None]},
     registers |-> {{[id |-> pAnna, username |-> lAnna, auth |-> anna]},
                    {[id |-> pAnna, username |-> None, auth |-> None]}}]
Commands == [person |-> {pAnna, pNew1, anna}, auth |-> {installer, anna, newUser1, None},
             username |-> Login \union {None}]
SpeltLike == [p \in Person |-> IF p = pAnna THEN lAnna ELSE lNew]
=============================================================================
