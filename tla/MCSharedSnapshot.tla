--------------------------- MODULE MCSharedSnapshot ----------------------------
(* SharedSnapshot in two dimensions, on three by two ranks.                     *)
EXTENDS SharedSnapshot

Grid == <<3, 2>>
OnlyY == <<FALSE, TRUE>>
MCInner == <<2, 4>>
MCGuardOf == <<1, 2>>
MCNumbers == {[r \in Rank |-> 0],
              [r \in Rank |-> (r[1] + 2 * r[2]) % 4],
              [r \in Rank |-> (3 - r[1] + r[2]) % 4]}
================================================================================
