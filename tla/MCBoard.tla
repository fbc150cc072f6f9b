------------------------------ MODULE MCBoard ------------------------------
EXTENDS Board

CONSTANTS f1, f2, t1, t2

At(f) == [file |-> f, line |-> 1, title |-> 0]
ATour == [t \in {t1, t2} |-> IF t = t1 THEN <<At(f1), At(f2)>> ELSE None]
=============================================================================
