------------------------------ MODULE MCJoin ------------------------------
EXTENDS Join

CONSTANTS p, q
OneOrNone == {p, None}
=============================================================================
