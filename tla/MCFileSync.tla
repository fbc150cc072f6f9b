---------------------------- MODULE MCFileSync ----------------------------
EXTENDS FileSync

CONSTANTS w1, r1, p1, p2

AllOpened == [b \in Browsers |-> Paths]
ReadersWanted == [b \in Browsers |-> IF b \in Writers THEN {} ELSE Paths]
AllWanted == [b \in Browsers |-> Paths]
NoneWanted == [b \in Browsers |-> {}]
=============================================================================
