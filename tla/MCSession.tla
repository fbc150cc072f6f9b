----------------------------- MODULE MCSession -----------------------------
(* A small relay: one session contended by two hosts' tokens, and a second *)
(* session, under a cap of one session in memory.                          *)
EXTENDS Session

CONSTANTS s1, s2, t1, t2

MCHosts == {[sid |-> s1, token |-> t1], [sid |-> s1, token |-> t2], [sid |-> s2, token |-> t1]}
OneHost == {[sid |-> s1, token |-> t1]}
=============================================================================
