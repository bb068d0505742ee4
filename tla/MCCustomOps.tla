----------------------------- MODULE MCCustomOps -----------------------------
(* Model values for checking CustomOps with TLC.  One cell; a and r write  *)
(* 1, b writes 2, so a batch can write the same cell twice and then fail;  *)
(* r also requires the raw authority q.  The outer operations declare     *)
(* alice's active authority with and without q, or alice's posting one.   *)
EXTENDS CustomOps

CONSTANTS k1, a, b, r, q, alice, plugin, unknown

MCKeys == {k1}
MCValues == {0, 1, 2}
MCInnerOps == {a, b, r}
MCWrite(op) == IF op = b THEN <<k1, 2>> ELSE <<k1, 1>>
MCAuths(op) == {<<"active", alice>>}
MCOthers(op) == IF op = r THEN <<q>> ELSE <<>>
MCOuters == {[auths |-> {<<"active", alice>>}, others |-> <<>>],
             [auths |-> {<<"active", alice>>}, others |-> <<q>>],
             [auths |-> {<<"posting", alice>>}, others |-> <<>>]}
MCIds == {plugin, unknown}
MCRegistered == {plugin}
=============================================================================
