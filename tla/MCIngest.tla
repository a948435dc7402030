------------------------------ MODULE MCIngest -------------------------------
(* Two sessions in two projects; what their agents may do.                 *)
EXTENDS Ingest, TLC

CONSTANTS s1, s2, p1, p2, r1, r2
CwdOf == (s1 :> r1) @@ (s2 :> r2)
Roots == (p1 :> r1) @@ (p2 :> r2)
Files == <<<<s1, "main">>, <<s1, "sub">>, <<s2, "main">>>>
L(kind, s, file, p, id) ==
  [kind |-> kind, session |-> s, file |-> file, path |-> p, hasId |-> id]
AgentLines ==
  {L("turn", s1, "main", NoPath, FALSE), L("turn", s2, "main", NoPath, FALSE),
   L("read", s1, "main", p1, TRUE), L("read", s1, "sub", p1, FALSE), L("read", s1, "main", p2, FALSE),
   L("load", s1, "main", p1, FALSE), L("search", s1, "main", p1, TRUE)}
=============================================================================
