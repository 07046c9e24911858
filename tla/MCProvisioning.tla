--------------------------- MODULE MCProvisioning ---------------------------
(***************************************************************************)
(* Two collectors; two consumers and the migration of one; two lanes; two  *)
(* writers of routes.  Across: a collector and a consumer.                 *)
(***************************************************************************)
EXTENDS Provisioning

Invocation(id, tool, actor) == [id |-> id, tool |-> tool, actor |-> actor, migrate |-> FALSE]

k1 == Invocation("j1", "collector", "k1")
k2 == Invocation("j2", "collector", "k2")
c1 == Invocation("j3", "consumer", "c1")
c2 == Invocation("j4", "consumer", "c2")
m1 == [Invocation("j5", "consumer", "c1") EXCEPT !.migrate = TRUE]
l1 == Invocation("j6", "lane", "l1")
l2 == Invocation("j7", "lane", "l2")
r1 == Invocation("j8", "route", "r1")
r2 == Invocation("j9", "route", "r2")

AllJobs == {k1, k2, c1, c2, m1, l1, l2, r1, r2}
OneTool == {{k1, k2}, {c1, c2, m1}, {l1, l2}, {r1, r2}}
TwoTools == {{k1, c1}}
=============================================================================
