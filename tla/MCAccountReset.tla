--------------------------- MODULE MCAccountReset ---------------------------
(* Two regions, one with two stacks and a resource that needs a global to  *)
(* be deleted, the other with a resource whose deletion may be deferred.   *)
EXTENDS AccountReset

CONSTANTS east, west, app, db, kb, fn, role

MCRegions == {east, west}
MCStacks == {app, db}
MCStackRegion == [s \in MCStacks |-> west]
MCCreated == {db}
MCRegional == {kb, fn}
MCHomeOf == [x \in MCRegional |-> IF x = kb THEN west ELSE east]
MCLingering == {fn}
MCGlobals == {role}
MCNeeds == [x \in MCRegional |-> IF x = kb THEN {role} ELSE {}]
MCDamage == {{}, {"drift"}, {"undetectable"}, {"status", "template"}, Missing}
=============================================================================
