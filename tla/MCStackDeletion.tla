-------------------------- MODULE MCStackDeletion --------------------------
(* Instance of StackDeletion: a network stack whose exports an application *)
(* imports, an address-plan stack on its own, and CDKToolkit.              *)
EXTENDS StackDeletion

CONSTANTS net, app, plan, cdk

MCEnv == {net, app, plan}
MCInfra == {cdk}
MCImports == {<<app, net>>}
MCVpcs == {net}
MCPools == {plan}
MCMayHold ==
  [s \in Stacks |->
     CASE s = net -> {"eni", "pinned"}
       [] s = app -> {"stuck"}
       [] s = plan -> {"pool"}
       [] s = cdk -> {"stuck"}]
=============================================================================
