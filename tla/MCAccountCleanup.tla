-------------------------- MODULE MCAccountCleanup --------------------------
(* An instance of AccountCleanup: a default network; the scenario's stack, *)
(* in the same region, with a network of another kind and an account-wide  *)
(* role; in the other region the bootstrap stack, a bucket and an account- *)
(* wide role of the bootstrap that its deletion leaves, and a network of   *)
(* the agent that is a namesake of the default one.  Two listers name      *)
(* every stack.  Of the listers of networks one names all, the other one   *)
(* kind only: when the first fails, networks count as failed in the fresh  *)
(* account, which has none of that kind, and as detected in the deployed   *)
(* one.                                                                    *)
EXTENDS AccountCleanup, TLC

MCHome == "vpc" :> "west" @@ "basic" :> "west" @@ "net" :> "east" @@ "exec" :> Global
          @@ "bucket" :> "east" @@ "cdkrole" :> Global @@ "app" :> "west"
          @@ "toolkit" :> "east"
MCResources == DOMAIN MCHome
MCStacks == {"app", "toolkit"}
MCKind == "ListStacks" :> "Stack" @@ "DescribeStacks" :> "Stack" @@ "ListRoles" :> "Role"
          @@ "ListNetworks" :> "Network" @@ "ListBasicNetworks" :> "Network"
          @@ "ListBuckets" :> "Bucket"
MCListedBy ==
  [x \in MCResources |->
     CASE x \in MCStacks -> {"ListStacks", "DescribeStacks"}
       [] x \in {"exec", "cdkrole"} -> {"ListRoles"}
       [] x \in {"vpc", "net"} -> {"ListNetworks"}
       [] x = "basic" -> {"ListNetworks", "ListBasicNetworks"}
       [] x = "bucket" -> {"ListBuckets"}]
MCType == [x \in MCResources |-> MCKind[CHOOSE l \in MCListedBy[x] : TRUE]]
MCName == [x \in MCResources |-> IF x = "net" THEN "vpc" ELSE x]
MCOwns == "app" :> {"basic", "exec"} @@ "toolkit" :> {}
MCDowns ==
  {{}, {<<"ListNetworks", "west">>, <<"ListStacks", "west">>, <<"DescribeStacks", "west">>,
        <<"ListStacks", "east">>, <<"ListRoles", "east">>}}
=============================================================================
