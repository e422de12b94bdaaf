--------------------------- MODULE MCResourceSweep ---------------------------
(* A service and the network it runs in, both of the default level, a       *)
(* cluster the service waits for, a role that the service and a compute     *)
(* environment use, a database instance, a function, and a custom resource. *)
EXTENDS ResourceSweep, TLC

MCHandler == "service" :> "cloud control" @@ "network" :> "cloud control"
             @@ "role" :> "cloud control" @@ "custom" :> "cloud control"
             @@ "db" :> "instance"
             @@ "cluster" :> "cluster" @@ "function" :> "replicated"
             @@ "env" :> "environment"
MCItems == DOMAIN MCHandler
MCLevel == [i \in MCItems |-> IF i = "role" THEN 0 ELSE 1000]
MCNeeds == [i \in MCItems |-> IF i = "network" THEN {"service"}
                             ELSE IF i = "service" THEN {"cluster"} ELSE {}]
MCUses == [i \in MCItems |-> IF i \in {"service", "env"} THEN {"role"} ELSE {}]

(* A compute environment and its role, for the violation. *)
MCEnvironment == "env" :> "environment" @@ "role" :> "cloud control"
MCEnvironments == {"env", "role"}
MCEnvLevel == "env" :> 1000 @@ "role" :> 0
MCEnvNeeds == [i \in MCEnvironments |-> {}]
MCEnvUses == "env" :> {"role"} @@ "role" :> {}
=============================================================================
