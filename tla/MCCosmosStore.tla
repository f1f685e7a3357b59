--------------------------- MODULE MCCosmosStore ---------------------------
(***************************************************************************)
(* Instances of CosmosStore for TLC.  "own" is a key updated in place only *)
(* (a license usage being handed over), "hc" one that is inserted, updated *)
(* and deleted (a health check record).  Items are numbers and an item     *)
(* passes the check when it is no older than the one it replaces.          *)
(***************************************************************************)
EXTENDS CosmosStore

CONSTANTS c1, c2

MCClient == {c1, c2}
MCKey == {"own", "hc"}
MCItem == 1..2
MCPasses(i, j) == i >= j

SaveCall(k, i, condition, integrity) ==
    [op |-> "save", key |-> k, item |-> i, condition |-> condition,
     integrity |-> integrity]

DeleteCall(k, i, integrity) ==
    [op |-> "delete", key |-> k, item |-> i, condition |-> "Upsert",
     integrity |-> integrity]

MCRequests ==
    UNION {{SaveCall("own", i, "UpdateOnly", "checker"),
            SaveCall("hc", i, "InsertOnly", "none"),
            SaveCall("hc", i, "Upsert", "checker"),
            DeleteCall("hc", i, "checker")} : i \in MCItem}
        \cup {DeleteCall("hc", 1, "none")}

=============================================================================
