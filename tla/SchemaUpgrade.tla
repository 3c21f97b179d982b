---------------------------- MODULE SchemaUpgrade ----------------------------
(* What persistence.MigrateUp promises to the replicas that boot together   *)
(* (internal/persistence/db.go): the schema goes through its versions in    *)
(* order, each version is entered once, and only under one replica at a     *)
(* time.                                                                    *)
EXTENDS Naturals

CONSTANTS
    Replicas,      \* processes that may upgrade the schema
    Versions,      \* the embedded migrations, by number
    NoSession      \* no replica

VARIABLES
    upgraded,      \* the versions the schema has been through
    upgrader       \* the replica that may upgrade it now, or NoSession

upgradeVars == <<upgraded, upgrader>>

UpgradeInit ==
    /\ upgraded = {}
    /\ upgrader = NoSession

BeginUpgrade(r) ==
    /\ upgrader = NoSession
    /\ upgrader' = r
    /\ UNCHANGED upgraded

(* The next version in order.                                               *)
Upgrade(v) ==
    /\ upgrader \in Replicas
    /\ v \notin upgraded
    /\ \A w \in Versions : w < v => w \in upgraded
    /\ upgraded' = upgraded \cup {v}
    /\ UNCHANGED upgrader

(* The upgrader is through, has given up or has died.                       *)
EndUpgrade ==
    /\ upgrader # NoSession
    /\ upgrader' = NoSession
    /\ UNCHANGED upgraded

UpgradeNext ==
    \/ \E r \in Replicas : BeginUpgrade(r)
    \/ \E v \in Versions : Upgrade(v)
    \/ EndUpgrade

UpgradeSpec == UpgradeInit /\ [][UpgradeNext]_upgradeVars
=============================================================================
