------------------------- MODULE PartitionBootstrap -------------------------
(***************************************************************************)
(* The log tables are partitioned by service and a row can only be         *)
(* inserted once its partition exists.  The maintenance process creates    *)
(* the missing ones whenever it starts; the workers do not wait for it.    *)
(* Maintainers are maintenance processes started together: a redeployment  *)
(* that overlaps the old container, or replicas.                           *)
(***************************************************************************)
EXTENDS Naturals, Sequences, Functions

CONSTANTS
  Maintainers,
  PartitionOrder   \* the partitions in the order of the two nested loops

ASSUME PartitionAssumption == PartitionOrder \in Seq(Range(PartitionOrder))

VARIABLES
  faults,       \* what this execution has to live with, fixed by Init
  partitions,   \* the partitions that exist
  boot          \* boot[m]: where process m stands in onApplicationBootstrap

bootVars == <<partitions, boot>>

Without(some) == faults \cap some = {}

AtLoop(stage, k) == [stage |-> stage, at |-> k]
Down == AtLoop("down", 1)

BootTypeOK ==
  /\ partitions \subseteq Range(PartitionOrder)
  /\ boot \in [Maintainers -> [stage : {"down", "looking", "creating", "up"},
                               at : 1..(Len(PartitionOrder) + 1)]]

BootInit ==
  /\ \E n \in 0..Len(PartitionOrder) : partitions = Range(SubSeq(PartitionOrder, 1, n))
  /\ boot = [m \in Maintainers |-> Down]

-----------------------------------------------------------------------------
(* On to the k-th partition, or out of the loops.                          *)
GoOn(m, k) ==
  boot' = [boot EXCEPT ![m] =
             AtLoop(IF k <= Len(PartitionOrder) THEN "looking" ELSE "up", k)]

(* "restart: always": the process starts, and starts again when it failed. *)
Launch(m) ==
  /\ boot[m].stage = "down"
  /\ GoOn(m, 1)
  /\ UNCHANGED <<faults, partitions>>

(* Faulty variant, for the mutation runs: the query finds nothing, as when *)
(* it looks into the wrong schema.                                         *)
LookElsewhere(m) ==
  /\ boot[m].stage = "looking"
  /\ boot' = [boot EXCEPT ![m].stage = "creating"]
  /\ UNCHANGED <<faults, partitions>>

Look(m) ==
  /\ boot[m].stage = "looking"
  /\ IF PartitionOrder[boot[m].at] \in partitions
       THEN GoOn(m, boot[m].at + 1)
       ELSE boot' = [boot EXCEPT ![m].stage = "creating"]
  /\ UNCHANGED <<faults, partitions>>

(* CREATE TABLE without IF NOT EXISTS: who comes second throws, and the    *)
(* exception ends the process.                                             *)
CreatePartition(m) ==
  LET partition == PartitionOrder[boot[m].at]
  IN  /\ boot[m].stage = "creating"
      /\ IF partition \in partitions
           THEN boot' = [boot EXCEPT ![m] = Down]
           ELSE GoOn(m, boot[m].at + 1)
      /\ partitions' = partitions \cup {partition}
      /\ UNCHANGED faults

(* Faulty variant, for the mutation runs: a failing statement is logged    *)
(* and the loop goes on.                                                   *)
BootFailsBestEffort(m) ==
  /\ boot[m].stage \in {"looking", "creating"}
  /\ "db" \in faults
  /\ GoOn(m, boot[m].at + 1)
  /\ UNCHANGED <<faults, partitions>>

(* A statement fails and the exception ends the process, or it just dies.  *)
BootFails(m) ==
  /\ \/ boot[m].stage \in {"looking", "creating"} /\ "db" \in faults
     \/ boot[m].stage # "down" /\ "crash" \in faults
  /\ boot' = [boot EXCEPT ![m] = Down]
  /\ UNCHANGED <<faults, partitions>>

BootStep(m) == Launch(m) \/ Look(m) \/ CreatePartition(m)

BootNext == \E m \in Maintainers : BootStep(m) \/ BootFails(m)

(* The container runtime restarts what exited, and statements return.      *)
BootFairness == \A m \in Maintainers : WF_bootVars(BootStep(m))

-----------------------------------------------------------------------------
(* A process that is past its bootstrap can rely on every partition,       *)
(* whoever created it, whoever failed over it, however often it restarted. *)
UpMeansComplete ==
  \A m \in Maintainers : boot[m].stage = "up" => partitions = Range(PartitionOrder)

(* Losing the race for a partition costs a start, and never more than one  *)
(* for each partition: where nothing else fails every process comes up,    *)
(* and stays up.                                                           *)
EveryMaintainerComesUp ==
  Without({"db", "crash"}) ~> [](\A m \in Maintainers : boot[m].stage = "up")

=============================================================================
