------------------------------ MODULE MCReplica ------------------------------
(***************************************************************************)
(* ReplicaCluster outside the controller and the client's library: small   *)
(* instances of notification, loader and agent, side by side.  A part      *)
(* whose name ends in Fair is the instance on which liveness is checked.   *)
(***************************************************************************)
EXTENDS SideBySide, TLC

CONSTANTS a1, a2, run

Two == {a1, a2}

(* Threads are interchangeable.                                            *)
Symmetry == Permutations(Two)

-----------------------------------------------------------------------------
(* Two threads in the executor and one more task than threads, and calls   *)
(* that arrive in time, late or never.                                     *)
Ordered == INSTANCE ClusterNotification WITH
  Clients <- {"client"}, Callers <- {run}, Run <- run, Pool <- 2, MaxTasks <- 3, MaxDecision <- 2,
  MaxAge <- 1, Faults <- {"fail", "late", "restart"},
  topic <- x1, subscribers <- x2, stamp <- x3, decision <- x4, carried <- x5, awake <- x6,
  tasks <- x7, late <- x8, boot <- x9, answer <- x10, clusterState <- x11, told <- x12,
  newest <- x13

(* The same with an outside caller beside the controller's thread.         *)
Asked == INSTANCE ClusterNotification WITH
  Clients <- {"client"}, Callers <- {run, "outside"}, Run <- run, Pool <- 2, MaxTasks <- 2,
  MaxDecision <- 1, MaxAge <- 1, Faults <- {"fail", "late", "restart"},
  topic <- x1, subscribers <- x2, stamp <- x3, decision <- x4, carried <- x5, awake <- x6,
  tasks <- x7, late <- x8, boot <- x9, answer <- x10, clusterState <- x11, told <- x12,
  newest <- x13

NotifyFair == INSTANCE ClusterNotification WITH
  Clients <- {a1}, Callers <- {run}, Run <- run, Pool <- 2, MaxTasks <- 2,
  MaxDecision <- 1, MaxAge <- 2, Faults <- {"fail", "late", "restart"},
  topic <- x1, subscribers <- x2, stamp <- x3, decision <- x4, carried <- x5, awake <- x6,
  tasks <- x7, late <- x8, boot <- x9, answer <- x10, clusterState <- x11, told <- x12,
  newest <- x13

Agent == INSTANCE PrxAgent WITH
  Consumers <- Two, Ids <- {1, 2, 3}, OwnIds <- {1, 3}, write_batch_size <- 1, MaxLoads <- 1,
  target_id <- x1, next_loop <- x2, is_valid <- x3, datas <- x4, cpc <- x5, item <- x6,
  wpc <- x7, vec <- x8, tries <- x9, written <- x10, lost <- x11, serverValid <- x12, told <- x13,
  accepted <- x14, loads <- x15

AgentFair == INSTANCE PrxAgent WITH
  Consumers <- Two, Ids <- {1, 2}, OwnIds <- {1}, write_batch_size <- 1, MaxLoads <- 1,
  target_id <- x1, next_loop <- x2, is_valid <- x3, datas <- x4, cpc <- x5, item <- x6,
  wpc <- x7, vec <- x8, tries <- x9, written <- x10, lost <- x11, serverValid <- x12, told <- x13,
  accepted <- x14, loads <- x15

(* The server of the second of two mods comes, restarts and goes while     *)
(* produce may fail.                                                       *)
Loader == INSTANCE CacheLoader WITH
  Servers <- {"server"}, Threads <- Two, ModOf <- [s \in {"server"} |-> 1], Cluster <- 2,
  MaxId <- 2, produce_batch_size <- 1, consume_batch_size <- 1, QueueLimit <- 1, IdList <- FALSE,
  MayFail <- TRUE, MaxRenews <- 2,
  map <- x1, agent <- x2, que <- x3, waiting <- x4, loadingMod <- x5, targetId <- x6,
  nextLoop <- x7, producing <- x8, consumeTo <- x9, ppc <- x10, prod <- x11, cpc <- x12, cv <- x13,
  valid <- x14, hand <- x15, top <- x16, rest <- x17, rpc <- x18, toLoad <- x19, tmp <- x20,
  renews <- x21

(* Three ids, so that a mod has two of them, and a factory that is given   *)
(* only those of the mods being loaded; produce may fail here too.         *)
ThreeIds == INSTANCE CacheLoader WITH
  Servers <- {"server"}, Threads <- Two, ModOf <- [s \in {"server"} |-> 1], Cluster <- 2,
  MaxId <- 3, produce_batch_size <- 1, consume_batch_size <- 1, QueueLimit <- 1, IdList <- TRUE,
  MayFail <- TRUE, MaxRenews <- 2,
  map <- x1, agent <- x2, que <- x3, waiting <- x4, loadingMod <- x5, targetId <- x6,
  nextLoop <- x7, producing <- x8, consumeTo <- x9, ppc <- x10, prod <- x11, cpc <- x12, cv <- x13,
  valid <- x14, hand <- x15, top <- x16, rest <- x17, rpc <- x18, toLoad <- x19, tmp <- x20,
  renews <- x21

LoaderFair == INSTANCE CacheLoader WITH
  Servers <- {"server"}, Threads <- Two, ModOf <- [s \in {"server"} |-> 1], Cluster <- 2,
  MaxId <- 1, produce_batch_size <- 1, consume_batch_size <- 1, QueueLimit <- 1, IdList <- TRUE,
  MayFail <- FALSE, MaxRenews <- 2,
  map <- x1, agent <- x2, que <- x3, waiting <- x4, loadingMod <- x5, targetId <- x6,
  nextLoop <- x7, producing <- x8, consumeTo <- x9, ppc <- x10, prod <- x11, cpc <- x12, cv <- x13,
  valid <- x14, hand <- x15, top <- x16, rest <- x17, rpc <- x18, toLoad <- x19, tmp <- x20,
  renews <- x21

(* One load of so many ids that the producer waits for the queue.          *)
FullFair == INSTANCE CacheLoader WITH
  Servers <- {"server"}, Threads <- Two, ModOf <- [s \in {"server"} |-> 1], Cluster <- 2,
  MaxId <- 4, produce_batch_size <- 1, consume_batch_size <- 1, QueueLimit <- 1, IdList <- TRUE,
  MayFail <- FALSE, MaxRenews <- 1,
  map <- x1, agent <- x2, que <- x3, waiting <- x4, loadingMod <- x5, targetId <- x6,
  nextLoop <- x7, producing <- x8, consumeTo <- x9, ppc <- x10, prod <- x11, cpc <- x12, cv <- x13,
  valid <- x14, hand <- x15, top <- x16, rest <- x17, rpc <- x18, toLoad <- x19, tmp <- x20,
  renews <- x21

(* What the modules assume of their constants.                             *)
ASSUME ReplicaAssumption ==
  /\ Ordered!NotificationAssumption /\ Asked!NotificationAssumption /\ Agent!AgentAssumption /\ Loader!LoaderAssumption
  /\ ThreeIds!LoaderAssumption /\ NotifyFair!NotificationAssumption
  /\ AgentFair!AgentAssumption /\ LoaderFair!LoaderAssumption
  /\ FullFair!LoaderAssumption

-----------------------------------------------------------------------------
Init ==
  /\ part \in Parts
  /\ \/ Begins("ordered", 13) /\ Ordered!Init
     \/ Begins("asked", 13) /\ Asked!Init
     \/ Begins("agent", 15) /\ Agent!Init
     \/ Begins("loader", 21) /\ Loader!Init
     \/ Begins("threeIds", 21) /\ ThreeIds!Init
     \/ Begins("notifyFair", 13) /\ NotifyFair!Init
     \/ Begins("agentFair", 15) /\ AgentFair!Init
     \/ Begins("loaderFair", 21) /\ LoaderFair!Init
     \/ Begins("fullFair", 21) /\ FullFair!Init

Next ==
  \/ Moves("ordered", 13) /\ Ordered!Next
  \/ Moves("asked", 13) /\ Asked!Next
  \/ Moves("agent", 15) /\ Agent!Next
  \/ Moves("loader", 21) /\ Loader!Next
  \/ Moves("threeIds", 21) /\ ThreeIds!Next
  \/ Moves("notifyFair", 13) /\ NotifyFair!Next
  \/ Moves("agentFair", 15) /\ AgentFair!Next
  \/ Moves("loaderFair", 21) /\ LoaderFair!Next
  \/ Moves("fullFair", 21) /\ FullFair!Next

Spec == Init /\ [][Next]_vars

(* Fairness.  Since a behaviour is one of a single part, a condition on    *)
(* the actions of several parts is one condition on each.                  *)

(* Time passes, and the controller's thread notifies at every interval;    *)
(* the producer and renew of a loader run; so does the writer of an agent, *)
(* whose timed wait ends.                                                  *)
Own(k) ==
  \/ Moves("notifyFair", 13) /\ \/ k = 1 /\ NotifyFair!Tick
                                \/ k = 2 /\ NotifyFair!NotifyClient(run)
  \/ Moves("loaderFair", 21) /\ \/ k = 1 /\ LoaderFair!Producer
                                \/ k = 2 /\ LoaderFair!Renew
  \/ Moves("fullFair", 21) /\ \/ k = 1 /\ FullFair!Producer
                              \/ k = 2 /\ FullFair!Renew
  \/ Moves("agentFair", 15) /\ k = 1 /\ AgentFair!Writer

(* The caller of notifyall and the threads of the executor run, and the    *)
(* consumers that are in add of an agent.                                  *)
Callers(k) ==
  \/ Moves("notifyFair", 13) /\ k = 1 /\ NotifyFair!CallerStep(run)
  \/ Moves("agentFair", 15) /\ AgentFair!Add(<<a1, a2>>[k])
Executors(k) == Moves("notifyFair", 13) /\ NotifyFair!TaskStep(k)
Takes == Moves("notifyFair", 13) /\ NotifyFair!getTask

(* The client's SbjTopicI thread runs, and a delayed call arrives.         *)
Clients == Moves("notifyFair", 13) /\ NotifyFair!ClientStep(a1)
Network(d) == Moves("notifyFair", 13) /\ NotifyFair!ArrivesLate(a1, d)

(* A client that is called again and again answers some of the calls, and  *)
(* a consumer of a loader that can run again and again does.               *)
Repeatedly(k) ==
  \/ Moves("notifyFair", 13) /\ k = 1 /\ NotifyFair!Answers(a1)
  \/ Moves("loaderFair", 21) /\ LoaderFair!Consumer(<<a1, a2>>[k])
  \/ Moves("fullFair", 21) /\ FullFair!Consumer(<<a1, a2>>[k])

FairSpec ==
  /\ Spec
  /\ \A k \in 1 .. 2 : /\ WF_vars(Own(k)) /\ WF_vars(Callers(k)) /\ WF_vars(Executors(k))
                       /\ SF_vars(Repeatedly(k))
  /\ WF_vars(Takes) /\ WF_vars(Clients) /\ \A d \in 0 .. 1 : WF_vars(Network(d))

-----------------------------------------------------------------------------
TypeOK ==
  /\ part = "ordered" => Ordered!TypeOK
  /\ part = "asked" => Asked!TypeOK
  /\ part = "agent" => Agent!TypeOK
  /\ part = "loader" => Loader!TypeOK
  /\ part = "threeIds" => ThreeIds!TypeOK
  /\ part = "notifyFair" => NotifyFair!TypeOK
  /\ part = "agentFair" => AgentFair!TypeOK
  /\ part = "loaderFair" => LoaderFair!TypeOK
  /\ part = "fullFair" => FullFair!TypeOK

(* notifyall, update and opera turn no two notifications round: whatever   *)
(* fails and however often the controller is restarted, a client is taken  *)
(* back to an older decision only by a call that had timed out, or by a    *)
(* NotifyTask that the executor ran side by side with a newer one or had   *)
(* left in its queue when it started a new thread with the newer one, or   *)
(* that a caller made of a decision it had copied before another caller's  *)
(* newer one.                                                              *)
OlderOnlyWhenOvertaken ==
  [][/\ part = "ordered" => Ordered!OlderOnlyWhenOvertaken
     /\ part = "asked" => Asked!OlderOnlyWhenOvertaken]_vars

(* However notifications overtake each other, are lost, delayed, dropped   *)
(* within a second or overwritten by getInitState: when decisions cease,   *)
(* every client comes to hold the last one and keeps it.                   *)
ClientsConverge == <>[](part # "notifyFair" \/ NotifyFair!HoldsDecision(a1))

(* PrxAgent: what add has taken is written, given up or still on its way:  *)
(* no interleaving of consumers that wait for room with the writer's swap  *)
(* loses an object, and run gives one up only when the server was called   *)
(* twice for it.                                                           *)
NothingDropped == part = "agent" => Agent!NothingDropped /\ Agent!GivenUpAfterTwo

(* CacheLoader::invoke: a round is begun only when the queue is empty and  *)
(* no consumer has an object of the round before in its hands, though the  *)
(* producer may still be on its way out of that round; and a server whose  *)
(* load began with all threads at rest, and was not joined by another      *)
(* load, is told to be valid only after it has been offered every object   *)
(* of its mod that the first round has listed, which is all of them unless *)
(* produce has failed.                                                     *)
LoadsInRounds ==
  /\ part = "loader" => Loader!NoObjectAcrossRounds /\ Loader!CalmLoadComplete
  /\ part = "threeIds" => ThreeIds!NoObjectAcrossRounds /\ ThreeIds!CalmLoadComplete

==============================================================================
