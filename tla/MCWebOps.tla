------------------------------ MODULE MCWebOps ------------------------------
EXTENDS WebKv2, WebKv1, WebCluster, WebLiveLog, WebSinks, WebWrapping, WebStatus

MCKv2Level == [p \in {"a", "b"} |-> ""]

Fresh(v) == Written(Absent, v)
One == [p \in DOMAIN MCKv2Level |-> IF p = "a" THEN Fresh("x") ELSE Absent]
Two == [One EXCEPT !["a"] = Written(@, "y")]
Both == [p \in DOMAIN MCKv2Level |-> Fresh("x")]

MCKv2Scenes ==
  {[name |-> "versions", secrets |-> Two, ops |-> {"list", "drawer", "ver", "change"}, own |-> 2, others |-> 0, faults |-> 0],
   [name |-> "reveal", secrets |-> Two, ops |-> {"drawer", "val", "ver", "reveal"}, own |-> 0, others |-> 0, faults |-> 0],
   [name |-> "lose", secrets |-> One, ops |-> {"drawer", "val", "ver", "reveal", "change"}, own |-> 1, others |-> 0, faults |-> 0],
   [name |-> "flaky", secrets |-> One, ops |-> {"drawer", "val", "ver", "change"}, own |-> 1, others |-> 0, faults |-> 1],
   [name |-> "compare", secrets |-> Two, ops |-> {"drawer", "ver", "diff"}, own |-> 0, others |-> 0, faults |-> 0],
   [name |-> "metadata", secrets |-> One, ops |-> {"drawer", "meta"} \cup Parts, own |-> 1, others |-> 0, faults |-> 0],
   [name |-> "parts", secrets |-> One, ops |-> {"drawer", "meta", "max", "cas"}, own |-> 2, others |-> 0, faults |-> 0],
   [name |-> "edit", secrets |-> One, ops |-> {"drawer", "edit"}, own |-> 1, others |-> 1, faults |-> 0],
   [name |-> "retry", secrets |-> One, ops |-> {"write"}, own |-> 2, others |-> 0, faults |-> 1],
   [name |-> "strict", secrets |-> [One EXCEPT !["a"].cas = TRUE], ops |-> {"write"}, own |-> 1, others |-> 0, faults |-> 0],
   [name |-> "list", secrets |-> Both, ops |-> {"list", "go", "filter"}, own |-> 0, others |-> 1, faults |-> 1],
   [name |-> "bulk", secrets |-> Both, ops |-> {"list", "bulk"}, own |-> 0, others |-> 1, faults |-> 0],
   [name |-> "bulkfail", secrets |-> Both, ops |-> {"list", "bulk"}, own |-> 0, others |-> 0, faults |-> 1]}

MCKv1Level == [p \in {"a", "f/c"} |-> IF p = "a" THEN "" ELSE "f/"]
Stocked == [p \in DOMAIN MCKv1Level |-> 1]
Lacking(q) == [Stocked EXCEPT ![q] = 0]
MCKv1Scenes ==
  {[name |-> "kv1write", secrets |-> Lacking("f/c"), ops |-> {"new", "over"}, own |-> 1, others |-> 0, faults |-> 0],
   [name |-> "kv1delete", secrets |-> Lacking("f/c"), ops |-> {"new", "delete"}, own |-> 1, others |-> 0, faults |-> 0],
   [name |-> "kv1late", secrets |-> Stocked, ops |-> {"delete"}, own |-> 1, others |-> 1, faults |-> 1],
   [name |-> "kv1reveal", secrets |-> Stocked, ops |-> {"reveal", "go", "badreads"}, own |-> 0, others |-> 1, faults |-> 1]}

MCNodes == {"n1", "n2", "n3"}
AllVote == [n \in MCNodes |-> "Voter"]
Without(n) == [AllVote EXCEPT ![n] = "out"]

MCClScenes ==
  {[name |-> "remove", members |-> Without("n3"), ops |-> {"remove"}, own |-> 2, others |-> 0, faults |-> 1],
   [name |-> "removal", members |-> AllVote, ops |-> {"remove"}, own |-> 1, others |-> 0, faults |-> 0],
   [name |-> "churn", members |-> Without("n3"), ops |-> {}, own |-> 0, others |-> 2, faults |-> 1],
   [name |-> "browse", members |-> Without("n3"), ops |-> {"drawer", "calc", "filter"}, own |-> 0, others |-> 1, faults |-> 0],
   [name |-> "drawerremove", members |-> Without("n3"), ops |-> {"drawer", "remove"}, own |-> 1, others |-> 0, faults |-> 0],
   [name |-> "transfer", members |-> AllVote, ops |-> {"step"}, own |-> 1, others |-> 1, faults |-> 0],
   [name |-> "stuck", members |-> AllVote, ops |-> {"step"}, own |-> 1, others |-> 0, faults |-> 1],
   [name |-> "join", members |-> Without("n3"), ops |-> {"join"}, own |-> 1, others |-> 1, faults |-> 0],
   [name |-> "joinfail", members |-> Without("n3"), ops |-> {"join"}, own |-> 2, others |-> 0, faults |-> 1],
   [name |-> "token", members |-> AllVote, ops |-> {"token"}, own |-> 2, others |-> 0, faults |-> 1],
   [name |-> "snapshot", members |-> AllVote, ops |-> {"snapshot"}, own |-> 3, others |-> 0, faults |-> 1]}

MCLlScenes ==
  {[name |-> "tail", ops |-> {}, own |-> 0, appends |-> 3, restarts |-> 0, cuts |-> 2, faults |-> 0],
   [name |-> "pause", ops |-> {"pause"}, own |-> 2, appends |-> 3, restarts |-> 0, cuts |-> 0, faults |-> 0],
   [name |-> "polled", ops |-> {"poll", "pause"}, own |-> 1, appends |-> 2, restarts |-> 0, cuts |-> 0, faults |-> 1],
   [name |-> "refilter", ops |-> {"filter"}, own |-> 1, appends |-> 2, restarts |-> 0, cuts |-> 1, faults |-> 0],
   [name |-> "verify", ops |-> {"verify"}, own |-> 2, appends |-> 0, restarts |-> 0, cuts |-> 0, faults |-> 1],
   [name |-> "restart", ops |-> {}, own |-> 0, appends |-> 3, restarts |-> 1, cuts |-> 0, faults |-> 0]}

MCSinks == {"s1", "s2"}
MCSkScenes ==
  {[name |-> "register", sinks |-> {"s1"}, ops |-> {"register"}, own |-> 1, others |-> 1, faults |-> 1],
   [name |-> "switch", sinks |-> MCSinks, ops |-> {"switch"}, own |-> 3, others |-> 0, faults |-> 0],
   [name |-> "switchfail", sinks |-> {"s1"}, ops |-> {"switch"}, own |-> 2, others |-> 1, faults |-> 1],
   [name |-> "sinkdelete", sinks |-> MCSinks, ops |-> {"delete"}, own |-> 1, others |-> 1, faults |-> 1]}

MCCaps == {"w1", "w2"}
MCWrScenes ==
  {[name |-> "wrap", caps |-> {}, ops |-> {"wrap", "unwrap"}, own |-> 2, others |-> 1, faults |-> 1],
   [name |-> "unwrap", caps |-> MCCaps, ops |-> {"unwrap"}, own |-> 3, others |-> 0, faults |-> 0],
   [name |-> "race", caps |-> {"w1"}, ops |-> {"lookup", "unwrap"}, own |-> 2, others |-> 1, faults |-> 1],
   [name |-> "rows", caps |-> MCCaps, ops |-> {"list"}, own |-> 1, others |-> 1, faults |-> 0],
   [name |-> "rowsfail", caps |-> MCCaps, ops |-> {"list"}, own |-> 1, others |-> 0, faults |-> 1]}

MCShards == {"a", "b", "c"}
MCStScenes ==
  {[name |-> "shares", place |-> "status", type |-> "shamir", sealed |-> TRUE, ops |-> {"unseal"}, own |-> 2, others |-> 1, faults |-> 1],
   [name |-> "auto", place |-> "status", type |-> "transit", sealed |-> FALSE, ops |-> {"unseal", "seal"}, own |-> 2, others |-> 1, faults |-> 1],
   [name |-> "seal", place |-> "status", type |-> "shamir", sealed |-> FALSE, ops |-> {"unseal", "seal"}, own |-> 3, others |-> 0, faults |-> 0],
   [name |-> "keys", place |-> "status", type |-> "shamir", sealed |-> FALSE, ops |-> {"rotate", "snapshot"}, own |-> 2, others |-> 1, faults |-> 1],
   [name |-> "login", place |-> "login", type |-> "shamir", sealed |-> TRUE, ops |-> {"unseal"}, own |-> 2, others |-> 1, faults |-> 0]}
MCStRotated ==
  {[name |-> "rotated", place |-> "status", type |-> "shamir", sealed |-> FALSE, ops |-> {"rotate", "seal", "unseal"},
    own |-> 4, others |-> 0, faults |-> 0]}

OpsInit == Kv2Init \/ Kv1Init \/ ClInit \/ LlInit \/ SkInit \/ WrInit \/ StInit
OpsNext == (OnKv2 /\ Kv2Next) \/ (OnKv1 /\ Kv1Next)
           \/ (OnCluster /\ ClNext) \/ (OnLiveLog /\ LlNext) \/ (OnSinks /\ SkNext) \/ (OnWrapping /\ WrNext)
           \/ (OnStatus /\ StNext)
OpsSpec == OpsInit /\ [][OpsNext]_consoleVars /\ Kv2Fairness /\ Kv1Fairness
           /\ ClFairness /\ LlFairness /\ SkFairness /\ WrFairness /\ StFairness

(* What a page of the operations group shows is true of the server, as far as
   the page has read it: own changes are on it, deleted values and removed nodes
   are not, the cluster's event log and banner agree with the statuses polled,
   and a rejected shard stays in the form. *)
OpsPagesTrue ==
  /\ Kv2TypeOK /\ OwnChangeShown
  /\ Kv1TypeOK /\ DeletedNotShown
  /\ ClTypeOK /\ LogReplays /\ BannerAgrees /\ ElectedIsNew /\ NoGhostNodes
  /\ LlTypeOK
  /\ SkTypeOK
  /\ WrTypeOK
  /\ StTypeOK /\ ShardFormKept

(* The live log neither loses a matching entry without announcing the gap nor
   shows one twice, across history, stream, reconnects and pauses. *)
TailFaithful ==
  /\ TailComplete /\ TailOnce

(* A change made from an operations page is on the page when its answer has been
   handled and the reads it triggers are in, and an older status never replaces
   a newer one. *)
OpsChangesShown ==
  [][/\ RevocationsShown
     /\ RemovalShown
     /\ SinkChangeShown
     /\ SealChangeShown /\ StatusNeverBack]_consoleVars

(* Destructive and concealing actions of the operations pages do what the user
   confirmed: a bulk delete touches the selection and concludes, a save leaves
   the other parts of the metadata alone, an overwrite says what it replaces, a
   removal stops at a failure, the tail obeys its filter and pause, and a
   revealed value is hidden when its view ends. *)
OpsActsAsConfirmed ==
  [][/\ BulkSelectedOnly /\ BulkConcludes /\ SavesKeepOtherParts /\ RevealEndsWithView
     /\ OverwriteHonest
     /\ RemovalStops
     /\ TailObeys]_consoleVars

(* Every control that shows a spinner comes back: a running bulk delete, a busy
   version, a saving part of the metadata, a write, an overwrite stage and a
   delete of the KV pages, and the operations of the cluster, live log, sinks,
   wrapping and status pages, come to an end whichever requests fail. *)
OpsBusy == Kv2Busy \/ Kv1Busy \/ ClBusy \/ LlBusy \/ SkBusy \/ WrBusy \/ StBusy
OpsResponsive == OpsBusy ~> ~OpsBusy
=============================================================================
