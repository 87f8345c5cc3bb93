----------------------------- MODULE WebCluster -----------------------------
(***************************************************************************)
(* The cluster page of the web console: the polled status with the nodes,  *)
(* the banner and the what-if calculator, the event log diffed from the    *)
(* polls, and the dialogs that remove nodes, transfer the leadership, join *)
(* a node, mint a join token and take snapshots.                           *)
(*                                                                         *)
(* The console talks to the API of the node Me. A status carries the raft  *)
(* index it was answered at.                                               *)
(***************************************************************************)
EXTENDS WebConsole

CONSTANTS
  Nodes, Me,
  ClScenes   \* [name, members, ops, own, others, faults]

ASSUME ClusterConstants == Me \in Nodes

NoNode == "none"
Suffrages == {"out", "Voter", "Nonvoter"}
ClControls == {"remove", "step", "join", "mint", "create", "download", "stored"}
ClKeys == {"status", "snapshots"}

ClVoters(mem) == {n \in Nodes : mem[n] = "Voter"}
InConfig(mem) == {n \in Nodes : mem[n] # "out"}

ClView(k) ==
  IF k = "status" THEN [leader |-> server.leader, term |-> server.term, members |-> server.members, index |-> server.index]
  ELSE [list |-> server.snaps]

ClDoes(op) == op \in ui.ops

-----------------------------------------------------------------------------
(* Raft, behind the API. *)

Elected(s, n) == [s EXCEPT !.leader = n, !.term = IF n = NoNode THEN @ ELSE @ + 1]
Configured(s, n, suf) ==
  [s EXCEPT !.members[n] = suf, !.index = @ + 1, !.leader = IF n = s.leader /\ suf # "Voter" THEN NoNode ELSE @]

(* Configuration changes and transfers are for the leader only. *)
OnLeader(done) == IF server.leader = Me THEN done ELSE {}

RemoveEffect(n) == OnLeader({Configured(server, n, "out")})
StepEffect(target) ==
  OnLeader({Elected(server, n) : n \in {m \in ClVoters(server.members) \ {Me} : target \in {NoNode, m}}})
JoinEffect(n) == OnLeader({Configured(server, n, "Voter")})
MintEffect == OnLeader({server})
(* No snapshot is taken when nothing changed since the last one. *)
CreateEffect == {[server EXCEPT !.snaps = @ \cup {server.index}]}

-----------------------------------------------------------------------------
(* The model of a status. *)

Status == cache["status"].data
Live == Status # None
IsLeader == Live /\ Status.leader = Me

Quorum(total) == (total \div 2) + 1
Tolerated(total) == IF total > Quorum(total) THEN total - Quorum(total) ELSE 0

HealthEven(st) ==
  IF st.leader = NoNode THEN "electing"
  ELSE IF Cardinality(ClVoters(st.members)) < 2 THEN "nofault" ELSE "ok"

(* The state "Shutdown" of a node whose raft has stopped is left out. *)
Health(st) ==
  IF st.leader = NoNode THEN "electing"
  ELSE IF Tolerated(Cardinality(ClVoters(st.members))) < 1 THEN "nofault" ELSE "ok"

(* The calculator: what is left of the majority if the nodes down were gone. *)
HasQuorum(mem, down) == Cardinality(ClVoters(mem) \ down) >= Quorum(Cardinality(ClVoters(mem)))

NodeRows ==
  IF ~Live THEN {}
  ELSE {n \in InConfig(Status.members) :
          ui.filter = "all" \/ (ui.filter = "leader") = (n = Status.leader)}

(* The ring draws every node, whatever the filter of the table. *)
RingNodes == IF Live THEN InConfig(Status.members) ELSE {}

(* The events of two consecutive polls, as what they tell of each node. *)
DiffNoSuffrage(prev, next) ==
  [leader |-> IF prev.leader = next.leader THEN {} ELSE {next.leader},
   term |-> IF next.term > prev.term THEN {next.term} ELSE {},
   nodes |-> {<<n, next.members[n]>> : n \in {m \in Nodes : (prev.members[m] = "out") # (next.members[m] = "out")}}]

DiffStatus(prev, next) ==
  [leader |-> IF prev.leader = next.leader THEN {} ELSE {next.leader},
   term |-> IF next.term > prev.term THEN {next.term} ELSE {},
   nodes |-> {<<n, next.members[n]>> : n \in {m \in Nodes : prev.members[m] # next.members[m]}}]

(* What a reader of the log knows once the events ev are appended. *)
Replay(known, ev) ==
  [leader |-> IF ev.leader = {} THEN known.leader ELSE CHOOSE n \in ev.leader : TRUE,
   term |-> IF ev.term = {} THEN known.term ELSE CHOOSE t \in ev.term : TRUE,
   members |-> [n \in Nodes |-> IF \E s \in Suffrages : <<n, s>> \in ev.nodes
                                THEN CHOOSE s \in Suffrages : <<n, s>> \in ev.nodes ELSE known.members[n]]]

SeenLeader(u, st) ==
  IF u.tr.on /\ u.tr.new = NoNode /\ st.leader # NoNode THEN [u EXCEPT !.tr.new = st.leader] ELSE u

(* A leader other than the one that was asked to step down was seen. *)
SeenElected(u, st) ==
  IF u.tr.on /\ u.tr.new = NoNode /\ st.leader \notin {NoNode, u.tr.from}
  THEN [u EXCEPT !.tr.new = st.leader] ELSE u

ClRenderKeeps(c, u) ==
  LET st == c["status"].data
      old == Status
      v == [u EXCEPT !.heard = IF old = None THEN [leader |-> st.leader, term |-> st.term, members |-> st.members]
                               ELSE Replay(@, DiffStatus(old, st))]
  IN /\ cache' = IF st # None /\ ~Live THEN Observe(c, {"snapshots"}) ELSE c
     /\ ui' = IF st = None THEN u ELSE SeenElected(IF st = old THEN u ELSE v, st)

(* A render with the effects it runs: the log grows, nodes that left are
   dropped from the selection, the drawer and the calculator, and a transfer
   under way looks for its new leader. The first status is logged whole. *)
ClRender(c, u) ==
  LET st == c["status"].data
      in == InConfig(st.members)
      old == Status
      v == [u EXCEPT !.heard = IF old = None THEN [leader |-> st.leader, term |-> st.term, members |-> st.members]
                               ELSE Replay(@, DiffStatus(old, st)),
                     !.sel = @ \cap in, !.open = IF @ \in in THEN @ ELSE NoNode, !.calc = @ \cap ClVoters(st.members)]
  IN /\ cache' = IF st # None /\ ~Live THEN Observe(c, {"snapshots"}) ELSE c
     /\ ui' = IF st = None THEN u ELSE SeenElected(IF st = old THEN u ELSE v, st)

ClWatched == IF Live THEN ClKeys ELSE {"status"}

-----------------------------------------------------------------------------
(* The table, the drawer and the calculator. *)

NoRemoval == [ids |-> {}, pc |-> "closed", left |-> {}, id |-> NoNode, done |-> {}, at |-> 0, bad |-> FALSE]

ClUncovered == ui.rm.pc = "closed" /\ ~ui.step.open /\ ~ui.join.open

ToggleNode(n) ==
  /\ ClDoes("remove") /\ ClUncovered /\ ui.open = NoNode /\ n \in NodeRows
  /\ ClRender(cache, [ui EXCEPT !.sel = IF n \in @ THEN @ \ {n} ELSE @ \cup {n}])
  /\ UNCHANGED server

ToggleAllNodes ==
  /\ ClDoes("remove") /\ ClUncovered /\ ui.open = NoNode /\ NodeRows # {}
  /\ ClRender(cache, [ui EXCEPT !.sel = IF NodeRows \subseteq @ THEN @ \ NodeRows ELSE @ \cup NodeRows])
  /\ UNCHANGED server

FilterNodes(f) ==
  /\ ClDoes("filter") /\ ClUncovered /\ f # ui.filter
  /\ ClRender(cache, [ui EXCEPT !.filter = f])
  /\ UNCHANGED server

OpenNode(n) ==
  /\ ClDoes("drawer") /\ ClUncovered /\ ui.open = NoNode /\ n \in NodeRows \cup RingNodes
  /\ ClRender(cache, [ui EXCEPT !.open = n])
  /\ UNCHANGED server

CloseNode ==
  /\ ClUncovered /\ ui.open # NoNode
  /\ ClRender(cache, [ui EXCEPT !.open = NoNode])
  /\ UNCHANGED server

CalcToggle(n) ==
  /\ ClDoes("calc") /\ ClUncovered /\ Live /\ n \in ClVoters(Status.members)
  /\ ClRender(cache, [ui EXCEPT !.calc = IF n \in @ THEN @ \ {n} ELSE @ \cup {n}])
  /\ UNCHANGED server

CalcReset ==
  /\ ClUncovered /\ ui.calc # {}
  /\ ClRender(cache, [ui EXCEPT !.calc = {}])
  /\ UNCHANGED server

-----------------------------------------------------------------------------
(* Removal: from a row, from the drawer, or of the selection. *)

AskRemove(ids) ==
  /\ ClDoes("remove") /\ ClUncovered /\ ui.own > 0
  /\ \/ ui.open = NoNode /\ \E n \in NodeRows : ids = {n}
     \/ ui.open = NoNode /\ ids = ui.sel /\ ids # {}
     \/ ui.open # NoNode /\ ids = {ui.open}
  /\ ClRender(cache, [ui EXCEPT !.rm = [NoRemoval EXCEPT !.ids = ids, !.pc = "asked"]])
  /\ UNCHANGED server

CancelRemove ==
  /\ ui.rm.pc = "asked"
  /\ ClRender(cache, [ui EXCEPT !.rm = NoRemoval])
  /\ UNCHANGED server

RemoveNext(u, left) ==
  {Push([u EXCEPT !.rm.pc = "loop", !.rm.id = n, !.rm.left = left \ {n}], "remove") : n \in left}

(* The dialog is confirmed, again after a failure with all of its nodes. *)
ConfirmRemove ==
  /\ ui.rm.pc = "asked" /\ ui.own > 0
  /\ \E u \in RemoveNext([ui EXCEPT !.own = @ - 1, !.rm.done = {}, !.rm.bad = FALSE], ui.rm.ids) : ClRender(cache, u)
  /\ UNCHANGED server

(* The loop is over, on a failure before its end. If anything was removed the
   selection is cleared and the status is fetched again. *)
RemoveEnds(bad, done) ==
  LET u == [Settle(ui, "remove") EXCEPT !.rm.left = {}, !.rm.id = NoNode, !.rm.done = done, !.rm.bad = bad, !.rm.at = server.index]
  IN IF done = {} THEN ClRender(cache, [u EXCEPT !.rm.pc = "asked"])
     ELSE ClRender(Invalidate(cache, {"status"}, ClWatched),
                   [u EXCEPT !.rm.pc = "wait", !.sel = {}, !.open = IF @ \in done THEN NoNode ELSE @])

RemoveBackGoesOn ==
  /\ ui.rm.pc = "loop"
  /\ ui.op["remove"] \in {"ok", "failed"}
  /\ IF ui.rm.left = {} THEN RemoveEnds(ui.op["remove"] = "failed", ui.rm.done \cup {ui.rm.id})
     ELSE \E u \in RemoveNext([ui EXCEPT !.rm.done = @ \cup {ui.rm.id}, !.rm.bad = @ \/ ui.op["remove"] = "failed"], ui.rm.left) :
            ClRender(cache, u)
  /\ UNCHANGED server

RemoveBack ==
  /\ ui.rm.pc = "loop"
  /\ \/ ui.op["remove"] = "failed" /\ RemoveEnds(TRUE, ui.rm.done)
     \/ /\ ui.op["remove"] = "ok" /\ ui.rm.left = {}
        /\ RemoveEnds(FALSE, ui.rm.done \cup {ui.rm.id})
     \/ /\ ui.op["remove"] = "ok"
        /\ \E u \in RemoveNext([ui EXCEPT !.rm.done = @ \cup {ui.rm.id}], ui.rm.left) : ClRender(cache, u)
  /\ UNCHANGED server

RemoveDoneUnread ==
  /\ ui.rm.pc = "wait"
  /\ ClRender(cache, [ui EXCEPT !.rm = IF ui.rm.bad THEN [@ EXCEPT !.pc = "asked"] ELSE NoRemoval])
  /\ UNCHANGED server

(* The dialog closes when the new status is in; after a failure it stays. *)
RemoveDone ==
  /\ ui.rm.pc = "wait" /\ ~Waiting(cache, {"status"})
  /\ ClRender(cache, [ui EXCEPT !.rm = IF ui.rm.bad THEN [@ EXCEPT !.pc = "asked"] ELSE NoRemoval])
  /\ UNCHANGED server

-----------------------------------------------------------------------------
(* Leadership transfer. *)

NoTransition == [on |-> FALSE, from |-> NoNode, term |-> 0, new |-> NoNode]
NoStep == [open |-> FALSE, target |-> NoNode]

CanStep ==
  /\ IsLeader /\ Cardinality(ClVoters(Status.members)) > 1
  /\ ~ui.tr.on /\ ui.op["step"] = "idle"

OpenStep ==
  /\ ClDoes("step") /\ ClUncovered /\ ui.own > 0 /\ CanStep
  /\ ClRender(cache, [ui EXCEPT !.step = [NoStep EXCEPT !.open = TRUE]])
  /\ UNCHANGED server

PickTarget(n) ==
  /\ ui.step.open /\ Live /\ n \in ClVoters(Status.members) \ {Status.leader}
  /\ ClRender(cache, [ui EXCEPT !.step.target = n])
  /\ UNCHANGED server

CancelStep ==
  /\ ui.step.open
  /\ ClRender(cache, [ui EXCEPT !.step = NoStep])
  /\ UNCHANGED server

(* startStepDown; the target stays with the request. *)
ConfirmStep ==
  /\ ui.step.open /\ ui.own > 0
  /\ ClRender(cache, [Push(ui, "step") EXCEPT !.own = @ - 1, !.step.open = FALSE,
                                              !.tr = [on |-> TRUE, from |-> Status.leader, term |-> Status.term, new |-> NoNode]])
  /\ UNCHANGED server

(* A failure drops the panel; a success fetches the status. *)
StepBack ==
  /\ ui.op["step"] \in {"ok", "failed"}
  /\ IF ui.op["step"] = "failed" THEN ClRender(cache, [Settle(ui, "step") EXCEPT !.tr = NoTransition, !.step = NoStep])
     ELSE ClRender(Invalidate(cache, {"status"}, ClWatched), [Settle(ui, "step") EXCEPT !.step = NoStep])
  /\ UNCHANGED server

TransitionEndsElected ==
  /\ ui.tr.on /\ ui.tr.new # NoNode
  /\ ClRender(cache, [ui EXCEPT !.tr = NoTransition])
  /\ UNCHANGED server

(* The panel goes 8 s after the election, or 45 s after the request. *)
TransitionEnds ==
  /\ ui.tr.on
  /\ ClRender(cache, [ui EXCEPT !.tr = NoTransition])
  /\ UNCHANGED server

-----------------------------------------------------------------------------
(* Joining a node, and a token to let it join by itself. *)

NoJoin == [open |-> FALSE, id |-> NoNode]

OpenJoin ==
  /\ ClDoes("join") /\ ClUncovered /\ Live /\ ui.own > 0
  /\ ClRender(cache, [ui EXCEPT !.join = [NoJoin EXCEPT !.open = TRUE]])
  /\ UNCHANGED server

TypeNode(n) ==
  /\ ui.join.open /\ ui.op["join"] = "idle" /\ ui.join.id # n
  /\ ClRender(cache, [ui EXCEPT !.join.id = n])
  /\ UNCHANGED server

(* A node the last status lists is refused by the form. *)
SubmitJoin ==
  /\ ui.join.open /\ ui.op["join"] = "idle" /\ ui.own > 0
  /\ ui.join.id # NoNode /\ Status.members[ui.join.id] = "out"
  /\ ClRender(cache, [Push(ui, "join") EXCEPT !.own = @ - 1])
  /\ UNCHANGED server

CloseJoin ==
  /\ ui.join.open /\ ui.op["join"] = "idle"
  /\ ClRender(cache, [ui EXCEPT !.join = NoJoin])
  /\ UNCHANGED server

JoinBack ==
  /\ ui.op["join"] \in {"ok", "failed"}
  /\ IF ui.op["join"] = "failed" THEN ClRender(cache, Settle(ui, "join"))
     ELSE ClRender(Invalidate(cache, {"status"}, ClWatched), [Settle(ui, "join") EXCEPT !.join = NoJoin])
  /\ UNCHANGED server

MintToken ==
  /\ ClDoes("token") /\ ClUncovered /\ IsLeader /\ ui.op["mint"] = "idle" /\ ui.own > 0
  /\ ClRender(cache, [Push(ui, "mint") EXCEPT !.own = @ - 1])
  /\ UNCHANGED server

MintBackRaw ==
  /\ ui.op["mint"] \in {"ok", "failed"}
  /\ ClRender(cache, [Settle(ui, "mint") EXCEPT !.token = ui.op["mint"]])
  /\ UNCHANGED server

MintBack ==
  /\ ui.op["mint"] \in {"ok", "failed"}
  /\ ClRender(cache, [Settle(ui, "mint") EXCEPT !.token = IF ui.op["mint"] = "ok" THEN "live" ELSE @])
  /\ UNCHANGED server

TokenExpires ==
  /\ ui.token = "live"
  /\ ClRender(cache, [ui EXCEPT !.token = "expired"])
  /\ UNCHANGED server

(* The clock of the box ticks each second: an expired token is dropped. *)
TokenTick ==
  /\ ui.token = "expired"
  /\ ClRender(cache, [ui EXCEPT !.token = "none"])
  /\ UNCHANGED server

DismissToken ==
  /\ ui.token # "none" /\ ClUncovered
  /\ ClRender(cache, [ui EXCEPT !.token = "none"])
  /\ UNCHANGED server

-----------------------------------------------------------------------------
(* Snapshots: taken and stored on the node, or downloaded. *)

SnapshotButtons == ClDoes("snapshot") /\ ClUncovered /\ Live /\ ui.own > 0

CreateSnapshot ==
  /\ SnapshotButtons /\ ui.op["create"] = "idle" /\ ~ui.listing
  /\ ClRender(cache, [Push(ui, "create") EXCEPT !.own = @ - 1])
  /\ UNCHANGED server

CreateBack ==
  /\ ui.op["create"] \in {"ok", "failed"}
  /\ IF ui.op["create"] = "failed" THEN ClRender(cache, Settle(ui, "create"))
     ELSE ClRender(Invalidate(cache, {"snapshots"}, ClWatched),
                   [Settle(ui, "create") EXCEPT !.listing = TRUE, !.made = server.snaps])
  /\ UNCHANGED server

CreateDone ==
  /\ ui.listing /\ ~Waiting(cache, {"snapshots"})
  /\ ClRender(cache, [ui EXCEPT !.listing = FALSE])
  /\ UNCHANGED server

(* The live snapshot has two buttons and one download at a time, and so have
   the stored ones. *)
Download(c) ==
  /\ c \in {"download", "stored"} /\ SnapshotButtons /\ ui.op[c] = "idle"
  /\ c = "stored" => cache["snapshots"].data # None /\ cache["snapshots"].data.list # {}
  /\ ClRender(cache, [Push(ui, c) EXCEPT !.own = @ - 1])
  /\ UNCHANGED server

DownloadBack(c) ==
  /\ c \in {"download", "stored"} /\ ui.op[c] \in {"ok", "failed"}
  /\ ClRender(cache, Settle(ui, c))
  /\ UNCHANGED server

-----------------------------------------------------------------------------
ClEffect(c) ==
  CASE c = "remove" -> RemoveEffect(ui.rm.id)
    [] c = "step" -> StepEffect(ui.step.target)
    [] c = "join" -> JoinEffect(ui.join.id)
    [] c = "mint" -> MintEffect
    [] c = "create" -> CreateEffect
    [] c \in {"download", "stored"} -> {server}

RetryStatus ==
  /\ ~Live /\ cache["status"].err /\ cache["status"].fetch = "idle"
  /\ ClRender(FetchNow(cache, "status"), ui)
  /\ UNCHANGED server

(* A promise that waits for a fetch is continued before the next tick. *)
ClPoll(k) ==
  /\ k \in ClWatched /\ PollTick(k)
  /\ (k = "status" => ui.rm.pc # "wait") /\ (k = "snapshots" => ~ui.listing)

ClDeliver(k) ==
  /\ cache[k].fetch = "back"
  /\ ClRender(Deliver(cache, k), ui)
  /\ UNCHANGED server

(* Elections, and configuration changes made elsewhere. *)
ClOther(n) ==
  /\ ui.others > 0
  /\ server' \in {Elected(server, NoNode)} \cup {Elected(server, m) : m \in ClVoters(server.members) \cap {n}}
                   \cup {Configured(server, n, s) : s \in Suffrages \ {server.members[n]}}
  /\ server'.leader # server.leader \/ server'.members # server.members
  /\ ui' = [ui EXCEPT !.others = @ - 1]
  /\ UNCHANGED cache

ClInit ==
  \E sc \in ClScenes :
    /\ server = [leader |-> Me, term |-> 1, members |-> sc.members, index |-> 1, snaps |-> {}]
    /\ cache = Observe([k \in ClKeys |-> Blank], {"status"})
    /\ ui = [page |-> "cluster", scene |-> sc.name, ops |-> sc.ops, own |-> sc.own, others |-> sc.others, faults |-> sc.faults,
             op |-> [c \in ClControls |-> "idle"], sel |-> {}, open |-> NoNode, filter |-> "all", calc |-> {},
             heard |-> None, rm |-> NoRemoval, step |-> NoStep, tr |-> NoTransition, join |-> NoJoin, token |-> "none",
             listing |-> FALSE, made |-> {}]

ClAnswer(c) == OpServe(c, ClEffect(c))
ClQuery(k) == QueryServe(k, ClView(k)) \/ ClDeliver(k)
ClRemoveStep == RemoveBack \/ RemoveDone
ClBackStep == StepBack \/ JoinBack \/ MintBack \/ CreateBack \/ CreateDone \/ \E c \in ClControls : DownloadBack(c)
ClTimer == TransitionEnds \/ TokenTick

OnCluster == ui.page = "cluster"

ClNext ==
  \/ \E n \in Nodes : ToggleNode(n) \/ OpenNode(n) \/ CalcToggle(n) \/ PickTarget(n) \/ TypeNode(n) \/ ClOther(n)
  \/ \E ids \in SUBSET Nodes : AskRemove(ids)
  \/ \E f \in {"all", "leader", "follower"} : FilterNodes(f)
  \/ \E c \in ClControls : Download(c) \/ ClAnswer(c)
  \/ \E k \in ClKeys : ClPoll(k) \/ ClQuery(k)
  \/ ToggleAllNodes \/ CloseNode \/ CalcReset \/ CancelRemove \/ ConfirmRemove \/ OpenStep \/ CancelStep \/ ConfirmStep
  \/ OpenJoin \/ SubmitJoin \/ CloseJoin \/ MintToken \/ TokenExpires \/ DismissToken \/ CreateSnapshot \/ RetryStatus
  \/ ClRemoveStep \/ ClBackStep \/ ClTimer

(* Requests are answered or fail, promises are continued, timers run out. *)
ClFairness ==
  /\ WF_consoleVars(OnCluster /\ \E c \in ClControls : ClAnswer(c))
  /\ \A k \in ClKeys : WF_consoleVars(OnCluster /\ ClQuery(k))
  /\ WF_consoleVars(OnCluster /\ ClRemoveStep) /\ WF_consoleVars(OnCluster /\ ClBackStep)
  /\ WF_consoleVars(OnCluster /\ ClTimer) /\ WF_consoleVars(OnCluster /\ ClPoll("snapshots"))

-----------------------------------------------------------------------------

(* The cluster page and the raft cluster behind it are in one of their states. *)
ClTypeOK ==
  OnCluster =>
    /\ server.leader \in Nodes \cup {NoNode} /\ server.members \in [Nodes -> Suffrages]
    /\ ui.op \in [ClControls -> {"idle", "sent", "ok", "failed"}]
    /\ ui.sel \subseteq Nodes /\ ui.open \in Nodes \cup {NoNode} /\ ui.calc \subseteq Nodes
    /\ ui.rm.pc \in {"closed", "asked", "loop", "wait"} /\ ui.token \in {"none", "live", "expired"}

(* Whoever reads the event log knows the status on the page: the events that
   diffStatus finds between consecutive polls, replayed in order, lead to the
   leader, the term and the membership shown, whatever polls were lost. *)
LogReplays ==
  OnCluster /\ Live =>
    ui.heard = [leader |-> Status.leader, term |-> Status.term, members |-> Status.members]

(* The banner and the calculator agree: with a leader, "fault tolerant" is
   said exactly when every single voter can fail with a quorum left. *)
BannerAgrees ==
  OnCluster /\ Live =>
    LET mem == Status.members IN
    Health(Status) # "electing" =>
      ((Health(Status) = "ok") <=> (ClVoters(mem) # {} /\ \A n \in ClVoters(mem) : HasQuorum(mem, {n})))

(* Nothing acts on a node that left: the selection, the drawer and the
   calculator only ever hold nodes of the status on the page. *)
NoGhostNodes ==
  OnCluster =>
    ui.sel \cup ui.calc \cup ({ui.open} \ {NoNode}) \subseteq (IF Live THEN InConfig(Status.members) ELSE {})

(* The removal dialog closes on a status as recent as the last removal, or on
   a refetch that failed: the nodes it reported as removed are not listed. *)
RemovalShown ==
  OnCluster /\ ui.rm.pc = "wait" /\ ui'.rm.pc = "closed" => Status.index >= ui.rm.at \/ cache["status"].err

(* A removal that stops half way is told as it is: a node whose DELETE failed
   is not called removed, and the nodes after it are left alone until the
   dialog is confirmed again. *)
RemovalStops ==
  OnCluster /\ ui.op["remove"] = "failed" =>
    ui'.op["remove"] # "sent" /\ ui'.rm.done \subseteq ui.rm.ids \ ({ui.rm.id} \cup ui.rm.left)

(* "Elected" on the transfer panel stands for a later term than the one on the
   page when the transfer was asked for: neither an old status on its way nor
   the leader that was asked to go is taken for the new one. *)
ElectedIsNew ==
  OnCluster /\ ui.tr.new # NoNode => Status.term > ui.tr.term

(* A spinner turns, a transfer is followed, an expired token is shown, or a
   snapshot that was reported as stored is not in the list. *)
ClBusy ==
  OnCluster /\ ((\E c \in ClControls : ui.op[c] # "idle") \/ ui.rm.pc \in {"loop", "wait"} \/ ui.tr.on \/ ui.listing
                \/ ui.token = "expired" \/ (ui.made # {} /\ ~(cache["snapshots"].data # None /\ ui.made \subseteq cache["snapshots"].data.list)))

=============================================================================
