------------------------------- MODULE WebTeams -------------------------------
(***************************************************************************)
(* The onboarding page of the web console and the server's onboarding of a *)
(* team. The page fills a form, asks for a plan, creates the team, and     *)
(* brings the policies of existing teams up to the current templates. The  *)
(* server creates the namespace, its policies and the roles one write at a *)
(* time, without a lock, and takes them back when one of them fails.       *)
(***************************************************************************)
EXTENDS WebConsole

CONSTANTS
  Teams,      \* names of teams, and of their namespaces
  TmScenes    \* [name, pol, roles, ops, theirs, own, others, faults]

TmControls == {"preview", "create", "check", "update"}
Access == {"admin", "reader"}
NoTeam == "none"
BlankForm == [name |-> NoTeam, groups |-> {}, k8s |-> FALSE]
TmDoes(op) == op \in ui.ops

-----------------------------------------------------------------------------
(* The server. pol[t] is the state of the policies in the namespace t: there
   are none, they are of an earlier template, of the current one, or the team
   has edited them. One role is the ServiceAccount binding of the form. *)

Ldap(t, a) == <<"ldap", t, a>>
K8s == <<"k8s">>
Space == <<"namespace">>
RolesOf(req) == {Ldap(req.name, a) : a \in req.groups} \cup (IF req.k8s THEN {K8s} ELSE {})

PlanTeam(req) ==
  [req |-> req,
   conflicts |-> (RolesOf(req) \cap server.roles) \cup (IF req.name \in server.spaces THEN {Space} ELSE {})]
Whole(req) == req.name \in server.spaces /\ server.pol[req.name] # "none" /\ RolesOf(req) \subseteq server.roles
Standing(s) == <<s.spaces, s.pol, s.roles>>

NewJob(req) ==
  [pc |-> "plan", req |-> req, left |-> RolesOf(req), undo |-> <<>>, torn |-> FALSE, before |-> Standing(server),
   reply |-> None]
At(x, pc) == server.job[x] # None /\ server.job[x].pc = pc
Job(x) == server.job[x]
Goto(s, x, pc) == [s EXCEPT !.job[x].pc = pc]
NextRole(x) == CHOOSE r \in Job(x).left : TRUE

JobPlan(x) ==
  /\ At(x, "plan")
  /\ server' = [Goto(server, x, IF PlanTeam(Job(x).req).conflicts # {} THEN "failed" ELSE "get")
                  EXCEPT !.job[x].reply = PlanTeam(Job(x).req)]

JobGet(x) ==
  /\ At(x, "get")
  /\ server' = Goto(server, x, IF Job(x).req.name \in server.spaces THEN "undo" ELSE "put")

JobPut(x) ==
  /\ At(x, "put")
  /\ server' = [Goto(server, x, "pols") EXCEPT !.spaces = @ \cup {Job(x).req.name}, !.job[x].undo = <<Space>>]

JobPols(x) ==
  /\ At(x, "pols")
  /\ server' = [Goto(server, x, "role") EXCEPT !.pol[Job(x).req.name] = "now"]

JobRoleFirst(x) ==
  /\ At(x, "role")
  /\ server' = IF Job(x).left # RolesOf(Job(x).req)
               THEN [Goto(server, x, "ok") EXCEPT !.won = @ \cup {Job(x).req}]
               ELSE Goto(server, x, IF NextRole(x) \in server.roles THEN "undo" ELSE "rolePut")

(* Each role is looked up once more before it is written. *)
JobRole(x) ==
  /\ At(x, "role")
  /\ server' = IF Job(x).left = {}
               THEN [Goto(server, x, "ok") EXCEPT !.won = @ \cup {Job(x).req}]
               ELSE Goto(server, x, IF NextRole(x) \in server.roles THEN "undo" ELSE "rolePut")

RoleWrite(x) ==
  [Goto(server, x, "role") EXCEPT !.roles = @ \cup {NextRole(x)}, !.job[x].left = @ \ {NextRole(x)}]
JobRolePutKeeps(x) == At(x, "rolePut") /\ server' = RoleWrite(x)
JobRolePut(x) ==
  /\ At(x, "rolePut")
  /\ server' = [RoleWrite(x) EXCEPT !.job[x].undo = Append(@, NextRole(x))]

Undone(s, x) ==
  LET e == Job(x).undo[Len(Job(x).undo)] IN
  IF e = Space THEN [s EXCEPT !.spaces = @ \ {Job(x).req.name}, !.pol[Job(x).req.name] = "none"]
  ELSE [s EXCEPT !.roles = @ \ {e}]
Popped(x) == [server EXCEPT !.job[x].undo = SubSeq(@, 1, Len(@) - 1)]

(* The rollback takes back what was made, the last first; deleting a namespace
   deletes its policies. *)
JobUndo(x) ==
  /\ At(x, "undo")
  /\ server' = IF Job(x).undo = <<>> THEN [Goto(server, x, "failed") EXCEPT !.job[x].reply = None] ELSE Undone(Popped(x), x)

(* A write to the storage fails: the creation turns to the rollback, and the
   rollback goes on with what is left. *)
JobFault(x) ==
  /\ server.job[x] # None /\ ui.faults > 0
  /\ \/ Job(x).pc \in {"put", "pols", "rolePut"} /\ server' = Goto(server, x, "undo")
     \/ At(x, "undo") /\ Job(x).undo # <<>> /\ server' = [Popped(x) EXCEPT !.job[x].torn = TRUE]
  /\ ui' = [ui EXCEPT !.faults = @ - 1] /\ UNCHANGED cache

JobStep(x) ==
  /\ JobPlan(x) \/ JobGet(x) \/ JobPut(x) \/ JobPols(x) \/ JobRole(x) \/ JobRolePut(x) \/ JobUndo(x)
  /\ UNCHANGED <<cache, ui>>

(* SyncTeamPolicies for all namespaces. *)
SyncItems == [t \in {u \in server.spaces : server.pol[u] # "none"} |-> server.pol[t]]
Synced == [server EXCEPT !.pol = [t \in Teams |-> IF t \in server.spaces /\ @[t] = "old" THEN "now" ELSE @[t]]]

-----------------------------------------------------------------------------
(* The page. Whatever the plan depends on clears it when it is edited. *)

TmShow(u) == ui' = u /\ UNCHANGED <<server, cache>>
CanSubmit == ui.form.name # NoTeam /\ ui.form.groups # {}
Planning == ui.op["preview"] # "idle" \/ ui.op["create"] # "idle"

EditKeepsPlan(f) ==
  /\ ui.done = None /\ f # ui.form /\ ui.own > 0
  /\ TmShow([ui EXCEPT !.form = f, !.plan = IF f.k8s = ui.form.k8s THEN None ELSE @, !.raced = @ \/ Planning, !.own = @ - 1])

Edit(f) ==
  /\ ui.done = None /\ f # ui.form /\ ui.own > 0
  /\ TmShow([ui EXCEPT !.form = f, !.plan = None, !.raced = @ \/ Planning, !.own = @ - 1])

TypeTeam == \E t \in Teams : TmDoes("form") /\ Edit([ui.form EXCEPT !.name = t])
SetGroups == \E a \in Access : TmDoes("groups") /\ Edit([ui.form EXCEPT !.groups = IF a \in @ THEN @ \ {a} ELSE @ \cup {a}])
SetBinding == TmDoes("k8s") /\ Edit([ui.form EXCEPT !.k8s = ~@])

PreviewAnytime ==
  /\ ui.done = None /\ CanSubmit /\ ui.op["preview"] = "idle" /\ ui.own > 0
  /\ TmShow([Push(ui, "preview") EXCEPT !.req = ui.form, !.raced = FALSE, !.own = @ - 1])

Preview ==
  /\ ui.done = None /\ CanSubmit /\ ~Planning /\ ui.own > 0
  /\ TmShow([Push(ui, "preview") EXCEPT !.req = ui.form, !.raced = FALSE, !.own = @ - 1])

PreviewServe ==
  /\ ui.op["preview"] = "sent"
  /\ \/ ui' = [ui EXCEPT !.op["preview"] = "ok", !.reply = PlanTeam(ui.req)]
     \/ ui.faults > 0 /\ ui' = [ui EXCEPT !.op["preview"] = "failed", !.faults = @ - 1]
  /\ UNCHANGED <<server, cache>>

PreviewBack ==
  /\ Returned("preview")
  /\ TmShow([Settle(ui, "preview") EXCEPT !.plan = IF ui.op["preview"] = "ok" THEN ui.reply ELSE None])

CreateTeam ==
  /\ ui.done = None /\ CanSubmit /\ ui.plan # None /\ ui.plan.conflicts = {} /\ ~Planning /\ ui.own > 0
  /\ TmShow([Push(ui, "create") EXCEPT !.req = ui.form, !.own = @ - 1])

(* The request arrives, or is lost; later its answer arrives, or is lost. *)
CreateArrives ==
  /\ ui.op["create"] = "sent" /\ server.job["page"] = None
  /\ \/ server' = [server EXCEPT !.job["page"] = NewJob(ui.req)] /\ ui' = ui
     \/ ui.faults > 0 /\ ui' = [ui EXCEPT !.op["create"] = "failed", !.reply = None, !.faults = @ - 1] /\ UNCHANGED server
  /\ UNCHANGED cache

CreateAnswered ==
  /\ ui.op["create"] = "sent" /\ server.job["page"] # None /\ Job("page").pc \in {"ok", "failed"}
  /\ server' = [server EXCEPT !.job["page"] = None]
  /\ \/ ui' = [ui EXCEPT !.op["create"] = Job("page").pc, !.reply = Job("page").reply]
     \/ ui.faults > 0 /\ ui' = [ui EXCEPT !.op["create"] = "failed", !.reply = None, !.faults = @ - 1]
  /\ UNCHANGED cache

CreateBack ==
  /\ Returned("create")
  /\ TmShow(IF ui.op["create"] = "ok" THEN [Settle(ui, "create") EXCEPT !.plan = None, !.done = ui.reply]
            ELSE [Settle(ui, "create") EXCEPT !.plan = IF ui.reply # None THEN ui.reply ELSE @])

Another ==
  /\ ui.done # None /\ ui.own > 0
  /\ TmShow([ui EXCEPT !.form = BlankForm, !.plan = None, !.done = None, !.own = @ - 1])

-----------------------------------------------------------------------------
(* The policies of existing teams. *)

Check ==
  /\ TmDoes("sync") /\ ui.op["check"] = "idle" /\ ui.own > 0
  /\ TmShow([Push(ui, "check") EXCEPT !.own = @ - 1, !.crossed = @ \/ ui.op["update"] # "idle"])

Pending == {t \in DOMAIN ui.sync : ui.sync[t] = "old"}
Update ==
  /\ ui.sync # None /\ Pending # {} /\ ui.op["update"] = "idle" /\ ui.own > 0
  /\ TmShow([Push(ui, "update") EXCEPT !.own = @ - 1, !.crossed = @ \/ ui.op["check"] # "idle"])

SyncServe ==
  \/ /\ ui.op["check"] = "sent"
     /\ \/ ui' = [ui EXCEPT !.op["check"] = "ok", !.listed = SyncItems]
        \/ ui.faults > 0 /\ ui' = [ui EXCEPT !.op["check"] = "failed", !.faults = @ - 1]
     /\ UNCHANGED <<server, cache>>
  \/ /\ ui.op["update"] = "sent"
     /\ \/ server' = Synced /\ ui' = [ui EXCEPT !.op["update"] = "ok", !.wrote = [t \in DOMAIN SyncItems |-> Synced.pol[t]]]
        \/ ui.faults > 0 /\ server' \in {server, Synced} /\ ui' = [ui EXCEPT !.op["update"] = "failed", !.faults = @ - 1]
     /\ UNCHANGED cache

CheckBack ==
  /\ Returned("check")
  /\ TmShow([Settle(ui, "check") EXCEPT !.sync = IF ui.op["check"] = "ok" THEN ui.listed ELSE @])

UpdateBackKeeps == Returned("update") /\ TmShow(Settle(ui, "update"))
UpdateBack ==
  /\ Returned("update")
  /\ TmShow([Settle(ui, "update") EXCEPT !.sync = IF ui.op["update"] = "ok" THEN ui.wrote ELSE @,
                                         !.lost = @ \/ ui.op["update"] = "failed"])

-----------------------------------------------------------------------------
(* Another operator: onboards a team, creates a role, edits a policy. *)
TmOther ==
  /\ ui.others > 0
  /\ \E t \in Teams :
       \/ /\ "onboard" \in ui.theirs /\ server.job["other"] = None
          /\ server' = [server EXCEPT !.job["other"] = NewJob([name |-> t, groups |-> {"admin"}, k8s |-> FALSE]),
                                  !.theirs = TRUE]
       \/ /\ "role" \in ui.theirs /\ K8s \notin server.roles
          /\ server' = [server EXCEPT !.roles = @ \cup {K8s}, !.theirs = TRUE]
       \/ /\ "policy" \in ui.theirs /\ t \in server.spaces /\ server.pol[t] \in {"old", "now"}
          /\ server' = [server EXCEPT !.pol[t] = "custom", !.theirs = TRUE]
  /\ ui' = [ui EXCEPT !.others = @ - 1]
  /\ UNCHANGED cache

OtherEnds ==
  /\ server.job["other"] # None /\ Job("other").pc \in {"ok", "failed"}
  /\ server' = [server EXCEPT !.job["other"] = None]
  /\ UNCHANGED <<cache, ui>>

TmInit ==
  \E sc \in TmScenes :
    /\ server = [spaces |-> DOMAIN sc.pol, pol |-> [t \in Teams |-> IF t \in DOMAIN sc.pol THEN sc.pol[t] ELSE "none"],
                 roles |-> sc.roles, job |-> [x \in {"page", "other"} |-> None], won |-> {}, theirs |-> FALSE]
    /\ cache = <<>>
    /\ ui = [page |-> "teams", scene |-> sc.name, ops |-> sc.ops, theirs |-> sc.theirs, own |-> sc.own,
             others |-> sc.others, faults |-> sc.faults, op |-> [c \in TmControls |-> "idle"],
             form |-> BlankForm, req |-> None, reply |-> None, plan |-> None, done |-> None,
             raced |-> FALSE, sync |-> None, listed |-> None, wrote |-> None, crossed |-> FALSE, lost |-> FALSE]

OnTeams == ui.page = "teams"
TmServe ==
  \/ PreviewServe \/ CreateArrives \/ CreateAnswered \/ SyncServe \/ OtherEnds
  \/ \E x \in {"page", "other"} : JobStep(x) \/ JobFault(x)
TmBack == PreviewBack \/ CreateBack \/ CheckBack \/ UpdateBack
TmNext == TypeTeam \/ SetGroups \/ SetBinding \/ Preview \/ CreateTeam \/ Another \/ Check \/ Update \/ TmOther \/ TmServe \/ TmBack
TmFairness ==
  /\ WF_consoleVars(OnTeams /\ (PreviewServe \/ CreateArrives \/ CreateAnswered)) /\ WF_consoleVars(OnTeams /\ SyncServe)
  /\ WF_consoleVars(OnTeams /\ JobStep("page")) /\ WF_consoleVars(OnTeams /\ (PreviewBack \/ CreateBack))
  /\ WF_consoleVars(OnTeams /\ (CheckBack \/ UpdateBack))

-----------------------------------------------------------------------------
(* The onboarding page is in one of its states, and it does not ask for a plan
   and a creation at once. *)
TmTypeOK ==
  OnTeams =>
    /\ ui.op \in [TmControls -> OpStates] /\ ui.form.name \in Teams \cup {NoTeam} /\ ui.form.groups \subseteq Access
    /\ ui.op["preview"] = "idle" \/ ui.op["create"] = "idle"
    /\ ui.plan = None \/ ui.done = None
    /\ server.job["page"] # None => ui.op["create"] = "sent"

(* The plan on the page is the plan of the form, unless the form was edited
   while the plan was on its way. *)
PlanFits == OnTeams /\ ui.plan # None /\ ~Planning /\ ~ui.raced => ui.plan.req = ui.form

(* The plan on the page, which is headed "What will be created", is the plan of
   the form that CreateTeam sends. *)
PlanIsOfForm == OnTeams /\ ui.plan # None /\ ~Planning => ui.plan.req = ui.form

(* A creation that failed has left nothing behind and has taken nothing with
   it, when no other operator was at work and the rollback itself did not fail. *)
AllOrNothing ==
  [][OnTeams /\ At("page", "undo") /\ server'.job["page"] # None /\ server'.job["page"].pc = "failed" =>
       server.theirs \/ Job("page").torn \/ Standing(server') = Job("page").before]_consoleVars

(* A team that the page calls ready has its namespace, its policies and all the
   roles that were asked for. *)
DoneIsWhole == OnTeams /\ ui.done # None /\ ~server.theirs => Whole(ui.done.req)

(* A team whose creation was answered with success stays whole: nobody deletes
   one here, and a creation takes back only what it created itself. *)
TeamStays == OnTeams => \A r \in server.won : Whole(r)

(* The table of policies says how they are, when its two requests did not
   overlap, the answer to an update was not lost and no one else edited them. *)
SyncTableTrue ==
  OnTeams /\ ui.sync # None /\ ui.op["check"] = "idle" /\ ui.op["update"] = "idle"
    /\ ~ui.crossed /\ ~ui.lost /\ ~server.theirs /\ server.won = {} =>
    \A t \in DOMAIN ui.sync : ui.sync[t] = server.pol[t]

TmBusy == OnTeams /\ Busy(TmControls)

=============================================================================
