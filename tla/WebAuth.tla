------------------------------- MODULE WebAuth -------------------------------
(***************************************************************************)
(* The auth-methods page of the web console, as far as it keeps roles by   *)
(* name: the AppRole, JWT and LDAP panels. Each lists the roles, reads     *)
(* every listed role, and edits them in a drawer; the JWT and LDAP panels  *)
(* also hold the form of the method's configuration, and the AppRole panel *)
(* issues secret-ids that are shown for a minute.                          *)
(*                                                                         *)
(* The three panels have the same handlers; ui.method says which one is    *)
(* open where they differ.                                                 *)
(***************************************************************************)
EXTENDS WebConsole

CONSTANTS
  AuNames,   \* names of roles
  AuTexts,   \* contents of a role, and of a configuration
  AuScenes   \* [name, method, roles, conf, ops, theirs, own, others, faults]

ASSUME AuthConstants == "" \notin AuNames \cup AuTexts /\ AuNames \cap {"list", "config"} = {}

AuKeys == AuNames \cup {"list", "config"}
AuControls == {"save", "delete", "gen", "conf"}
AuDoes(op) == op \in ui.ops
HasConfig == ui.method # "approle"

-----------------------------------------------------------------------------
(* The server. A role carries the role_id that its holders log in with: a PUT
   without one mints a new one. A configuration holds a secret, which no answer
   returns; the JWT one only says whether there is one. *)

AuStored(n, r) == [server EXCEPT !.role[n] = r, !.index = @ + 1]
PutRoleEffect(p) ==
  {[AuStored(p.name, [body |-> p.body, id |-> IF p.id = 0 THEN server.ids + 1 ELSE p.id]) EXCEPT
      !.ids = IF p.id = 0 THEN @ + 1 ELSE @]}
DeleteRoleEffect(n) == {AuStored(n, None)}
GenEffect(n) == IF server.role[n] = None THEN {} ELSE {server}

Kept(method, p) ==
  IF server.conf # None /\ (method = "ldap" => server.conf.dn = p.dn) THEN server.conf.secret ELSE ""
PutConfEffect(method, p) ==
  {[server EXCEPT !.conf = [text |-> p.text, dn |-> p.dn, secret |-> IF p.secret = None THEN Kept(method, p) ELSE p.secret],
                  !.index = @ + 1]}

Redacted(method, c) ==
  IF c = None THEN None ELSE [text |-> c.text, dn |-> c.dn, set |-> method = "jwt" /\ c.secret # ""]
AuAnswer(k) ==
  CASE k = "list" -> [names |-> {n \in AuNames : server.role[n] # None}, index |-> server.index]
    [] k = "config" -> [conf |-> Redacted(ui.method, server.conf), index |-> server.index]
    [] OTHER -> IF server.role[k] = None THEN Failed ELSE [role |-> server.role[k], index |-> server.index]

-----------------------------------------------------------------------------
(* The panel. It is replaced by an error while its first query is in error, and
   by a skeleton while a method that is not configured is read again. *)

AuListed(c) == IF c["list"].data = None THEN {} ELSE c["list"].data.names
ByName(c) == {n \in AuListed(c) : c[n].data # None}
AuConf(c) == IF c["config"].data = None THEN None ELSE c["config"].data.conf
AuReads(c, k) == c[k].data # None /\ ~c[k].err
AuPanel(c) ==
  IF HasConfig THEN AuReads(c, "config") /\ (AuConf(c) = None => c["config"].fetch = "idle") ELSE AuReads(c, "list")
AuTable(c) == AuPanel(c) /\ AuReads(c, "list")
AuCovered == ui.editing # "" \/ ui.toDelete # ""
AuObserved(c) == {"list"} \cup AuListed(c) \cup (IF HasConfig THEN {"config"} ELSE {})

NoForm == [name |-> "", body |-> "", regen |-> FALSE]
AuSeed(n, base) == IF n = "new" THEN NoForm ELSE [name |-> n, body |-> base.body, regen |-> FALSE]

NoAuConf == [text |-> "", dn |-> "", secret |-> "", clear |-> FALSE]
LoadCfg(v) == [text |-> v.text, dn |-> v.dn, secret |-> "", clear |-> FALSE]
AuDirty == AuConf(cache) # None => ui.conf # LoadCfg(AuConf(cache))

(* The roles that the list names are read when it names them first. An effect
   loads the form of the configuration when the content of the answer changes;
   an equal answer keeps the identity of the old one. A drawer that is hidden
   with its panel starts afresh when the panel is back. *)
AuShow(c, u) ==
  /\ cache' = Observe(c, AuListed(c) \ AuListed(cache))
  /\ ui' = [u EXCEPT
       !.conf = IF AuConf(c) # AuConf(cache) /\ AuConf(c) # None THEN LoadCfg(AuConf(c)) ELSE @,
       !.form = IF u.editing # "" /\ ~AuPanel(c) THEN AuSeed(u.editing, u.base) ELSE @]
  /\ UNCHANGED server

AuRefetch(k) == Invalidate(cache, {k}, AuObserved(cache))

AuRetry(k) ==
  /\ k \in {"list", "config"} /\ cache[k].err /\ cache[k].fetch = "idle" /\ ~AuCovered /\ ui.own > 0
  /\ AuShow(FetchNow(cache, k), [ui EXCEPT !.own = @ - 1])

-----------------------------------------------------------------------------
(* The drawer of a role. base is the answer it was opened on. *)

OpenNewRoleOver ==
  /\ AuDoes("new") /\ AuPanel(cache) /\ ui.own > 0
  /\ AuShow(cache, [ui EXCEPT !.editing = "new", !.base = None, !.form = NoForm, !.own = @ - 1])

OpenNewRole ==
  /\ AuDoes("new") /\ AuPanel(cache) /\ ~AuCovered /\ ui.own > 0
  /\ AuShow(cache, [ui EXCEPT !.editing = "new", !.base = None, !.form = NoForm, !.own = @ - 1])

OpenRole(n) ==
  /\ AuDoes("edit") /\ AuTable(cache) /\ ~AuCovered /\ n \in ByName(cache) /\ ui.own > 0
  /\ AuShow(cache, [ui EXCEPT !.editing = n, !.base = cache[n].data.role, !.own = @ - 1,
                              !.form = AuSeed(n, cache[n].data.role), !.calm = ~Busy({"save"})])

TypeRole(f) ==
  /\ ui.editing # "" /\ AuPanel(cache) /\ ui.own > 0
  /\ f # ui.form /\ (ui.editing # "new" => f.name = ui.form.name)
  /\ f.regen => ui.method = "approle" /\ ui.editing # "new"
  /\ AuShow(cache, [ui EXCEPT !.form = f, !.own = @ - 1])

CloseRole ==
  /\ ui.editing # "" /\ AuPanel(cache) /\ ui.op["save"] = "idle"
  /\ AuShow(cache, [ui EXCEPT !.editing = ""])

RoleErr == ui.form.name = "" \/ ui.form.body = "" \/ (ui.editing = "new" /\ ui.form.name \in AuListed(cache))
RoleWire(id) == [name |-> ui.form.name, body |-> ui.form.body, id |-> id, base |-> ui.base, regen |-> ui.form.regen]
SubmitRoleBare ==
  /\ ui.editing # "" /\ AuPanel(cache) /\ ~RoleErr /\ ui.op["save"] = "idle"
  /\ AuShow(cache, [Push(ui, "save") EXCEPT !.blind = @ \/ cache["list"].data = None, !.put = RoleWire(0)])

(* An edit sends the role_id it was opened on back, unless it asks for a new one. *)
SubmitRole ==
  /\ ui.editing # "" /\ AuPanel(cache) /\ ~RoleErr /\ ui.op["save"] = "idle"
  /\ AuShow(cache, [Push(ui, "save") EXCEPT !.blind = @ \/ cache["list"].data = None,
       !.put = RoleWire(IF ui.editing # "new" /\ ~ui.form.regen THEN ui.base.id ELSE 0)])

(* The callback closes the drawer and reads the list, and then the role, of the
   name in the drawer's latest render. *)
LatestName == IF AuPanel(cache) THEN ui.form.name ELSE ui.put.name
RoleBack ==
  /\ Returned("save")
  /\ IF ui.op["save"] = "failed" THEN AuShow(cache, Settle(ui, "save"))
     ELSE AuShow(AuRefetch("list"), [ui EXCEPT !.op["save"] = "wait", !.editing = "", !.saved = LatestName,
                                               !.fresh = LatestName, !.step = "list"])

RoleListedUnread ==
  /\ ui.op["save"] = "wait" /\ ui.step = "list" /\ ~Waiting(cache, {"list"})
  /\ AuShow(cache, [ui EXCEPT !.step = "role"])

RoleListed ==
  /\ ui.op["save"] = "wait" /\ ui.step = "list" /\ ~Waiting(cache, {"list"})
  /\ AuShow(AuRefetch(ui.saved), [ui EXCEPT !.step = "role"])

RoleDone ==
  /\ ui.op["save"] = "wait" /\ ui.step = "role" /\ (ui.saved \in AuListed(cache) => ~Waiting(cache, {ui.saved}))
  /\ AuShow(cache, Settle(ui, "save"))

AuFades == ui.fresh # "" /\ AuShow(cache, [ui EXCEPT !.fresh = ""])

-----------------------------------------------------------------------------
(* Deleting. The handler keeps the selection and the issued secret of the
   render it was clicked in. *)

AskDeleteRole(n) ==
  /\ AuDoes("delete") /\ AuTable(cache) /\ ~AuCovered /\ n \in AuListed(cache) /\ ui.own > 0
  /\ AuShow(cache, [ui EXCEPT !.toDelete = n, !.own = @ - 1])

CancelDeleteRole ==
  /\ ui.toDelete # "" /\ AuPanel(cache) /\ ui.op["delete"] = "idle"
  /\ AuShow(cache, [ui EXCEPT !.toDelete = ""])

ConfirmDeleteRole ==
  /\ ui.toDelete # "" /\ AuPanel(cache) /\ ui.op["delete"] = "idle" /\ ui.own > 0
  /\ AuShow(cache, [Push(ui, "delete") EXCEPT !.click = [sel |-> ui.sel, issued |-> ui.issued], !.own = @ - 1])

DeleteRoleBack ==
  /\ Returned("delete")
  /\ IF ui.op["delete"] = "failed" THEN AuShow(cache, Settle(ui, "delete"))
     ELSE AuShow(AuRefetch("list"),
                 [ui EXCEPT !.op["delete"] = "wait",
                            !.sel = IF ui.click.sel = ui.toDelete THEN "" ELSE @,
                            !.issued = IF ui.click.issued # None /\ ui.click.issued.role = ui.toDelete THEN None ELSE @])

(* The entry of the role is removed; were the list not read, the panel would
   still observe it and read it again. *)
DeleteRoleDone ==
  /\ ui.op["delete"] = "wait" /\ ~Waiting(cache, {"list"})
  /\ AuShow([cache EXCEPT ![ui.toDelete] = IF ui.toDelete \in AuListed(cache) THEN Ask(Blank) ELSE Blank],
            [Settle(ui, "delete") EXCEPT !.toDelete = ""])

-----------------------------------------------------------------------------
(* The plate of an AppRole and the secret-ids it issues. timers are the
   timeouts that are set, one per secret; timer is the one the panel knows. *)

SelectRole(n) ==
  /\ AuDoes("gen") /\ AuTable(cache) /\ ~AuCovered /\ n \in AuListed(cache) /\ ui.own > 0
  /\ AuShow(cache, [ui EXCEPT !.sel = IF @ = n THEN "" ELSE n, !.own = @ - 1])

Generate ==
  /\ AuDoes("gen") /\ AuTable(cache) /\ ~AuCovered /\ ui.sel # "" /\ ui.op["gen"] = "idle" /\ ui.own > 0
  /\ AuShow(cache, [Push(ui, "gen") EXCEPT !.asked = ui.sel, !.own = @ - 1])

Issue(u) ==
  [Settle(u, "gen") EXCEPT !.sid = @ + 1, !.timer = u.sid + 1, !.timers = @ \cup {u.sid + 1},
                           !.issued = [role |-> u.asked, sid |-> u.sid + 1, gone |-> FALSE]]
GenBackTicks ==
  /\ Returned("gen")
  /\ AuShow(cache, IF ui.op["gen"] = "failed" THEN Settle(ui, "gen") ELSE Issue(ui))

GenBack ==
  /\ Returned("gen")
  /\ AuShow(cache, IF ui.op["gen"] = "failed" THEN Settle(ui, "gen")
                   ELSE Issue([ui EXCEPT !.timers = @ \ {ui.timer}]))

RevealEnds(i) ==
  /\ i \in ui.timers
  /\ AuShow(cache, [ui EXCEPT !.timers = @ \ {i},
                              !.issued = IF @ = None THEN None ELSE [@ EXCEPT !.gone = TRUE]])

(* Another method is selected and this one again: the panel is mounted anew. A
   secret-id on its way is lost. *)
Remount ==
  /\ AuDoes("remount") /\ ~AuCovered /\ ~Busy({"conf", "save"}) /\ ui.own > 0
  /\ \E old \in SUBSET ByName(cache) :
       LET c == Observe(Aged(cache, old), AuObserved(cache)) IN
       AuShow(c, [Settle(ui, "gen") EXCEPT !.own = @ - 1, !.sel = "", !.issued = None, !.timers = {}, !.fresh = "",
                     !.conf = IF AuConf(c) = None THEN NoAuConf ELSE LoadCfg(AuConf(c))])

-----------------------------------------------------------------------------
(* The form of the configuration. It stays open for typing while it is saved. *)

TypeConf(f) ==
  /\ AuDoes("conf") /\ HasConfig /\ AuPanel(cache) /\ ~AuCovered /\ ui.own > 0 /\ f # ui.conf
  /\ \/ \E v \in AuTexts : f = [ui.conf EXCEPT !.text = v]
     \/ ui.method = "ldap" /\ \E v \in AuTexts : f = [ui.conf EXCEPT !.dn = v]
     \/ ~ui.conf.clear /\ \E v \in AuTexts \cup {""} : f = [ui.conf EXCEPT !.secret = v]
     \/ AuConf(cache) # None /\ AuConf(cache).set /\ f = [ui.conf EXCEPT !.secret = "", !.clear = ~@]
  /\ AuShow(cache, [ui EXCEPT !.conf = f, !.own = @ - 1])

ResetConf ==
  /\ HasConfig /\ AuPanel(cache) /\ ~AuCovered /\ AuConf(cache) # None /\ AuDirty /\ ui.own > 0
  /\ AuShow(cache, [ui EXCEPT !.conf = LoadCfg(AuConf(cache)), !.own = @ - 1])

ConfWire(s) == [text |-> ui.conf.text, dn |-> ui.conf.dn, secret |-> s, typed |-> ui.conf.secret, clear |-> ui.conf.clear]
SaveConfBare ==
  /\ HasConfig /\ AuPanel(cache) /\ ~AuCovered /\ AuDirty /\ ui.conf.text # "" /\ ui.op["conf"] = "idle" /\ ui.own > 0
  /\ AuShow(cache, [Push(ui, "conf") EXCEPT !.cput = ConfWire(ui.conf.secret), !.own = @ - 1])

(* An empty secret is left out of the request, which keeps the stored one. *)
SaveConf ==
  /\ HasConfig /\ AuPanel(cache) /\ ~AuCovered /\ AuDirty /\ ui.conf.text # "" /\ ui.op["conf"] = "idle" /\ ui.own > 0
  /\ AuShow(cache, [Push(ui, "conf") EXCEPT !.own = @ - 1,
       !.cput = ConfWire(IF ui.conf.clear THEN "" ELSE IF ui.conf.secret = "" THEN None ELSE ui.conf.secret)])

ConfBackUnread ==
  /\ Returned("conf")
  /\ IF ui.op["conf"] = "failed" THEN AuShow(cache, Settle(ui, "conf"))
     ELSE AuShow(cache, Await(ui, "conf", "config"))

ConfBack ==
  /\ Returned("conf")
  /\ IF ui.op["conf"] = "failed" THEN AuShow(cache, Settle(ui, "conf"))
     ELSE AuShow(AuRefetch("config"), Await(ui, "conf", "config"))

ConfDone == ui.op["conf"] = "wait" /\ ~Waiting(cache, {"config"}) /\ AuShow(cache, Settle(ui, "conf"))

-----------------------------------------------------------------------------
(* Another operator writes a role, gives it a new role_id, deletes it, or
   writes the configuration. *)
AuOther ==
  /\ ui.others > 0
  /\ \/ \E n \in AuNames, b \in AuTexts, regen \in BOOLEAN :
          /\ "put" \in ui.theirs
          /\ server' \in PutRoleEffect([name |-> n, body |-> b,
                                         id |-> IF regen \/ server.role[n] = None THEN 0 ELSE server.role[n].id])
     \/ \E n \in AuNames : "delete" \in ui.theirs /\ server.role[n] # None /\ server' \in DeleteRoleEffect(n)
     \/ \E v \in AuTexts, s \in AuTexts \cup {None} :
          "conf" \in ui.theirs /\ server' \in PutConfEffect(ui.method, [text |-> v, dn |-> "", secret |-> s])
  /\ ui' = [ui EXCEPT !.others = @ - 1]
  /\ UNCHANGED cache

AuDeliver(k) == cache[k].fetch = "back" /\ AuShow(Deliver(cache, k), ui)

AuInit ==
  \E sc \in AuScenes :
    /\ server = [role |-> [n \in AuNames |-> IF n \in DOMAIN sc.roles THEN [body |-> sc.roles[n], id |-> 1] ELSE None],
                 conf |-> sc.conf, ids |-> 1, index |-> 1]
    /\ cache = Observe([k \in AuKeys |-> Blank], {"list"} \cup (IF sc.method = "approle" THEN {} ELSE {"config"}))
    /\ ui = [page |-> "auth", scene |-> sc.name, method |-> sc.method, ops |-> sc.ops, theirs |-> sc.theirs,
             own |-> sc.own, others |-> sc.others, faults |-> sc.faults, quiet |-> [others |-> sc.others, faults |-> sc.faults],
             op |-> [c \in AuControls |-> "idle"], at |-> [c \in AuControls |-> 0], step |-> "", saved |-> "",
             editing |-> "", base |-> None, form |-> NoForm, put |-> None, calm |-> FALSE, blind |-> FALSE, toDelete |-> "", click |-> None,
             sel |-> "", asked |-> "", issued |-> None, sid |-> 0, timer |-> 0, timers |-> {}, fresh |-> "",
             conf |-> NoAuConf, cput |-> None]

OnAuth == ui.page = "auth"

AuServe ==
  \/ ui.op["save"] = "sent" /\ OpServe("save", PutRoleEffect(ui.put))
  \/ ui.op["delete"] = "sent" /\ OpServe("delete", DeleteRoleEffect(ui.toDelete))
  \/ ui.op["gen"] = "sent" /\ OpServe("gen", GenEffect(ui.asked))
  \/ ui.op["conf"] = "sent" /\ OpServe("conf", PutConfEffect(ui.method, ui.cput))
AuBack ==
  RoleBack \/ RoleListed \/ RoleDone \/ DeleteRoleBack \/ DeleteRoleDone \/ GenBack \/ ConfBack \/ ConfDone
AuQuery == \E k \in AuKeys : QueryServe(k, AuAnswer(k)) \/ AuDeliver(k)
AuTimers == AuFades \/ \E i \in ui.timers : RevealEnds(i)

AuNext ==
  \/ \E k \in AuKeys : AuRetry(k)
  \/ \E n \in AuNames : OpenRole(n) \/ AskDeleteRole(n) \/ SelectRole(n)
  \/ \E f \in [name : AuNames, body : AuTexts, regen : BOOLEAN] : TypeRole(f)
  \/ \E f \in [text : AuTexts \cup {""}, dn : AuTexts \cup {""}, secret : AuTexts \cup {""}, clear : BOOLEAN] : TypeConf(f)
  \/ OpenNewRole \/ CloseRole \/ SubmitRole \/ CancelDeleteRole \/ ConfirmDeleteRole \/ Generate \/ Remount
  \/ ResetConf \/ SaveConf \/ AuOther \/ AuServe \/ AuBack \/ AuQuery \/ AuTimers

AuFairness ==
  /\ WF_consoleVars(OnAuth /\ AuServe) /\ WF_consoleVars(OnAuth /\ AuBack)
  /\ WF_consoleVars(OnAuth /\ AuQuery) /\ WF_consoleVars(OnAuth /\ AuTimers)

-----------------------------------------------------------------------------
(* The panel is in one of its states; a role has a role_id that was minted, the
   drawer and the confirmation are never open together, and one timeout at most
   is set. *)
AuTypeOK ==
  OnAuth =>
    /\ ui.op \in [AuControls -> OpStates]
    /\ \A n \in AuNames : server.role[n] # None => server.role[n].id \in 1 .. server.ids
    /\ ui.editing = "" \/ ui.toDelete = ""
    /\ ui.issued # None => ui.issued.sid \in 1 .. ui.sid
    /\ Cardinality(ui.timers) <= 1

AuAlone == ui.others = ui.quiet.others /\ ui.faults = ui.quiet.faults /\ ~ui.blind

(* Saving an edited role keeps its role_id, with which its holders log in, and
   a new one is minted when it was asked for; unless another operator changed
   the role since the drawer was opened, or the answer to a save was lost. *)
RoleIdKept ==
  OnAuth /\ ui.op["save"] = "sent" /\ ui'.op["save"] = "ok" /\ ui.put.base # None /\ ui.put.base = server.role[ui.put.name] =>
    (server'.role[ui.put.name].id = server.role[ui.put.name].id <=> ~ui.put.regen)

(* A drawer that is opened while no save is under way starts from what the
   server stores, when this page alone changes the roles: saving then undoes
   none of the page's own earlier saves. (A role saved before the list was read
   for the first time may be missing from it.) *)
EditStartsCurrent ==
  OnAuth /\ AuAlone /\ ui.calm /\ ui.editing \in AuNames /\ ui.op["save"] # "ok" => ui.base = server.role[ui.editing]

(* A page that is left alone tells the truth: it lists the roles there are, and
   shows the configuration that is stored, once nothing is under way. *)
PanelIsTrue ==
  OnAuth /\ AuAlone /\ ~Busy(AuControls) /\ ~Waiting(cache, AuKeys) =>
    /\ AuListed(cache) = {n \in AuNames : server.role[n] # None}
    /\ HasConfig => AuConf(cache) = Redacted(ui.method, server.conf)

(* An issued secret-id is shown for its own minute: the timeout of an earlier
   one never hides it. *)
SecretHasItsMinute ==
  OnAuth /\ ui.issued # None /\ ui.issued.gone => ui.issued.sid \notin ui.timers

(* Saving the configuration leaves the stored secret as it is unless a secret
   was typed or its removal was asked for, or the bind DN it belongs to changed. *)
ConfSecretKept ==
  OnAuth /\ ui.op["conf"] = "sent" /\ server' # server /\ ui'.op["conf"] # "sent" /\ server.conf # None
    /\ ui.cput.typed = "" /\ ~ui.cput.clear /\ ui.cput.dn = server.conf.dn
  => server'.conf.secret = server.conf.secret

AuBusy == OnAuth /\ (Busy(AuControls) \/ ui.fresh # "" \/ ui.timers # {})

=============================================================================
