------------------------------ MODULE WebMounts ------------------------------
(***************************************************************************)
(* The mounts page of the web console: the rack of mounts with the details *)
(* panel of one, the wizard that mounts, the drawer that tunes, and the    *)
(* dialog that unmounts and lets the unit leave the rack.                  *)
(***************************************************************************)
EXTENDS WebConsole

CONSTANTS
  Paths,     \* mount paths
  Builtin,   \* the paths of built-in mounts
  Ttls,      \* lease times; 0 is no limit
  MtScenes   \* [name, mounts, ops, own, others, faults]

ASSUME MountsConstants == Builtin \subseteq Paths /\ Ttls \subseteq Nat /\ 0 \in Ttls

NoPath == "none"
MtControls == {"create", "tune", "unmount"}
MtList == <<"list">>
Config(p) == <<"config", p>>
Stats(p) == <<"config", p, "stats">>
MtKeys == {MtList} \cup {Config(p) : p \in Paths} \cup {Stats(p) : p \in Paths}
(* The prefix [mounts, config, path] of the keys of a path. *)
ConfigKeys(p) == {Config(p), Stats(p)}

MtDoes(op) == op \in ui.ops
NoConf == [def |-> 0, max |-> 0, ver |-> 0]

-----------------------------------------------------------------------------
(* The server: the accessor of the mount at each path, 0 when there is none,
   and the tuning of the path, which outlives the mount. *)

Mounted(p) == server.mounts[p] # 0
InOrder(c) == c.max > 0 => c.def <= c.max

MountEffect(p) ==
  IF Mounted(p) THEN {}
  ELSE {[server EXCEPT !.mounts[p] = server.next, !.next = @ + 1, !.index = @ + 1]}
UnmountEffectAny(p) == IF ~Mounted(p) THEN {} ELSE {[server EXCEPT !.mounts[p] = 0, !.index = @ + 1]}
UnmountEffect(p) ==
  IF ~Mounted(p) \/ p \in Builtin THEN {} ELSE {[server EXCEPT !.mounts[p] = 0, !.index = @ + 1]}
TuneEffect(p, c) ==
  IF ~Mounted(p) \/ ~InOrder(c) THEN {}
  ELSE {[server EXCEPT !.conf[p] = [def |-> c.def, max |-> c.max, ver |-> server.index + 1], !.index = @ + 1]}

MtAnswer(k) ==
  IF k = MtList THEN [mounts |-> server.mounts, index |-> server.index]
  ELSE IF ~Mounted(k[2]) THEN Failed
  ELSE [conf |-> server.conf[k[2]], accessor |-> server.mounts[k[2]], index |-> server.index]

-----------------------------------------------------------------------------
(* The rack. A failed refetch of the list takes it off the page. *)

Rack(c) == IF c[MtList].data = None THEN {} ELSE {p \in Paths : c[MtList].data.mounts[p] # 0}
Shows(c) == c[MtList].data # None /\ ~c[MtList].err
ShowData == Shows(cache)
Listed(c, u) == {p \in Rack(c) : u.filter = "all" \/ p \in Builtin}
Units(u) == Listed(cache, u)
MtUncovered == ui.step = 0 /\ ui.tuning = NoPath /\ ui.toDelete = NoPath

(* What is observed: the list, the details of the open unit while it is on
   the page, those the unmount dialog shows as its impact, and the tuning of
   the drawer. *)
MtWatched(c, u) ==
  {MtList} \cup {Stats(p) : p \in ({u.open} \cap (IF Shows(c) THEN Listed(c, u) ELSE {})) \cup ({u.toDelete} \ {NoPath})}
           \cup {Config(p) : p \in {u.tuning} \ {NoPath}}

SeedDefault(c, u) ==
  IF u.tuning = NoPath \/ u.form # None \/ c[Config(u.tuning)].data = None THEN u
  ELSE LET f == [c[Config(u.tuning)].data.conf EXCEPT !.max = 0] IN [u EXCEPT !.form = f, !.seed = f]

(* The form of the drawer is seeded once, when the first answer is there. *)
Seed(c, u) ==
  IF u.tuning = NoPath \/ u.form # None \/ (c[Config(u.tuning)].data = None /\ ~c[Config(u.tuning)].err) THEN u
  ELSE LET e == c[Config(u.tuning)] IN
       [u EXCEPT !.form = IF e.data = None THEN NoConf ELSE e.data.conf, !.seed = IF e.data = None THEN NoConf ELSE e.data.conf]

MtShow(c, u) ==
  LET d == Observe(c, MtWatched(c, u) \ MtWatched(cache, ui)) IN
  cache' = d /\ ui' = Seed(d, u) /\ UNCHANGED server

MtRefetch(c, K) == Invalidate(c, K, MtWatched(cache, ui))
Removed(c, K) == [k \in MtKeys |-> IF k \in K THEN Blank ELSE c[k]]

ToggleUnit(p) ==
  /\ MtDoes("browse") /\ MtUncovered /\ ShowData /\ p \in Units(ui) /\ ui.own > 0
  /\ \E K \in {{}, ConfigKeys(p)} :
       MtShow(Aged(cache, K), [ui EXCEPT !.open = IF @ = p THEN NoPath ELSE p, !.own = @ - 1])

MtFilter(f) ==
  /\ MtDoes("filter") /\ MtUncovered /\ ShowData /\ ui.filter # f /\ ui.own > 0
  /\ MtShow(cache, [ui EXCEPT !.filter = f, !.own = @ - 1])

MtRetry ==
  /\ cache[MtList].err /\ cache[MtList].fetch = "idle" /\ MtUncovered /\ ui.own > 0
  /\ MtShow(FetchNow(cache, MtList), [ui EXCEPT !.own = @ - 1])

-----------------------------------------------------------------------------
(* The wizard: type, path, review. A path that the list shows is taken. The
   wizard closes with the answer and its spinner runs until the list is read,
   when the new unit is plugged in. *)

OpenWizard ==
  /\ MtDoes("create") /\ MtUncovered /\ ui.own > 0
  /\ MtShow(cache, [ui EXCEPT !.step = 1, !.path = NoPath])

TypePath(p) ==
  /\ ui.step = 1 /\ p \notin Rack(cache)
  /\ MtShow(cache, [ui EXCEPT !.path = p, !.step = 2])

WizardBack ==
  /\ ui.step > 0 /\ ui.op["create"] = "idle"
  /\ MtShow(cache, [ui EXCEPT !.step = @ - 1])

SubmitMount ==
  /\ ui.step = 2 /\ ui.op["create"] = "idle" /\ ui.own > 0
  /\ MtShow(cache, [Push(ui, "create") EXCEPT !.own = @ - 1])

MountBack ==
  /\ Returned("create")
  /\ IF ui.op["create"] = "failed" THEN MtShow(cache, Settle(ui, "create"))
     ELSE MtShow(MtRefetch(cache, {MtList}), [Await(ui, "create", MtList) EXCEPT !.step = 0, !.made = ui.path])

Plugged == ui.op["create"] = "wait" /\ ~Waiting(cache, {MtList})

MountDoneFiltered ==
  /\ Plugged
  /\ MtShow(cache, [Settle(ui, "create") EXCEPT !.open = NoPath, !.fresh = ui.made])

MountDone ==
  /\ Plugged
  /\ MtShow(cache, [Settle(ui, "create") EXCEPT !.filter = "all", !.open = NoPath, !.fresh = ui.made])

FreshEnds ==
  /\ ui.fresh # NoPath
  /\ MtShow(cache, [ui EXCEPT !.fresh = NoPath])

-----------------------------------------------------------------------------
(* The drawer that tunes. Its close button does not wait for a save. *)

OpenTune(p) ==
  /\ MtDoes("tune") /\ MtUncovered /\ ShowData /\ p \in Units(ui) /\ ui.own > 0
  /\ \E K \in {{}, ConfigKeys(p)} : MtShow(Aged(cache, K), [ui EXCEPT !.tuning = p, !.form = None, !.own = @ - 1])

CloseTune ==
  /\ ui.tuning # NoPath
  /\ MtShow(cache, [ui EXCEPT !.tuning = NoPath, !.form = None])

SetTtl(f, v) ==
  /\ ui.form # None /\ ui.op["tune"] = "idle" /\ ui.own > 0
  /\ ui.form[f] = ui.seed[f] /\ v # ui.form[f]
  /\ MtShow(cache, [ui EXCEPT !.form[f] = v])

SaveTune ==
  /\ ui.form # None /\ ui.op["tune"] = "idle" /\ InOrder(ui.form) /\ ui.own > 0
  /\ MtShow(cache, [Push(ui, "tune") EXCEPT !.put = [path |-> ui.tuning, form |-> ui.form, seed |-> ui.seed], !.own = @ - 1])

TuneAwaits ==
  [Await(ui, "tune", MtList) EXCEPT !.at["details"] = IF cache[Stats(ui.put.path)].data = None THEN 0 ELSE server.index]

TuneBackUnread ==
  /\ Returned("tune")
  /\ IF ui.op["tune"] = "failed" THEN MtShow(cache, Settle(ui, "tune"))
     ELSE MtShow(MtRefetch(cache, {Config(ui.put.path), MtList}), TuneAwaits)

TuneBack ==
  /\ Returned("tune")
  /\ IF ui.op["tune"] = "failed" THEN MtShow(cache, Settle(ui, "tune"))
     ELSE MtShow(MtRefetch(cache, ConfigKeys(ui.put.path) \cup {MtList}), TuneAwaits)

Tuned == ui.op["tune"] = "wait" /\ ~Waiting(cache, (ConfigKeys(ui.put.path) \cup {MtList}) \cap MtWatched(cache, ui))

(* onClose closes whatever the drawer shows by then. *)
TuneDone ==
  /\ Tuned
  /\ MtShow(cache, [Settle(ui, "tune") EXCEPT !.tuning = NoPath, !.form = None])

-----------------------------------------------------------------------------
(* Unmounting: the path is typed, the dialog closes with the answer, and the
   unit leaves the rack when the list was read. *)

AskUnmount(p) ==
  /\ MtDoes("unmount") /\ MtUncovered /\ ShowData /\ p \in Units(ui) \ Builtin /\ ui.own > 0
  /\ MtShow(cache, [ui EXCEPT !.toDelete = p, !.own = @ - 1])

CancelUnmount ==
  /\ ui.toDelete # NoPath /\ ui.op["unmount"] = "idle"
  /\ MtShow(cache, [ui EXCEPT !.toDelete = NoPath])

ConfirmUnmount ==
  /\ ui.toDelete # NoPath /\ ui.op["unmount"] = "idle" /\ ui.own > 0
  /\ MtShow(cache, [Push(ui, "unmount") EXCEPT !.own = @ - 1])

UnmountBack ==
  /\ Returned("unmount")
  /\ IF ui.op["unmount"] = "failed" THEN MtShow(cache, Settle(ui, "unmount"))
     ELSE MtShow(cache, [Settle(ui, "unmount") EXCEPT !.dying = [path |-> ui.toDelete, left |-> FALSE],
                                                      !.open = IF @ = ui.toDelete THEN NoPath ELSE @,
                                                      !.toDelete = NoPath])

UnplugUnread ==
  /\ ui.dying # None /\ ~ui.dying.left
  /\ MtShow(cache, [ui EXCEPT !.dying.left = TRUE, !.at["unmount"] = server.index])

(* 480 ms later the list is read, and then what was cached of the path goes. *)
Unplug ==
  /\ ui.dying # None /\ ~ui.dying.left
  /\ MtShow(MtRefetch(cache, {MtList}), [ui EXCEPT !.dying.left = TRUE, !.at["unmount"] = server.index])

Unplugged == ui.dying # None /\ ui.dying.left /\ ~Waiting(cache, {MtList})

UnplugDoneKeeps ==
  /\ Unplugged
  /\ MtShow(cache, [ui EXCEPT !.dying = None])

UnplugDone ==
  /\ Unplugged
  /\ MtShow(Removed(cache, ConfigKeys(ui.dying.path)), [ui EXCEPT !.dying = None])

-----------------------------------------------------------------------------
MtOther ==
  /\ ui.others > 0
  /\ \E p \in Paths :
       server' \in {[s EXCEPT !.theirs = TRUE] : s \in
         MountEffect(p) \cup UnmountEffect(p) \cup UNION {TuneEffect(p, [def |-> v, max |-> v]) : v \in Ttls}}
  /\ ui' = [ui EXCEPT !.others = @ - 1]
  /\ UNCHANGED cache

MtDeliver(k) == cache[k].fetch = "back" /\ MtShow(Deliver(cache, k), ui)

MtInit ==
  \E sc \in MtScenes :
    /\ server = [mounts |-> [p \in Paths |-> IF p \in sc.mounts THEN 1 ELSE 0], next |-> 2,
                 conf |-> [p \in Paths |-> NoConf], theirs |-> FALSE, index |-> 1]
    /\ cache = Observe([k \in MtKeys |-> Blank], {MtList})
    /\ ui = [page |-> "mounts", scene |-> sc.name, ops |-> sc.ops, own |-> sc.own, others |-> sc.others,
             faults |-> sc.faults, op |-> [c \in MtControls |-> "idle"], at |-> [c \in MtControls \cup {"details"} |-> 0],
             filter |-> "all", open |-> NoPath, step |-> 0, path |-> NoPath, made |-> NoPath, fresh |-> NoPath,
             tuning |-> NoPath, form |-> None, seed |-> NoConf, put |-> None, toDelete |-> NoPath, dying |-> None]

OnMounts == ui.page = "mounts"

MtServe ==
  \/ OpServe("create", MountEffect(ui.path)) \/ OpServe("unmount", UnmountEffect(ui.toDelete))
  \/ (ui.put # None /\ OpServe("tune", TuneEffect(ui.put.path, ui.put.form)))
MtBack == MountBack \/ MountDone \/ TuneBack \/ TuneDone \/ UnmountBack \/ UnplugDone
MtTimer == Unplug \/ FreshEnds
MtQuery == \E k \in MtKeys : QueryServe(k, MtAnswer(k)) \/ MtDeliver(k)

MtStep ==
  \/ \E p \in Paths : ToggleUnit(p) \/ TypePath(p) \/ OpenTune(p) \/ AskUnmount(p)
  \/ \E f \in {"all", "sys"} : MtFilter(f)
  \/ \E f \in {"def", "max"}, v \in Ttls : SetTtl(f, v)
  \/ MtRetry \/ OpenWizard \/ WizardBack \/ SubmitMount \/ CloseTune \/ SaveTune \/ CancelUnmount \/ ConfirmUnmount
  \/ MtOther \/ MtServe \/ MountBack \/ TuneBack \/ UnmountBack \/ MtTimer \/ MtQuery

(* The code after an await runs before any other event of the page. *)
MtNext ==
  IF Plugged \/ Tuned \/ Unplugged THEN MountDone \/ TuneDone \/ UnplugDone ELSE MtStep

MtFairness ==
  /\ WF_consoleVars(OnMounts /\ MtServe) /\ WF_consoleVars(OnMounts /\ MtBack)
  /\ WF_consoleVars(OnMounts /\ MtTimer) /\ WF_consoleVars(OnMounts /\ MtQuery)

-----------------------------------------------------------------------------

(* The mounts page is in one of its states, the built-in mounts are never taken
   down, and the server keeps a default TTL within the maximum TTL. *)
MtTypeOK ==
  OnMounts =>
    /\ ui.op \in [MtControls -> OpStates] /\ ui.step \in 0 .. 2
    /\ {ui.open, ui.tuning, ui.toDelete, ui.fresh} \subseteq Paths \cup {NoPath}
    /\ \A p \in Builtin : Mounted(p)
    /\ \A p \in Paths : InOrder(server.conf[p])

(* The details of a unit on the rack are those of the mount that is there and
   not of one that was unmounted here before it. *)
DetailsOfThisMount ==
  OnMounts /\ ShowData /\ ui.open \in Rack(cache) /\ ~server.theirs /\ cache[Stats(ui.open)].data # None =>
    cache[Stats(ui.open)].data.accessor = cache[MtList].data.mounts[ui.open]

(* A new unit is plugged in where the reader sees it: on the rack and past the
   filter, when the list could be read (and was not being read for the first
   time while the unit was mounted). *)
FreshIsSeen ==
  OnMounts /\ ui'.fresh # NoPath /\ ui.fresh = NoPath /\ ui.at["create"] > 0 =>
    ChangeShown("create", MtList) /\ (ShowData /\ ~server.theirs => ui'.fresh \in Units(ui'))

(* A unit stops leaving when the list without it is there, or cannot be read. *)
UnitLeaves == OnMounts /\ ui.dying # None /\ ui'.dying = None => ChangeShown("unmount", MtList)

(* The drawer closes after a save when the details below it show the save. *)
TunedShown ==
  OnMounts /\ ui.op["tune"] = "wait" /\ ui'.op["tune"] = "idle" =>
    /\ ChangeShown("tune", MtList)
    /\ ui.open = ui.put.path /\ cache[Stats(ui.open)].data # None /\ cache[Stats(ui.open)].fetch = "idle" =>
         ChangeShown("details", Stats(ui.open))

(* A save keeps the field that was not touched, when nobody tuned the path
   since the form was seeded and the seed could be read. *)
UntouchedKept ==
  OnMounts /\ ui.op["tune"] = "sent" /\ ui'.op["tune"] = "ok" =>
    LET p == ui.put.path IN
    server.conf[p].ver = ui.put.seed.ver =>
      \A f \in {"def", "max"} : ui.put.form[f] = ui.put.seed[f] => server'.conf[p][f] = server.conf[p][f]

MtBusy == OnMounts /\ (Busy(MtControls) \/ ui.dying # None \/ ui.fresh # NoPath)

=============================================================================
