------------------------------ MODULE WebSinks ------------------------------
(***************************************************************************)
(* The audit sinks page of the web console: the polled list of sinks, the  *)
(* drawer that registers one, the switches that pause and resume them and  *)
(* the dialog that deletes one.                                            *)
(***************************************************************************)
EXTENDS WebConsole

CONSTANTS
  Sinks,
  SkScenes   \* [name, sinks, ops, own, others, faults]

NoSink == "none"
SkControls == {"register", "delete"}

SkDoes(op) == op \in ui.ops

-----------------------------------------------------------------------------
(* The server. index counts the changes; sinks tells of each whether it runs,
   is paused or does not exist. *)

SinkSet(n, st) == [server EXCEPT !.sinks[n] = st, !.index = @ + 1]

(* A sink that is registered anew is replaced, and stays paused if it was. *)
RegisterEffect(n) == {SinkSet(n, IF server.sinks[n] = "none" THEN "on" ELSE server.sinks[n])}
StateEffect(n, st) == IF server.sinks[n] = "none" THEN {} ELSE {SinkSet(n, st)}
DeregisterEffect(n) == IF server.sinks[n] = "none" THEN {} ELSE {SinkSet(n, "none")}

-----------------------------------------------------------------------------
(* The list. After a failed fetch the page shows the error instead. *)

SkList == cache["sinks"].data
SkShown == SkList # None /\ ~cache["sinks"].err
SkRows == IF SkShown THEN {n \in Sinks : SkList.sinks[n] # "none"} ELSE {}

SkRender(c, u) == cache' = c /\ ui' = u /\ UNCHANGED server

SkRetry ==
  /\ cache["sinks"].err /\ cache["sinks"].fetch = "idle"
  /\ SkRender(FetchNow(cache, "sinks"), ui)

SkRefetch == Invalidate(cache, {"sinks"}, {"sinks"})

-----------------------------------------------------------------------------
(* The drawer. It closes on success, the mutation ends with the refetch. *)

OpenRegister ==
  /\ SkDoes("register") /\ ~ui.drawer /\ ui.ask = NoSink /\ ui.own > 0
  /\ SkRender(cache, [ui EXCEPT !.drawer = TRUE, !.form = NoSink])

TypeSink(n) ==
  /\ ui.drawer /\ ui.form # n
  /\ SkRender(cache, [ui EXCEPT !.form = n])

CloseRegister ==
  /\ ui.drawer /\ ui.op["register"] = "idle"
  /\ SkRender(cache, [ui EXCEPT !.drawer = FALSE])

SubmitRegister ==
  /\ ui.drawer /\ ui.op["register"] = "idle" /\ ui.form # NoSink /\ ui.own > 0
  /\ SkRender(cache, [Push(ui, "register") EXCEPT !.own = @ - 1, !.put = ui.form])

RegisterBackEarly ==
  /\ Returned("register")
  /\ IF ui.op["register"] = "failed" THEN SkRender(cache, Settle(ui, "register"))
     ELSE SkRender(cache, [Await(ui, "register", "sinks") EXCEPT !.drawer = FALSE, !.fresh = ui.form])

(* The row to highlight is the one the form names by then. *)
RegisterBack ==
  /\ Returned("register")
  /\ IF ui.op["register"] = "failed" THEN SkRender(cache, Settle(ui, "register"))
     ELSE SkRender(SkRefetch, [Await(ui, "register", "sinks") EXCEPT !.drawer = FALSE, !.fresh = ui.form])

RegisterDone ==
  /\ ui.op["register"] = "wait" /\ ~Waiting(cache, {"sinks"})
  /\ SkRender(cache, Settle(ui, "register"))

(* The highlight of a row that is listed goes after 2.2 s. *)
FreshEnds ==
  /\ ui.fresh \in SkRows
  /\ SkRender(cache, [ui EXCEPT !.fresh = NoSink])

-----------------------------------------------------------------------------
(* The switches share one mutation: only the last one clicked is disabled
   while its request runs, so several may be in flight. *)

Switches == {p \in ui.puts : p.pc # "idle"}
SwitchOff(n) == \E p \in Switches : p.n = n /\ p.id = ui.last

FlipHealth(n) ==
  /\ SkDoes("switch") /\ n \in SkRows /\ ~SwitchOff(n) /\ ~ui.drawer /\ ui.ask = NoSink /\ ui.own > 0
  /\ SkRender(cache, [ui EXCEPT !.own = @ - 1, !.last = ui.own,
                                !.puts = @ \cup {[id |-> ui.own, n |-> n, pc |-> "sent", at |-> 0,
                                                  to |-> IF SkList.sinks[n] = "on" THEN "paused" ELSE "on"]}])

Flip(n) ==
  /\ SkDoes("switch") /\ n \in SkRows /\ ~SwitchOff(n) /\ ~ui.drawer /\ ui.ask = NoSink /\ ui.own > 0
  /\ SkRender(cache, [ui EXCEPT !.own = @ - 1, !.last = ui.own,
                                !.puts = @ \cup {[id |-> ui.own, n |-> n, pc |-> "sent", at |-> 0,
                                                  to |-> IF SkList.sinks[n] = "on" THEN "off" ELSE "on"]}])

PutMoved(p, pc) == (ui.puts \ {p}) \cup {[p EXCEPT !.pc = pc]}

FlipServe(p) ==
  /\ p.pc = "sent"
  /\ \/ server' \in StateEffect(p.n, p.to) /\ ui' = [ui EXCEPT !.puts = PutMoved(p, "ok")]
     \/ StateEffect(p.n, p.to) = {} /\ server' = server /\ ui' = [ui EXCEPT !.puts = PutMoved(p, "failed")]
     \/ /\ ui.faults > 0 /\ server' \in StateEffect(p.n, p.to) \cup {server}
        /\ ui' = [ui EXCEPT !.puts = PutMoved(p, "failed"), !.faults = @ - 1]
  /\ UNCHANGED cache

FlipBack(p) ==
  \/ p.pc = "failed" /\ SkRender(cache, [ui EXCEPT !.puts = @ \ {p}])
  \/ /\ p.pc = "ok"
     /\ SkRender(SkRefetch, [ui EXCEPT !.puts = (@ \ {p}) \cup {[p EXCEPT !.pc = "wait", !.at = server.index]}])

FlipDone(p) ==
  /\ p.pc = "wait" /\ ~Waiting(cache, {"sinks"})
  /\ SkRender(cache, [ui EXCEPT !.puts = @ \ {p}])

-----------------------------------------------------------------------------
(* Deletion. Whether the sink is the last one is decided when the dialog
   opens, and only then has its name to be typed. *)

AskDeregister(n) ==
  /\ SkDoes("delete") /\ n \in SkRows \ {ui.dying} /\ ~ui.drawer /\ ui.ask = NoSink /\ ui.own > 0
  /\ SkRender(cache, [ui EXCEPT !.ask = n, !.mustType = SkRows = {n}, !.typed = FALSE])

TypeSinkName ==
  /\ ui.ask # NoSink /\ ui.mustType /\ ~ui.typed
  /\ SkRender(cache, [ui EXCEPT !.typed = TRUE])

CancelDeregister ==
  /\ ui.ask # NoSink /\ ui.op["delete"] = "idle"
  /\ SkRender(cache, [ui EXCEPT !.ask = NoSink])

ConfirmDeregister ==
  /\ ui.ask # NoSink /\ ui.op["delete"] = "idle" /\ (ui.mustType => ui.typed) /\ ui.own > 0
  /\ SkRender(cache, [Push(ui, "delete") EXCEPT !.own = @ - 1, !.dying = ui.ask])

(* A failure leaves the dialog open. *)
DeregisterBack ==
  /\ Returned("delete")
  /\ IF ui.op["delete"] = "failed" THEN SkRender(cache, [Settle(ui, "delete") EXCEPT !.dying = NoSink])
     ELSE SkRender(SkRefetch, Await(ui, "delete", "sinks"))

DeregisterDone ==
  /\ ui.op["delete"] = "wait" /\ ~Waiting(cache, {"sinks"})
  /\ SkRender(cache, [Settle(ui, "delete") EXCEPT !.dying = NoSink, !.ask = NoSink])

-----------------------------------------------------------------------------
SkEffect(c) == IF c = "register" THEN RegisterEffect(ui.put) ELSE DeregisterEffect(ui.ask)

(* A promise that waits for a fetch is continued before the next tick. *)
SkPoll == PollTick("sinks") /\ (\A c \in SkControls : ui.op[c] # "wait") /\ \A p \in ui.puts : p.pc # "wait"

SkDeliver ==
  /\ cache["sinks"].fetch = "back"
  /\ SkRender(Deliver(cache, "sinks"), ui)

SkOther(n, st) ==
  /\ ui.others > 0 /\ st # server.sinks[n]
  /\ server' = SinkSet(n, st)
  /\ ui' = [ui EXCEPT !.others = @ - 1]
  /\ UNCHANGED cache

SkInit ==
  \E sc \in SkScenes :
    /\ server = [sinks |-> [n \in Sinks |-> IF n \in sc.sinks THEN "on" ELSE "none"], index |-> 1]
    /\ cache = Observe([k \in {"sinks"} |-> Blank], {"sinks"})
    /\ ui = [page |-> "sinks", scene |-> sc.name, ops |-> sc.ops, own |-> sc.own, others |-> sc.others, faults |-> sc.faults,
             op |-> [c \in SkControls |-> "idle"], at |-> [c \in SkControls |-> 0], drawer |-> FALSE, form |-> NoSink,
             put |-> NoSink, fresh |-> NoSink, puts |-> {}, last |-> 0, ask |-> NoSink, mustType |-> FALSE,
             typed |-> FALSE, dying |-> NoSink]

OnSinks == ui.page = "sinks"

SkStep ==
  \/ \E c \in SkControls : OpServe(c, SkEffect(c))
  \/ RegisterBack \/ RegisterDone \/ DeregisterBack \/ DeregisterDone
SkFlipStep == \E p \in ui.puts : FlipServe(p) \/ FlipBack(p) \/ FlipDone(p)
SkQuery == QueryServe("sinks", [sinks |-> server.sinks, index |-> server.index]) \/ SkDeliver

SkNext ==
  \/ \E n \in Sinks : TypeSink(n) \/ Flip(n) \/ AskDeregister(n) \/ \E st \in {"none", "on", "off"} : SkOther(n, st)
  \/ OpenRegister \/ CloseRegister \/ SubmitRegister \/ FreshEnds \/ TypeSinkName \/ CancelDeregister \/ ConfirmDeregister
  \/ SkRetry \/ SkPoll \/ SkStep \/ SkFlipStep \/ SkQuery

(* Requests are answered or fail and promises are continued. *)
SkFairness ==
  WF_consoleVars(OnSinks /\ SkStep) /\ WF_consoleVars(OnSinks /\ SkFlipStep) /\ WF_consoleVars(OnSinks /\ SkQuery)

-----------------------------------------------------------------------------

(* The sinks page is in one of its states. *)
SkTypeOK ==
  OnSinks =>
    /\ server.sinks \in [Sinks -> {"none", "on", "off"}] /\ ui.op \in [SkControls -> OpStates]
    /\ {ui.form, ui.put, ui.fresh, ui.ask, ui.dying} \subseteq Sinks \cup {NoSink}
    /\ \A p \in ui.puts : p.n \in Sinks /\ p.pc \in OpStates

(* A control comes out of its spinner with the change on the page: when a
   registration, a deletion or a switch ends after a success, the list is as
   recent as the change, unless its refetch failed, which the page shows, or
   the very first list was still on its way. *)
SinkChangeShown ==
  OnSinks =>
    /\ \A c \in SkControls : ui.op[c] = "wait" /\ ui'.op[c] = "idle" => ChangeShown(c, "sinks")
    /\ \A p \in ui.puts \ ui'.puts :
         p.pc = "wait" => cache["sinks"].err \/ SkList.index >= p.at

SkBusy == OnSinks /\ (Busy(SkControls) \/ ui.puts # {} \/ ui.dying # NoSink)

=============================================================================
