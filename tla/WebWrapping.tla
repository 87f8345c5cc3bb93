---------------------------- MODULE WebWrapping ----------------------------
(***************************************************************************)
(* The wrapping page of the web console: sealing a payload in a one-time   *)
(* capsule, looking one up, unwrapping it, revoking it by token or, from   *)
(* the polled list, by accessor, and the stage that shows how the selected *)
(* capsule fares. The three panels stay mounted behind the tabs, so their  *)
(* requests run side by side.                                              *)
(*                                                                         *)
(* A capsule stands for its token and its accessor.                        *)
(***************************************************************************)
EXTENDS WebConsole

CONSTANTS
  Caps,
  WrScenes   \* [name, caps, ops, own, others, faults]

NoCap == "none"
WrControls == {"wrap", "lookup", "unwrap", "revoke"}
WrCodes == {"idle", "sent", "ok", "404", "410", "lost"}
Endings == {"used", "revoked", "expired", "missing"}
Lists == [caps : SUBSET Caps, index : Nat]

ASSUME WrConstants ==
  /\ NoCap \notin Caps
  /\ None \notin Lists /\ Failed \notin Lists
  /\ \A sc \in WrScenes : sc.caps \subseteq Caps

WrDoes(op) == op \in ui.ops /\ ui.dlg = "none"

-----------------------------------------------------------------------------
(* The server: cap[w] is what became of the capsule, and late tells that its
   TTL ran out. A late capsule is dropped by the first request that meets it. *)

CapSet(w, st) == [server EXCEPT !.cap[w] = st, !.index = @ + 1]
Usable(s, w) == s.cap[w] = "live" /\ ~s.late[w]
Listed(s) == {w \in Caps : Usable(s, w)}

(* <<code, next state>> of a request for w. *)
UnwrapLeaves(w) ==
  IF server.cap[w] # "live" THEN <<"404", server>>
  ELSE IF server.late[w] THEN <<"410", CapSet(w, "dropped")>> ELSE <<"ok", server>>

Unwrap(w) ==
  IF server.cap[w] # "live" THEN <<"404", server>>
  ELSE IF server.late[w] THEN <<"410", CapSet(w, "dropped")>> ELSE <<"ok", CapSet(w, "used")>>
Lookup(w) ==
  IF server.cap[w] # "live" THEN <<"404", server>>
  ELSE IF server.late[w] THEN <<"410", CapSet(w, "dropped")>> ELSE <<"ok", server>>
Revoke(w) ==
  IF server.cap[w] # "live" THEN <<"404", server>>
  ELSE IF server.late[w] THEN <<"404", CapSet(w, "dropped")>> ELSE <<"ok", CapSet(w, "revoked")>>
Wrap(w) == <<"ok", CapSet(w, "live")>>

WrResult(c) ==
  CASE c = "wrap" -> Wrap(ui.req[c])
    [] c = "lookup" -> Lookup(ui.req[c])
    [] c = "unwrap" -> Unwrap(ui.req[c])
    [] c = "revoke" -> Revoke(ui.req[c])

WrServe(c) ==
  /\ ui.op[c] = "sent"
  /\ \/ server' = WrResult(c)[2] /\ ui' = [ui EXCEPT !.op[c] = WrResult(c)[1]]
     \/ /\ ui.faults > 0 /\ server' \in {server, WrResult(c)[2]}
        /\ ui' = [ui EXCEPT !.op[c] = "lost", !.faults = @ - 1]
  /\ UNCHANGED cache

-----------------------------------------------------------------------------
(* What the page knows: ses[w] is the status of a capsule of this session. *)

(* The clocks of the page and of the server are taken to agree. *)
StatusOf(w) == IF ui.ses[w] = "active" /\ server.late[w] THEN "expired" ELSE ui.ses[w]

WrRows == IF cache["list"].data = None THEN {} ELSE cache["list"].data.caps
PickStatus ==
  IF ui.pick \in WrRows THEN IF server.late[ui.pick] THEN "expired" ELSE "active"
  ELSE IF ui.gone THEN "revoked" ELSE IF server.late[ui.pick] THEN "expired" ELSE "missing"

WrRefetch == Invalidate(cache, {"list"}, {"list"})
WrRender(c, u) == cache' = c /\ ui' = u /\ UNCHANGED server

(* The capsule w becomes the selected one; a row picked from the list is let
   go when that is a change. *)
Chosen(u, w) == [u EXCEPT !.cur = w, !.pick = IF u.cur = w THEN @ ELSE NoCap]
SelectRow(u, w) == WrRender(cache, Chosen(u, w))

(* upsert with a status, which also refreshes the list. *)
Upsert(u, w, st) == WrRender(WrRefetch, Chosen([u EXCEPT !.ses[w] = st], w))

AnyFailureEnds(u, w, code, known) ==
  IF known = "used" THEN SelectRow(u, w) ELSE Upsert(u, w, IF code = "410" THEN "expired" ELSE "missing")

EndsOnCode(u, w, code, known) ==
  IF code \notin {"404", "410"} \/ known = "used" THEN SelectRow(u, w) ELSE Upsert(u, w, code)

(* failed: only 404 and 410 end a capsule, and not one unwrapped here, as far
   as the handler knows. *)
EndsOn(u, w, code, known) ==
  IF code \notin {"404", "410"} \/ known = "used" THEN SelectRow(u, w)
  ELSE Upsert(u, w, IF code = "410" THEN "expired" ELSE "missing")

(* A token in a box was issued before it was typed. *)
TypeToken(box, w) ==
  /\ WrDoes(box) /\ ui.box[box] # w /\ server.cap[w] # "none"
  /\ WrRender(cache, [ui EXCEPT !.box[box] = w])

(* The clock of the page: an expired capsule is announced once. *)
WrTick(w) ==
  /\ ui.ses[w] = "active" /\ server.late[w] /\ w \notin ui.noted
  /\ WrRender(WrRefetch, [ui EXCEPT !.noted = @ \cup {w}])

-----------------------------------------------------------------------------
(* Wrapping. The seal stays on the stage while the request runs. *)

SubmitWrap(w) ==
  /\ WrDoes("wrap") /\ ui.own > 0 /\ ui.op["wrap"] = "idle" /\ server.cap[w] = "none"
  /\ WrRender(cache, [Push(ui, "wrap") EXCEPT !.own = @ - 1, !.req["wrap"] = w, !.stage = "sealing"])

WrapBack ==
  /\ ui.op["wrap"] \notin {"idle", "sent"}
  /\ LET u == [Settle(ui, "wrap") EXCEPT !.stage = "rest"]
     IN IF ui.op["wrap"] = "ok" THEN Upsert(u, ui.req["wrap"], "active") ELSE WrRender(cache, u)

(* Looking up. *)
SubmitLookup ==
  /\ WrDoes("lookup") /\ ui.own > 0 /\ ui.op["lookup"] = "idle" /\ ui.box["lookup"] # NoCap
  /\ WrRender(cache, [Push(ui, "lookup") EXCEPT !.own = @ - 1, !.req["lookup"] = ui.box["lookup"], !.info = NoCap])

LookupBack ==
  /\ ui.op["lookup"] \notin {"idle", "sent"}
  /\ LET u == Settle(ui, "lookup")
         w == ui.req["lookup"]
     IN IF ui.op["lookup"] = "ok" THEN Upsert([u EXCEPT !.info = w], w, "active")
        ELSE EndsOn(u, w, ui.op["lookup"], ui.ses[w])

(* Revoking the token in the box. The handler knows the capsules as they were
   when it was started. *)
AskRevoke ==
  /\ WrDoes("lookup") /\ ui.own > 0 /\ ui.box["lookup"] # NoCap
  /\ WrRender(cache, [ui EXCEPT !.dlg = "revoke"])

ConfirmRevoke ==
  /\ ui.dlg = "revoke" /\ ui.op["revoke"] = "idle" /\ ui.own > 0
  /\ LET w == ui.box["lookup"]
     IN WrRender(cache, [Push(ui, "revoke") EXCEPT !.own = @ - 1, !.req["revoke"] = w, !.saw = ui.ses[w]])

RevokeBack ==
  /\ ui.op["revoke"] \notin {"idle", "sent"}
  /\ LET u == [Settle(ui, "revoke") EXCEPT !.dlg = "none"]
         w == ui.req["revoke"]
     IN IF ui.op["revoke"] = "ok" THEN Upsert([u EXCEPT !.info = NoCap], w, "revoked")
        ELSE EndsOn(u, w, ui.op["revoke"], ui.saw)

-----------------------------------------------------------------------------
(* Unwrapping. The payload is masked until it is asked for. *)

AskUnwrap ==
  /\ WrDoes("unwrap") /\ ui.own > 0 /\ ui.box["unwrap"] # NoCap /\ ui.op["unwrap"] = "idle"
  /\ WrRender(cache, [ui EXCEPT !.dlg = "unwrap"])

RunUnwrap(u) ==
  WrRender(cache, [Push(u, "unwrap") EXCEPT !.own = @ - 1, !.req["unwrap"] = ui.box["unwrap"], !.payload = NoCap])

ConfirmUnwrap ==
  /\ ui.dlg = "unwrap" /\ ui.own > 0
  /\ RunUnwrap([ui EXCEPT !.dlg = "none"])

(* The button under a payload runs the request again for the token that is
   in the box by then. *)
TryAgain ==
  /\ WrDoes("unwrap") /\ ui.own > 0 /\ ui.payload # NoCap /\ ui.box["unwrap"] # NoCap
  /\ RunUnwrap(ui)

UnwrapBackKeepsReveal ==
  /\ ui.op["unwrap"] \notin {"idle", "sent"}
  /\ LET u == Settle(ui, "unwrap")
         w == ui.req["unwrap"]
     IN IF ui.op["unwrap"] = "ok" THEN Upsert([u EXCEPT !.payload = w, !.stage = "breaking", !.play = 2], w, "used")
        ELSE EndsOn([u EXCEPT !.payload = NoCap], w, ui.op["unwrap"], ui.ses[w])

UnwrapBack ==
  /\ ui.op["unwrap"] \notin {"idle", "sent"}
  /\ LET u == Settle(ui, "unwrap")
         w == ui.req["unwrap"]
     IN IF ui.op["unwrap"] = "ok"
        THEN Upsert([u EXCEPT !.payload = w, !.revealed = FALSE, !.stage = "breaking", !.play = 2], w, "used")
        ELSE EndsOn([u EXCEPT !.payload = NoCap], w, ui.op["unwrap"], ui.ses[w])

ToggleReveal ==
  /\ WrDoes("unwrap") /\ ui.payload # NoCap /\ (ui.revealed \/ ui.own > 0)
  /\ WrRender(cache, IF ui.revealed THEN [ui EXCEPT !.revealed = FALSE]
                     ELSE [ui EXCEPT !.revealed = TRUE, !.asked = ui.payload, !.own = @ - 1])

(* useAutoMask, 30 s. *)
AutoMaskPayload ==
  /\ ui.revealed
  /\ WrRender(cache, [ui EXCEPT !.revealed = FALSE])

ClearPayload ==
  /\ WrDoes("unwrap") /\ ui.payload # NoCap
  /\ WrRender(cache, [ui EXCEPT !.payload = NoCap])

(* The two timers of playUnwrap: the capsule that broke dissolves and is gone,
   whatever else the stage shows by then. *)
StageTimer ==
  /\ ui.play > 0
  /\ WrRender(cache, [ui EXCEPT !.play = @ - 1, !.stage = IF ui.play = 2 THEN "dissolved" ELSE "rest"])

-----------------------------------------------------------------------------
(* The list of live capsules. *)

NoRows == [wait |-> {}, done |-> {}, pc |-> "asked", pick |-> NoCap]

PickRow(w) ==
  /\ WrDoes("list") /\ w \in WrRows /\ ui.pick # w
  /\ WrRender(cache, [ui EXCEPT !.cur = NoCap, !.pick = w, !.gone = FALSE])

CheckRow(w) ==
  /\ WrDoes("list") /\ w \in WrRows
  /\ WrRender(cache, [ui EXCEPT !.sel = IF w \in @ THEN @ \ {w} ELSE @ \cup {w}])

CheckAll ==
  /\ WrDoes("list") /\ WrRows # {}
  /\ WrRender(cache, [ui EXCEPT !.sel = IF WrRows \subseteq @ THEN {} ELSE WrRows])

(* The checked rows that are still listed, or one row. *)
AskRevokeRows(T) ==
  /\ WrDoes("list") /\ ui.own > 0 /\ T # {}
  /\ T = ui.sel \cap WrRows \/ \E w \in WrRows : T = {w}
  /\ WrRender(cache, [ui EXCEPT !.dlg = "rows", !.rows = [NoRows EXCEPT !.wait = T]])

CancelDialog ==
  /\ \/ ui.dlg = "unwrap" \/ (ui.dlg = "revoke" /\ ui.op["revoke"] = "idle")
     \/ (ui.dlg = "rows" /\ ui.rows.pc = "asked")
  /\ WrRender(cache, [ui EXCEPT !.dlg = "none"])

ConfirmRows ==
  /\ ui.dlg = "rows" /\ ui.rows.pc = "asked" /\ ui.own > 0
  /\ WrRender(cache, [ui EXCEPT !.rows.pc = "sent", !.rows.pick = ui.pick, !.own = @ - 1])

(* The requests run in parallel and fail on their own. *)
RowServe(w) ==
  /\ ui.dlg = "rows" /\ ui.rows.pc = "sent" /\ w \in ui.rows.wait
  /\ LET settled == [ui EXCEPT !.rows.wait = @ \ {w}]
         ok == Revoke(w)[1] = "ok"
     IN \/ server' = Revoke(w)[2] /\ ui' = (IF ok THEN [settled EXCEPT !.rows.done = @ \cup {w}] ELSE settled)
        \/ ui.faults > 0 /\ server' \in {server, Revoke(w)[2]} /\ ui' = [settled EXCEPT !.faults = @ - 1]
  /\ UNCHANGED cache

(* onRevoked marks the row that was picked when the dialog was confirmed. *)
RowsBack ==
  /\ ui.dlg = "rows" /\ ui.rows.pc = "sent" /\ ui.rows.wait = {}
  /\ LET u == [ui EXCEPT !.rows.pc = "wait", !.sel = {}, !.at = server.index]
     IN WrRender(WrRefetch, IF ui.rows.pick \in ui.rows.done THEN [u EXCEPT !.pick = ui.rows.pick, !.gone = TRUE] ELSE u)

RowsDoneUnread ==
  /\ ui.dlg = "rows" /\ ui.rows.pc = "wait"
  /\ WrRender(cache, [ui EXCEPT !.dlg = "none"])

RowsDone ==
  /\ ui.dlg = "rows" /\ ui.rows.pc = "wait" /\ ~Waiting(cache, {"list"})
  /\ WrRender(cache, [ui EXCEPT !.dlg = "none"])

(* A promise that waits for a fetch is continued before the next tick. *)
WrPoll == "list" \in ui.ops /\ PollTick("list") /\ ~(ui.dlg = "rows" /\ ui.rows.pc = "wait")

WrDeliver ==
  /\ cache["list"].fetch = "back"
  /\ WrRender(Deliver(cache, "list"), ui)

-----------------------------------------------------------------------------
(* Others consume or revoke a capsule, and time passes. *)

WrOther(w) ==
  /\ ui.others > 0 /\ Usable(server, w)
  /\ server' \in {CapSet(w, "used"), CapSet(w, "revoked"), [server EXCEPT !.late[w] = TRUE]}
  /\ ui' = [ui EXCEPT !.others = @ - 1]
  /\ UNCHANGED cache

WrInit ==
  \E sc \in WrScenes :
    /\ server = [cap |-> [w \in Caps |-> IF w \in sc.caps THEN "live" ELSE "none"], late |-> [w \in Caps |-> FALSE], index |-> 1]
    /\ cache = Observe([k \in {"list"} |-> Blank], {"list"})
    /\ ui = [page |-> "wrapping", scene |-> sc.name, ops |-> sc.ops, own |-> sc.own, others |-> sc.others, faults |-> sc.faults,
             op |-> [c \in WrControls |-> "idle"], req |-> [c \in WrControls |-> NoCap],
             box |-> [b \in {"lookup", "unwrap"} |-> NoCap], ses |-> [w \in Caps |-> "unknown"], noted |-> {}, saw |-> "unknown",
             cur |-> NoCap, pick |-> NoCap, gone |-> FALSE, info |-> NoCap, payload |-> NoCap, revealed |-> FALSE,
             asked |-> NoCap, stage |-> "rest", play |-> 0, dlg |-> "none", sel |-> {}, rows |-> NoRows,
             at |-> 0]

OnWrapping == ui.page = "wrapping"

WrStep == WrapBack \/ LookupBack \/ RevokeBack \/ UnwrapBack \/ RowsBack \/ RowsDone \/ \E w \in Caps : RowServe(w)
WrTimers == AutoMaskPayload \/ StageTimer \/ \E w \in Caps : WrTick(w)
WrAnswer == \E c \in WrControls : WrServe(c)
WrQuery == QueryServe("list", [caps |-> Listed(server), index |-> server.index]) \/ WrDeliver

WrNext ==
  \/ \E w \in Caps : SubmitWrap(w) \/ PickRow(w) \/ CheckRow(w) \/ WrOther(w) \/ \E b \in {"lookup", "unwrap"} : TypeToken(b, w)
  \/ \E T \in SUBSET Caps : AskRevokeRows(T)
  \/ SubmitLookup \/ AskRevoke \/ ConfirmRevoke \/ AskUnwrap \/ ConfirmUnwrap \/ TryAgain \/ ToggleReveal \/ ClearPayload
  \/ CheckAll \/ CancelDialog \/ ConfirmRows \/ WrPoll
  \/ WrStep \/ WrTimers \/ WrAnswer \/ WrQuery

(* Requests are answered or fail, promises are continued, timers run out. *)
WrFairness ==
  /\ WF_consoleVars(OnWrapping /\ WrStep) /\ WF_consoleVars(OnWrapping /\ WrTimers)
  /\ WF_consoleVars(OnWrapping /\ WrAnswer) /\ WF_consoleVars(OnWrapping /\ WrQuery)

WrSpec == WrInit /\ [][OnWrapping /\ WrNext]_consoleVars /\ WrFairness

-----------------------------------------------------------------------------

(* The wrapping page is in one of its states: the record the session keeps of a
   capsule is one of the endings the page knows. *)
WrTypeOK ==
  OnWrapping =>
    /\ server.cap \in [Caps -> {"none", "live", "used", "revoked", "dropped"}]
    /\ ui.op \in [WrControls -> WrCodes] /\ ui.ses \in [Caps -> Endings \cup {"unknown", "active"}]
    /\ {ui.cur, ui.pick, ui.info, ui.payload} \subseteq Caps \cup {NoCap}

(* The endings on the page are real: a capsule called used or revoked is so on
   the server, and one called expired or missing, in the session or on the
   stage, can no longer be unwrapped, whichever answers were lost or late. *)
EndingsAreReal ==
  OnWrapping =>
    /\ \A w \in Caps :
         /\ StatusOf(w) \in {"used", "revoked"} => server.cap[w] = StatusOf(w)
         /\ StatusOf(w) \in {"expired", "missing"} => ~Usable(server, w)
    /\ ui.pick # NoCap /\ PickStatus = "revoked" => server.cap[ui.pick] = "revoked"
    /\ ui.pick # NoCap /\ PickStatus \in {"expired", "missing"} => ~Usable(server, ui.pick)

(* A payload on the page is the only copy there is: its capsule was consumed,
   even if its token is unwrapped twice at once or its answer comes late. *)
PayloadIsOnlyCopy ==
  OnWrapping /\ ui.payload # NoCap => server.cap[ui.payload] = "used"

(* A payload is shown in clear only after "Show" was pressed for it: a reveal
   does not outlive the payload and pass on to the next one. *)
RevealWasAsked ==
  OnWrapping /\ ui.payload # NoCap /\ ui.revealed => ui.asked = ui.payload

(* The unwrap and lookup panels call a wrapping token spent only when it is, keep
   the only copy of an unwrapped payload, and show it only to a user who asked. *)
UnwrapHonest ==
  /\ EndingsAreReal /\ PayloadIsOnlyCopy /\ RevealWasAsked

(* The dialog over the list closes on a list as recent as the revocations, or
   after a refetch that failed. *)
RevocationsShown ==
  OnWrapping /\ ui.dlg = "rows" /\ ui.rows.pc = "wait" /\ ui'.dlg = "none" =>
    cache["list"].err \/ cache["list"].data.index >= ui.at

WrBusy ==
  OnWrapping /\ (Busy(WrControls) \/ ui.stage # "rest" \/ ui.play > 0 \/ ui.revealed \/ (ui.dlg = "rows" /\ ui.rows.pc # "asked"))

=============================================================================
