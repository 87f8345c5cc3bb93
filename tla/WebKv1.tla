------------------------------- MODULE WebKv1 -------------------------------
(***************************************************************************)
(* The KV v1 page of the web console: the list, the detail of the selected *)
(* secret with its masked fields, the delete dialog, and the write drawer, *)
(* whose overwrite stage burns the old value before it sends the new one.  *)
(*                                                                         *)
(* A value is the number of the write that stored it, 0 where there is     *)
(* none; writes are numbered by server.seq.                                *)
(***************************************************************************)
EXTENDS WebConsole

CONSTANTS
  Kv1Level,     \* [secret paths -> the prefix each is listed under]
  Kv1Prefixes,  \* the prefixes that can be gone to
  Kv1Scenes     \* [name, secrets, ops, own, others, faults]

Kv1Paths == DOMAIN Kv1Level
Kv1Keys == {<<"list", pre>> : pre \in Kv1Prefixes} \cup {<<"get", p>> : p \in Kv1Paths}

Kv1View(k) ==
  IF k[1] = "list" THEN [keys |-> {p \in Kv1Paths : Kv1Level[p] = k[2] /\ server.val[p] > 0}]
  ELSE IF server.val[k[2]] = 0 THEN Failed ELSE [val |-> server.val[k[2]]]

StoredUnnumbered(s, p) == [s EXCEPT !.val[p] = s.seq + 1]
Stored(s, p) == [seq |-> s.seq + 1, val |-> [s.val EXCEPT ![p] = s.seq + 1]]
Erased(s, p) == [s EXCEPT !.val[p] = 0]

(* The probe of the write drawer looks the typed name up, never from the cache. *)
Probe(u) == IF u.d.open /\ u.d.path # None /\ u.d.still THEN {<<"get", u.d.path>>} ELSE {}

Kv1Watched(u) ==
  {<<"list", u.prefix>>} \cup Probe(u) \cup (IF u.sel = None THEN {} ELSE {<<"get", u.sel>>})

(* A render. The detail is keyed by its path: another secret starts masked. *)
Kv1Render(c, u) ==
  LET new == Probe(u) \ Probe(ui) IN
  /\ cache' = Observe(Aged(c, new), new \cup (Kv1Watched(u) \ Kv1Watched(ui)))
  /\ ui' = IF u.sel = ui.sel THEN u ELSE [u EXCEPT !.all = FALSE, !.one = FALSE, !.conf = "off"]

Kv1Does(op) == op \in ui.ops

-----------------------------------------------------------------------------
(* The list. *)

Kv1List == cache[<<"list", ui.prefix>>]
Kv1Rows == IF Kv1List.data = None \/ Kv1List.err THEN {} ELSE Kv1List.data.keys

(* An open drawer or dialog covers the page. *)
Uncovered == ~ui.d.open /\ ui.conf = "off"

(* A folder, a crumb, "up" and "jump". The selection stays. *)
Kv1Go(pre) ==
  /\ Kv1Does("go") /\ Uncovered /\ pre # ui.prefix
  /\ Kv1Render(cache, [ui EXCEPT !.prefix = pre])
  /\ UNCHANGED server

Select(p) ==
  /\ Uncovered /\ p \in Kv1Rows /\ p # ui.sel
  /\ Kv1Render(cache, [ui EXCEPT !.sel = p])
  /\ UNCHANGED server

(* The retry buttons; for a value that does not exist the page has none. *)
Refetch(k) ==
  /\ Uncovered /\ k \in Kv1Watched(ui) /\ cache[k].err /\ cache[k].fetch = "idle"
  /\ Kv1Render(FetchNow(cache, k), ui)
  /\ UNCHANGED server

-----------------------------------------------------------------------------
(* The detail. *)

DetailShown ==
  /\ Uncovered /\ ui.sel # None
  /\ cache[<<"get", ui.sel>>].data # None /\ ~cache[<<"get", ui.sel>>].err

(* "Show all" masks the fields revealed one by one; only it has a timer. *)
RevealAll ==
  /\ Kv1Does("reveal") /\ DetailShown
  /\ Kv1Render(cache, [ui EXCEPT !.all = ~@, !.one = FALSE])
  /\ UNCHANGED server

RevealField ==
  /\ Kv1Does("reveal") /\ DetailShown
  /\ Kv1Render(cache, [ui EXCEPT !.one = ~@])
  /\ UNCHANGED server

AutoMask ==
  /\ ui.all
  /\ Kv1Render(cache, [ui EXCEPT !.all = FALSE])
  /\ UNCHANGED server

AskDelete ==
  /\ Kv1Does("delete") /\ DetailShown /\ ui.own > 0
  /\ Kv1Render(cache, [ui EXCEPT !.conf = "ask"])
  /\ UNCHANGED server

CancelDelete ==
  /\ ui.conf = "ask"
  /\ Kv1Render(cache, [ui EXCEPT !.conf = "off"])
  /\ UNCHANGED server

(* doDelete: the confirmation is busy until the DELETE is answered. *)
ConfirmDelete ==
  /\ ui.conf = "ask"
  /\ Kv1Render(cache, [ui EXCEPT !.conf = "sent", !.own = @ - 1])
  /\ UNCHANGED server

DeleteServe(ok) ==
  /\ ui.conf = "sent"
  /\ ok \/ ui.faults > 0
  /\ server' \in IF ok THEN {Erased(server, ui.sel)} ELSE {server, Erased(server, ui.sel)}
  /\ ui' = [ui EXCEPT !.conf = IF ok THEN "ok" ELSE "failed", !.faults = IF ok THEN @ ELSE @ - 1,
                      !.cut = server.seq]
  /\ UNCHANGED cache

(* A failure keeps the dialog open. Otherwise the row leaves for half a second. *)
DeleteBack ==
  /\ ui.conf \in {"ok", "failed"}
  /\ Kv1Render(cache, IF ui.conf = "failed" THEN [ui EXCEPT !.conf = "ask", !.own = @ + 1]
                      ELSE [ui EXCEPT !.conf = "off", !.leaving = ui.sel])
  /\ UNCHANGED server

(* onDeleted: the selection is dropped unless it moved on, the cached value
   is removed together with a fetch of it in flight, the lists are fetched. *)
DeletedKeepsValue ==
  /\ ui.leaving # None
  /\ LET u == [ui EXCEPT !.leaving = None, !.sel = IF @ = ui.leaving THEN None ELSE @,
                         !.gone = [@ EXCEPT ![ui.leaving] = ui.cut]]
     IN Kv1Render(Invalidate(cache, Kv1Keys, Kv1Watched(ui)), u)
  /\ UNCHANGED server

Deleted ==
  /\ ui.leaving # None
  /\ LET u == [ui EXCEPT !.leaving = None, !.sel = IF @ = ui.leaving THEN None ELSE @,
                         !.gone = [@ EXCEPT ![ui.leaving] = ui.cut]]
         key == <<"get", ui.leaving>>
         c == Invalidate([cache EXCEPT ![key] = Blank], {k \in Kv1Keys : k[1] = "list"}, Kv1Watched(ui))
     IN Kv1Render(Observe(c, {key} \cap Kv1Watched(u)), u)
  /\ UNCHANGED server

-----------------------------------------------------------------------------
(* The write drawer. sib is the list it was opened over. *)

NoDrawer == [open |-> FALSE, base |-> "", path |-> None, still |-> FALSE, sib |-> {}, pc |-> "edit", drawn |-> FALSE, ans |-> None]

OpenNew ==
  /\ Kv1Does("new") /\ Uncovered
  /\ Kv1Render(cache, [ui EXCEPT !.d = [NoDrawer EXCEPT !.open = TRUE, !.base = ui.prefix, !.sib = Kv1Rows]])
  /\ UNCHANGED server

OpenOverwrite ==
  /\ Kv1Does("over") /\ DetailShown
  /\ Kv1Render(cache, [ui EXCEPT !.d = [NoDrawer EXCEPT !.open = TRUE, !.path = ui.sel, !.still = TRUE,
                                                        !.sib = IF ui.prefix = "" THEN Kv1Rows ELSE {}]])
  /\ UNCHANGED server

DrawerIdle == ui.d.open /\ ui.d.pc = "edit"

CloseWrite ==
  /\ DrawerIdle
  /\ Kv1Render(cache, [ui EXCEPT !.d = NoDrawer])
  /\ UNCHANGED server

TypePath(p) ==
  /\ Kv1Does("new") /\ DrawerIdle /\ p # ui.d.path /\ ui.d.base \in {"", Kv1Level[p]}
  /\ Kv1Render(cache, [ui EXCEPT !.d.path = p, !.d.still = FALSE])
  /\ UNCHANGED server

PathStill ==
  /\ ui.d.open /\ ui.d.path # None /\ ~ui.d.still
  /\ Kv1Render(cache, [ui EXCEPT !.d.still = TRUE])
  /\ UNCHANGED server

(* What the drawer knows of the name: the list it was opened over has it, or
   the probe was answered with a value. *)
Exists ==
  \/ ui.d.path \in ui.d.sib
  \/ ui.d.still /\ cache[<<"get", ui.d.path>>].data # None /\ ~cache[<<"get", ui.d.path>>].err

(* save: a name that exists goes through the overwrite stage. *)
Save ==
  /\ DrawerIdle /\ ui.d.path # None /\ ui.own > 0
  /\ Kv1Render(cache, [ui EXCEPT !.own = @ - 1, !.d.pc = IF Exists THEN "burn" ELSE "put"])
  /\ UNCHANGED server

(* The stage: once the old value has burnt the request leaves, once, while the
   new value is drawn; the stage waits for both. *)
StageWrite ==
  /\ ui.d.pc = "burn"
  /\ Kv1Render(cache, [ui EXCEPT !.d.pc = "write"])
  /\ UNCHANGED server

StageDrawn ==
  /\ ui.d.pc = "write" /\ ~ui.d.drawn
  /\ Kv1Render(cache, [ui EXCEPT !.d.drawn = TRUE])
  /\ UNCHANGED server

PutServe(ok) ==
  /\ ui.d.pc \in {"put", "write"} /\ ui.d.ans = None
  /\ ok \/ ui.faults > 0
  /\ server' \in IF ok THEN {Stored(server, ui.d.path)} ELSE {server, Stored(server, ui.d.path)}
  /\ ui' = [ui EXCEPT !.d.ans = IF ok THEN server.seq + 1 ELSE Failed, !.faults = IF ok THEN @ ELSE @ - 1]
  /\ UNCHANGED cache

(* onSaved: to the folder of the secret, with the secret selected. The lists
   and the value are invalidated before the render that closes the drawer. *)
SavedTo(p) ==
  LET u == [ui EXCEPT !.d = NoDrawer, !.prefix = Kv1Level[p], !.sel = p]
  IN Kv1Render(Invalidate(cache, {k \in Kv1Keys : k[1] = "list" \/ k = <<"get", p>>}, Kv1Watched(ui)), u)

PutBack ==
  /\ ui.d.pc = "put" /\ ui.d.ans # None
  /\ IF ui.d.ans = Failed THEN Kv1Render(cache, [ui EXCEPT !.own = @ + 1, !.d.pc = "edit", !.d.ans = None])
     ELSE SavedTo(ui.d.path)
  /\ UNCHANGED server

StageEndsDrawn ==
  /\ ui.d.pc = "write" /\ ui.d.drawn
  /\ SavedTo(ui.d.path)
  /\ UNCHANGED server

StageEnds ==
  /\ ui.d.pc = "write" /\ ui.d.drawn /\ ui.d.ans # None
  /\ IF ui.d.ans = Failed THEN Kv1Render(cache, [ui EXCEPT !.own = @ + 1, !.d.pc = "edit", !.d.ans = None, !.d.drawn = FALSE])
     ELSE SavedTo(ui.d.path)
  /\ UNCHANGED server

-----------------------------------------------------------------------------
Kv1ServeQuery(k, ok) ==
  /\ cache[k].fetch = "sent"
  /\ ok \/ (Kv1Does("badreads") /\ ui.faults > 0)
  /\ cache' = Answered(cache, k, IF ok THEN Kv1View(k) ELSE Failed)
  /\ ui' = [ui EXCEPT !.faults = IF ok THEN @ ELSE @ - 1]
  /\ UNCHANGED server

Kv1DeliverQuery(k) ==
  /\ cache[k].fetch = "back"
  /\ Kv1Render(Deliver(cache, k), ui)
  /\ UNCHANGED server

Kv1OtherUser(p) ==
  /\ ui.others > 0
  /\ server' \in {Stored(server, p), Erased(server, p)}
  /\ ui' = [ui EXCEPT !.others = @ - 1]
  /\ UNCHANGED cache

Kv1Init ==
  \E sc \in Kv1Scenes :
    /\ server = [seq |-> 1, val |-> sc.secrets]
    /\ cache = Observe([k \in Kv1Keys |-> Blank], {<<"list", "">>})
    /\ ui = [page |-> "kv1", scene |-> sc.name, ops |-> sc.ops, own |-> sc.own, others |-> sc.others,
             faults |-> sc.faults, prefix |-> "", sel |-> None, all |-> FALSE, one |-> FALSE, conf |-> "off",
             leaving |-> None, cut |-> 0, gone |-> [p \in Kv1Paths |-> 0], d |-> NoDrawer]

Kv1DeleteStep == (\E ok \in BOOLEAN : DeleteServe(ok)) \/ DeleteBack \/ Deleted
Kv1SaveStep == (\E ok \in BOOLEAN : PutServe(ok)) \/ PutBack \/ StageWrite \/ StageDrawn \/ StageEnds
Kv1QueryStep(k) == (\E ok \in BOOLEAN : Kv1ServeQuery(k, ok)) \/ Kv1DeliverQuery(k)

OnKv1 == ui.page = "kv1"

Kv1Next ==
  \/ \E pre \in Kv1Prefixes : Kv1Go(pre)
  \/ \E p \in Kv1Paths : Select(p) \/ TypePath(p) \/ Kv1OtherUser(p)
  \/ \E k \in Kv1Keys : Refetch(k) \/ Kv1QueryStep(k)
  \/ RevealAll \/ RevealField \/ AutoMask \/ AskDelete \/ CancelDelete \/ ConfirmDelete
  \/ OpenNew \/ OpenOverwrite \/ CloseWrite \/ PathStill \/ Save
  \/ Kv1DeleteStep \/ Kv1SaveStep

(* Requests are answered or fail; timers and animations run out. *)
Kv1Fairness ==
  /\ WF_consoleVars(OnKv1 /\ Kv1DeleteStep) /\ WF_consoleVars(OnKv1 /\ Kv1SaveStep)
  /\ WF_consoleVars(OnKv1 /\ \E k \in Kv1Keys : Kv1QueryStep(k))

-----------------------------------------------------------------------------

(* The KV v1 page is in one of its states, and every stored value is one that
   some write put there. *)
Kv1TypeOK ==
  OnKv1 =>
    /\ server.val \in [Kv1Paths -> 0..server.seq]
    /\ ui.prefix \in Kv1Prefixes /\ ui.sel \in Kv1Paths \cup {None} /\ ui.d.path \in Kv1Paths \cup {None}
    /\ ui.conf \in {"off", "ask", "sent", "ok", "failed"}
    /\ ui.d.pc \in {"edit", "put", "burn", "write"} /\ ui.d.drawn \in BOOLEAN

(* Once the page has reported a secret deleted it no longer holds a value of it
   from before the deletion, neither cached nor on its way: onDeleted removes
   the query, and with it a fetch that was sent before the DELETE. *)
DeletedNotShown ==
  OnKv1 =>
    \A p \in Kv1Paths :
      LET e == cache[<<"get", p>>] IN
      ui.gone[p] > 0 =>
        /\ e.data = None \/ e.data.val > ui.gone[p]
        /\ e.ans \in {None, Failed} \/ e.ans.val > ui.gone[p]

(* The drawer closes with "overwritten" only after the server stored the new
   value; a PUT that failed brings the form back with the old secret selected. *)
OverwriteHonest ==
  OnKv1 /\ ui.d.open /\ ~ui'.d.open /\ ui.d.pc # "edit" =>
    ui.d.ans \notin {None, Failed} /\ ui.d.ans <= server.seq

(* A save, a delete or a row that leaves the list is under way. *)
Kv1Busy == OnKv1 /\ (ui.d.pc # "edit" \/ ui.conf \in {"sent", "ok", "failed"} \/ ui.leaving # None)

=============================================================================
