------------------------------- MODULE WebKv2 -------------------------------
(***************************************************************************)
(* The KV v2 page of the web console: the list with its filter and its     *)
(* selection, the bulk delete, the secret drawer (values, versions,        *)
(* compare, metadata) and the write modal, over the query cache of         *)
(* WebConsole, next to other users who write the same secrets.             *)
(*                                                                         *)
(* Every request takes three steps: it leaves, the server serves it, the   *)
(* page handles the answer. The scene drawn in Kv2Init says which secrets  *)
(* there are and which parts of the page are used; a scene without the     *)
(* list part takes the rows of the list as given.                          *)
(***************************************************************************)
EXTENDS WebConsole

CONSTANTS
  Kv2Level,     \* [secret paths -> the prefix each is listed under]
  Prefixes,     \* the prefixes, empty ones included, that can be gone to
  Kv2Values,    \* what a version or the custom metadata may hold
  Kv2Scenes     \* [name, secrets, ops, own, others, faults]; own, others and
                \* faults bound the changes made here, those made elsewhere and
                \* the answers that are lost

Kv2Paths == DOMAIN Kv2Level
NoCas == 99     \* the empty CAS field

-----------------------------------------------------------------------------
(* The server. *)

Absent == [cur |-> 0, vers |-> <<>>, cas |-> FALSE, max |-> 0, custom |-> None, rev |-> 0]

Versions(s) == DOMAIN s.vers

WrittenUncounted(s, v) == [s EXCEPT !.vers = Append(@, [val |-> v, st |-> "active"]), !.rev = @ + 1]

(* A write appends a version and evicts the ones max_versions has no room for;
   an evicted version is kept here as a marker. *)
Written(s, v) ==
  [s EXCEPT !.cur = @ + 1, !.rev = @ + 1,
            !.vers = [i \in 1..(s.cur + 1) |->
                        IF i = s.cur + 1 THEN [val |-> v, st |-> "active"]
                        ELSE IF s.max # 0 /\ i <= s.cur + 1 - s.max
                        THEN [val |-> None, st |-> "evicted"]
                        ELSE s.vers[i]]]

(* Soft delete, undelete and destroy of one version: anything that does not
   apply to the version's state succeeds without effect. *)
Moved(s, kind, v) ==
  LET st == IF v \in Versions(s) THEN s.vers[v].st ELSE "evicted" IN
  CASE kind = "soft" /\ st = "active" ->
         [s EXCEPT !.vers[v].st = "deleted", !.rev = @ + 1]
    [] kind = "undelete" /\ st = "deleted" ->
         [s EXCEPT !.vers[v].st = "active", !.rev = @ + 1]
    [] kind = "destroy" /\ st \in {"active", "deleted"} ->
         [s EXCEPT !.vers[v] = [val |-> None, st |-> "destroyed"], !.rev = @ + 1]
    [] OTHER -> s

SavedWhole(s, part, x) ==
  LET m == cache[<<"meta", ui.path>>].data IN
  [s EXCEPT !.max = IF part = "max" THEN x ELSE m.max, !.cas = IF part = "cas" THEN x ELSE m.cas,
            !.custom = IF part = "custom" THEN x ELSE m.custom, !.rev = @ + 1]

(* patchMetadata and putMetadata: only the fields present are changed. *)
Saved(s, part, x) ==
  CASE part = "max" -> [s EXCEPT !.max = x, !.rev = @ + 1]
    [] part = "cas" -> [s EXCEPT !.cas = x, !.rev = @ + 1]
    [] OTHER -> [s EXCEPT !.custom = x, !.rev = @ + 1]

(* A request that fails was either not carried out or its answer was lost. *)
Effects(before, after, ok) == IF ok THEN {after} ELSE {before, after}

(* What the three kinds of query are answered. *)
MetaOf(p) ==
  LET s == server[p] IN
  IF s.cur = 0 THEN Failed
  ELSE [cur |-> s.cur, st |-> [i \in Versions(s) |-> s.vers[i].st], cas |-> s.cas,
        max |-> s.max, custom |-> s.custom, rev |-> s.rev]

ValueOf(p, v) ==
  LET s == server[p]
      n == IF v = 0 THEN s.cur ELSE v
  IN IF n \in Versions(s) /\ s.vers[n].st = "active" THEN [val |-> s.vers[n].val, ver |-> n] ELSE Failed

ListOf(pre) ==
  [rows |-> [p \in {q \in Kv2Paths : Kv2Level[q] = pre /\ server[q].cur > 0} |->
               server[p].rev]]

View(k) ==
  CASE k[1] = "meta" -> MetaOf(k[2])
    [] k[1] = "get" -> ValueOf(k[2], k[3])
    [] OTHER -> ListOf(k[2])

MaxVersion == 3

Kv2Keys ==
  {<<"meta", p>> : p \in Kv2Paths} \cup {<<"list", pre>> : pre \in Prefixes}
    \cup {<<"get", p, v>> : p \in Kv2Paths, v \in 0..MaxVersion}

-----------------------------------------------------------------------------
(* What is on the screen. *)

Meta == IF ui.path = None THEN None ELSE cache[<<"meta", ui.path>>].data

(* versionRows; an evicted version has no row. *)
RowsOf(m) == IF m = None THEN {} ELSE {v \in DOMAIN m.st : m.st[v] # "evicted"}

Current(m) == IF m = None THEN 0 ELSE m.cur
Viewing(u, m) == u.view # 0 /\ u.view # Current(m)
ShownVersion(u, m) == IF u.view = 0 THEN Current(m) ELSE u.view
ShownState(u, m) ==
  IF ShownVersion(u, m) \in RowsOf(m) THEN m.st[ShownVersion(u, m)] ELSE "none"

ValueKey(u, m) == <<"get", u.path, IF Viewing(u, m) THEN u.view ELSE 0>>

(* The compare tab: the picked versions, or the two newest readable ones. *)
Readable(m) == {v \in RowsOf(m) : m.st[v] = "active"}
Newest(S) == CHOOSE v \in S : \A w \in S : w <= v
Compared(u, m) ==
  LET ok == Readable(m)
      b == Newest(ok)
  IN IF Cardinality(ok) < 2 THEN {}
     ELSE IF u.da # u.db /\ {u.da, u.db} \subseteq ok THEN {u.da, u.db}
     ELSE {b, Newest(ok \ {b})}

(* The write modal looks the typed path up once the name has been still for a
   moment. *)
LooksUp(w) == w.open /\ w.path # None /\ w.still

(* The keys with an enabled observer. *)
Watched(c, u) ==
  LET m == IF u.path = None THEN None ELSE c[<<"meta", u.path>>].data IN
  (IF "list" \in u.ops THEN {<<"list", u.prefix>>} ELSE {})
    \cup (IF u.path = None THEN {} ELSE {<<"meta", u.path>>})
    \cup (IF ShownState(u, m) = "active" /\ u.ops \cap {"val", "edit"} # {} THEN {ValueKey(u, m)} ELSE {})
    \cup (IF u.tab = "diff" THEN {<<"get", u.path, v>> : v \in Compared(u, m)} ELSE {})
    \cup (IF LooksUp(u.w) THEN {<<"meta", u.w.path>>} ELSE {})

(* The metadata tab is keyed by what it edits: it is mounted afresh, without
   the drafts, whenever the cached max_versions or custom metadata change. *)
TabKey(c, u) ==
  IF u.tab # "meta" \/ c[<<"meta", u.path>>].data = None THEN None
  ELSE [max |-> c[<<"meta", u.path>>].data.max, custom |-> c[<<"meta", u.path>>].data.custom]

(* A render: observers that appear fetch, and a metadata tab with a new key
   starts from what is stored. K are keys whose observer is mounted anew. *)
RenderFrom(c, u, K) ==
  /\ cache' = Observe(c, K \cup (Watched(c, u) \ Watched(cache, ui)))
  /\ ui' = IF TabKey(c, u) = TabKey(cache, ui) THEN u ELSE [u EXCEPT !.draft = TabKey(c, u)]

Render(c, u) == RenderFrom(c, u, {})

ListEntry == cache[<<"list", ui.prefix>>]
ListReady == ListEntry.data # None /\ ~ListEntry.err
Rows ==
  IF "list" \notin ui.ops THEN {p \in Kv2Paths : server[p].cur > 0}
  ELSE IF ListReady THEN DOMAIN ListEntry.data.rows ELSE {}
Shown == Rows \cap ui.hit

Overlay == ui.w.open \/ ui.bulk.pc # "off" \/ ui.open

Does(op) == op \in ui.ops

-----------------------------------------------------------------------------
(* The list. *)

(* A folder, a crumb, "up" and "jump" all go to a prefix: the selection and
   the filter are dropped. *)
Go(pre) ==
  /\ Does("go") /\ ~Overlay /\ pre # ui.prefix
  /\ Render(cache, [ui EXCEPT !.prefix = pre, !.sel = {}, !.hit = Kv2Paths])
  /\ UNCHANGED server

(* The table and its selection bar; an empty, loading or failed list has none. *)
ListTable == Does("list") /\ ~Overlay /\ Rows # {}

(* The filter and the chips only hide rows; a hidden row stays selected. *)
Filter(h) ==
  /\ Does("filter") /\ ~Overlay /\ h # ui.hit
  /\ Render(cache, [ui EXCEPT !.hit = h])
  /\ UNCHANGED server

Toggle(p) ==
  /\ ListTable /\ p \in Shown
  /\ Render(cache, [ui EXCEPT !.sel = IF p \in @ THEN @ \ {p} ELSE @ \cup {p}])
  /\ UNCHANGED server

ToggleAll ==
  /\ ListTable /\ Shown # {}
  /\ Render(cache, [ui EXCEPT !.sel = IF Shown \subseteq @ THEN @ \ Shown ELSE @ \cup Shown])
  /\ UNCHANGED server

ClearSelection ==
  /\ ListTable /\ ui.sel # {}
  /\ Render(cache, [ui EXCEPT !.sel = {}])
  /\ UNCHANGED server

(* The retry button of a list that failed to load. *)
RetryList ==
  /\ ~Overlay /\ ListEntry.err /\ ListEntry.fetch = "idle"
  /\ Render(FetchNow(cache, <<"list", ui.prefix>>), ui)
  /\ UNCHANGED server

-----------------------------------------------------------------------------
(* The bulk delete: one secret after the other, current version first asked
   for, then soft-deleted. A failure is counted and the loop goes on. *)

NoBulk == [pc |-> "off", todo |-> {}, at |-> None, ver |-> 0, ans |-> None]

AskBulk ==
  /\ Does("bulk") /\ ListTable /\ ui.sel # {}
  /\ Render(cache, [ui EXCEPT !.bulk.pc = "ask"])
  /\ UNCHANGED server

CancelBulk ==
  /\ ui.bulk.pc = "ask"
  /\ Render(cache, [ui EXCEPT !.bulk.pc = "off"])
  /\ UNCHANGED server

ConfirmAll ==
  /\ ui.bulk.pc = "ask"
  /\ Render(cache, [ui EXCEPT !.bulk = [NoBulk EXCEPT !.pc = "loop", !.todo = Shown]])
  /\ UNCHANGED server

ConfirmBulk ==
  /\ ui.bulk.pc = "ask"
  /\ Render(cache, [ui EXCEPT !.bulk = [NoBulk EXCEPT !.pc = "loop", !.todo = ui.sel]])
  /\ UNCHANGED server

BulkNext(p) ==
  /\ ui.bulk.pc = "loop" /\ p \in ui.bulk.todo
  /\ Render(cache, [ui EXCEPT !.bulk.pc = "meta", !.bulk.at = p, !.bulk.todo = @ \ {p}])
  /\ UNCHANGED server

BulkServe(ok) ==
  /\ ui.bulk.pc \in {"meta", "delete"} /\ ui.bulk.ans = None
  /\ ok \/ ui.faults > 0
  /\ IF ui.bulk.pc = "meta"
     THEN /\ Render(cache, [ui EXCEPT !.bulk.ans = IF ok THEN MetaOf(ui.bulk.at) ELSE Failed,
                                      !.faults = IF ok THEN @ ELSE @ - 1])
          /\ UNCHANGED server
     ELSE /\ \E s \in Effects(server[ui.bulk.at], Moved(server[ui.bulk.at], "soft", ui.bulk.ver), ok) :
               server' = [server EXCEPT ![ui.bulk.at] = s]
          /\ Render(cache, [ui EXCEPT !.bulk.ans = IF ok THEN <<"ok">> ELSE Failed,
                                      !.faults = IF ok THEN @ ELSE @ - 1])

BulkStops ==
  /\ ui.bulk.pc \in {"meta", "delete"} /\ ui.bulk.ans # None
  /\ Render(cache, [ui EXCEPT !.bulk.pc = IF ui.bulk.ans = Failed THEN "ask"
                                          ELSE IF @ = "meta" THEN "delete" ELSE "loop",
                              !.bulk.ver = IF ui.bulk.pc = "meta" /\ ui.bulk.ans # Failed
                                           THEN ui.bulk.ans.cur ELSE @,
                              !.bulk.ans = None])
  /\ UNCHANGED server

BulkBack ==
  /\ ui.bulk.pc \in {"meta", "delete"} /\ ui.bulk.ans # None
  /\ IF ui.bulk.pc = "meta" /\ ui.bulk.ans # Failed
     THEN Render(cache, [ui EXCEPT !.bulk.pc = "delete", !.bulk.ver = ui.bulk.ans.cur, !.bulk.ans = None])
     ELSE Render(cache, [ui EXCEPT !.bulk = [NoBulk EXCEPT !.pc = "loop", !.todo = ui.bulk.todo]])
  /\ UNCHANGED server

BulkRefresh ==
  /\ ui.bulk.pc = "loop" /\ ui.bulk.todo = {}
  /\ Render(Invalidate(cache, Kv2Keys, Watched(cache, ui)), [ui EXCEPT !.bulk.pc = "refresh"])
  /\ UNCHANGED server

BulkDone ==
  /\ ui.bulk.pc = "refresh" /\ ~Waiting(cache, Watched(cache, ui))
  /\ Render(cache, [ui EXCEPT !.bulk = NoBulk, !.sel = {}])
  /\ UNCHANGED server

-----------------------------------------------------------------------------
(* The drawer. *)

Acts == {1, 2}

(* Opening mounts a new body, with nothing revealed, on the current version. *)
OpenKeepsReveal(p) ==
  /\ Does("drawer") /\ ~Overlay /\ p \in Shown
  /\ RenderFrom(cache, [ui EXCEPT !.path = p, !.open = TRUE, !.tab = "val", !.view = 0], {<<"meta", p>>})
  /\ UNCHANGED server

OpenDrawer(p) ==
  /\ Does("drawer") /\ ~Overlay /\ p \in Shown
  /\ \E aged \in BOOLEAN :
     LET c == IF aged THEN Aged(cache, Kv2Keys) ELSE cache
         u == [ui EXCEPT !.path = p, !.open = TRUE, !.tab = "val", !.view = 0,
                       !.rev = FALSE, !.da = 0, !.db = 0, !.pend = None, !.busy = 0, !.saving = {},
                       !.acts = [i \in Acts |-> IF @[i] = None THEN None ELSE [@[i] EXCEPT !.mine = FALSE]]]
     IN RenderFrom(c, u, {<<"meta", p>>, ValueKey(u, c[<<"meta", p>>].data)} \cap Watched(c, u))
  /\ UNCHANGED server

(* A closed drawer stays mounted until another one is opened. *)
CloseDrawer ==
  /\ ui.open /\ ui.pend = None /\ ~ui.w.open
  /\ Render(cache, [ui EXCEPT !.open = FALSE])
  /\ UNCHANGED server

InDrawer == ui.open /\ ui.pend = None /\ ~ui.w.open

MetaBroken == InDrawer /\ cache[<<"meta", ui.path>>].err

RetryMeta ==
  /\ MetaBroken
  /\ Render(Invalidate(cache, {<<"meta", ui.path>>}, Watched(cache, ui)), ui)
  /\ UNCHANGED server

(* The tabs are replaced by the retry banner while the metadata failed. *)
InTab(t) == InDrawer /\ ~MetaBroken /\ ui.tab = t /\ Meta # None

SwitchTab(t) ==
  /\ InDrawer /\ Does(t) /\ t # ui.tab
  /\ Render(cache, [ui EXCEPT !.tab = t])
  /\ UNCHANGED server

(* The value tab: values of the version on display are revealed and hidden one
   by one or together, and hidden by the timer. *)
ValueEntry == cache[ValueKey(ui, Meta)]
ValueShown == /\ InTab("val") /\ ShownState(ui, Meta) = "active"
              /\ ~ValueEntry.err /\ ValueEntry.data # None

RetryValue ==
  /\ InTab("val") /\ ShownState(ui, Meta) = "active" /\ ValueEntry.err
  /\ Render(Invalidate(cache, {ValueKey(ui, Meta)}, Watched(cache, ui)), ui)
  /\ UNCHANGED server

Reveal ==
  /\ Does("reveal") /\ ValueShown
  /\ \E r \in BOOLEAN : Render(cache, [ui EXCEPT !.rev = r])
  /\ UNCHANGED server

AutoHide ==
  /\ ui.rev
  /\ Render(cache, [ui EXCEPT !.rev = FALSE])
  /\ UNCHANGED server

BackToCurrent ==
  /\ InTab("val") /\ Viewing(ui, Meta) /\ ShownState(ui, Meta) # "none"
  /\ Render(cache, [ui EXCEPT !.view = 0, !.rev = FALSE])
  /\ UNCHANGED server

(* The versions tab: what each row offers. *)
ReadVersion(v) ==
  /\ InTab("ver") /\ v \in RowsOf(Meta) /\ Meta.st[v] # "destroyed"
  /\ Render(cache, [ui EXCEPT !.view = IF v = Current(Meta) THEN 0 ELSE v, !.rev = FALSE, !.tab = "val"])
  /\ UNCHANGED server

Compare(v) ==
  /\ InTab("ver") /\ Does("diff") /\ v \in Readable(Meta) /\ v # Current(Meta)
  /\ Render(cache, [ui EXCEPT !.da = v, !.db = Current(Meta), !.tab = "diff"])
  /\ UNCHANGED server

PickCompared(v) ==
  /\ InTab("diff") /\ Cardinality(Readable(Meta)) >= 2 /\ v \in Readable(Meta)
  /\ \/ v # ui.da /\ Render(cache, [ui EXCEPT !.da = v])
     \/ v # ui.db /\ Render(cache, [ui EXCEPT !.db = v])
  /\ UNCHANGED server

(* Deleting asks first; destroying asks for the version to be typed. *)
AskVersion(kind, v) ==
  /\ InTab("ver") /\ Does("change") /\ v \in RowsOf(Meta) /\ ui.busy # v
  /\ \/ kind = "soft" /\ Meta.st[v] = "active"
     \/ kind = "destroy" /\ Meta.st[v] # "destroyed"
  /\ Render(cache, [ui EXCEPT !.pend = [kind |-> kind, ver |-> v, busy |-> FALSE]])
  /\ UNCHANGED server

CancelVersion ==
  /\ ui.pend # None /\ ~ui.pend.busy
  /\ Render(cache, [ui EXCEPT !.pend = None])
  /\ UNCHANGED server

(* An asynchronous function that changes the secret p: run for a version,
   saveMeta for a part of the metadata. It outlives the body that started it. *)
Start(i, kind, x) ==
  [ui EXCEPT !.own = @ - 1,
             !.acts[i] = [pc |-> "call", kind |-> kind, arg |-> x, path |-> ui.path, mine |-> TRUE, ans |-> None]]

Free(i) == ui.own > 0 /\ ui.acts[i] = None /\ \A j \in Acts : j < i => ui.acts[j] # None

ConfirmVersion(i) ==
  /\ ui.pend # None /\ ~ui.pend.busy /\ Free(i)
  /\ Render(cache, [Start(i, ui.pend.kind, ui.pend.ver) EXCEPT !.pend.busy = TRUE, !.busy = ui.pend.ver])
  /\ UNCHANGED server

(* The restore button of the versions tab, disabled while its version is busy,
   and the one of the value tab. *)
Undelete(i, v) ==
  /\ Does("change") /\ Free(i) /\ ui.busy # v
  /\ \/ InTab("ver") /\ v \in RowsOf(Meta) /\ Meta.st[v] = "deleted"
     \/ InTab("val") /\ v = ShownVersion(ui, Meta) /\ ShownState(ui, Meta) = "deleted"
  /\ Render(cache, [Start(i, "undelete", v) EXCEPT !.busy = v])
  /\ UNCHANGED server

(* The metadata tab. *)
EditDraft ==
  /\ InTab("meta")
  /\ \/ \E n \in {1} : Does("max") /\ "max" \notin ui.saving /\ Render(cache, [ui EXCEPT !.draft.max = n])
     \/ \E c \in Kv2Values : Does("custom") /\ "custom" \notin ui.saving /\ Render(cache, [ui EXCEPT !.draft.custom = c])
  /\ UNCHANGED server

ResetDraft ==
  /\ InTab("meta") /\ ui.draft # TabKey(cache, ui)
  /\ \/ "max" \notin ui.saving /\ Render(cache, [ui EXCEPT !.draft.max = Meta.max])
     \/ "custom" \notin ui.saving /\ Render(cache, [ui EXCEPT !.draft.custom = Meta.custom])
  /\ UNCHANGED server

SavePart(i, part) ==
  /\ InTab("meta") /\ Free(i) /\ Does(part) /\ part \notin ui.saving
  /\ LET x == CASE part = "max" -> ui.draft.max [] part = "custom" -> ui.draft.custom [] OTHER -> ~Meta.cas
     IN /\ part = "max" => x # Meta.max
        /\ part = "custom" => x # Meta.custom
        /\ Render(cache, [Start(i, part, x) EXCEPT !.saving = @ \cup {part}])
  /\ UNCHANGED server

Parts == {"max", "cas", "custom"}

ActServe(i, ok) ==
  /\ ui.acts[i] # None /\ ui.acts[i].pc = "call" /\ ui.acts[i].ans = None
  /\ ok \/ ui.faults > 0
  /\ LET a == ui.acts[i]
         s == server[a.path]
     IN \E t \in Effects(s, IF a.kind \in Parts THEN Saved(s, a.kind, a.arg) ELSE Moved(s, a.kind, a.arg), ok) :
          /\ server' = [server EXCEPT ![a.path] = t]
          /\ Render(cache, [ui EXCEPT !.acts[i].ans = IF ok THEN t.rev ELSE Failed,
                                      !.faults = IF ok THEN @ ELSE @ - 1])

(* refresh: the values and the metadata of the secret, and every list. *)
RefreshList(p) == {k \in Kv2Keys : k[1] = "list"}
RefreshKeys(p) == {k \in Kv2Keys : k[1] = "list" \/ k[2] = p}

(* The end of run or of saveMeta, which clears what the body that started it
   shows as busy; a failed confirmation leaves its dialog open. *)
Finished(a, ok) ==
  LET idle == [ui EXCEPT !.busy = IF a.kind \in Parts THEN @ ELSE 0, !.saving = @ \ {a.kind}]
  IN IF ~a.mine THEN ui
     ELSE IF a.kind \notin {"soft", "destroy"} THEN idle
     ELSE IF ~ok THEN [idle EXCEPT !.pend.busy = FALSE]
     ELSE [idle EXCEPT !.pend = None,
                       !.rev = @ /\ a.kind # "destroy",
                       !.view = IF a.kind = "destroy" /\ @ = a.arg THEN 0 ELSE @]

ActBack(i) ==
  /\ ui.acts[i] # None /\ ui.acts[i].pc = "call" /\ ui.acts[i].ans # None
  /\ LET a == ui.acts[i] IN
     IF a.ans = Failed
     THEN Render(cache, [Finished(a, FALSE) EXCEPT !.acts[i] = None])
     ELSE Render(Invalidate(cache, RefreshKeys(a.path), Watched(cache, ui)), [ui EXCEPT !.acts[i].pc = "refresh"])
  /\ UNCHANGED server

ActDone(i) ==
  /\ ui.acts[i] # None /\ ui.acts[i].pc = "refresh"
  /\ ~Waiting(cache, RefreshKeys(ui.acts[i].path) \cap Watched(cache, ui))
  /\ LET a == ui.acts[i] IN
     Render(cache, [Finished(a, TRUE) EXCEPT !.acts[i] = None,
                      !.told = [@ EXCEPT ![a.path] = IF a.mine THEN a.ans ELSE @]])
  /\ UNCHANGED server

-----------------------------------------------------------------------------
(* The write modal. The modal has a path once a valid name is typed and a
   value once there is one to write. base is the version whose value it was
   seeded with, touched whether the CAS field was edited since, and wrote how
   many versions were written since the path or the CAS field was. *)

NoWrite ==
  [open |-> FALSE, level |-> None, path |-> None, still |-> FALSE, val |-> None, cas |-> NoCas, dem |-> FALSE,
   pc |-> "edit", ans |-> None, conflict |-> NoCas, base |-> 0, touched |-> FALSE, wrote |-> 0]

OpenWrite ==
  /\ Does("write") /\ ~Overlay
  /\ Render(cache, [ui EXCEPT !.w = [NoWrite EXCEPT !.open = TRUE, !.level = ui.prefix]])
  /\ UNCHANGED server

(* "New version": the path, the cached value of the current version if it is
   the one on display, and the cached current version as the CAS. *)
OpenEdit ==
  /\ Does("edit") /\ InDrawer
  /\ LET v == IF ~Viewing(ui, Meta) /\ ShownState(ui, Meta) = "active" THEN ValueEntry.data ELSE None
     IN Render(cache, [ui EXCEPT !.w =
          [NoWrite EXCEPT !.open = TRUE, !.level = Kv2Level[ui.path], !.path = ui.path,
                          !.val = IF v = None THEN None ELSE v.val,
                          !.base = IF v = None THEN 0 ELSE v.ver,
                          !.cas = IF Current(Meta) = 0 THEN NoCas ELSE Current(Meta)]])
  /\ UNCHANGED server

Editing == ui.w.open /\ ui.w.pc = "edit"

CancelWrite ==
  /\ Editing
  /\ Render(cache, [ui EXCEPT !.w = NoWrite])
  /\ UNCHANGED server

TypeName(p) ==
  /\ Does("write") /\ Editing /\ Kv2Level[p] = ui.w.level /\ p # ui.w.path
  /\ Render(cache, [ui EXCEPT !.w.path = p, !.w.still = FALSE, !.w.wrote = 0])
  /\ UNCHANGED server

NameStill ==
  /\ ui.w.open /\ ui.w.path # None /\ ~ui.w.still
  /\ Render(cache, [ui EXCEPT !.w.still = TRUE])
  /\ UNCHANGED server

TypeValue(v) ==
  /\ Editing /\ v # ui.w.val
  /\ Render(cache, [ui EXCEPT !.w.val = v])
  /\ UNCHANGED server

(* The CAS field is typed, or filled by a link with the looked up version, with
   the version of the conflict or with nothing. *)
SetCas(n) ==
  /\ Editing /\ n # ui.w.cas
  /\ \/ n = 0
     \/ LooksUp(ui.w) /\ n = Current(cache[<<"meta", ui.w.path>>].data)
     \/ ui.w.conflict # NoCas /\ n \in {ui.w.conflict, NoCas}
  /\ Render(cache, [ui EXCEPT !.w.cas = n, !.w.conflict = NoCas, !.w.touched = TRUE, !.w.wrote = 0])
  /\ UNCHANGED server

Submit ==
  /\ Editing /\ ui.own > 0 /\ ui.w.path # None /\ ui.w.val # None
  /\ ~(ui.w.dem /\ ui.w.cas = NoCas)
  /\ Render(cache, [ui EXCEPT !.own = @ - 1, !.w.pc = "call", !.w.conflict = NoCas])
  /\ UNCHANGED server

(* The cas parameter as writeSecret sends it; a CAS of 0 is sent, too. *)
CasParamTruthy(c) == IF c = 0 THEN NoCas ELSE c
CasParam(c) == c

WriteServe(ok) ==
  /\ ui.w.pc = "call" /\ ui.w.ans = None
  /\ ok \/ ui.faults > 0
  /\ LET w == ui.w
         s == server[w.path]
         c == CasParam(w.cas)
     IN IF c # NoCas /\ c # s.cur
        THEN Render(cache, [ui EXCEPT !.w.ans = <<"409">>]) /\ UNCHANGED server
        ELSE IF c = NoCas /\ s.cas
        THEN Render(cache, [ui EXCEPT !.w.ans = <<"400">>]) /\ UNCHANGED server
        ELSE \E t \in Effects(s, Written(s, w.val), ok) :
               /\ server' = [server EXCEPT ![w.path] = t]
               /\ Render(cache, [ui EXCEPT !.w.ans = IF ok THEN <<"ok">> ELSE Failed,
                                           !.w.wrote = IF t = s THEN @ ELSE @ + 1,
                                           !.faults = IF ok THEN @ ELSE @ - 1])

WriteKeys(p) == {k \in Kv2Keys : k[1] = "list" \/ k[2] = p}

(* A conflict asks for the current version before it is reported. *)
WriteBack ==
  /\ ui.w.pc = "call" /\ ui.w.ans # None
  /\ LET w == ui.w
         key == <<"meta", w.path>>
     IN CASE w.ans = Failed ->
               Render(cache, [ui EXCEPT !.w.pc = "edit", !.w.ans = None])
          [] w.ans = <<"ok">> ->
               Render(Invalidate(cache, WriteKeys(w.path), Watched(cache, ui)),
                      [ui EXCEPT !.w.pc = "refresh", !.w.ans = None])
          [] w.ans = <<"409">> ->
               Render(FetchNow(cache, key), [ui EXCEPT !.w.pc = "actual", !.w.ans = None])
          [] w.ans = <<"400">> ->
               Render(cache, [ui EXCEPT !.w.pc = "edit", !.w.ans = None, !.w.dem = TRUE])
  /\ UNCHANGED server

ConflictKnown ==
  /\ ui.w.pc = "actual" /\ ~Waiting(cache, {<<"meta", ui.w.path>>})
  /\ LET e == cache[<<"meta", ui.w.path>>] IN
     Render(cache, [ui EXCEPT !.w.pc = "edit", !.w.conflict = IF e.err THEN 0 ELSE e.data.cur])
  /\ UNCHANGED server

WriteDone ==
  /\ ui.w.pc = "refresh" /\ ~Waiting(cache, WriteKeys(ui.w.path) \cap Watched(cache, ui))
  /\ Render(cache, [ui EXCEPT !.w = NoWrite])
  /\ UNCHANGED server

-----------------------------------------------------------------------------
(* The queries and the other users. *)

ServeQuery(k, ok) ==
  /\ cache[k].fetch = "sent"
  /\ ok \/ ui.faults > 0
  /\ cache' = Answered(cache, k, IF ok THEN View(k) ELSE Failed)
  /\ ui' = [ui EXCEPT !.faults = IF ok THEN @ ELSE @ - 1]
  /\ UNCHANGED server

DeliverQuery(k) ==
  /\ cache[k].fetch = "back"
  /\ Render(Deliver(cache, k), ui)
  /\ UNCHANGED server

OtherUser(p) ==
  /\ ui.others > 0 /\ server[p].cur \in 1..(MaxVersion - 1)
  /\ \E v \in Kv2Values :
       server' = [server EXCEPT ![p] = Written(@, v)]
  /\ ui' = [ui EXCEPT !.others = @ - 1]
  /\ UNCHANGED cache

-----------------------------------------------------------------------------
Kv2Init ==
  \E sc \in Kv2Scenes :
    /\ server = sc.secrets
    /\ ui = [page |-> "kv2", scene |-> sc.name, ops |-> sc.ops, own |-> sc.own, others |-> sc.others,
             faults |-> sc.faults, prefix |-> "", hit |-> Kv2Paths, sel |-> {},
             path |-> None, open |-> FALSE, tab |-> "val", view |-> 0, rev |-> FALSE, da |-> 0, db |-> 0,
             pend |-> None, busy |-> 0, saving |-> {}, draft |-> None, acts |-> [i \in Acts |-> None],
             bulk |-> NoBulk,
             w |-> NoWrite, told |-> [p \in Kv2Paths |-> 0]]
    /\ cache = Observe([k \in Kv2Keys |-> Blank], IF "list" \in sc.ops THEN {<<"list", "">>} ELSE {})

Kv2Page ==
  \/ \E pre \in Prefixes : Go(pre)
  \/ \E h \in {Kv2Paths, {CHOOSE p \in Kv2Paths : TRUE}} : Filter(h)
  \/ \E p \in Kv2Paths : Toggle(p) \/ OpenDrawer(p) \/ TypeName(p) \/ OtherUser(p)
  \/ ToggleAll \/ ClearSelection \/ RetryList \/ AskBulk \/ CancelBulk \/ ConfirmBulk
  \/ CloseDrawer \/ RetryMeta \/ RetryValue \/ Reveal \/ BackToCurrent
  \/ \E t \in {"val", "ver", "diff", "meta"} : SwitchTab(t)
  \/ \E v \in 1..MaxVersion : ReadVersion(v) \/ Compare(v) \/ PickCompared(v)
  \/ \E v \in 1..MaxVersion, kind \in {"soft", "destroy"} : AskVersion(kind, v)
  \/ \E i \in Acts : ConfirmVersion(i) \/ (\E v \in 1..MaxVersion : Undelete(i, v))
  \/ \E i \in Acts, part \in Parts : SavePart(i, part)
  \/ CancelVersion \/ EditDraft \/ ResetDraft
  \/ OpenWrite \/ OpenEdit \/ CancelWrite \/ NameStill \/ Submit
  \/ \E v \in Kv2Values : TypeValue(v)
  \/ \E n \in 0..MaxVersion \cup {NoCas} : SetCas(n)

BulkStep ==
  \/ \E p \in Kv2Paths : BulkNext(p)
  \/ \E ok \in BOOLEAN : BulkServe(ok)
  \/ BulkBack \/ BulkRefresh \/ BulkDone

ActStep(i) == (\E ok \in BOOLEAN : ActServe(i, ok)) \/ ActBack(i) \/ ActDone(i)

WriteStep == (\E ok \in BOOLEAN : WriteServe(ok)) \/ WriteBack \/ ConflictKnown \/ WriteDone

QueryStep(k) == (\E ok \in BOOLEAN : ServeQuery(k, ok)) \/ DeliverQuery(k)

OnKv2 == ui.page = "kv2"

Kv2Next ==
  \/ Kv2Page \/ BulkStep \/ WriteStep \/ AutoHide
  \/ \E i \in Acts : ActStep(i)
  \/ \E k \in Kv2Keys : QueryStep(k)

(* Requests are answered or fail, and the functions waiting for them go on: the
   page has no timer that keeps it fetching, so it is enough that something
   under way goes on. *)
Kv2Fairness ==
  WF_consoleVars(OnKv2 /\ (BulkStep \/ WriteStep \/ (\E i \in Acts : ActStep(i)) \/ \E k \in Kv2Keys : QueryStep(k)))

-----------------------------------------------------------------------------

(* The KV v2 page is in one of its states, and the versions of a secret are
   numbered without gaps. *)
Kv2TypeOK ==
  OnKv2 =>
    /\ DOMAIN server = Kv2Paths
    /\ \A p \in Kv2Paths : server[p].cur \in 0..MaxVersion /\ Versions(server[p]) = 1..server[p].cur
    /\ DOMAIN cache = Kv2Keys
    /\ \A k \in Kv2Keys : cache[k].fetch \in {"idle", "sent", "back"}
    /\ ui.prefix \in Prefixes /\ ui.sel \subseteq Kv2Paths /\ ui.hit \subseteq Kv2Paths
    /\ ui.path \in Kv2Paths \cup {None} /\ ui.tab \in {"val", "ver", "diff", "meta"}
    /\ {ui.view, ui.da, ui.db, ui.busy} \subseteq 0..MaxVersion
    /\ ui.saving \subseteq Parts
    /\ ui.bulk.pc \in {"off", "ask", "loop", "meta", "delete", "refresh"}
    /\ ui.w.pc \in {"edit", "call", "refresh", "actual"}

(* Once the drawer reports that a version was deleted, restored or destroyed or
   that the metadata was saved, what it and the list show includes the change,
   even if an older answer was on its way when the change was made: refresh
   throws that fetch away. A failed fetch is shown as such instead. *)
OwnChangeShown ==
  OnKv2 =>
    \A p \in Kv2Paths :
      /\ LET e == cache[<<"meta", p>>] IN
         ui.path = p /\ e.data # None /\ ~e.err /\ e.fetch = "idle" => e.data.rev >= ui.told[p]
      /\ LET e == cache[<<"list", Kv2Level[p]>>] IN
         ui.prefix = Kv2Level[p] /\ e.data # None /\ ~e.err /\ e.fetch = "idle" /\ p \in DOMAIN e.data.rows
           => e.data.rows[p] >= ui.told[p]

(* What was revealed of one secret or version is masked before another secret
   or version comes on display by a click: opening a drawer, reading a version
   and going back to the current one all hide the values. *)
RevealEndsWithView ==
  OnKv2 /\ (ui'.path # ui.path \/ ui'.view # ui.view \/ (ui'.open /\ ~ui.open)) => ~ui'.rev

(* The bulk delete changes no secret but the ones selected when it was
   confirmed, however long the loop runs and whatever fails. *)
BulkSelectedOnly ==
  OnKv2 /\ ui.bulk.pc \notin {"off", "ask"} /\ ui'.others = ui.others =>
    \A p \in Kv2Paths : server'[p] # server[p] => p \in ui.sel

(* A confirmed bulk delete is not stopped by a secret that fails: it ends only
   when every selected secret was tried, with the dialog closed and nothing
   selected. *)
BulkConcludes ==
  OnKv2 /\ ui.bulk.pc \notin {"off", "ask"} /\ ui'.bulk.pc \in {"off", "ask"} =>
    ui.bulk.todo = {} /\ ui'.bulk.pc = "off" /\ ui'.sel = {}

(* While the path and the CAS field of the write modal stay as they are, one
   version at most is written, also when an answer was lost and the user saved
   again: the CAS, 0 included, makes the retry safe. *)
CasMakesRetrySafe ==
  OnKv2 /\ ui.w.open /\ ui.w.cas # NoCas => ui.w.wrote <= 1

(* Saving one part of the metadata never changes another part on the server,
   also when two saves are in flight or somebody else changed the secret. *)
SavesKeepOtherParts ==
  OnKv2 /\ (\E i \in Acts : ui.acts[i] # None /\ ui.acts[i].kind \in Parts
              /\ ui.acts[i].ans = None /\ ui'.acts[i] # None /\ ui'.acts[i].ans # None
              /\ \E p \in Kv2Paths :
                   Cardinality({f \in Parts : server'[p][f] # server[p][f]}) > 1
                   \/ \E f \in Parts \ {ui.acts[i].kind} : server'[p][f] # server[p][f])
    => FALSE

(* The controls that show a spinner. *)
Kv2Busy ==
  OnKv2 /\ (ui.busy # 0 \/ ui.saving # {} \/ ui.w.pc # "edit" \/ ui.bulk.pc \notin {"off", "ask"})

(* A save accepted on the CAS the editor was opened with replaces the version
   whose value the editor was opened with. *)
SeededCasGuardsEdit ==
  [][OnKv2 /\ ui.w.pc = "call" /\ ui'.w.wrote > ui.w.wrote /\ ~ui.w.touched /\ ui.w.base # 0 =>
       server[ui.w.path].cur = ui.w.base]_consoleVars

=============================================================================
