---------------------------- MODULE WebNamespaces ----------------------------
(***************************************************************************)
(* The namespaces page of the web console: the enclosures as cards, as a   *)
(* list or grouped by the segments of their names, the dialogs that create *)
(* one, edit its metadata and delete it, and the switch of the context in  *)
(* which the console works.                                                *)
(*                                                                         *)
(* A name is the sequence of its segments. The grouping is for the eye: on *)
(* the server every name is one flat namespace with data of its own.       *)
(***************************************************************************)
EXTENDS WebConsole
LOCAL INSTANCE SequencesExt
LOCAL INSTANCE FiniteSetsExt

CONSTANTS
  NsNames,      \* names of namespaces, as sequences of segments
  NsTexts,      \* what is written into the metadata
  MaxSegments,  \* MAX_NAME_SEGMENTS
  NsScenes      \* [name, spaces, context, ops, own, others, faults]

ASSUME NamespacesConstants == "" \notin NsTexts /\ MaxSegments \in Nat \ {0}

Root == <<>>
NsList == "details"
NsControls == {"create", "edit", "delete"}
NsFields == {"owner", "description"}
NoMeta == [f \in NsFields |-> ""]
NsDoes(op) == op \in ui.ops

nameErrorKind(n) ==
  IF Len(n) > MaxSegments THEN "segments" ELSE IF "root" \in {n[i] : i \in DOMAIN n} THEN "root" ELSE ""

-----------------------------------------------------------------------------
(* The server: the record of each namespace and the keys of their data. In a
   key the segments of a name are joined by "~", which no segment contains. *)

Joined(n, sep) == [i \in 1 .. 2 * Len(n) - 1 |-> IF i % 2 = 1 THEN n[(i + 1) \div 2] ELSE sep]
StoragePrefixPlain(n) == <<"ns/">> \o Joined(n, "/") \o <<"/">>
StoragePrefix(n) == <<"ns/">> \o Joined(n, "~") \o <<"/">>
DataKey(n) == StoragePrefix(n) \o <<"s">>
Below(n) == {k \in server.keys : IsPrefix(StoragePrefix(n), k)}

Exists(n) == server.ns[n] # None
CreateNsEffect(n, m) ==
  IF Exists(n) \/ nameErrorKind(n) # "" THEN {}
  ELSE {[server EXCEPT !.ns[n] = [meta |-> m, ver |-> server.index + 1], !.index = @ + 1]}
EditNsEffect(n, m) ==
  IF ~Exists(n) THEN {} ELSE {[server EXCEPT !.ns[n] = [meta |-> m, ver |-> server.index + 1], !.index = @ + 1]}
DropRecord(n) == [server EXCEPT !.ns[n] = None, !.index = @ + 1]
DeleteNsEffect(n) == [DropRecord(n) EXCEPT !.keys = @ \ Below(n)]

-----------------------------------------------------------------------------
(* The grouping tree, as the keys of its nodes; a node whose key is a listed
   name is that namespace and the others are mere groups. *)

buildTreeFlat(L) == L \cup {SubSeq(n, 1, 1) : n \in L}
buildTree(L) == UNION {{SubSeq(n, 1, i) : i \in 1 .. Len(n)} : n \in L}
children(T, k) == {c \in T : Len(c) = Len(k) + 1 /\ IsPrefix(k, c)}

RECURSIVE countReal(_, _, _)
countReal(L, T, k) ==
  (IF k \in L THEN 1 ELSE 0) + MapThenSumSet(LAMBDA c : countReal(L, T, c), children(T, k))

RECURSIVE renderBelow(_, _, _)
renderBelow(T, closed, k) ==
  {k} \cup IF k \in closed THEN {} ELSE UNION {renderBelow(T, closed, c) : c \in children(T, k)}
renderTreeRows(T, closed) == UNION {renderBelow(T, closed, k) : k \in children(T, <<>>)}

-----------------------------------------------------------------------------
(* The page. *)

NsItems(c) == IF c[NsList].data = None THEN {} ELSE {n \in NsNames : c[NsList].data.ns[n] # None}
NsShows(c) == c[NsList].data # None /\ ~c[NsList].err
NsMeta(c, n) == c[NsList].data.ns[n].meta
NsMatches(c, n, q) == q = "" \/ q \in {n[i] : i \in DOMAIN n} \/ \E f \in NsFields : NsMeta(c, n)[f] = q
NsListed(c, u) == {n \in NsItems(c) : NsMatches(c, n, u.q)}
NsRows(c, u) ==
  IF ~NsShows(c) THEN {}
  ELSE IF u.view = "tree" THEN NsListed(c, u) \cap renderTreeRows(buildTree(NsListed(c, u)), u.collapsed)
  ELSE NsListed(c, u)
NsUncoveredCreate == ui.editing = Root /\ ui.toDelete = Root
NsUncovered == ~ui.creating /\ ui.editing = Root /\ ui.toDelete = Root

(* An effect of the page looks the new namespace up among the rows when it is
   set and when the list changes, and starts the timer of its highlight. *)
NsShow(c, u) ==
  LET renewed == u.fresh # ui.fresh \/ u.q # ui.q \/ c[NsList].data # cache[NsList].data IN
  /\ cache' = c
  /\ ui' = [u EXCEPT !.glow = IF renewed THEN u.fresh \in NsRows(c, u) ELSE @]
  /\ UNCHANGED server

NsRefetch(c) == Invalidate(c, {NsList}, {NsList})

NsFilter(q) ==
  /\ NsDoes("filter") /\ NsUncovered /\ NsShows(cache) /\ NsItems(cache) # {} /\ q # ui.q /\ ui.own > 0
  /\ NsShow(cache, [ui EXCEPT !.q = q, !.own = @ - 1])

ChangeView(v) ==
  /\ NsDoes("view") /\ NsUncovered /\ NsShows(cache) /\ NsItems(cache) # {} /\ v # ui.view /\ ui.own > 0
  /\ NsShow(cache, [ui EXCEPT !.view = v, !.own = @ - 1])

ToggleGroup(k) ==
  LET T == buildTree(NsListed(cache, ui)) IN
  /\ NsUncovered /\ NsShows(cache) /\ ui.view = "tree" /\ ui.own > 0
  /\ k \in renderTreeRows(T, ui.collapsed) /\ children(T, k) # {}
  /\ NsShow(cache, [ui EXCEPT !.collapsed = IF k \in @ THEN @ \ {k} ELSE @ \cup {k}, !.own = @ - 1])

NsRetry ==
  /\ cache[NsList].err /\ cache[NsList].fetch = "idle" /\ NsUncovered /\ ui.own > 0
  /\ NsShow(FetchNow(cache, NsList), [ui EXCEPT !.own = @ - 1])

-----------------------------------------------------------------------------
(* The form of the metadata is one, shared by the dialogs that create and
   edit. touched and base remember the fields that were typed into since the
   dialog opened, and the record it opened on. *)

ResetMeta(u, m) == [u EXCEPT !.meta = m, !.touched = {}]

OpenNsCreateKeeps ==
  /\ NsDoes("create") /\ NsUncovered /\ ui.own > 0
  /\ NsShow(cache, [ui EXCEPT !.name = Root, !.creating = TRUE, !.own = @ - 1, !.touched = {}])

OpenNsCreate ==
  /\ NsDoes("create") /\ NsUncovered /\ ui.own > 0
  /\ NsShow(cache, [ResetMeta(ui, NoMeta) EXCEPT !.name = Root, !.creating = TRUE, !.own = @ - 1])

TypeName(n) ==
  /\ ui.creating /\ n # ui.name /\ ui.own > 0
  /\ NsShow(cache, [ui EXCEPT !.name = n, !.own = @ - 1])

TypeMeta(f, v) ==
  /\ ui.creating \/ ui.editing # Root
  /\ NsDoes("meta") /\ ui.meta[f] # v /\ ui.own > 0
  /\ NsShow(cache, [ui EXCEPT !.meta[f] = v, !.touched = @ \cup {f}, !.own = @ - 1])

CancelCreate ==
  /\ ui.creating /\ ui.op["create"] = "idle"
  /\ NsShow(cache, [ui EXCEPT !.creating = FALSE])

SubmitCreate ==
  /\ ui.creating /\ ui.name # Root /\ nameErrorKind(ui.name) = "" /\ ui.name \notin NsItems(cache)
  /\ ui.op["create"] = "idle"
  /\ NsShow(cache, [Push(ui, "create") EXCEPT !.put = [ns |-> ui.name, meta |-> ui.meta, kept |-> NsFields \ ui.touched]])

(* The callback runs with the name of the latest render. *)
CreateNsBack ==
  /\ Returned("create")
  /\ IF ui.op["create"] = "failed" THEN NsShow(cache, Settle(ui, "create"))
     ELSE NsShow(NsRefetch(cache),
                 [Await(ui, "create", NsList) EXCEPT !.creating = FALSE, !.name = Root, !.q = "", !.fresh = ui.name])

NsRead(c) == ui.op[c] = "wait" /\ ~Waiting(cache, {NsList})
CreateNsDone == NsRead("create") /\ NsShow(cache, Settle(ui, "create"))

FreshFades ==
  /\ ui.glow
  /\ NsShow(cache, [ui EXCEPT !.fresh = Root])

OpenEdit(n) ==
  /\ NsDoes("edit") /\ NsUncovered /\ n \in NsRows(cache, ui) /\ ui.own > 0
  /\ NsShow(cache, [ResetMeta(ui, NsMeta(cache, n)) EXCEPT !.editing = n, !.base = cache[NsList].data.ns[n], !.own = @ - 1])

CancelEdit ==
  /\ ui.editing # Root /\ ui.op["edit"] = "idle"
  /\ NsShow(cache, [ui EXCEPT !.editing = Root])

SubmitEdit ==
  /\ ui.editing # Root /\ ui.op["edit"] = "idle" /\ ui.own > 0
  /\ NsShow(cache, [Push(ui, "edit") EXCEPT !.put = [ns |-> ui.editing, meta |-> ui.meta, kept |-> NsFields \ ui.touched],
                                           !.own = @ - 1])

EditNsBack ==
  /\ Returned("edit")
  /\ IF ui.op["edit"] = "failed" THEN NsShow(cache, Settle(ui, "edit"))
     ELSE NsShow(NsRefetch(cache), [Await(ui, "edit", NsList) EXCEPT !.editing = Root])

EditNsDone == NsRead("edit") /\ NsShow(cache, Settle(ui, "edit"))

-----------------------------------------------------------------------------
(* Deleting and switching. Both end in a reload when the context changes. *)

AskDelete(n) ==
  /\ NsDoes("delete") /\ NsUncovered /\ n \in NsRows(cache, ui) /\ ui.own > 0
  /\ NsShow(cache, [ui EXCEPT !.toDelete = n, !.own = @ - 1])

CancelDelete ==
  /\ ui.toDelete # Root /\ ui.op["delete"] = "idle"
  /\ NsShow(cache, [ui EXCEPT !.toDelete = Root])

ConfirmDelete ==
  /\ ui.toDelete # Root /\ ui.op["delete"] = "idle" /\ ui.own > 0
  /\ NsShow(cache, [Push(ui, "delete") EXCEPT !.dying = ui.toDelete, !.own = @ - 1])

(* The record goes first and then the data; a failure between the two is
   answered as a failure. *)
NsDeleteServe ==
  /\ ui.op["delete"] = "sent"
  /\ \/ server' = DeleteNsEffect(ui.toDelete) /\ ui' = [ui EXCEPT !.op["delete"] = "ok"]
     \/ /\ ui.faults > 0
        /\ server' \in {server, DropRecord(ui.toDelete), DeleteNsEffect(ui.toDelete)}
        /\ ui' = [ui EXCEPT !.op["delete"] = "failed", !.faults = @ - 1, !.torn = TRUE]
  /\ UNCHANGED cache

NsPage(sc, context, view) ==
  [page |-> "namespaces", scene |-> sc.name, ops |-> sc.ops, own |-> sc.own, others |-> sc.others, faults |-> sc.faults,
   torn |-> FALSE, context |-> context, op |-> [c \in NsControls |-> "idle"], at |-> [c \in NsControls |-> 0],
   q |-> "", view |-> view, collapsed |-> {}, creating |-> FALSE, name |-> Root, meta |-> NoMeta, touched |-> {}, base |-> None,
   editing |-> Root, put |-> None, toDelete |-> Root, dying |-> Root, fresh |-> Root, glow |-> FALSE]
NsCold == Observe([k \in {NsList} |-> Blank], {NsList})

(* window.location.reload: all that stays is what local storage keeps. *)
Reload(context) ==
  /\ cache' = NsCold
  /\ ui' = [NsPage([name |-> ui.scene, ops |-> ui.ops, own |-> ui.own, others |-> ui.others, faults |-> ui.faults],
                   context, ui.view) EXCEPT !.torn = ui.torn]
  /\ UNCHANGED server

DeleteNsFailed ==
  ui.op["delete"] = "failed" /\ NsShow(cache, [Settle(ui, "delete") EXCEPT !.dying = Root])

DeleteNsBackStays ==
  \/ DeleteNsFailed
  \/ ui.op["delete"] = "ok" /\ NsShow(NsRefetch(cache), Await(ui, "delete", NsList))

DeleteNsBackUnread ==
  \/ DeleteNsFailed
  \/ ui.op["delete"] = "ok" /\ IF ui.toDelete = ui.context THEN Reload(Root)
                               ELSE NsShow(cache, Await(ui, "delete", NsList))

DeleteNsBack ==
  \/ DeleteNsFailed
  \/ ui.op["delete"] = "ok" /\ IF ui.toDelete = ui.context THEN Reload(Root)
                               ELSE NsShow(NsRefetch(cache), Await(ui, "delete", NsList))

DeleteNsDone ==
  /\ NsRead("delete")
  /\ NsShow(cache, [Settle(ui, "delete") EXCEPT !.dying = Root, !.toDelete = Root])

SwitchTo(n) ==
  /\ NsDoes("switch") /\ NsUncovered /\ n # ui.context /\ ui.own > 0
  /\ n = Root \/ n \in NsRows(cache, ui)
  /\ cache' = NsCold /\ UNCHANGED server
  /\ ui' = [NsPage([name |-> ui.scene, ops |-> ui.ops, own |-> ui.own - 1, others |-> ui.others, faults |-> ui.faults],
                   n, ui.view) EXCEPT !.torn = ui.torn]

-----------------------------------------------------------------------------
(* Another operator creates, edits or deletes a namespace, or a secret is
   written in one. *)
NsOther ==
  /\ ui.others > 0
  /\ \E n \in NsNames :
       \/ Exists(n) /\ server' = [server EXCEPT !.keys = @ \cup {DataKey(n)}]
       \/ Exists(n) /\ server' = [DeleteNsEffect(n) EXCEPT !.theirs = TRUE]
       \/ server' \in {[s EXCEPT !.theirs = TRUE] : s \in
            CreateNsEffect(n, NoMeta) \cup UNION {EditNsEffect(n, [NoMeta EXCEPT !.owner = v]) : v \in NsTexts}}
  /\ ui' = [ui EXCEPT !.others = @ - 1]
  /\ UNCHANGED cache

NsAnswer == [ns |-> server.ns, index |-> server.index]
NsDeliver == cache[NsList].fetch = "back" /\ NsShow(Deliver(cache, NsList), ui)

NsInit ==
  \E sc \in NsScenes : \E S \in sc.spaces :
    /\ server = [ns |-> [n \in NsNames |-> IF n \in S THEN [meta |-> NoMeta, ver |-> 1] ELSE None],
                 keys |-> {DataKey(n) : n \in S}, theirs |-> FALSE, index |-> 1]
    /\ cache = NsCold
    /\ ui = NsPage(sc, sc.context, "cards")

OnNamespaces == ui.page = "namespaces"

NsServe ==
  \/ NsDeleteServe
  \/ ui.put # None /\ (OpServe("create", CreateNsEffect(ui.put.ns, ui.put.meta))
                       \/ OpServe("edit", EditNsEffect(ui.put.ns, ui.put.meta)))
NsBack == CreateNsBack \/ CreateNsDone \/ EditNsBack \/ EditNsDone \/ DeleteNsBack \/ DeleteNsDone
NsQuery == QueryServe(NsList, NsAnswer) \/ NsDeliver

NsNext ==
  \/ \E q \in {""} \cup NsTexts : NsFilter(q)
  \/ \E v \in {"cards", "list", "tree"} : ChangeView(v)
  \/ \E n \in NsNames : ToggleGroup(n) \/ TypeName(n) \/ OpenEdit(n) \/ AskDelete(n) \/ SwitchTo(n)
  \/ \E f \in NsFields, v \in NsTexts : TypeMeta(f, v)
  \/ NsRetry \/ OpenNsCreate \/ CancelCreate \/ SubmitCreate \/ CancelEdit \/ SubmitEdit \/ CancelDelete \/ ConfirmDelete
  \/ SwitchTo(Root) \/ FreshFades \/ NsOther \/ NsServe \/ NsBack \/ NsQuery

NsFairness ==
  /\ WF_consoleVars(OnNamespaces /\ NsServe) /\ WF_consoleVars(OnNamespaces /\ NsBack)
  /\ WF_consoleVars(OnNamespaces /\ FreshFades) /\ WF_consoleVars(OnNamespaces /\ NsQuery)

-----------------------------------------------------------------------------
(* The namespaces page is in one of its states, and no two dialogs are open. *)
NsTypeOK ==
  OnNamespaces =>
    /\ ui.op \in [NsControls -> OpStates]
    /\ {ui.editing, ui.toDelete, ui.dying, ui.fresh, ui.name, ui.context} \subseteq NsNames \cup {Root}
    /\ Cardinality({d \in {"create", "edit", "delete"} :
                      (d = "create" /\ ui.creating) \/ (d = "edit" /\ ui.editing # Root) \/ (d = "delete" /\ ui.toDelete # Root)}) <= 1
    /\ \A n \in NsNames : Exists(n) => nameErrorKind(n) = ""

(* The grouped view loses no namespace: a listed one is a row of its own unless
   a group above it is collapsed, and a group counts the listed ones below it. *)
TreeShowsAll ==
  OnNamespaces /\ NsShows(cache) /\ ui.view = "tree" =>
    LET L == NsListed(cache, ui) T == buildTree(L) IN
    /\ NsRows(cache, ui) = {n \in L : \A k \in ui.collapsed : ~IsStrictPrefix(k, n)}
    /\ \A k \in T : countReal(L, T, k) = Cardinality({n \in L : IsPrefix(k, n)})

(* A namespace reported as deleted has left none of its data behind, and took
   that of no other namespace with it, one whose name it begins included. *)
DeleteIsExact ==
  [][OnNamespaces /\ ui.op["delete"] = "sent" /\ ui'.op["delete"] = "ok" =>
       /\ server'.keys = server.keys \ {DataKey(ui.toDelete)}
       /\ \A n \in NsNames \ {ui.toDelete} : server'.ns[n] = server.ns[n]]_consoleVars

(* The console works in a context that exists, unless another operator deleted
   it or the answer to a deletion was lost. *)
ContextLives ==
  OnNamespaces /\ ui.op["delete"] = "idle" /\ ~server.theirs /\ ~ui.torn => ui.context = Root \/ Exists(ui.context)

(* The spinner of a change, and the fading of a deleted row, end when the list
   shows the change or cannot be read. *)
NsChangeShown ==
  OnNamespaces => \A c \in NsControls :
    ui.op[c] = "wait" /\ ui'.op[c] = "idle" => ChangeShown(c, NsList)

(* A field of the metadata that was not touched since the dialog opened is saved
   as it was: blank for a new namespace, and for an edited one as it is on the
   server, when the edit began from what is there. *)
MetaAsTyped ==
  OnNamespaces =>
    /\ ui.op["create"] = "sent" /\ ui'.op["create"] = "ok" =>
         \A f \in ui.put.kept : server'.ns[ui.put.ns].meta[f] = ""
    /\ ui.op["edit"] = "sent" /\ ui'.op["edit"] = "ok" /\ server.ns[ui.put.ns] = ui.base =>
         \A f \in ui.put.kept : server'.ns[ui.put.ns].meta[f] = server.ns[ui.put.ns].meta[f]

NsBusy == OnNamespaces /\ (Busy(NsControls) \/ ui.glow)

=============================================================================
