-------------------------------- MODULE WebK8s --------------------------------
(***************************************************************************)
(* The Kubernetes panel of the auth-methods page. Kubernetes roles cannot  *)
(* be listed: the panel looks a role up by cluster, namespace and service  *)
(* account, here one key, and keeps a table of the roles it has met since  *)
(* it was opened, which it edits and deletes. The table is the page's own  *)
(* state and no query refreshes it.                                        *)
(***************************************************************************)
EXTENDS WebConsole
LOCAL INSTANCE SequencesExt

CONSTANTS
  K8Keys,    \* cluster, namespace and service account
  K8Bodies,  \* contents of a role
  K8Scenes   \* [name, roles, ops, own, others, faults]

ASSUME K8sConstants == "" \notin K8Keys \cup K8Bodies

K8Controls == {"lookup", "save", "delete"}
K8Does(op) == op \in ui.ops
Clusters == "clusters"

-----------------------------------------------------------------------------
(* The server: the roles, and every content that each of them ever had. *)

PutK8Effect(k, b) == {[server EXCEPT !.role[k] = b, !.ever[k] = @ \cup {b}]}
DropK8Effect(k) == {[server EXCEPT !.role[k] = None]}

-----------------------------------------------------------------------------
(* The table. *)

K8Entry(k, b) == [key |-> k, body |-> b]
K8Without(rows, k) == SelectSeq(rows, LAMBDA e : e.key # k)
AddEntryTwice(u, e) == [u EXCEPT !.entries = <<e>> \o @, !.fresh = e.key]
AddEntry(u, e) == [u EXCEPT !.entries = <<e>> \o K8Without(@, e.key), !.fresh = e.key]
K8Rows(u) == ToSet(u.entries)

K8Panel == cache[Clusters].data # None /\ ~cache[Clusters].err
K8Covered == ui.editing # "" \/ ui.toDelete # None
K8Set(u) == ui' = u /\ UNCHANGED <<server, cache>>

K8Retry ==
  /\ cache[Clusters].err /\ cache[Clusters].fetch = "idle" /\ ui.own > 0
  /\ cache' = FetchNow(cache, Clusters) /\ ui' = [ui EXCEPT !.own = @ - 1] /\ UNCHANGED server

-----------------------------------------------------------------------------
(* The lookup. Its inputs stay open while it runs, and its callback names the
   row by the inputs of the latest render; raced remembers that they are not
   the ones that were asked for. *)

TypeKey(k) ==
  /\ K8Panel /\ ~K8Covered /\ K8Does("type") /\ k # ui.look /\ ui.own > 0
  /\ K8Set([ui EXCEPT !.look = k, !.own = @ - 1])

Lookup ==
  /\ K8Panel /\ ~K8Covered /\ K8Does("lookup") /\ ui.look # "" /\ ui.op["lookup"] = "idle" /\ ui.own > 0
  /\ K8Set([Push(ui, "lookup") EXCEPT !.asked = ui.look, !.msg = "", !.own = @ - 1])

K8GetServe(c, k) ==
  \/ ui' = [ui EXCEPT !.op[c] = IF server.role[k] = None THEN "failed" ELSE "ok", !.ans[c] = server.role[k]]
     /\ UNCHANGED <<server, cache>>
  \/ /\ ui.faults > 0
     /\ ui' = [ui EXCEPT !.op[c] = "failed", !.ans[c] = Failed, !.faults = @ - 1]
     /\ UNCHANGED <<server, cache>>

LookupServe == ui.op["lookup"] = "sent" /\ K8GetServe("lookup", ui.asked)

LookupBack ==
  /\ Returned("lookup")
  /\ K8Set(IF ui.op["lookup"] = "ok"
           THEN [AddEntry(Settle(ui, "lookup"), K8Entry(ui.look, ui.ans["lookup"])) EXCEPT
                   !.msg = "found", !.raced = @ \/ ui.look # ui.asked]
           ELSE [Settle(ui, "lookup") EXCEPT !.msg = IF ui.ans["lookup"] = None THEN "missing" ELSE "error"])

-----------------------------------------------------------------------------
(* The drawer writes a role and reads it back. *)

OpenK8New ==
  /\ K8Panel /\ ~K8Covered /\ K8Does("new") /\ ui.own > 0
  /\ K8Set([ui EXCEPT !.editing = "new", !.form = K8Entry(ui.look, ""), !.own = @ - 1])

OpenK8Edit(e) ==
  /\ K8Panel /\ ~K8Covered /\ K8Does("edit") /\ ui.own > 0
  /\ K8Set([ui EXCEPT !.editing = "edit", !.form = e, !.own = @ - 1])

TypeK8(f) ==
  /\ K8Panel /\ ui.editing # "" /\ f # ui.form /\ (ui.editing = "edit" => f.key = ui.form.key) /\ ui.own > 0
  /\ K8Set([ui EXCEPT !.form = f, !.own = @ - 1])

CloseK8 == K8Panel /\ ui.editing # "" /\ ui.op["save"] = "idle" /\ K8Set([ui EXCEPT !.editing = ""])

SubmitK8 ==
  /\ K8Panel /\ ui.editing # "" /\ ui.form.key # "" /\ ui.form.body # "" /\ ui.op["save"] = "idle"
  /\ K8Set([Push(ui, "save") EXCEPT !.put = ui.form])

PutServe ==
  /\ ui.op["save"] = "sent"
  /\ \/ server' \in PutK8Effect(ui.put.key, ui.put.body) /\ ui' = [ui EXCEPT !.op["save"] = "wait"]
     \/ /\ ui.faults > 0 /\ server' \in PutK8Effect(ui.put.key, ui.put.body) \cup {server}
        /\ ui' = [ui EXCEPT !.op["save"] = "failed", !.ans["save"] = Failed, !.faults = @ - 1]
  /\ UNCHANGED cache

GetServe == ui.op["save"] = "wait" /\ K8GetServe("save", ui.put.key)

SaveK8BackLooked ==
  /\ Returned("save")
  /\ K8Set(IF ui.op["save"] = "failed" THEN Settle(ui, "save")
           ELSE [AddEntry(Settle(ui, "save"), K8Entry(ui.look, ui.ans["save"])) EXCEPT !.editing = ""])

(* Here too the row is named by the latest render, of the drawer. *)
SaveK8Back ==
  /\ Returned("save")
  /\ K8Set(IF ui.op["save"] = "failed" THEN Settle(ui, "save")
           ELSE [AddEntry(Settle(ui, "save"), K8Entry(ui.form.key, ui.ans["save"])) EXCEPT
                   !.editing = "", !.raced = @ \/ ui.form.key # ui.put.key])

-----------------------------------------------------------------------------
(* Deleting. click is the table of the render that was clicked, which the
   handler does not use. *)

AskK8Delete(e) ==
  /\ K8Panel /\ ~K8Covered /\ K8Does("delete") /\ ui.own > 0
  /\ K8Set([ui EXCEPT !.toDelete = e, !.own = @ - 1])

CancelK8Delete == K8Panel /\ ui.toDelete # None /\ ui.op["delete"] = "idle" /\ K8Set([ui EXCEPT !.toDelete = None])

ConfirmK8Delete ==
  /\ K8Panel /\ ui.toDelete # None /\ ui.op["delete"] = "idle" /\ ui.own > 0
  /\ K8Set([Push(ui, "delete") EXCEPT !.click = ui.entries, !.own = @ - 1])

DeleteK8BackClicked ==
  /\ Returned("delete")
  /\ K8Set(IF ui.op["delete"] = "failed" THEN Settle(ui, "delete")
           ELSE [Settle(ui, "delete") EXCEPT !.entries = K8Without(ui.click, ui.toDelete.key), !.toDelete = None])

DeleteK8Back ==
  /\ Returned("delete")
  /\ K8Set(IF ui.op["delete"] = "failed" THEN Settle(ui, "delete")
           ELSE [Settle(ui, "delete") EXCEPT !.entries = K8Without(@, ui.toDelete.key), !.toDelete = None])

K8Fades == ui.fresh # "" /\ K8Set([ui EXCEPT !.fresh = ""])

-----------------------------------------------------------------------------
(* Another operator writes or deletes a role. *)
K8Other ==
  /\ ui.others > 0
  /\ \E k \in K8Keys : \/ server.role[k] # None /\ server' \in DropK8Effect(k)
                       \/ \E b \in K8Bodies : server' \in PutK8Effect(k, b)
  /\ ui' = [ui EXCEPT !.others = @ - 1]
  /\ UNCHANGED cache

K8Deliver == cache[Clusters].fetch = "back" /\ cache' = Deliver(cache, Clusters) /\ UNCHANGED <<server, ui>>

K8Init ==
  \E sc \in K8Scenes :
    /\ server = [role |-> [k \in K8Keys |-> IF k \in DOMAIN sc.roles THEN sc.roles[k] ELSE None],
                 ever |-> [k \in K8Keys |-> IF k \in DOMAIN sc.roles THEN {sc.roles[k]} ELSE {}]]
    /\ cache = Observe([q \in {Clusters} |-> Blank], {Clusters})
    /\ ui = [page |-> "k8s", scene |-> sc.name, ops |-> sc.ops, own |-> sc.own, others |-> sc.others, faults |-> sc.faults,
             op |-> [c \in K8Controls |-> "idle"], ans |-> [c \in {"lookup", "save"} |-> None], look |-> "", asked |-> "",
             msg |-> "", entries |-> <<>>, fresh |-> "", editing |-> "", form |-> K8Entry("", ""), put |-> None,
             toDelete |-> None, click |-> <<>>, raced |-> FALSE]

OnK8s == ui.page = "k8s"

K8Serve ==
  LookupServe \/ PutServe \/ GetServe \/ (ui.op["delete"] = "sent" /\ OpServe("delete", DropK8Effect(ui.toDelete.key)))
K8Back == LookupBack \/ SaveK8Back \/ DeleteK8Back
K8Query == QueryServe(Clusters, "clusters") \/ K8Deliver

K8Next ==
  \/ \E k \in K8Keys : TypeKey(k)
  \/ \E e \in K8Rows(ui) : OpenK8Edit(e) \/ AskK8Delete(e)
  \/ \E f \in [key : K8Keys, body : K8Bodies] : TypeK8(f)
  \/ K8Retry \/ Lookup \/ OpenK8New \/ CloseK8 \/ SubmitK8 \/ CancelK8Delete \/ ConfirmK8Delete \/ K8Fades \/ K8Other
  \/ K8Serve \/ K8Back \/ K8Query

K8Fairness ==
  /\ WF_consoleVars(OnK8s /\ K8Serve) /\ WF_consoleVars(OnK8s /\ K8Back)
  /\ WF_consoleVars(OnK8s /\ K8Query) /\ WF_consoleVars(OnK8s /\ K8Fades)

-----------------------------------------------------------------------------
(* The Kubernetes panel is in one of its states, and its table has one row for
   a role however often it was looked up, saved or deleted. *)
K8TypeOK ==
  OnK8s =>
    /\ ui.op \in [K8Controls -> OpStates]
    /\ ui.editing = "" \/ ui.toDelete = None
    /\ Len(ui.entries) = Cardinality({e.key : e \in K8Rows(ui)})

(* A row shows what its role contains or once contained, never the policies of
   another role; unless the inputs that name the row were changed while its
   request was under way. *)
RowIsTheRole == OnK8s /\ ~ui.raced => \A e \in K8Rows(ui) : e.key \in K8Keys /\ e.body \in server.ever[e.key]

(* As RowIsTheRole, with the inputs changed as they may be: "Role ns/sa found
   and added to the table" names the role that was found. *)
FoundIsNamed == OnK8s => \A e \in K8Rows(ui) : e.key \in K8Keys /\ e.body \in server.ever[e.key]

(* A row leaves the table only when its own role is deleted: what a lookup adds
   while a deletion is under way stays. *)
RowsStay ==
  OnK8s => \A e \in K8Rows(ui) :
    (\E x \in K8Rows(ui)' : x.key = e.key) \/ (ui.op["delete"] = "ok" /\ ui.toDelete.key = e.key)

K8Busy == OnK8s /\ (Busy(K8Controls) \/ ui.fresh # "")

=============================================================================
