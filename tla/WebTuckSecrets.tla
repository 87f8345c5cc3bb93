--------------------------- MODULE WebTuckSecrets ---------------------------
(***************************************************************************)
(* The TuckSecrets page of the web console: the polled, filtered list of   *)
(* the TuckSecret resources of all trusted Kubernetes clusters, and the    *)
(* handler behind it, which reads one cluster after the other while the    *)
(* resources, the bindings of their namespaces and the list of clusters    *)
(* change.                                                                 *)
(***************************************************************************)
EXTENDS WebConsole
LOCAL INSTANCE FiniteSetsExt

CONSTANTS
  TsWhere,     \* [resources -> [cluster, ns]], where each one lives
  TsMaxRows,   \* maxTuckSecretRows
  TsSources,   \* the lists of trusted clusters, each in the order of the names
  TsScenes     \* [name, want, res, srcs, ops, own, others, faults]

TsRes == DOMAIN TsWhere
TsKey == "tucksecrets"
STATES == {"synced", "error", "pending", "deleting"}
TsDoes(op) == op \in ui.ops

-----------------------------------------------------------------------------
(* The clusters. res tells what each resource holds, bound the Tuck namespace
   the Kubernetes namespace of a resource is bound to, srcs the clusters that
   are read, in the order of their names; read is the request under way. *)

tuckSecretStateRaw(r) == IF r.del THEN "deleting" ELSE IF r.err THEN "error" ELSE IF r.synced THEN "synced" ELSE ""

tuckSecretState(r) ==
  CASE r.del -> "deleting" [] ~r.del /\ r.err -> "error"
    [] ~r.del /\ ~r.err /\ ~r.synced -> "pending" [] OTHER -> "synced"

Raw == [del : BOOLEAN, err : BOOLEAN, synced : BOOLEAN]
Lives(r, c) == server.res[r] # None /\ TsWhere[r].cluster = c
InScope(r) == server.want = "" \/ server.bound[r] = server.want

(* gone holds the resources that were not there, or not in the scope of the
   token, all the time since the request arrived. *)
ReadStarts ==
  /\ cache[TsKey].fetch = "sent" /\ server.read = None
  /\ server' = [server EXCEPT !.read = [srcs |-> server.srcs, at |-> 1, list |-> None, items |-> {}, truncated |-> FALSE,
                                        down |-> {}, gone |-> {r \in TsRes : server.res[r] = None \/ ~InScope(r)}]]
  /\ UNCHANGED <<cache, ui>>

Reading == server.read # None /\ server.read.at <= Len(server.read.srcs)
Source == server.read.srcs[server.read.at]

ListCluster ==
  /\ Reading /\ server.read.list = None
  /\ server' = [server EXCEPT !.read.list = [r \in {q \in TsRes : Lives(q, Source)} |-> tuckSecretState(server.res[r])]]
  /\ UNCHANGED <<cache, ui>>

Room == TsMaxRows - Cardinality(server.read.items)

(* The bindings are read after the resources. Rows for which there is no room
   are left out. *)
AnnotateCluster ==
  /\ Reading /\ server.read.list # None
  /\ LET seen == {r \in DOMAIN server.read.list : InScope(r)}
         more == Cardinality(seen) > Room
     IN \E S \in (IF more THEN kSubset(Room, seen) ELSE {seen}) :
          server' = [server EXCEPT !.read.list = None, !.read.at = @ + 1, !.read.truncated = @ \/ more,
                                   !.read.items = @ \cup {[id |-> r, state |-> server.read.list[r]] : r \in S}]
  /\ UNCHANGED <<cache, ui>>

ClusterFailsAll ==
  /\ Reading /\ ui.faults > 0
  /\ server' = [server EXCEPT !.read.list = None, !.read.at = Len(server.read.srcs) + 1, !.read.down = @ \cup {Source}]
  /\ ui' = [ui EXCEPT !.faults = @ - 1]
  /\ UNCHANGED cache

(* One of the two requests to a cluster fails or runs into clusterReadTimeout. *)
ClusterFails ==
  /\ Reading /\ ui.faults > 0
  /\ server' = [server EXCEPT !.read.list = None, !.read.at = @ + 1, !.read.down = @ \cup {Source}]
  /\ ui' = [ui EXCEPT !.faults = @ - 1]
  /\ UNCHANGED cache

(* The request fails when no cluster answered, or none is trusted. Only a token of the root
   namespace is told which clusters failed. *)
ReadEnds ==
  /\ server.read # None /\ ~Reading
  /\ LET d == server.read
         all == {d.srcs[i] : i \in DOMAIN d.srcs}
     IN cache' = Answered(cache, TsKey,
          IF d.down = all THEN Failed
          ELSE [items |-> d.items, truncated |-> d.truncated, down |-> IF server.want = "" THEN d.down ELSE {},
                lost |-> d.down, steady |-> {r \in TsRes \ d.gone : TsWhere[r].cluster \in all}])
  /\ server' = [server EXCEPT !.read = None]
  /\ UNCHANGED ui

ReadLost ==
  /\ cache[TsKey].fetch = "sent" /\ ui.faults > 0
  /\ cache' = Answered(cache, TsKey, Failed)
  /\ server' = [server EXCEPT !.read = None] /\ ui' = [ui EXCEPT !.faults = @ - 1]

(* A resource is created, changed by the operator or removed, a namespace is
   bound anew, or the trusted clusters are reloaded. *)
TsTouched(s, r) == IF s.read = None THEN s ELSE [s EXCEPT !.read.gone = @ \cup {r}]
TsOther ==
  /\ ui.others > 0
  /\ \/ \E r \in TsRes, x \in Raw \cup {None} :
          x # server.res[r] /\ server' = [(IF x = None THEN TsTouched(server, r) ELSE server) EXCEPT !.res[r] = x]
     \/ \E r \in TsRes, n \in {"", "team"} :
          n # server.bound[r] /\ server' = [TsTouched(server, r) EXCEPT !.bound[r] = n]
     \/ \E s \in TsSources : s # server.srcs /\ server' = [server EXCEPT !.srcs = s]
  /\ ui' = [ui EXCEPT !.others = @ - 1]
  /\ UNCHANGED cache

-----------------------------------------------------------------------------
(* The page. Every error body and the head of the page have a button that
   fetches again; the rows of the last good answer are not shown then. *)

TsShow(c, u) == cache' = c /\ ui' = u /\ UNCHANGED server

TsItems == IF cache[TsKey].data = None THEN {} ELSE cache[TsKey].data.items
showData == cache[TsKey].data # None /\ ~cache[TsKey].err /\ TsItems # {}
clusters == {TsWhere[i.id].cluster : i \in TsItems}
multi == clusters \notin SUBSET {""}
namespaces == {TsWhere[i.id].ns : i \in TsItems}
counts(s) == Cardinality({i \in TsItems : i.state = s})
shown ==
  {i \in TsItems : /\ ui.cluster \in {"", TsWhere[i.id].cluster} /\ ui.ns \in {"", TsWhere[i.id].ns}
                   /\ ui.state \in {"", i.state} /\ ui.q \in {"", i.id}}

TsRefresh ==
  /\ cache[TsKey].fetch = "idle"
  /\ TsShow(FetchNow(cache, TsKey), ui)

(* A text finds the resources that contain it: one of them, or all. *)
TsSearch(q) ==
  /\ TsDoes("filter") /\ showData /\ q # ui.q /\ ui.own > 0
  /\ TsShow(cache, [ui EXCEPT !.q = q, !.own = @ - 1])

setCluster(c) ==
  /\ TsDoes("filter") /\ showData /\ multi /\ c \in clusters \cup {""} /\ c # ui.cluster /\ ui.own > 0
  /\ TsShow(cache, [ui EXCEPT !.cluster = c, !.own = @ - 1])

setK8sNs(n) ==
  /\ TsDoes("filter") /\ showData /\ n \in namespaces \cup {""} /\ n # ui.ns /\ ui.own > 0
  /\ TsShow(cache, [ui EXCEPT !.ns = n, !.own = @ - 1])

setStateFilter(s) ==
  /\ TsDoes("filter") /\ showData /\ (s # "" => counts(s) > 0) /\ s # ui.state /\ ui.own > 0
  /\ TsShow(cache, [ui EXCEPT !.state = s, !.own = @ - 1])

resetFilters ==
  /\ showData /\ shown = {}
  /\ TsShow(cache, [ui EXCEPT !.q = "", !.ns = "", !.cluster = "", !.state = ""])

toggle(i) ==
  /\ TsDoes("open") /\ showData /\ i \in shown /\ ui.own > 0
  /\ TsShow(cache, [ui EXCEPT !.open = IF i.id \in @ THEN @ \ {i.id} ELSE @ \cup {i.id}, !.own = @ - 1])

TsDeliver == cache[TsKey].fetch = "back" /\ TsShow(Deliver(cache, TsKey), ui)

TsInit ==
  \E sc \in TsScenes :
    /\ server = [res |-> sc.res, bound |-> [r \in TsRes |-> sc.want], srcs |-> sc.srcs, want |-> sc.want, read |-> None]
    /\ cache = [k \in {TsKey} |-> Ask(Blank)]
    /\ ui = [page |-> "tucksecrets", scene |-> sc.name, ops |-> sc.ops, own |-> sc.own, others |-> sc.others,
             faults |-> sc.faults, q |-> "", ns |-> "", cluster |-> "", state |-> "", open |-> {}]

OnTuckSecrets == ui.page = "tucksecrets"

TsServe == ReadStarts \/ ListCluster \/ AnnotateCluster \/ ClusterFails \/ ReadEnds \/ ReadLost
TsPoll == PollTick(TsKey)

TsNext ==
  \/ \E q \in TsRes \cup {""} : TsSearch(q)
  \/ \E r \in TsRes : setCluster(TsWhere[r].cluster) \/ setK8sNs(TsWhere[r].ns)
  \/ setCluster("") \/ setK8sNs("") \/ \E s \in STATES \cup {""} : setStateFilter(s)
  \/ \E i \in TsItems : toggle(i)
  \/ TsRefresh \/ resetFilters \/ TsOther \/ TsPoll \/ TsServe \/ TsDeliver

(* The interval runs out again and again, and requests are answered or fail. *)
TsFairness ==
  WF_consoleVars(OnTuckSecrets /\ TsServe) /\ WF_consoleVars(OnTuckSecrets /\ TsDeliver) /\ WF_consoleVars(OnTuckSecrets /\ TsPoll)

-----------------------------------------------------------------------------

(* The TuckSecrets page is in one of its states, and every row has a state it
   has a colour and a counter for. *)
TsTypeOK ==
  OnTuckSecrets =>
    /\ server.res \in [TsRes -> Raw \cup {None}] /\ server.srcs \in TsSources /\ ui.open \subseteq TsRes /\ ui.state \in STATES \cup {""}
    /\ \A i \in TsItems : i.id \in TsRes /\ i.state \in STATES
    /\ Cardinality(TsItems) <= TsMaxRows

(* A resource that exists and is in the token's scope during the whole request
   is listed, unless the page says that rows were cut off, or names its cluster
   among those that could not be read: a cluster that is down does not hide the
   others. A token of a team is not told of clusters that could not be read. *)
MissingExplained ==
  OnTuckSecrets /\ cache[TsKey].data # None =>
    LET d == cache[TsKey].data IN
    \A r \in d.steady :
      \/ \E i \in d.items : i.id = r
      \/ d.truncated
      \/ TsWhere[r].cluster \in (IF server.want = "" THEN d.down ELSE d.lost)

(* Once nothing changes or fails any more, the page is behind as long as it does
   not list exactly what is there. *)
TsBusy ==
  /\ OnTuckSecrets /\ ui.others = 0 /\ ui.faults = 0 /\ server.srcs # <<>>
  /\ ~ /\ cache[TsKey].data # None /\ ~cache[TsKey].err
       /\ \/ cache[TsKey].data.truncated
          \/ TsItems = {[id |-> r, state |-> tuckSecretState(server.res[r])] :
                          r \in {q \in TsRes : InScope(q) /\ \E i \in DOMAIN server.srcs : Lives(q, server.srcs[i])}}

=============================================================================
