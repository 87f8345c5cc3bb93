---------------------------- MODULE WebTokenRoles ----------------------------
(***************************************************************************)
(* The token-roles page of the web console: the templates that tokens are  *)
(* issued from. It lists the roles and reads each of them, selects and     *)
(* deletes several at once, edits, duplicates and creates one in a drawer, *)
(* and issues a token.                                                     *)
(*                                                                         *)
(* A name is a sequence of segments, so that the name of a copy can be     *)
(* formed. Of a role's three durations the TTL and the maximum are kept;   *)
(* the period is converted and stored as they are.                         *)
(***************************************************************************)
EXTENDS WebConsole

CONSTANTS
  TrNames,   \* names of roles
  TrBodies,  \* what a role says beside its durations
  TrTimes,   \* durations in seconds
  TrScenes   \* [name, roles, ops, own, others, faults]

ASSUME TokenRolesConstants == TrTimes \subseteq Nat /\ <<>> \notin TrNames

TrKeys == TrNames \cup {<<"list">>}
TrList == <<"list">>
TrSaves == {1, 2}
TrDoes(op) == op \in ui.ops

-----------------------------------------------------------------------------
(* Durations. A typed one is a number and a unit, or nothing. *)

UnitSeconds == [s |-> 1, m |-> 60, h |-> 3600, d |-> 86400]
Divides(s, u) == s % UnitSeconds[u] = 0
InUnits(s, u) == <<s \div UnitSeconds[u], u>>

parseDur(v) == IF v = <<>> THEN 0 ELSE v[1] * UnitSeconds[v[2]]

fmtShortRounds(s) ==
  IF s = 0 THEN <<>>
  ELSE IF s >= 86400 THEN InUnits(s, "d") ELSE IF s >= 3600 THEN InUnits(s, "h")
  ELSE IF s >= 60 THEN InUnits(s, "m") ELSE InUnits(s, "s")

fmtShort(s) ==
  IF s = 0 THEN <<>>
  ELSE IF Divides(s, "d") THEN InUnits(s, "d") ELSE IF Divides(s, "h") THEN InUnits(s, "h")
  ELSE IF Divides(s, "m") THEN InUnits(s, "m") ELSE InUnits(s, "s")

(* Go's time.ParseDuration knows no days, and refuses them. *)
toGoDuration(s) ==
  IF s = 0 THEN <<>>
  ELSE IF Divides(s, "h") THEN InUnits(s, "h") ELSE IF Divides(s, "m") THEN InUnits(s, "m") ELSE InUnits(s, "s")
ParseDuration(v) == IF v # <<>> /\ v[2] = "d" THEN Failed ELSE parseDur(v)

-----------------------------------------------------------------------------
(* The server. *)

PutTrEffect(p) ==
  IF Failed \in {ParseDuration(p.ttl), ParseDuration(p.max)} THEN {}
  ELSE {[server EXCEPT !.role[p.name] = [body |-> p.body, ttl |-> ParseDuration(p.ttl), max |-> ParseDuration(p.max)]]}
DropTrEffect(n) == [server EXCEPT !.role[n] = None]
MintEffect(n) == IF server.role[n] = None THEN {} ELSE {server}

TrAnswer(k) ==
  IF k = TrList THEN [names |-> {n \in TrNames : server.role[n] # None}]
  ELSE IF server.role[k] = None THEN Failed ELSE [role |-> server.role[k]]

-----------------------------------------------------------------------------
(* The page. *)

TrListed(c) == IF c[TrList].data = None THEN {} ELSE c[TrList].data.names
TrRole(c, n) == IF c[n].data = None THEN None ELSE c[n].data.role
TrShows(c) == c[TrList].data # None /\ ~c[TrList].err
TrVisible(c) ==
  {n \in TrListed(c) : ui.filter = "all" \/ (TrRole(c, n) # None /\ TrRole(c, n).body = ui.filter)}
TrCovered == ui.mode # "" \/ ui.asking \/ ui.minted
TrObserved(c) == {TrList} \cup TrListed(c)
TrRefetch(c) == Invalidate(c, TrKeys, TrObserved(c))
(* What awaits an invalidation waits for the queries that it refetches. *)
TrAwaited(c) == {k \in TrObserved(c) : TrRefetch(c)[k].fetch # "idle"}

TrShowKeeps(c, u) == cache' = Observe(c, TrListed(c) \ TrListed(cache)) /\ ui' = u /\ UNCHANGED server

(* Newly listed roles are read. An effect forgets the selected roles that a
   changed list no longer names. *)
TrShow(c, u) ==
  /\ cache' = Observe(c, TrListed(c) \ TrListed(cache))
  /\ ui' = IF c[TrList].data # None /\ TrListed(c) # TrListed(cache) THEN [u EXCEPT !.selected = @ \cap TrListed(c)] ELSE u
  /\ UNCHANGED server

TrRetry ==
  /\ cache[TrList].err /\ cache[TrList].fetch = "idle" /\ ~TrCovered /\ ui.own > 0
  /\ TrShow(FetchNow(cache, TrList), [ui EXCEPT !.own = @ - 1])

TrFilter(b) ==
  /\ TrDoes("filter") /\ TrShows(cache) /\ ~TrCovered /\ b # ui.filter /\ ui.own > 0
  /\ TrShow(cache, [ui EXCEPT !.filter = b, !.own = @ - 1])

ToggleTr(S) ==
  /\ TrDoes("select") /\ TrShows(cache) /\ ~TrCovered /\ S # {} /\ ui.own > 0
  /\ TrShow(cache, [ui EXCEPT !.selected = IF S \subseteq @ THEN @ \ S ELSE @ \cup S, !.own = @ - 1])

ClearTr ==
  /\ ui.selected # {} /\ ~TrCovered /\ ui.own > 0
  /\ TrShow(cache, [ui EXCEPT !.selected = {}, !.own = @ - 1])

-----------------------------------------------------------------------------
(* Deleting one role, or the selected ones with one request each. *)

AskTrOver(S) ==
  /\ TrDoes("delete") /\ S # {} /\ ui.own > 0
  /\ S = ui.selected \/ (TrShows(cache) /\ \E n \in TrVisible(cache) : S = {n})
  /\ TrShow(cache, [ui EXCEPT !.asking = TRUE, !.names = S, !.own = @ - 1])

AskTr(S) ==
  /\ TrDoes("delete") /\ ~TrCovered /\ S # {} /\ ui.own > 0
  /\ S = ui.selected \/ (TrShows(cache) /\ \E n \in TrVisible(cache) : S = {n})
  /\ TrShow(cache, [ui EXCEPT !.asking = TRUE, !.names = S, !.own = @ - 1])

CancelTr == ui.asking /\ ui.dels = <<>> /\ TrShow(cache, [ui EXCEPT !.asking = FALSE])

ConfirmTr ==
  /\ ui.asking /\ ui.dels = <<>> /\ ui.own > 0
  /\ TrShow(cache, [ui EXCEPT !.dels = [n \in ui.names |-> "sent"], !.own = @ - 1])

DelServe(n) ==
  /\ ui.dels # <<>> /\ n \in DOMAIN ui.dels /\ ui.dels[n] = "sent"
  /\ \/ server' = DropTrEffect(n) /\ ui' = [ui EXCEPT !.dels[n] = "ok"]
     \/ ui.faults > 0 /\ server' \in {server, DropTrEffect(n)} /\ ui' = [ui EXCEPT !.dels[n] = "failed", !.faults = @ - 1]
  /\ UNCHANGED cache

DelsBack ==
  /\ ui.dels # <<>> /\ ~ui.settling /\ \A n \in DOMAIN ui.dels : ui.dels[n] # "sent"
  /\ TrShow(TrRefetch(cache), [ui EXCEPT !.settling = TRUE, !.awaits = TrAwaited(cache)])

DelsGone == {n \in DOMAIN ui.dels : ui.dels[n] = "ok"}
DelsDone ==
  /\ ui.settling /\ ~Waiting(cache, ui.awaits)
  /\ TrShow(cache, [ui EXCEPT !.settling = FALSE, !.awaits = {}, !.dels = <<>>, !.selected = @ \ DelsGone, !.asking = DelsGone = {}])

-----------------------------------------------------------------------------
(* The drawer. Every opening has a number. While a save is under way the drawer
   cannot be closed and its button is off, but Enter in a field saves again. *)

EmptyTr == [name |-> <<>>, body |-> "", ttl |-> <<1, "h">>, max |-> <<24, "h">>]
seedForm(mode, n, r) ==
  IF mode = "new" THEN EmptyTr
  ELSE [name |-> IF mode = "dup" THEN Append(n, "-copy") ELSE n, body |-> r.body, ttl |-> fmtShort(r.ttl), max |-> fmtShort(r.max)]

OpenTr(mode, n) ==
  /\ TrDoes(mode) /\ TrShows(cache) /\ ~TrCovered /\ ui.own > 0
  /\ mode # "new" => n \in TrVisible(cache) /\ TrRole(cache, n) # None
  /\ LET f == seedForm(mode, n, TrRole(cache, n)) IN
     TrShow(cache, [ui EXCEPT !.mode = mode, !.form = f, !.snap = IF mode = "dup" THEN None ELSE f, !.armed = FALSE,
                              !.drawer = @ + 1, !.base = IF mode = "edit" THEN TrRole(cache, n) ELSE None, !.own = @ - 1])

TypeTr(f) ==
  /\ ui.mode # "" /\ f # ui.form /\ (ui.mode = "edit" => f.name = ui.form.name) /\ ui.own > 0
  /\ \/ f.ttl = ui.form.ttl /\ f.max = ui.form.max
     \/ TrDoes("times") /\ f.body = ui.form.body /\ f.name = ui.form.name
  /\ TrShow(cache, [ui EXCEPT !.form = f, !.armed = FALSE, !.own = @ - 1])

TrErrors ==
  \/ ui.form.name = <<>> \/ ui.form.body = ""
  \/ ui.mode # "edit" /\ ui.form.name \in TrListed(cache)
  \/ parseDur(ui.form.max) > 0 /\ parseDur(ui.form.ttl) > parseDur(ui.form.max)
TrDirty == ui.snap = None \/ ui.form # ui.snap
TrPending == ui.last # 0 /\ ui.puts[ui.last] # None

SaveTr ==
  /\ ui.mode # "" /\ ~TrErrors /\ ui.form.name \in TrNames
  /\ TrPending => TrDoes("enter") /\ ui.own > 0
  /\ \E i \in TrSaves :
       /\ ui.puts[i] = None /\ \A j \in 1 .. i - 1 : ui.puts[j] # None
       /\ TrShow(cache, [ui EXCEPT !.last = i, !.twice = @ \/ TrPending, !.own = IF TrPending THEN @ - 1 ELSE @,
            !.puts[i] = [name |-> ui.form.name, body |-> ui.form.body, ttl |-> toGoDuration(parseDur(ui.form.ttl)),
                         max |-> toGoDuration(parseDur(ui.form.max)), st |-> "sent", awaits |-> {}, drawer |-> ui.drawer,
                         same |-> ui.snap # None /\ ui.form.ttl = ui.snap.ttl /\ ui.form.max = ui.snap.max, base |-> ui.base]])

SaveTrServe(i) ==
  /\ ui.puts[i] # None /\ ui.puts[i].st = "sent"
  /\ LET done == PutTrEffect(ui.puts[i]) IN
     \/ server' \in done /\ ui' = [ui EXCEPT !.puts[i].st = "ok"]
     \/ /\ done = {} \/ ui.faults > 0
        /\ server' \in done \cup {server}
        /\ ui' = [ui EXCEPT !.puts[i].st = "failed", !.faults = IF done = {} THEN @ ELSE @ - 1]
  /\ UNCHANGED cache

SaveTrBackUnread(i) ==
  /\ ui.puts[i] # None /\ ui.puts[i].st \in {"ok", "failed"}
  /\ IF ui.puts[i].st = "failed" THEN TrShow(cache, [ui EXCEPT !.puts[i] = None])
     ELSE TrShow(Invalidate(cache, {TrList}, TrObserved(cache)), [ui EXCEPT !.puts[i].st = "wait", !.puts[i].awaits = TrAwaited(cache)])

SaveTrBack(i) ==
  /\ ui.puts[i] # None /\ ui.puts[i].st \in {"ok", "failed"}
  /\ IF ui.puts[i].st = "failed" THEN TrShow(cache, [ui EXCEPT !.puts[i] = None])
     ELSE TrShow(TrRefetch(cache), [ui EXCEPT !.puts[i].st = "wait", !.puts[i].awaits = TrAwaited(cache)])

SaveTrDone(i) ==
  /\ ui.puts[i] # None /\ ui.puts[i].st = "wait" /\ ~Waiting(cache, ui.puts[i].awaits)
  /\ TrShow(cache, [ui EXCEPT !.puts[i] = None, !.mode = ""])

requestCloseAnytime ==
  /\ ui.mode # "" /\ (TrDirty /\ ~ui.armed => ui.own > 0)
  /\ TrShow(cache, IF TrDirty /\ ~ui.armed THEN [ui EXCEPT !.armed = TRUE, !.own = @ - 1] ELSE [ui EXCEPT !.mode = ""])

(* The first request to close a drawer with changes only warns. *)
requestClose ==
  /\ ui.mode # "" /\ ~TrPending /\ (TrDirty /\ ~ui.armed => ui.own > 0)
  /\ TrShow(cache, IF TrDirty /\ ~ui.armed THEN [ui EXCEPT !.armed = TRUE, !.own = @ - 1] ELSE [ui EXCEPT !.mode = ""])

-----------------------------------------------------------------------------
(* Issuing a token, and other operators. *)

Mint(n) ==
  /\ TrDoes("mint") /\ TrShows(cache) /\ ~TrCovered /\ n \in TrVisible(cache) /\ ui.op["mint"] = "idle" /\ ui.own > 0
  /\ TrShow(cache, [Push(ui, "mint") EXCEPT !.from = n, !.own = @ - 1])

MintBack == Returned("mint") /\ TrShow(cache, [Settle(ui, "mint") EXCEPT !.minted = ui.op["mint"] = "ok"])
CloseMinted == ui.minted /\ TrShow(cache, [ui EXCEPT !.minted = FALSE])

TrOther ==
  /\ ui.others > 0
  /\ \E n \in TrNames :
       \/ server.role[n] # None /\ server' = DropTrEffect(n)
       \/ \E b \in TrBodies : server' \in PutTrEffect([name |-> n, body |-> b, ttl |-> <<>>, max |-> <<>>])
  /\ ui' = [ui EXCEPT !.others = @ - 1]
  /\ UNCHANGED cache

TrDeliver(k) == cache[k].fetch = "back" /\ TrShow(Deliver(cache, k), ui)

TrInit ==
  \E sc \in TrScenes : \E roles \in sc.roles :
    /\ server = [role |-> [n \in TrNames |-> IF n \in DOMAIN roles THEN roles[n] ELSE None]]
    /\ cache = Observe([k \in TrKeys |-> Blank], {TrList})
    /\ ui = [page |-> "tokenroles", scene |-> sc.name, ops |-> sc.ops, own |-> sc.own, others |-> sc.others,
             faults |-> sc.faults, quiet |-> [others |-> sc.others, faults |-> sc.faults],
             op |-> [c \in {"mint"} |-> "idle"], filter |-> "all", selected |-> {}, asking |-> FALSE, names |-> {},
             dels |-> <<>>, settling |-> FALSE, awaits |-> {}, mode |-> "", form |-> EmptyTr, snap |-> None, base |-> None, armed |-> FALSE,
             drawer |-> 0, puts |-> [i \in TrSaves |-> None], last |-> 0, twice |-> FALSE, from |-> <<>>, minted |-> FALSE]

OnTokenRoles == ui.page = "tokenroles"

TrServe ==
  \/ \E n \in TrNames : DelServe(n)
  \/ \E i \in TrSaves : SaveTrServe(i)
  \/ ui.op["mint"] = "sent" /\ OpServe("mint", MintEffect(ui.from))
TrBack == DelsBack \/ DelsDone \/ MintBack \/ \E i \in TrSaves : SaveTrBack(i) \/ SaveTrDone(i)
TrQuery == \E k \in TrKeys : QueryServe(k, TrAnswer(k)) \/ TrDeliver(k)

TrNext ==
  \/ \E b \in {"all"} \cup TrBodies : TrFilter(b)
  \/ \E n \in TrNames : (n \in TrVisible(cache) /\ ToggleTr({n})) \/ AskTr({n}) \/ Mint(n)
  \/ ToggleTr(TrVisible(cache)) \/ AskTr(ui.selected)
  \/ \E mode \in {"new", "edit", "dup"}, n \in TrNames : OpenTr(mode, n)
  \/ \E n \in TrNames, b \in TrBodies, t, m \in {fmtShort(s) : s \in TrTimes} \cup {ui.form.ttl, ui.form.max} :
       TypeTr([name |-> n, body |-> b, ttl |-> t, max |-> m])
  \/ TrRetry \/ ClearTr \/ CancelTr \/ ConfirmTr \/ SaveTr \/ requestClose \/ CloseMinted \/ TrOther
  \/ TrServe \/ TrBack \/ TrQuery

TrFairness ==
  WF_consoleVars(OnTokenRoles /\ TrServe) /\ WF_consoleVars(OnTokenRoles /\ TrBack) /\ WF_consoleVars(OnTokenRoles /\ TrQuery)

-----------------------------------------------------------------------------
(* The token-roles page is in one of its states: one dialog at a time, deletions
   are settled under their dialog, and a token is shown only while no second one
   is being issued. *)
TrTypeOK ==
  OnTokenRoles =>
    /\ ui.op["mint"] \in OpStates
    /\ ~(ui.asking /\ ui.mode # "")
    /\ ui.minted => ui.op["mint"] = "idle"
    /\ ui.settling => ui.asking

(* The selected roles are listed ones: a role that another operator deleted, or
   whose deletion was carried out and reported as failed, leaves the selection
   with the list. *)
SelectionIsListed == OnTokenRoles => ui.selected \subseteq TrListed(cache)

(* A page that is left alone shows the roles as they are stored when nothing is
   under way, so that the next edit starts from what it would overwrite. *)
RolesAreTrue ==
  OnTokenRoles /\ ui.others = ui.quiet.others /\ ui.faults = ui.quiet.faults /\ (\A i \in TrSaves : ui.puts[i] = None)
    /\ ui.dels = <<>> /\ ~Waiting(cache, TrKeys)
  => \A n \in TrNames : (n \in TrListed(cache) <=> server.role[n] # None)
                        /\ (n \in TrListed(cache) => TrRole(cache, n) = server.role[n])

(* A save closes the drawer it was made in and no other: a drawer opened later
   keeps its unsaved changes; unless Enter sent the same save twice. *)
SaveClosesItsDrawer ==
  OnTokenRoles /\ ~ui.twice => \A i \in TrSaves :
    ui.puts[i] # None /\ ui.puts[i].st = "wait" /\ ui'.puts[i] = None =>
      ui.mode # "" /\ ui.drawer = ui.puts[i].drawer

(* An edit that leaves the durations alone stores them as they were: what the
   drawer shows for one is read back as the same one. *)
TimesKept ==
  OnTokenRoles => \A i \in TrSaves :
    ui.puts[i] # None /\ ui.puts[i].st = "sent" /\ ui'.puts[i] # None /\ ui'.puts[i].st # "sent"
      /\ ui.puts[i].same /\ ui.puts[i].base # None /\ ui'.faults = ui.faults
    => /\ ui'.puts[i].st = "ok"
       /\ server'.role[ui.puts[i].name].ttl = ui.puts[i].base.ttl
       /\ server'.role[ui.puts[i].name].max = ui.puts[i].base.max

TrBusy == OnTokenRoles /\ (Busy({"mint"}) \/ ui.dels # <<>> \/ \E i \in TrSaves : ui.puts[i] # None)

=============================================================================
