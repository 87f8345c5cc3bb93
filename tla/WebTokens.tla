------------------------------ MODULE WebTokens ------------------------------
(***************************************************************************)
(* The tokens page of the web console: the list and the lookup of every    *)
(* token on it, rows that fade away when their token is revoked or its     *)
(* time is up, revocation of rows and by prefix, renewal, minting with the *)
(* plate that shows a new value once, and the drawer of the own token.     *)
(***************************************************************************)
EXTENDS WebConsole

CONSTANTS
  Toks,      \* token ids
  TkPolicies,\* the policies a token may carry
  MintTtl,   \* the life the create form asks for
  TkScenes   \* [name, toks, ops, theirs, ticks, own, others, faults]

ASSUME TokensConstants == MintTtl \in Nat \ {0}

NoTok == "none"
TkControls == {"renew", "create", "renewself"}
TkKeys == Toks \cup {"list", "self"}
DefaultTtl == 1

TkDoes(op) == op \in ui.ops

-----------------------------------------------------------------------------
(* The server. A token is [made, exp, renewable, policy, parent]; exp = 0 is
   the zero time of a token that never expires. An expired token stays listed
   until it is swept. renewed remembers the tokens that were renewed since the
   page was opened. The token of the session is not one of Toks: losing it
   ends the session. *)

Alive(t) == server.toks[t] # None /\ (server.toks[t].exp = 0 \/ server.toks[t].exp > server.now)

Family(t) == {t} \cup {x \in Toks : server.toks[x] # None /\ server.toks[x].parent = t}

RevokeEffect(t) ==
  [server EXCEPT !.toks = [x \in Toks |-> IF x \in Family(t) THEN None ELSE @[x]], !.index = @ + 1]

RenewEffect(t, ttl) ==
  IF Alive(t) /\ server.toks[t].renewable
  THEN {[server EXCEPT !.toks[t].exp = server.now + ttl, !.renewed = @ \cup {t}, !.index = @ + 1]}
  ELSE {}

CreateEffect(t, p) ==
  [server EXCEPT !.toks[t] = [made |-> server.now, exp |-> server.now + MintTtl, renewable |-> TRUE,
                              policy |-> p, parent |-> NoTok],
                 !.minted = @ \cup {t}, !.index = @ + 1]

SelfEffect == {[server EXCEPT !.self = @ + 1, !.index = @ + 1]}

TkAnswer(k) ==
  CASE k = "list" -> [ids |-> {t \in Toks : server.toks[t] # None}, index |-> server.index]
    [] k = "self" -> [life |-> server.self, index |-> server.index]
    [] OTHER -> IF server.toks[k] = None THEN Failed ELSE [tok |-> server.toks[k], index |-> server.index]

-----------------------------------------------------------------------------
(* The rows: the listed tokens that have not faded away, each with what its
   lookup said. *)

TkRows(c, u) == IF c["list"].data = None THEN {} ELSE c["list"].data.ids \ u.gone
Resolved(c, t) == c[t].data # None
RowTok(c, t) == c[t].data.tok
RowTotal(t) == RowTok(cache, t).exp - RowTok(cache, t).made

Expired(c, u, now) ==
  {t \in TkRows(c, u) : Resolved(c, t) /\ RowTok(c, t).exp # 0 /\ RowTok(c, t).exp <= now /\ t \notin u.dissolving}

Dissolve(u, T) == [u EXCEPT !.dissolving = @ \cup T, !.timers = Append(@, T)]

(* After a change the lookups of new rows start and the expiry sweep runs. *)
TkRender(c, u, now) ==
  /\ cache' = Observe(c, TkRows(c, u) \ TkRows(cache, ui))
  /\ ui' = IF Expired(c, u, now) = {} THEN u ELSE Dissolve(u, Expired(c, u, now))

TkShow(c, u) == TkRender(c, u, server.now) /\ UNCHANGED server

TkWatched(u) == TkRows(cache, u) \cup {"list"} \cup (IF u.drawer THEN {"self"} ELSE {})
TkRefetch(c, K) == Invalidate(c, K, TkWatched(ui))

(* What a refetch of the list now will show of the changes made so far. *)
ListSeen == IF cache["list"].data = None THEN ui.seen ELSE server.index

FadeEndsKeeps ==
  /\ ui.timers # <<>>
  /\ TkShow(TkRefetch(cache, {"list"}),
            [ui EXCEPT !.timers = Tail(@), !.dissolving = @ \ Head(ui.timers), !.seen = ListSeen])

(* 900 ms later the rows are gone for good and the list is read again. *)
FadeEnds ==
  /\ ui.timers # <<>>
  /\ TkShow(TkRefetch(cache, {"list"}),
            [ui EXCEPT !.timers = Tail(@), !.dissolving = @ \ Head(ui.timers), !.gone = @ \cup Head(ui.timers),
                       !.seen = ListSeen])

-----------------------------------------------------------------------------
(* The table, which a failed refetch of the list takes off the page. *)

Visible == {t \in TkRows(cache, ui) :
              ui.policy = NoTok \/ (Resolved(cache, t) /\ RowTok(cache, t).policy = ui.policy)}
ListReady == cache["list"].data # None /\ ~cache["list"].err
Chips == {RowTok(cache, t).policy : t \in {x \in TkRows(cache, ui) : Resolved(cache, x)}}
SelIds == ui.sel \cap TkRows(cache, ui)
TkUncovered == ui.confirm = {} /\ ui.prefix = NoTok /\ ~ui.creating /\ ~ui.drawer
TkTable(op) == TkDoes(op) /\ TkUncovered /\ ListReady

FilterPolicy(p) ==
  /\ TkTable("filter") /\ ui.own > 0
  /\ p \in Chips \/ (p = NoTok /\ ui.policy # NoTok)
  /\ TkShow(cache, [ui EXCEPT !.policy = IF ui.policy = p THEN NoTok ELSE p, !.own = @ - 1])

TickRow(t) ==
  /\ TkTable("select") /\ t \in Visible /\ ui.own > 0
  /\ TkShow(cache, [ui EXCEPT !.sel = IF t \in @ THEN @ \ {t} ELSE @ \cup {t}, !.own = @ - 1])

TickAll ==
  /\ TkTable("select") /\ Visible # {} /\ ui.own > 0
  /\ TkShow(cache, [ui EXCEPT !.sel = IF Visible \subseteq @ THEN @ \ Visible ELSE @ \cup Visible, !.own = @ - 1])

ClearSel ==
  /\ TkTable("select") /\ SelIds # {}
  /\ TkShow(cache, [ui EXCEPT !.sel = {}])

TkRetry ==
  /\ cache["list"].err /\ TkUncovered /\ ui.own > 0
  /\ TkShow(FetchNow(cache, "list"), [ui EXCEPT !.own = @ - 1])

-----------------------------------------------------------------------------
(* Revocation: one row, the ticked rows, or the rows whose name has a prefix.
   The names of the rows of one policy share a prefix. All requests are sent
   at once and answered in any order. *)

AskRevoke(T) ==
  /\ TkTable("revoke") /\ ui.own > 0
  /\ \/ \E t \in Visible : T = {t}
     \/ T = SelIds /\ SelIds # {}
  /\ TkShow(cache, [ui EXCEPT !.confirm = T])

CancelRevoke ==
  /\ ui.confirm # {} /\ ui.sent = {}
  /\ TkShow(cache, [ui EXCEPT !.confirm = {}])

OpenPrefix(p) ==
  /\ TkTable("prefix") /\ TkRows(cache, ui) # {} /\ ui.own > 0
  /\ TkShow(cache, [ui EXCEPT !.prefix = p])

ClosePrefix ==
  /\ ui.prefix # NoTok /\ ui.sent = {}
  /\ TkShow(cache, [ui EXCEPT !.prefix = NoTok])

PrefixMatches == {t \in TkRows(cache, ui) : Resolved(cache, t) /\ RowTok(cache, t).policy = ui.prefix}

(* The dialogs take no second click while the requests are out. *)
ConfirmRevoke ==
  /\ ui.sent = {} /\ ui.own > 0
  /\ \E T \in {ui.confirm, IF ui.prefix # NoTok THEN PrefixMatches ELSE {}} \ {{}} :
       TkShow(cache, [ui EXCEPT !.sent = T, !.answer = [t \in Toks |-> IF t \in T THEN "sent" ELSE "no"], !.own = @ - 1])

RevokeServe(t) ==
  /\ ui.answer[t] = "sent"
  /\ \/ server' = RevokeEffect(t) /\ ui' = [ui EXCEPT !.answer[t] = "ok"]
     \/ /\ ui.faults > 0 /\ server' \in {server, RevokeEffect(t)}
        /\ ui' = [ui EXCEPT !.answer[t] = "failed", !.faults = @ - 1]
  /\ UNCHANGED cache

AllCounted == ui.sent
Revoked == {t \in ui.sent : ui.answer[t] = "ok"}

RevokeBack ==
  /\ ui.sent # {} /\ \A t \in ui.sent : ui.answer[t] \in {"ok", "failed"}
  /\ LET u == [ui EXCEPT !.sent = {}, !.confirm = {}, !.prefix = NoTok, !.answer = [t \in Toks |-> "no"],
                         !.sel = @ \ Revoked]
     IN TkShow(cache, IF Revoked = {} THEN u ELSE Dissolve(u, Revoked))

-----------------------------------------------------------------------------
(* Renewal asks for the whole life of the row once more. *)

CanRenew(t) ==
  /\ t \in Visible /\ Resolved(cache, t) /\ ui.op["renew"] = "idle"
  /\ RowTok(cache, t).renewable /\ RowTok(cache, t).exp # 0

RenewDefault(t) ==
  /\ TkTable("renew") /\ CanRenew(t) /\ ui.own > 0
  /\ TkShow(cache, [Push(ui, "renew") EXCEPT !.renewing = t, !.ttl = DefaultTtl, !.knew = RowTok(cache, t).exp, !.own = @ - 1])

Renew(t) ==
  /\ TkTable("renew") /\ CanRenew(t) /\ ui.own > 0
  /\ TkShow(cache, [Push(ui, "renew") EXCEPT !.renewing = t, !.ttl = RowTotal(t), !.knew = RowTok(cache, t).exp,
                                       !.own = @ - 1])

RenewBackStuck ==
  /\ Returned("renew")
  /\ IF ui.op["renew"] = "ok" THEN TkShow(TkRefetch(cache, {ui.renewing}), Await(ui, "renew", ui.renewing))
     ELSE TkShow(cache, Settle(ui, "renew"))

RenewBackUnread ==
  /\ Returned("renew")
  /\ IF ui.op["renew"] = "ok" THEN TkShow(cache, Await(ui, "renew", ui.renewing))
     ELSE TkShow(cache, [Settle(ui, "renew") EXCEPT !.renewing = NoTok])

RenewBack ==
  /\ Returned("renew")
  /\ IF ui.op["renew"] = "ok" THEN TkShow(TkRefetch(cache, {ui.renewing}), Await(ui, "renew", ui.renewing))
     ELSE TkShow(cache, [Settle(ui, "renew") EXCEPT !.renewing = NoTok])

(* The invalidation of a row that has gone waits for nothing. *)
RenewDone ==
  /\ ui.op["renew"] = "wait" /\ (ui.renewing \in TkRows(cache, ui) => ~Waiting(cache, {ui.renewing}))
  /\ TkShow(cache, [Settle(ui, "renew") EXCEPT !.renewing = NoTok])

-----------------------------------------------------------------------------
(* Minting: the dialog closes with the answer, whose value goes to the plate. *)

OpenMint ==
  /\ TkDoes("create") /\ TkUncovered /\ ui.own > 0
  /\ TkShow(cache, [ui EXCEPT !.creating = TRUE])

CloseCreate ==
  /\ ui.creating /\ ui.op["create"] = "idle"
  /\ TkShow(cache, [ui EXCEPT !.creating = FALSE])

SubmitMint(p) ==
  /\ ui.creating /\ ui.op["create"] = "idle" /\ ui.own > 0 /\ server.minted # Toks
  /\ TkShow(cache, [Push(ui, "create") EXCEPT !.asks = p, !.own = @ - 1])

(* A token whose answer is lost exists and nobody knows its value. *)
CreateServe(t) ==
  /\ ui.op["create"] = "sent" /\ t \notin server.minted
  /\ \/ server' = CreateEffect(t, ui.asks) /\ ui' = [ui EXCEPT !.op["create"] = "ok", !.res = t,
                                !.answered = [tok |-> server'.toks[t], index |-> server'.index]]
     \/ /\ ui.faults > 0 /\ server' \in {server, CreateEffect(t, ui.asks)}
        /\ ui' = [ui EXCEPT !.op["create"] = "failed", !.faults = @ - 1]
  /\ UNCHANGED cache

CreatedUnread ==
  /\ Returned("create")
  /\ IF ui.op["create"] = "failed" THEN TkShow(cache, Settle(ui, "create"))
     ELSE TkShow(cache, [Settle(ui, "create") EXCEPT !.creating = FALSE, !.created = ui.res, !.shown = ui.res, !.seen = ListSeen])

Created ==
  /\ Returned("create")
  /\ IF ui.op["create"] = "failed" THEN TkShow(cache, Settle(ui, "create"))
     ELSE TkShow(TkRefetch(SetData(cache, ui.res, ui.answered), {"list"}),
                 [Settle(ui, "create") EXCEPT !.creating = FALSE, !.created = ui.res, !.shown = ui.res, !.seen = ListSeen])

(* The plate is dismissed, or hides the value after two minutes. *)
Dismiss ==
  /\ ui.created # NoTok
  /\ TkShow(cache, [ui EXCEPT !.created = NoTok])

PlateForgets ==
  /\ ui.created = NoTok /\ ui.shown # NoTok
  /\ TkShow(cache, [ui EXCEPT !.shown = NoTok])

-----------------------------------------------------------------------------
(* The drawer of the own token reads it whenever it opens. *)

OpenDrawer ==
  /\ TkDoes("self") /\ TkUncovered /\ ui.own > 0
  /\ cache' = Observe(Aged(cache, {"self"}), {"self"}) /\ ui' = [ui EXCEPT !.drawer = TRUE, !.own = @ - 1]
  /\ UNCHANGED server

CloseDrawer ==
  /\ ui.drawer /\ ui.op["renewself"] = "idle"
  /\ TkShow(cache, [ui EXCEPT !.drawer = FALSE])

RenewSelf ==
  /\ ui.drawer /\ ui.op["renewself"] = "idle" /\ cache["self"].data # None /\ ui.own > 0
  /\ TkShow(cache, [Push(ui, "renewself") EXCEPT !.own = @ - 1])

RenewSelfBack ==
  /\ Returned("renewself")
  /\ TkShow(IF ui.op["renewself"] = "ok" THEN TkRefetch(cache, {"self"}) ELSE cache, Settle(ui, "renewself"))

-----------------------------------------------------------------------------
(* Time passes; another client renews, revokes or mints; the server sweeps. *)

TkTick ==
  /\ server.now < ui.ticks
  /\ server' = [server EXCEPT !.now = @ + 1]
  /\ TkRender(cache, ui, server.now + 1)

TkSwept ==
  {[server EXCEPT !.toks[t] = None, !.index = @ + 1] : t \in {x \in Toks : server.toks[x] # None /\ ~Alive(x)}}

TkOther ==
  /\ ui.others > 0
  /\ \/ "revoke" \in ui.theirs /\ \E t \in Toks : server.toks[t] # None /\ server' = RevokeEffect(t)
     \/ "renew" \in ui.theirs /\ \E t \in Toks : server' \in RenewEffect(t, MintTtl)
     \/ "mint" \in ui.theirs /\ \E t \in Toks \ server.minted, p \in TkPolicies : server' = CreateEffect(t, p)
     \/ "sweep" \in ui.theirs /\ server' \in TkSwept
  /\ ui' = [ui EXCEPT !.others = @ - 1]
  /\ UNCHANGED cache

TkDeliver(k) == cache[k].fetch = "back" /\ TkShow(Deliver(cache, k), ui)

TkInit ==
  \E sc \in TkScenes :
    /\ server = [toks |-> [t \in Toks |-> IF t \in DOMAIN sc.toks THEN sc.toks[t] ELSE None],
                 minted |-> DOMAIN sc.toks, renewed |-> {}, self |-> 0, now |-> 0, index |-> 1]
    /\ cache = Observe([k \in TkKeys |-> Blank], {"list"})
    /\ ui = [page |-> "tokens", scene |-> sc.name, ops |-> sc.ops, theirs |-> sc.theirs, ticks |-> sc.ticks,
             own |-> sc.own, others |-> sc.others, faults |-> sc.faults, op |-> [c \in TkControls |-> "idle"], at |-> [c \in TkControls |-> 0],
             seen |-> 0, policy |-> NoTok, sel |-> {}, dissolving |-> {}, gone |-> {}, timers |-> <<>>,
             confirm |-> {}, prefix |-> NoTok, sent |-> {}, answer |-> [t \in Toks |-> "no"],
             renewing |-> NoTok, ttl |-> 0, knew |-> 0, creating |-> FALSE, asks |-> NoTok, res |-> NoTok, answered |-> None,
             created |-> NoTok, shown |-> NoTok, drawer |-> FALSE]

OnTokens == ui.page = "tokens"

TkServe ==
  \/ \E t \in Toks : RevokeServe(t) \/ CreateServe(t)
  \/ OpServe("renew", RenewEffect(ui.renewing, ui.ttl)) \/ OpServe("renewself", SelfEffect)
TkBack == RevokeBack \/ RenewBack \/ RenewDone \/ Created \/ RenewSelfBack
TkTimer == FadeEnds \/ PlateForgets
TkQuery == \E k \in TkKeys : QueryServe(k, TkAnswer(k)) \/ TkDeliver(k)

TkNext ==
  \/ \E t \in Toks : TickRow(t) \/ Renew(t)
  \/ \E p \in TkPolicies \cup {NoTok} : FilterPolicy(p)
  \/ \E p \in TkPolicies : OpenPrefix(p) \/ SubmitMint(p)
  \/ \E T \in SUBSET Toks : AskRevoke(T)
  \/ TickAll \/ ClearSel \/ TkRetry \/ CancelRevoke \/ ClosePrefix \/ ConfirmRevoke
  \/ OpenMint \/ CloseCreate \/ Dismiss \/ OpenDrawer \/ CloseDrawer \/ RenewSelf
  \/ TkTick \/ TkOther \/ TkServe \/ TkBack \/ TkTimer \/ TkQuery

TkFairness ==
  /\ WF_consoleVars(OnTokens /\ TkServe) /\ WF_consoleVars(OnTokens /\ TkBack) /\ WF_consoleVars(OnTokens /\ TkTimer)
  /\ WF_consoleVars(OnTokens /\ TkQuery) /\ WF_consoleVars(OnTokens /\ Dismiss)

-----------------------------------------------------------------------------

(* The tokens page is in one of its states: a row is marked as renewing exactly
   while a renewal is under way, so the mark never outlives its request. *)
TkTypeOK ==
  OnTokens =>
    /\ ui.op \in [TkControls -> OpStates] /\ ui.renewing \in Toks \cup {NoTok}
    /\ (ui.renewing = NoTok) = (ui.op["renew"] = "idle")
    /\ ui.sent \subseteq Toks

(* A row fades away only for a token that is revoked or whose time is up: a
   revocation that failed keeps its row, whatever became of the others that
   were sent with it. The exception is a token renewed behind a lookup. *)
FadedIsDead ==
  OnTokens => \A t \in ui.gone \cup ui.dissolving : Alive(t) => t \in server.renewed

(* "Expired tokens disappear on their own", and only they and the revoked. *)
HiddenIsDead == OnTokens => \A t \in ui.gone : ~Alive(t)

(* A list at rest shows what the page itself minted and revoked, the children
   of a revoked token included. *)
ListFollows ==
  OnTokens /\ cache["list"].fetch = "idle" /\ ~cache["list"].err => cache["list"].data.index >= ui.seen

(* A renewal never shortens the life of a token the page has looked up since
   it was last renewed. *)
RenewExtends ==
  OnTokens /\ ui.op["renew"] = "sent" /\ ui'.op["renew"] = "ok" =>
    LET t == ui.renewing IN
    server.toks[t].exp = ui.knew => server'.toks[t].exp >= server.toks[t].exp

(* The spinner of a renewal ends with the new time on its row, unless the row
   has gone meanwhile. *)
RenewShown ==
  OnTokens /\ ui.op["renew"] = "wait" /\ ui'.op["renew"] = "idle" /\ ui.renewing \in TkRows(cache, ui) =>
    ChangeShown("renew", ui.renewing)

(* Requests end, rows that fade do go, and the value on the plate is forgotten. *)
TkBusy == OnTokens /\ (Busy(TkControls) \/ ui.sent # {} \/ ui.timers # <<>> \/ ui.shown # NoTok)

=============================================================================
