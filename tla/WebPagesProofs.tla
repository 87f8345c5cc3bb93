--------------------------- MODULE WebPagesProofs ---------------------------
(***************************************************************************)
(* Proofs about pages of the web console, for any set of capsules and any  *)
(* number of own actions, actions of others and failed requests.           *)
(*                                                                         *)
(* The wrapping page: what the page says about a capsule rests on requests *)
(* answered earlier and on a list read earlier. It stays true because a    *)
(* capsule only moves onward: once issued it is never unissued, once spent *)
(* it stays spent in the same way, and once late it stays late. The        *)
(* inductive invariant says for every piece of the page's state what it    *)
(* witnesses about the capsule it names.                                   *)
(***************************************************************************)
EXTENDS WebWrapping, TLAPS

CapStates == {"none", "live", "used", "revoked", "dropped"}
MaybeCap == Caps \cup {NoCap}
WrStore == [cap : [Caps -> CapStates], late : [Caps -> BOOLEAN], index : Nat]
WrEntry == [data : Lists \cup {None}, err : BOOLEAN, fresh : BOOLEAN,
            fetch : {"idle", "sent", "back"}, ans : Lists \cup {None, Failed}]
RowsType == [wait : SUBSET Caps, done : SUBSET Caps, pc : {"asked", "sent", "wait"}, pick : MaybeCap]
WrFields == {"page", "op", "req", "box", "ses", "cur", "pick", "gone", "info", "payload",
             "revealed", "asked", "dlg", "rows"}

WrPage(u) ==
  /\ WrFields \subseteq DOMAIN u /\ u.page = "wrapping"
  /\ u.op \in [WrControls -> WrCodes] /\ u.req \in [WrControls -> MaybeCap]
  /\ u.box \in [{"lookup", "unwrap"} -> MaybeCap]
  /\ u.ses \in [Caps -> Endings \cup {"unknown", "active"}]
  /\ u.cur \in MaybeCap /\ u.pick \in MaybeCap /\ u.info \in MaybeCap /\ u.payload \in MaybeCap
  /\ u.gone \in BOOLEAN /\ u.revealed \in BOOLEAN /\ u.rows \in RowsType

Spent(s, w) == s.cap[w] \in {"used", "revoked", "dropped"}
Over(s, w) == s.cap[w] # "none" /\ ~Usable(s, w)
ShownCaps(e) == IF e.data = None THEN {} ELSE e.data.caps

\* A request names an issued capsule, except a wrap, whose capsule nobody has
\* issued yet; an answer on its way tells how its capsule ended.
OpsTrue(s, op, req) ==
  /\ \A c \in WrControls : op[c] # "idle" => req[c] \in Caps
  /\ op["wrap"] = "sent" => s.cap[req["wrap"]] = "none"
  /\ \A c \in WrControls \ {"wrap"} :
       /\ op[c] # "idle" => s.cap[req[c]] # "none"
       /\ op[c] \in {"404", "410"} => Spent(s, req[c])
  /\ op["unwrap"] = "ok" => s.cap[req["unwrap"]] = "used"
  /\ op["revoke"] = "ok" => s.cap[req["revoke"]] = "revoked"

\* A box holds an issued token, and a confirmation is open only over a full box.
BoxTrue(s, box, dlg) ==
  /\ \A b \in {"lookup", "unwrap"} : box[b] # NoCap => s.cap[box[b]] # "none"
  /\ dlg = "revoke" => box["lookup"] # NoCap
  /\ dlg = "unwrap" => box["unwrap"] # NoCap

\* The endings noted in the session happened.
SesTrue(s, ses) ==
  \A w \in Caps : /\ ses[w] \in {"used", "revoked"} => s.cap[w] = ses[w]
                  /\ ses[w] \in {"expired", "missing"} => Spent(s, w)

\* The rows reported as revoked are.
RowsTrue(s, rows) == \A w \in rows.done : s.cap[w] = "revoked"

\* The lists, shown or on their way, hold issued capsules, and a capsule that a
\* newer list lacks is over.
ListTrue(s, e) ==
  /\ e.fetch = "back" => e.ans # None
  /\ \A w \in ShownCaps(e) : s.cap[w] # "none"
  /\ e.ans \in Lists => /\ \A w \in e.ans.caps : s.cap[w] # "none"
                        /\ \A w \in ShownCaps(e) \ e.ans.caps : Over(s, w)

\* The picked row is issued, revoked if the page says so, and over if it is not
\* in the list that is shown or on its way.
PickTrue(s, e, pick, gone) ==
  pick # NoCap => /\ s.cap[pick] # "none"
                  /\ gone => s.cap[pick] = "revoked"
                  /\ pick \in ShownCaps(e) \/ Over(s, pick)
                  /\ e.ans \in Lists => pick \in e.ans.caps \/ Over(s, pick)

\* A payload was unwrapped here and is shown only when that was asked for it.
ClearTrue(s, payload, revealed, asked) ==
  payload # NoCap => s.cap[payload] = "used" /\ (revealed => asked = payload)

\* The inductive invariant of the wrapping page.
WrCore ==
  /\ server \in WrStore /\ cache \in [{"list"} -> WrEntry] /\ WrPage(ui)
  /\ OpsTrue(server, ui.op, ui.req)
  /\ BoxTrue(server, ui.box, ui.dlg)
  /\ SesTrue(server, ui.ses)
  /\ RowsTrue(server, ui.rows)
  /\ ListTrue(server, cache["list"])
  /\ PickTrue(server, cache["list"], ui.pick, ui.gone)
  /\ ClearTrue(server, ui.payload, ui.revealed, ui.asked)

\* From s to t a capsule only moves onward.
Onward(s, t) ==
  \A w \in Caps : /\ s.cap[w] # "none" => t.cap[w] # "none"
                  /\ Spent(s, w) => t.cap[w] = s.cap[w]
                  /\ s.late[w] => t.late[w]
-----------------------------------------------------------------------------

\* What the page remembers about capsules stays true as they move onward
\* (wrapping.go stores every capsule under a fresh random id).
LEMMA OnwardKeeps ==
  ASSUME NEW s \in WrStore, NEW t \in WrStore, Onward(s, t)
  PROVE  /\ \A w \in Caps : Over(s, w) => Over(t, w)
         /\ \A box \in [{"lookup", "unwrap"} -> MaybeCap] : \A dlg : BoxTrue(s, box, dlg) => BoxTrue(t, box, dlg)
         /\ \A ses \in [Caps -> Endings \cup {"unknown", "active"}] : SesTrue(s, ses) => SesTrue(t, ses)
         /\ \A rows \in RowsType : RowsTrue(s, rows) => RowsTrue(t, rows)
         /\ \A e \in WrEntry : ListTrue(s, e) => ListTrue(t, e)
         /\ \A e \in WrEntry, p \in MaybeCap, g \in BOOLEAN : PickTrue(s, e, p, g) => PickTrue(t, e, p, g)
         /\ \A p \in MaybeCap : \A r, a : ClearTrue(s, p, r, a) => ClearTrue(t, p, r, a)
<1>1. \A w \in Caps : /\ s.cap[w] # "none" => t.cap[w] # "none"
                      /\ Spent(s, w) => t.cap[w] = s.cap[w]
                      /\ s.cap[w] = "used" => t.cap[w] = "used"
                      /\ s.cap[w] = "revoked" => t.cap[w] = "revoked"
                      /\ Spent(s, w) => Spent(t, w)
                      /\ Over(s, w) => Over(t, w)
  BY DEF Onward, Spent, Over, Usable, WrStore, CapStates
<1>2. NoCap \notin Caps
  BY WrConstants
<1>3. \A box \in [{"lookup", "unwrap"} -> MaybeCap] : \A dlg : BoxTrue(s, box, dlg) => BoxTrue(t, box, dlg)
  BY <1>1, <1>2 DEF BoxTrue, MaybeCap
<1>4. \A ses \in [Caps -> Endings \cup {"unknown", "active"}] : SesTrue(s, ses) => SesTrue(t, ses)
  BY <1>1 DEF SesTrue
<1>5. \A rows \in RowsType : RowsTrue(s, rows) => RowsTrue(t, rows)
  BY <1>1 DEF RowsTrue, RowsType
<1>6. \A e \in WrEntry : ShownCaps(e) \subseteq Caps
  BY DEF ShownCaps, WrEntry, Lists
<1>7. \A e \in WrEntry : ListTrue(s, e) => ListTrue(t, e)
  BY <1>1, <1>6 DEF ListTrue, Lists
<1>8. \A e \in WrEntry, p \in MaybeCap, g \in BOOLEAN : PickTrue(s, e, p, g) => PickTrue(t, e, p, g)
  BY <1>1, <1>2 DEF PickTrue, MaybeCap
<1>9. \A p \in MaybeCap : \A r, a : ClearTrue(s, p, r, a) => ClearTrue(t, p, r, a)
  BY <1>1, <1>2 DEF ClearTrue, MaybeCap
<1> QED
  BY <1>1, <1>3, <1>4, <1>5, <1>7, <1>8, <1>9

\* invalidateQueries keeps what is shown and drops what is on its way.
LEMMA RefetchKeeps ==
  ASSUME cache \in [{"list"} -> WrEntry]
  PROVE  /\ WrRefetch \in [{"list"} -> WrEntry]
         /\ ShownCaps(WrRefetch["list"]) = ShownCaps(cache["list"])
         /\ \A s : ListTrue(s, cache["list"]) => ListTrue(s, WrRefetch["list"])
         /\ \A s, p, g : PickTrue(s, cache["list"], p, g) => PickTrue(s, WrRefetch["list"], p, g)
<1> DEFINE e == cache["list"]
           f == WrRefetch["list"]
<1>1. e \in WrEntry
  OBVIOUS
<1>2. /\ WrRefetch = [k \in {"list"} |-> f]
      /\ f = IF e.fetch # "idle" /\ e.data = None THEN e ELSE Ask([e EXCEPT !.fresh = FALSE])
  BY Zenon DEF WrRefetch, Invalidate
<1> HIDE DEF e, f
<1>3. /\ f \in WrEntry /\ f.data = e.data
      /\ f = e \/ (f.ans = None /\ f.fetch = "sent")
  <2>1. CASE f = e
    BY <1>1, <2>1
  <2>2. CASE f = Ask([e EXCEPT !.fresh = FALSE])
    BY Zenon, <1>1, <2>2 DEF Ask, WrEntry
  <2> QED
    BY <1>2, <2>1, <2>2
<1>4. ShownCaps(f) = ShownCaps(e)
  BY <1>3 DEF ShownCaps
<1>5. f = e \/ (f.ans \notin Lists /\ f.fetch # "back")
  BY <1>3, WrConstants
<1>6. \A s : ListTrue(s, e) => ListTrue(s, f)
  BY <1>4, <1>5 DEF ListTrue
<1>7. \A s, p, g : PickTrue(s, e, p, g) => PickTrue(s, f, p, g)
  BY <1>4, <1>5 DEF PickTrue
<1>8. WrRefetch \in [{"list"} -> WrEntry]
  BY <1>2, <1>3
<1> QED
  BY <1>4, <1>6, <1>7, <1>8 DEF e, f
\* Whether capsules that nobody issued stay so: what a wrap on its way needs.
NoneStay(s, t) == \A w \in Caps : s.cap[w] = "none" => t.cap[w] = "none"

\* Requests and answers on their way stay true as capsules move onward.
LEMMA OpsOnward ==
  ASSUME NEW s \in WrStore, NEW t \in WrStore, Onward(s, t),
         NEW op \in [WrControls -> WrCodes], NEW req \in [WrControls -> MaybeCap], OpsTrue(s, op, req)
  PROVE  /\ NoneStay(s, t) => OpsTrue(t, op, req)
         /\ \A c \in WrControls, code \in WrCodes :
              /\ op[c] = "sent" /\ code \notin {"idle", "sent"}
              /\ c # "wrap" => NoneStay(s, t)
              /\ c # "wrap" /\ code \in {"404", "410"} => Spent(t, req[c])
              /\ c = "unwrap" /\ code = "ok" => t.cap[req[c]] = "used"
              /\ c = "revoke" /\ code = "ok" => t.cap[req[c]] = "revoked"
              => OpsTrue(t, [op EXCEPT ![c] = code], req)
<1>1. \A w \in Caps : /\ s.cap[w] # "none" => t.cap[w] # "none"
                      /\ Spent(s, w) => Spent(t, w)
                      /\ s.cap[w] = "used" => t.cap[w] = "used"
                      /\ s.cap[w] = "revoked" => t.cap[w] = "revoked"
  BY DEF Onward, Spent
<1>2. \A c \in WrControls : op[c] # "idle" => req[c] \in Caps
  BY DEF OpsTrue
<1>3. NoneStay(s, t) => OpsTrue(t, op, req)
  BY <1>1, <1>2 DEF OpsTrue, NoneStay, WrControls
<1>4. SUFFICES ASSUME NEW c \in WrControls, NEW code \in WrCodes,
                      op[c] = "sent", code \notin {"idle", "sent"},
                      c # "wrap" => NoneStay(s, t),
                      c # "wrap" /\ code \in {"404", "410"} => Spent(t, req[c]),
                      c = "unwrap" /\ code = "ok" => t.cap[req[c]] = "used",
                      c = "revoke" /\ code = "ok" => t.cap[req[c]] = "revoked"
               PROVE  OpsTrue(t, [op EXCEPT ![c] = code], req)
  BY <1>3
<1> DEFINE new == [op EXCEPT ![c] = code]
<1>5. /\ new[c] = code
      /\ \A d \in WrControls \ {c} : new[d] = op[d]
  OBVIOUS
<1> HIDE DEF new
<1>6. \A d \in WrControls : new[d] # "idle" => req[d] \in Caps
  BY <1>2, <1>4, <1>5
<1>7. new["wrap"] = "sent" => t.cap[req["wrap"]] = "none"
  BY <1>2, <1>4, <1>5 DEF OpsTrue, NoneStay, WrControls
<1>8. ASSUME NEW d \in WrControls \ {"wrap"}
      PROVE  /\ new[d] # "idle" => t.cap[req[d]] # "none"
             /\ new[d] \in {"404", "410"} => Spent(t, req[d])
  BY <1>1, <1>2, <1>4, <1>5 DEF OpsTrue
<1>9. new["unwrap"] = "ok" => t.cap[req["unwrap"]] = "used"
  BY <1>1, <1>2, <1>4, <1>5 DEF OpsTrue, WrControls
<1>10. new["revoke"] = "ok" => t.cap[req["revoke"]] = "revoked"
  BY <1>1, <1>2, <1>4, <1>5 DEF OpsTrue, WrControls
<1>11. OpsTrue(t, new, req)
  BY <1>6, <1>7, <1>8, <1>9, <1>10 DEF OpsTrue
<1> QED
  BY <1>11 DEF new

\* A live capsule may be used, revoked or dropped, one that nobody issued may be
\* issued, and any may become late.
LEMMA CapMoves ==
  ASSUME server \in WrStore, NEW w \in Caps
  PROVE  /\ \A st \in CapStates : CapSet(w, st) \in WrStore /\ CapSet(w, st).cap[w] = st
         /\ \A st \in {"used", "revoked", "dropped"} :
              server.cap[w] = "live" => Onward(server, CapSet(w, st)) /\ NoneStay(server, CapSet(w, st))
         /\ server.cap[w] = "none" => Onward(server, CapSet(w, "live"))
         /\ [server EXCEPT !.late[w] = TRUE] \in WrStore
         /\ Onward(server, [server EXCEPT !.late[w] = TRUE])
         /\ NoneStay(server, [server EXCEPT !.late[w] = TRUE])
         /\ Onward(server, server) /\ NoneStay(server, server)
<1>1. ASSUME NEW st \in CapStates
      PROVE  /\ CapSet(w, st) \in WrStore
             /\ CapSet(w, st).cap[w] = st
             /\ \A v \in Caps \ {w} : CapSet(w, st).cap[v] = server.cap[v]
             /\ CapSet(w, st).late = server.late
  <2> DEFINE t == [server EXCEPT !.cap[w] = st]
  <2>1. /\ server.cap \in [Caps -> CapStates] /\ server.late \in [Caps -> BOOLEAN]
        /\ server.index \in Nat /\ DOMAIN server = {"cap", "late", "index"}
    BY DEF WrStore
  <2>2. /\ t \in WrStore /\ t.cap[w] = st /\ t.late = server.late /\ t.index = server.index
        /\ \A v \in Caps \ {w} : t.cap[v] = server.cap[v]
    BY <2>1 DEF WrStore
  <2>3. CapSet(w, st) = [t EXCEPT !.index = t.index + 1]
    BY <2>2 DEF CapSet
  <2> HIDE DEF t
  <2> QED
    BY <2>2, <2>3 DEF WrStore
<1>2. /\ [server EXCEPT !.late[w] = TRUE] \in WrStore
      /\ [server EXCEPT !.late[w] = TRUE].cap = server.cap
      /\ \A v \in Caps : server.late[v] => [server EXCEPT !.late[w] = TRUE].late[v]
  BY Zenon DEF WrStore
<1>3. ASSUME NEW st \in {"used", "revoked", "dropped"}, server.cap[w] = "live"
      PROVE  Onward(server, CapSet(w, st)) /\ NoneStay(server, CapSet(w, st))
  <2>1. st \in CapStates
    BY DEF CapStates
  <2> QED
    BY <1>1, <1>3, <2>1 DEF Onward, NoneStay, Spent
<1>4. server.cap[w] = "none" => Onward(server, CapSet(w, "live"))
  <2>1. "live" \in CapStates
    BY DEF CapStates
  <2> QED
    BY <1>1, <2>1 DEF Onward, Spent
<1>5. /\ Onward(server, [server EXCEPT !.late[w] = TRUE])
      /\ NoneStay(server, [server EXCEPT !.late[w] = TRUE])
      /\ Onward(server, server) /\ NoneStay(server, server)
  BY Zenon, <1>2 DEF Onward, NoneStay
<1> QED
  BY <1>1, <1>2, <1>3, <1>4, <1>5
\* What the server answers to a request of the page, and what becomes of its
\* capsule (Unwrap, Lookup, Revoke and WrapWithMeta of wrapping.go).
LEMMA ServedTruly ==
  ASSUME WrCore, NEW c \in WrControls, ui.op[c] = "sent"
  PROVE  /\ WrResult(c)[2] \in WrStore /\ Onward(server, WrResult(c)[2])
         /\ WrResult(c)[1] \in {"ok", "404", "410"}
         /\ c # "wrap" => NoneStay(server, WrResult(c)[2])
         /\ c # "wrap" /\ WrResult(c)[1] \in {"404", "410"} => Spent(WrResult(c)[2], ui.req[c])
         /\ c = "unwrap" /\ WrResult(c)[1] = "ok" => WrResult(c)[2].cap[ui.req[c]] = "used"
         /\ c = "revoke" /\ WrResult(c)[1] = "ok" => WrResult(c)[2].cap[ui.req[c]] = "revoked"
<1> DEFINE w == ui.req[c]
<1>1. /\ w \in Caps /\ server \in WrStore /\ server.cap[w] \in CapStates
      /\ c = "wrap" => server.cap[w] = "none"
      /\ c # "wrap" => server.cap[w] # "none"
  BY DEF WrCore, WrPage, OpsTrue, WrStore
<1>2. c # "wrap" /\ server.cap[w] # "live" => Spent(server, w)
  BY <1>1 DEF Spent, CapStates
<1>3. \A st \in CapStates : CapSet(w, st) \in WrStore /\ CapSet(w, st).cap[w] = st
  BY Zenon, <1>1, CapMoves
<1>4. \A st \in {"used", "revoked", "dropped"} :
        server.cap[w] = "live" => Onward(server, CapSet(w, st)) /\ NoneStay(server, CapSet(w, st))
  BY Zenon, <1>1, CapMoves
<1>5. server.cap[w] = "none" => Onward(server, CapSet(w, "live"))
  BY Zenon, <1>1, CapMoves
<1>6. Onward(server, server) /\ NoneStay(server, server)
  BY Zenon, <1>1, CapMoves
<1>7. Spent(CapSet(w, "dropped"), w)
  BY <1>3 DEF Spent, CapStates
<1> HIDE DEF w
<1>8. CASE c = "wrap"
  <2>1. WrResult(c) = <<"ok", CapSet(w, "live")>>
    BY Zenon, <1>8 DEF WrResult, Wrap, w
  <2> QED
    BY <1>1, <1>3, <1>5, <1>8, <2>1 DEF w, CapStates
<1>9. CASE c = "lookup"
  <2>1. WrResult(c) = Lookup(w)
    BY Zenon, <1>9 DEF WrResult, w
  <2> QED
    BY <1>1, <1>2, <1>3, <1>4, <1>6, <1>7, <1>9, <2>1 DEF w, CapStates, Lookup
<1>10. CASE c = "unwrap"
  <2>1. WrResult(c) = Unwrap(w)
    BY <1>10 DEF WrResult, w
  <2> QED
    BY <1>1, <1>2, <1>3, <1>4, <1>6, <1>7, <1>10, <2>1 DEF w, CapStates, Unwrap
<1>11. CASE c = "revoke"
  <2>1. WrResult(c) = Revoke(w)
    BY <1>11 DEF WrResult, w
  <2> QED
    BY <1>1, <1>2, <1>3, <1>4, <1>6, <1>7, <1>11, <2>1 DEF w, CapStates, Revoke
<1> QED
  BY Zenon, <1>8, <1>9, <1>10, <1>11 DEF WrControls

\* A step of the server leaves what the page knows true.
LEMMA ServerStep ==
  ASSUME WrCore, server' \in WrStore, Onward(server, server'), cache' = cache, WrPage(ui'),
         ui'.box = ui.box, ui'.dlg = ui.dlg, ui'.ses = ui.ses, ui'.pick = ui.pick, ui'.gone = ui.gone,
         ui'.payload = ui.payload, ui'.revealed = ui.revealed, ui'.asked = ui.asked,
         OpsTrue(server', ui'.op, ui'.req), RowsTrue(server', ui'.rows)
  PROVE  WrCore'
<1>1. server \in WrStore /\ cache["list"] \in WrEntry /\ WrPage(ui)
  BY DEF WrCore
<1>2. /\ BoxTrue(server', ui.box, ui.dlg)
      /\ SesTrue(server', ui.ses)
      /\ ListTrue(server', cache["list"])
      /\ PickTrue(server', cache["list"], ui.pick, ui.gone)
      /\ ClearTrue(server', ui.payload, ui.revealed, ui.asked)
  BY <1>1, OnwardKeeps DEF WrCore, WrPage
<1> QED
  BY <1>2 DEF WrCore

\* One more request is answered, or its answer is lost.
LEMMA WrServeKeeps ==
  ASSUME WrCore, NEW c \in WrControls, WrServe(c)
  PROVE  WrCore'
<1> DEFINE r == WrResult(c)
<1>1. PICK code \in {r[1], "lost"} :
        /\ server' = r[2] \/ (server' = server /\ code = "lost")
        /\ ui' = [ui EXCEPT !.op[c] = code] \/ ui' = [ui EXCEPT !.op[c] = code, !.faults = @ - 1]
        /\ cache' = cache /\ ui.op[c] = "sent"
  BY DEF WrServe
<1>2. /\ server \in WrStore /\ WrPage(ui) /\ OpsTrue(server, ui.op, ui.req) /\ RowsTrue(server, ui.rows)
      /\ ui.op \in [WrControls -> WrCodes] /\ ui.req \in [WrControls -> MaybeCap] /\ ui.rows \in RowsType
      /\ ui.req[c] \in Caps
  BY <1>1 DEF WrCore, WrPage, OpsTrue
<1>3. /\ r[2] \in WrStore /\ Onward(server, r[2])
      /\ r[1] \in {"ok", "404", "410"}
      /\ c # "wrap" => NoneStay(server, r[2])
      /\ c # "wrap" /\ r[1] \in {"404", "410"} => Spent(r[2], ui.req[c])
      /\ c = "unwrap" /\ r[1] = "ok" => r[2].cap[ui.req[c]] = "used"
      /\ c = "revoke" /\ r[1] = "ok" => r[2].cap[ui.req[c]] = "revoked"
  BY <1>1, ServedTruly
<1>4. Onward(server, server) /\ NoneStay(server, server)
  BY Zenon, <1>2, CapMoves
<1> HIDE DEF r
<1>5. /\ server' \in WrStore /\ Onward(server, server') /\ code \in WrCodes /\ code \notin {"idle", "sent"}
      /\ c # "wrap" => NoneStay(server, server')
      /\ c # "wrap" /\ code \in {"404", "410"} => Spent(server', ui.req[c])
      /\ c = "unwrap" /\ code = "ok" => server'.cap[ui.req[c]] = "used"
      /\ c = "revoke" /\ code = "ok" => server'.cap[ui.req[c]] = "revoked"
  BY <1>1, <1>2, <1>3, <1>4 DEF WrCodes
<1>6. OpsTrue(server', [ui.op EXCEPT ![c] = code], ui.req)
  BY <1>1, <1>2, <1>5, OpsOnward
<1>7. RowsTrue(server', ui.rows)
  BY <1>2, <1>5, OnwardKeeps
<1>8. /\ \A f \in WrFields \ {"op"} : ui'[f] = ui[f]
      /\ ui'.op = [ui.op EXCEPT ![c] = code]
      /\ WrFields \subseteq DOMAIN ui'
  BY ZenonT(40), <1>1, <1>2 DEF WrPage, WrFields
<1>9. ui'.op \in [WrControls -> WrCodes]
  BY <1>2, <1>5, <1>8
<1>10. /\ ui'.page = ui.page /\ ui'.req = ui.req /\ ui'.box = ui.box /\ ui'.dlg = ui.dlg /\ ui'.ses = ui.ses
       /\ ui'.cur = ui.cur /\ ui'.pick = ui.pick /\ ui'.gone = ui.gone /\ ui'.info = ui.info
       /\ ui'.payload = ui.payload /\ ui'.revealed = ui.revealed /\ ui'.asked = ui.asked /\ ui'.rows = ui.rows
  BY <1>8 DEF WrFields
<1>11. WrPage(ui')
  BY <1>2, <1>8, <1>9, <1>10 DEF WrPage
<1> QED
  BY <1>1, <1>5, <1>6, <1>7, <1>8, <1>10, <1>11, ServerStep
\* A row of the bulk revocation is answered (RevokeByAccessor), or its answer is
\* lost.
LEMMA RowServeKeeps ==
  ASSUME WrCore, NEW w \in Caps, RowServe(w)
  PROVE  WrCore'
<1> DEFINE r == Revoke(w)
<1>1. PICK done \in {ui.rows.done, ui.rows.done \cup {w}} :
        /\ server' \in {server, r[2]} /\ cache' = cache
        /\ done # ui.rows.done => server' = r[2] /\ r[1] = "ok"
        /\ \/ ui' = [ui EXCEPT !.rows.wait = @ \ {w}] /\ done = ui.rows.done
           \/ ui' = [[ui EXCEPT !.rows.wait = @ \ {w}] EXCEPT !.rows.done = @ \cup {w}] /\ done = ui.rows.done \cup {w}
           \/ ui' = [[ui EXCEPT !.rows.wait = @ \ {w}] EXCEPT !.faults = @ - 1] /\ done = ui.rows.done
  BY DEF RowServe
<1>2. /\ server \in WrStore /\ WrPage(ui) /\ OpsTrue(server, ui.op, ui.req) /\ RowsTrue(server, ui.rows)
      /\ ui.op \in [WrControls -> WrCodes] /\ ui.req \in [WrControls -> MaybeCap] /\ ui.rows \in RowsType
      /\ "rows" \in DOMAIN ui
  BY DEF WrCore, WrPage, WrFields
<1>3. /\ r[2] \in WrStore /\ Onward(server, r[2]) /\ NoneStay(server, r[2])
      /\ r[1] = "ok" => r[2].cap[w] = "revoked"
  <2>1. \A st \in CapStates : CapSet(w, st) \in WrStore /\ CapSet(w, st).cap[w] = st
    BY Zenon, <1>2, CapMoves
  <2>2. \A st \in {"used", "revoked", "dropped"} :
          server.cap[w] = "live" => Onward(server, CapSet(w, st)) /\ NoneStay(server, CapSet(w, st))
    BY Zenon, <1>2, CapMoves
  <2>3. Onward(server, server) /\ NoneStay(server, server)
    BY Zenon, <1>2, CapMoves
  <2> QED
    BY <1>2, <2>1, <2>2, <2>3 DEF Revoke, CapStates
<1>4. Onward(server, server) /\ NoneStay(server, server)
  BY Zenon, <1>2, CapMoves
<1> HIDE DEF r
<1>5. server' \in WrStore /\ Onward(server, server') /\ NoneStay(server, server')
  BY <1>1, <1>2, <1>3, <1>4
<1>6. OpsTrue(server', ui.op, ui.req)
  BY <1>2, <1>5, OpsOnward
<1>7. /\ \A f \in WrFields \ {"rows"} : ui'[f] = ui[f]
      /\ WrFields \subseteq DOMAIN ui'
  BY Zenon, <1>1, <1>2 DEF WrPage, WrFields
<1>8. ui'.rows \in RowsType /\ ui'.rows.done = done
  <2> DEFINE less == [ui.rows EXCEPT !.wait = @ \ {w}]
             more == [less EXCEPT !.done = @ \cup {w}]
  <2>1. less \in RowsType /\ less.done = ui.rows.done
    BY <1>2 DEF RowsType
  <2>2. \/ ui'.rows = less /\ done = ui.rows.done
        \/ ui'.rows = more /\ done = ui.rows.done \cup {w}
    BY Zenon, <1>1, <1>2
  <2> HIDE DEF less
  <2>3. more \in RowsType /\ more.done = ui.rows.done \cup {w}
    BY <2>1 DEF RowsType
  <2> QED
    BY Zenon, <2>1, <2>2, <2>3
<1>9. RowsTrue(server', ui.rows)
  BY <1>2, <1>5, OnwardKeeps
<1>10. RowsTrue(server', ui'.rows)
  BY <1>1, <1>3, <1>8, <1>9 DEF RowsTrue
<1>11. /\ ui'.page = ui.page /\ ui'.op = ui.op /\ ui'.req = ui.req /\ ui'.box = ui.box /\ ui'.dlg = ui.dlg
       /\ ui'.ses = ui.ses /\ ui'.cur = ui.cur /\ ui'.pick = ui.pick /\ ui'.gone = ui.gone /\ ui'.info = ui.info
       /\ ui'.payload = ui.payload /\ ui'.revealed = ui.revealed /\ ui'.asked = ui.asked
  BY <1>7 DEF WrFields
<1>12. WrPage(ui')
  BY <1>2, <1>7, <1>8, <1>11 DEF WrPage
<1> QED
  BY <1>1, <1>5, <1>6, <1>10, <1>11, <1>12, ServerStep

\* Others consume or revoke a capsule, or its time runs out.
LEMMA WrOtherKeeps ==
  ASSUME WrCore, NEW w \in Caps, WrOther(w)
  PROVE  WrCore'
<1>1. /\ server \in WrStore /\ WrPage(ui) /\ OpsTrue(server, ui.op, ui.req) /\ RowsTrue(server, ui.rows)
      /\ ui.op \in [WrControls -> WrCodes] /\ ui.req \in [WrControls -> MaybeCap] /\ ui.rows \in RowsType
  BY DEF WrCore, WrPage
<1>2. server.cap[w] = "live"
  BY DEF WrOther, Usable
<1>3. /\ CapSet(w, "used") \in WrStore /\ Onward(server, CapSet(w, "used")) /\ NoneStay(server, CapSet(w, "used"))
      /\ CapSet(w, "revoked") \in WrStore /\ Onward(server, CapSet(w, "revoked")) /\ NoneStay(server, CapSet(w, "revoked"))
  BY Zenon, <1>1, <1>2, CapMoves DEF CapStates
<1>4. /\ [server EXCEPT !.late[w] = TRUE] \in WrStore
      /\ Onward(server, [server EXCEPT !.late[w] = TRUE]) /\ NoneStay(server, [server EXCEPT !.late[w] = TRUE])
  BY Zenon, <1>1, CapMoves
<1>5. server' \in WrStore /\ Onward(server, server') /\ NoneStay(server, server')
  BY Zenon, <1>3, <1>4 DEF WrOther
<1>6. OpsTrue(server', ui.op, ui.req)
  BY <1>1, <1>5, OpsOnward
<1>7. RowsTrue(server', ui.rows)
  BY <1>1, <1>5, OnwardKeeps
<1>8. /\ \A f \in WrFields : ui'[f] = ui[f]
      /\ WrFields \subseteq DOMAIN ui'
      /\ cache' = cache
  BY <1>1 DEF WrPage, WrFields, WrOther
<1>9. /\ ui'.page = ui.page /\ ui'.op = ui.op /\ ui'.req = ui.req /\ ui'.box = ui.box /\ ui'.dlg = ui.dlg
      /\ ui'.ses = ui.ses /\ ui'.cur = ui.cur /\ ui'.pick = ui.pick /\ ui'.gone = ui.gone /\ ui'.info = ui.info
      /\ ui'.payload = ui.payload /\ ui'.revealed = ui.revealed /\ ui'.asked = ui.asked /\ ui'.rows = ui.rows
  BY <1>8 DEF WrFields
<1>10. WrPage(ui')
  BY <1>1, <1>8, <1>9 DEF WrPage
<1> QED
  BY <1>5, <1>6, <1>7, <1>8, <1>9, <1>10, ServerStep
\* Which fields of the page's state a step leaves alone.
SameBut(u, v, F) == WrFields \subseteq DOMAIN v /\ \A f \in WrFields \ F : v[f] = u[f]

\* The fields that a step leaves alone, one by one.
LEMMA SameFields ==
  ASSUME NEW F, SameBut(ui, ui', F)
  PROVE  /\ WrFields \subseteq DOMAIN ui'
         /\ "page" \notin F => ui'.page = ui.page
         /\ "op" \notin F => ui'.op = ui.op
         /\ "req" \notin F => ui'.req = ui.req
         /\ "box" \notin F => ui'.box = ui.box
         /\ "ses" \notin F => ui'.ses = ui.ses
         /\ "cur" \notin F => ui'.cur = ui.cur
         /\ "pick" \notin F => ui'.pick = ui.pick
         /\ "gone" \notin F => ui'.gone = ui.gone
         /\ "info" \notin F => ui'.info = ui.info
         /\ "payload" \notin F => ui'.payload = ui.payload
         /\ "revealed" \notin F => ui'.revealed = ui.revealed
         /\ "asked" \notin F => ui'.asked = ui.asked
         /\ "dlg" \notin F => ui'.dlg = ui.dlg
         /\ "rows" \notin F => ui'.rows = ui.rows
  BY DEF SameBut, WrFields

\* A step of the page, which at most refetches the list.
LEMMA PageStep ==
  ASSUME WrCore, server' = server, cache' \in {cache, WrRefetch}, WrPage(ui'),
         OpsTrue(server, ui'.op, ui'.req), BoxTrue(server, ui'.box, ui'.dlg), SesTrue(server, ui'.ses),
         RowsTrue(server, ui'.rows), PickTrue(server, cache["list"], ui'.pick, ui'.gone),
         ClearTrue(server, ui'.payload, ui'.revealed, ui'.asked)
  PROVE  WrCore'
<1>1. cache \in [{"list"} -> WrEntry] /\ ListTrue(server, cache["list"])
  BY DEF WrCore
<1>2. /\ WrRefetch \in [{"list"} -> WrEntry]
      /\ ListTrue(server, WrRefetch["list"])
      /\ PickTrue(server, WrRefetch["list"], ui'.pick, ui'.gone)
  BY <1>1, RefetchKeeps
<1> QED
  BY <1>1, <1>2 DEF WrCore

\* A step of the page that changes the fields F only, none of which is a request,
\* a box, the session or the rows: it may pick, open or close a dialog, or mask
\* and clear a payload.
LEMMA QuietStep ==
  ASSUME WrCore, server' = server, cache' \in {cache, WrRefetch}, NEW F, SameBut(ui, ui', F),
         F \cap {"page", "op", "req", "box", "ses", "rows"} = {},
         "cur" \in F => ui'.cur \in MaybeCap,
         "info" \in F => ui'.info \in MaybeCap,
         "dlg" \in F => BoxTrue(server, ui.box, ui'.dlg),
         F \cap {"pick", "gone"} # {} =>
           ui'.pick \in MaybeCap /\ ui'.gone \in BOOLEAN /\ PickTrue(server, cache["list"], ui'.pick, ui'.gone),
         F \cap {"payload", "revealed", "asked"} # {} =>
           ui'.payload \in MaybeCap /\ ui'.revealed \in BOOLEAN /\ ClearTrue(server, ui'.payload, ui'.revealed, ui'.asked)
  PROVE  WrCore'
<1>1. /\ ui'.page = ui.page /\ ui'.op = ui.op /\ ui'.req = ui.req /\ ui'.box = ui.box
      /\ ui'.ses = ui.ses /\ ui'.rows = ui.rows /\ WrFields \subseteq DOMAIN ui'
  BY Zenon, SameFields
<1>2. /\ ui'.cur \in MaybeCap /\ ui'.info \in MaybeCap /\ BoxTrue(server, ui'.box, ui'.dlg)
  BY <1>1, SameFields DEF WrCore, WrPage
<1>3. ui'.pick \in MaybeCap /\ ui'.gone \in BOOLEAN /\ PickTrue(server, cache["list"], ui'.pick, ui'.gone)
  <2>1. CASE "pick" \notin F /\ "gone" \notin F
    BY <2>1, SameFields DEF WrCore, WrPage
  <2>2. CASE "pick" \in F \/ "gone" \in F
    BY <2>2
  <2> QED
    BY <2>1, <2>2
<1>4. /\ ui'.payload \in MaybeCap /\ ui'.revealed \in BOOLEAN
      /\ ClearTrue(server, ui'.payload, ui'.revealed, ui'.asked)
  <2>1. CASE "payload" \notin F /\ "revealed" \notin F /\ "asked" \notin F
    BY <2>1, SameFields DEF WrCore, WrPage
  <2>2. CASE "payload" \in F \/ "revealed" \in F \/ "asked" \in F
    BY Zenon, <2>2
  <2> QED
    BY <2>1, <2>2
<1>5. WrPage(ui')
  BY Zenon, <1>1, <1>2, <1>3, <1>4 DEF WrPage, WrCore
<1>6. OpsTrue(server, ui'.op, ui'.req) /\ SesTrue(server, ui'.ses) /\ RowsTrue(server, ui'.rows)
  BY <1>1 DEF WrCore
<1> QED
  BY <1>2, <1>3, <1>4, <1>5, <1>6, PageStep
\* What the steps of the page find true of its own state.
LEMMA PageFacts ==
  ASSUME WrCore
  PROVE  /\ WrFields \subseteq DOMAIN ui /\ server \in WrStore /\ cache["list"] \in WrEntry
         /\ ui.cur \in MaybeCap /\ ui.pick \in MaybeCap /\ ui.info \in MaybeCap /\ ui.payload \in MaybeCap
         /\ ui.gone \in BOOLEAN /\ ui.revealed \in BOOLEAN /\ ui.rows \in RowsType
         /\ BoxTrue(server, ui.box, ui.dlg) /\ ListTrue(server, cache["list"])
         /\ PickTrue(server, cache["list"], ui.pick, ui.gone)
         /\ ClearTrue(server, ui.payload, ui.revealed, ui.asked)
         /\ NoCap \in MaybeCap /\ Caps \subseteq MaybeCap /\ NoCap \notin Caps
  BY WrConstants DEF WrCore, WrPage, MaybeCap

\* The timers and the checkboxes change nothing that matters here.
LEMMA IdleActionsKeep ==
  ASSUME WrCore, (\E w \in Caps : WrTick(w) \/ CheckRow(w)) \/ CheckAll \/ StageTimer
  PROVE  WrCore'
<1>1. server' = server /\ cache' \in {cache, WrRefetch}
  BY DEF WrTick, CheckRow, CheckAll, StageTimer, WrRender
<1>2. SameBut(ui, ui', {})
  <2>1. WrFields \subseteq DOMAIN ui
    BY PageFacts
  <2>2. CASE \E w \in Caps : WrTick(w)
    BY <2>1, <2>2 DEF WrTick, WrRender, SameBut, WrFields
  <2>3. CASE \E w \in Caps : CheckRow(w)
    BY <2>1, <2>3 DEF CheckRow, WrRender, SameBut, WrFields
  <2>4. CASE CheckAll
    BY <2>1, <2>4 DEF CheckAll, WrRender, SameBut, WrFields
  <2>5. CASE StageTimer
    BY <2>1, <2>5 DEF StageTimer, WrRender, SameBut, WrFields
  <2> QED
    BY <2>2, <2>3, <2>4, <2>5
<1> QED
  BY <1>1, <1>2, QuietStep

\* A payload is shown, masked and cleared.
LEMMA PayloadActionsKeep ==
  ASSUME WrCore, AutoMaskPayload \/ ClearPayload \/ ToggleReveal
  PROVE  WrCore'
<1>1. server' = server /\ cache' \in {cache, WrRefetch}
  BY DEF AutoMaskPayload, ClearPayload, ToggleReveal, WrRender
<1>2. WrFields \subseteq DOMAIN ui
  BY PageFacts
<1> DEFINE F == {"payload", "revealed", "asked"}
<1>3. SUFFICES /\ SameBut(ui, ui', F)
               /\ ui'.payload \in MaybeCap /\ ui'.revealed \in BOOLEAN
               /\ ClearTrue(server, ui'.payload, ui'.revealed, ui'.asked)
  BY <1>1, QuietStep
<1>4. CASE AutoMaskPayload
  <2>1. SameBut(ui, ui', {"revealed"}) /\ ui'.revealed = FALSE
    BY <1>2, <1>4 DEF AutoMaskPayload, WrRender, SameBut, WrFields
  <2>2. ui'.payload = ui.payload /\ ui'.asked = ui.asked /\ SameBut(ui, ui', F)
    BY <2>1 DEF SameBut, WrFields
  <2> QED
    BY Zenon, <2>1, <2>2, PageFacts DEF ClearTrue
<1>5. CASE ClearPayload
  <2>1. SameBut(ui, ui', {"payload"}) /\ ui'.payload = NoCap
    BY <1>2, <1>5 DEF ClearPayload, WrRender, SameBut, WrFields
  <2>2. ui'.revealed = ui.revealed /\ SameBut(ui, ui', F)
    BY <2>1 DEF SameBut, WrFields
  <2> QED
    BY <2>1, <2>2, PageFacts DEF ClearTrue
<1>6. CASE ToggleReveal
  <2>1. SameBut(ui, ui', {"revealed", "asked"}) /\ ui'.revealed = ~ui.revealed
    BY Zenon, <1>2, <1>6, PageFacts DEF ToggleReveal, WrRender, SameBut, WrFields
  <2>2. ~ui.revealed => ui'.asked = ui.payload
    BY <1>2, <1>6 DEF ToggleReveal, WrRender, WrFields
  <2>3. ui'.payload = ui.payload /\ SameBut(ui, ui', F)
    BY <2>1 DEF SameBut, WrFields
  <2> QED
    BY Zenon, <2>1, <2>2, <2>3, PageFacts DEF ClearTrue
<1> QED
  BY <1>4, <1>5, <1>6

\* Dialogs open over a full box and close.
LEMMA DialogActionsKeep ==
  ASSUME WrCore, CancelDialog \/ RowsDone \/ AskRevoke \/ AskUnwrap
  PROVE  WrCore'
<1>1. server' = server /\ cache' \in {cache, WrRefetch}
  BY DEF CancelDialog, RowsDone, AskRevoke, AskUnwrap, WrRender
<1>2. WrFields \subseteq DOMAIN ui /\ BoxTrue(server, ui.box, ui.dlg)
  BY PageFacts
<1>3. /\ SameBut(ui, ui', {"dlg"})
      /\ \/ ui'.dlg = "none" \/ (ui'.dlg = "revoke" /\ ui.box["lookup"] # NoCap)
         \/ (ui'.dlg = "unwrap" /\ ui.box["unwrap"] # NoCap)
  BY <1>2 DEF CancelDialog, RowsDone, AskRevoke, AskUnwrap, WrRender, SameBut, WrFields
<1>4. BoxTrue(server, ui.box, ui'.dlg)
  BY <1>2, <1>3 DEF BoxTrue
<1> QED
  BY <1>1, <1>3, <1>4, QuietStep

\* A row of the list is picked: the list shows it, and a newer one on its way
\* shows it too unless the capsule is over.
LEMMA PickRowKeeps ==
  ASSUME WrCore, NEW w \in Caps, PickRow(w)
  PROVE  WrCore'
<1>1. server' = server /\ cache' = cache /\ w \in ShownCaps(cache["list"])
  BY DEF PickRow, WrRender, WrRows, ShownCaps
<1>2. /\ SameBut(ui, ui', {"cur", "pick", "gone"})
      /\ ui'.cur = NoCap /\ ui'.pick = w /\ ui'.gone = FALSE
  BY Zenon, PageFacts DEF PickRow, WrRender, SameBut, WrFields
<1>3. PickTrue(server, cache["list"], w, FALSE)
  BY <1>1, PageFacts DEF ListTrue, PickTrue
<1> QED
  BY Zenon, <1>1, <1>2, <1>3, PageFacts, QuietStep
-----------------------------------------------------------------------------

\* A request is sent for a capsule, and an answer is taken.
LEMMA SendAndSettle ==
  ASSUME NEW s, NEW op \in [WrControls -> WrCodes], NEW req \in [WrControls -> MaybeCap],
         OpsTrue(s, op, req), NEW c \in WrControls
  PROVE  /\ [op EXCEPT ![c] = "idle"] \in [WrControls -> WrCodes]
         /\ [op EXCEPT ![c] = "sent"] \in [WrControls -> WrCodes]
         /\ OpsTrue(s, [op EXCEPT ![c] = "idle"], req)
         /\ \A w \in Caps :
              /\ [req EXCEPT ![c] = w] \in [WrControls -> MaybeCap]
              /\ (c = "wrap" <=> s.cap[w] = "none")
                 => OpsTrue(s, [op EXCEPT ![c] = "sent"], [req EXCEPT ![c] = w])
<1>1. /\ [op EXCEPT ![c] = "idle"] \in [WrControls -> WrCodes]
      /\ [op EXCEPT ![c] = "sent"] \in [WrControls -> WrCodes]
      /\ \A w \in Caps : [req EXCEPT ![c] = w] \in [WrControls -> MaybeCap]
  BY DEF WrCodes, MaybeCap
<1>2. OpsTrue(s, [op EXCEPT ![c] = "idle"], req)
  <2> DEFINE new == [op EXCEPT ![c] = "idle"]
  <2>1. new[c] = "idle" /\ \A d \in WrControls \ {c} : new[d] = op[d]
    OBVIOUS
  <2> HIDE DEF new
  <2>2. OpsTrue(s, new, req)
    BY <2>1 DEF OpsTrue, WrControls
  <2> QED
    BY <2>2 DEF new
<1>3. ASSUME NEW w \in Caps, c = "wrap" <=> s.cap[w] = "none"
      PROVE  OpsTrue(s, [op EXCEPT ![c] = "sent"], [req EXCEPT ![c] = w])
  <2> DEFINE new == [op EXCEPT ![c] = "sent"]
             arg == [req EXCEPT ![c] = w]
  <2>1. /\ new[c] = "sent" /\ \A d \in WrControls \ {c} : new[d] = op[d]
        /\ arg[c] = w /\ \A d \in WrControls \ {c} : arg[d] = req[d]
    OBVIOUS
  <2> HIDE DEF new, arg
  <2>2. OpsTrue(s, new, arg)
    BY Zenon, <1>3, <2>1 DEF OpsTrue, WrControls
  <2> QED
    BY <2>2 DEF new, arg
<1> QED
  BY Zenon, <1>1, <1>2, <1>3

\* A step of the page that sends the request of c for the capsule w.
LEMMA SendStep ==
  ASSUME WrCore, server' = server, cache' = cache, NEW c \in WrControls, NEW w \in Caps,
         c = "wrap" <=> server.cap[w] = "none",
         SameBut(ui, ui', {"op", "req", "info", "dlg", "payload"}),
         ui'.op = [ui.op EXCEPT ![c] = "sent"], ui'.req = [ui.req EXCEPT ![c] = w],
         ui'.info \in MaybeCap, ui'.dlg \in {ui.dlg, "none"}, ui'.payload \in {ui.payload, NoCap}
  PROVE  WrCore'
<1>1. /\ ui'.page = ui.page /\ ui'.box = ui.box /\ ui'.ses = ui.ses /\ ui'.cur = ui.cur /\ ui'.pick = ui.pick
      /\ ui'.gone = ui.gone /\ ui'.revealed = ui.revealed /\ ui'.asked = ui.asked /\ ui'.rows = ui.rows
      /\ WrFields \subseteq DOMAIN ui'
  BY SameFields
<1>2. /\ ui.op \in [WrControls -> WrCodes] /\ ui.req \in [WrControls -> MaybeCap]
      /\ OpsTrue(server, ui.op, ui.req)
  BY DEF WrCore, WrPage
<1>3. /\ ui'.op \in [WrControls -> WrCodes] /\ ui'.req \in [WrControls -> MaybeCap]
      /\ OpsTrue(server, ui'.op, ui'.req)
  <2>1. /\ [ui.op EXCEPT ![c] = "sent"] \in [WrControls -> WrCodes]
        /\ [ui.req EXCEPT ![c] = w] \in [WrControls -> MaybeCap]
    BY <1>2 DEF WrCodes, MaybeCap
  <2>2. OpsTrue(server, [ui.op EXCEPT ![c] = "sent"], [ui.req EXCEPT ![c] = w])
    BY <1>2, SendAndSettle, Zenon
  <2> QED
    BY <2>1, <2>2
<1>4. BoxTrue(server, ui'.box, ui'.dlg)
  BY <1>1, PageFacts DEF BoxTrue
<1>5. ui'.payload \in MaybeCap /\ ClearTrue(server, ui'.payload, ui'.revealed, ui'.asked)
  BY <1>1, PageFacts DEF ClearTrue
<1>6. WrPage(ui')
  BY <1>1, <1>3, <1>5 DEF WrPage, WrCore
<1> QED
  BY <1>1, <1>3, <1>4, <1>5, <1>6, PageStep DEF WrCore

\* The four requests are sent: a wrap for a new capsule, the others for the one
\* in the box.
LEMMA SendActionsKeep ==
  ASSUME WrCore, (\E w \in Caps : SubmitWrap(w)) \/ SubmitLookup \/ ConfirmRevoke \/ ConfirmUnwrap \/ TryAgain
  PROVE  WrCore'
<1>1. /\ WrFields \subseteq DOMAIN ui /\ BoxTrue(server, ui.box, ui.dlg)
      /\ ui.box \in [{"lookup", "unwrap"} -> MaybeCap] /\ ui.info \in MaybeCap /\ NoCap \in MaybeCap
      /\ ui.op \in [WrControls -> WrCodes] /\ ui.req \in [WrControls -> MaybeCap]
  BY PageFacts DEF WrCore, WrPage
<1>2. \A b \in {"lookup", "unwrap"} : ui.box[b] # NoCap => ui.box[b] \in Caps /\ server.cap[ui.box[b]] # "none"
  BY <1>1 DEF BoxTrue, MaybeCap
<1>3. /\ "wrap" \in WrControls /\ "lookup" \in WrControls /\ "unwrap" \in WrControls /\ "revoke" \in WrControls
      /\ {"op", "req", "info", "dlg", "payload"} \subseteq WrFields
  BY DEF WrControls, WrFields
<1>4. ASSUME NEW w \in Caps, SubmitWrap(w)
      PROVE  WrCore'
  <2>1. /\ server' = server /\ cache' = cache /\ server.cap[w] = "none"
        /\ ui' = [[ui EXCEPT !.op["wrap"] = "sent"] EXCEPT !.own = @ - 1, !.req["wrap"] = w, !.stage = "sealing"]
    BY Zenon, <1>4 DEF SubmitWrap, WrRender, Push
  <2>2. /\ SameBut(ui, ui', {"op", "req", "info", "dlg", "payload"})
        /\ ui'.op = [ui.op EXCEPT !["wrap"] = "sent"] /\ ui'.req = [ui.req EXCEPT !["wrap"] = w]
        /\ ui'.info = ui.info /\ ui'.dlg = ui.dlg /\ ui'.payload = ui.payload
    BY Zenon, <1>1, <2>1 DEF SameBut, WrFields
  <2> QED
    BY SMTT(30), <1>1, <1>3, <2>1, <2>2, SendStep
<1>5. CASE SubmitLookup
  <2> DEFINE w == ui.box["lookup"]
  <2>1. /\ server' = server /\ cache' = cache /\ w # NoCap
        /\ ui' = [[ui EXCEPT !.op["lookup"] = "sent"] EXCEPT !.own = @ - 1, !.req["lookup"] = w, !.info = NoCap]
    BY <1>5 DEF SubmitLookup, WrRender, Push
  <2>2. /\ SameBut(ui, ui', {"op", "req", "info", "dlg", "payload"})
        /\ ui'.op = [ui.op EXCEPT !["lookup"] = "sent"] /\ ui'.req = [ui.req EXCEPT !["lookup"] = w]
        /\ ui'.info = NoCap /\ ui'.dlg = ui.dlg /\ ui'.payload = ui.payload
    BY Zenon, <1>1, <2>1 DEF SameBut, WrFields
  <2> QED
    BY <1>1, <1>2, <1>3, <2>1, <2>2, SendStep
<1>6. CASE ConfirmRevoke
  <2> DEFINE w == ui.box["lookup"]
  <2>1. /\ server' = server /\ cache' = cache /\ w # NoCap
        /\ ui' = [[ui EXCEPT !.op["revoke"] = "sent"] EXCEPT !.own = @ - 1, !.req["revoke"] = w, !.saw = ui.ses[w]]
    BY <1>1, <1>6 DEF ConfirmRevoke, WrRender, Push, BoxTrue
  <2>2. /\ SameBut(ui, ui', {"op", "req", "info", "dlg", "payload"})
        /\ ui'.op = [ui.op EXCEPT !["revoke"] = "sent"] /\ ui'.req = [ui.req EXCEPT !["revoke"] = w]
        /\ ui'.info = ui.info /\ ui'.dlg = ui.dlg /\ ui'.payload = ui.payload
    BY Zenon, <1>1, <2>1 DEF SameBut, WrFields
  <2> QED
    BY <1>1, <1>2, <1>3, <2>1, <2>2, SendStep
<1>7. CASE ConfirmUnwrap \/ TryAgain
  <2> DEFINE w == ui.box["unwrap"]
  <2>1. PICK u \in {ui, [ui EXCEPT !.dlg = "none"]} :
        /\ server' = server /\ cache' = cache /\ w # NoCap
        /\ ui' = [[u EXCEPT !.op["unwrap"] = "sent"] EXCEPT !.own = @ - 1, !.req["unwrap"] = w, !.payload = NoCap]
    BY <1>1, <1>7 DEF ConfirmUnwrap, TryAgain, RunUnwrap, WrRender, Push, BoxTrue
  <2>2. /\ WrFields \subseteq DOMAIN u /\ u.dlg \in {ui.dlg, "none"}
        /\ \A f \in WrFields \ {"dlg"} : u[f] = ui[f]
    BY <1>1, <2>1 DEF WrFields
  <2>3. /\ SameBut(ui, ui', {"op", "req", "info", "dlg", "payload"})
        /\ ui'.op = [ui.op EXCEPT !["unwrap"] = "sent"] /\ ui'.req = [ui.req EXCEPT !["unwrap"] = w]
        /\ ui'.info = ui.info /\ ui'.dlg = u.dlg /\ ui'.payload = NoCap
    BY ZenonT(40), <1>1, <2>1, <2>2 DEF SameBut, WrFields
  <2> QED
    BY <1>1, <1>2, <1>3, <2>1, <2>2, <2>3, SendStep
<1> QED
  BY Zenon, <1>4, <1>5, <1>6, <1>7
\* An answer of c is taken: the session may note how its capsule ended.
LEMMA BackStep ==
  ASSUME WrCore, server' = server, cache' \in {cache, WrRefetch}, NEW c \in WrControls, NEW w \in Caps,
         SameBut(ui, ui', {"op", "ses", "cur", "pick", "info", "dlg", "payload", "revealed"}),
         ui'.op = [ui.op EXCEPT ![c] = "idle"],
         \/ ui'.ses = ui.ses
         \/ \E st \in Endings \cup {"active"} :
              /\ ui'.ses = [ui.ses EXCEPT ![w] = st]
              /\ st \in {"used", "revoked"} => server.cap[w] = st
              /\ st \in {"expired", "missing"} => Spent(server, w),
         ui'.cur \in MaybeCap, ui'.pick \in {ui.pick, NoCap}, ui'.info \in MaybeCap, ui'.dlg \in {ui.dlg, "none"},
         ui'.revealed \in BOOLEAN,
         \/ ui'.payload \in {ui.payload, NoCap} /\ ui'.revealed = ui.revealed
         \/ ui'.payload \in Caps /\ server.cap[ui'.payload] = "used" /\ ui'.revealed = FALSE
  PROVE  WrCore'
<1>1. /\ ui'.page = ui.page /\ ui'.req = ui.req /\ ui'.box = ui.box /\ ui'.gone = ui.gone
      /\ ui'.asked = ui.asked /\ ui'.rows = ui.rows /\ WrFields \subseteq DOMAIN ui'
  BY SameFields
<1>2. /\ ui.op \in [WrControls -> WrCodes] /\ ui.req \in [WrControls -> MaybeCap]
      /\ OpsTrue(server, ui.op, ui.req) /\ SesTrue(server, ui.ses)
      /\ ui.ses \in [Caps -> Endings \cup {"unknown", "active"}]
  BY DEF WrCore, WrPage
<1>3. ui'.op \in [WrControls -> WrCodes] /\ OpsTrue(server, ui'.op, ui'.req)
  <2>1. [ui.op EXCEPT ![c] = "idle"] \in [WrControls -> WrCodes]
    BY <1>2 DEF WrCodes
  <2>2. OpsTrue(server, [ui.op EXCEPT ![c] = "idle"], ui.req)
    BY <1>2, SendAndSettle, Zenon
  <2> QED
    BY <1>1, <2>1, <2>2
<1>4. ui'.ses \in [Caps -> Endings \cup {"unknown", "active"}] /\ SesTrue(server, ui'.ses)
  <2>1. CASE ui'.ses = ui.ses
    BY <1>2, <2>1
  <2>2. ASSUME NEW st \in Endings \cup {"active"}, ui'.ses = [ui.ses EXCEPT ![w] = st],
               st \in {"used", "revoked"} => server.cap[w] = st,
               st \in {"expired", "missing"} => Spent(server, w)
        PROVE  ui'.ses \in [Caps -> Endings \cup {"unknown", "active"}] /\ SesTrue(server, ui'.ses)
    BY <1>2, <2>2 DEF SesTrue
  <2> QED
    BY ZenonT(40), <2>1, <2>2
<1>5. BoxTrue(server, ui'.box, ui'.dlg)
  BY Zenon, <1>1, PageFacts DEF BoxTrue
<1>6. ui'.payload \in MaybeCap /\ ClearTrue(server, ui'.payload, ui'.revealed, ui'.asked)
  BY Zenon, <1>1, PageFacts DEF ClearTrue
<1>7. ui'.pick \in MaybeCap /\ PickTrue(server, cache["list"], ui'.pick, ui'.gone)
  BY Zenon, <1>1, PageFacts DEF PickTrue
<1>8. WrPage(ui')
  BY <1>1, <1>3, <1>4, <1>6, <1>7 DEF WrPage, WrCore
<1> QED
  BY Zenon, <1>1, <1>3, <1>4, <1>5, <1>6, <1>7, <1>8, PageStep DEF WrCore

\* What selecting a capsule changes.
LEMMA ChosenFields ==
  ASSUME NEW u, WrFields \subseteq DOMAIN u, NEW w \in Caps
  PROVE  /\ WrFields \subseteq DOMAIN Chosen(u, w)
         /\ \A f \in WrFields \ {"cur", "pick"} : Chosen(u, w)[f] = u[f]
         /\ Chosen(u, w).cur = w /\ Chosen(u, w).pick \in {u.pick, NoCap}
  BY Zenon DEF Chosen, WrFields

\* The state u of the page after the answer of c was taken and before a capsule
\* is selected.
Taken(u, c) ==
  /\ WrFields \subseteq DOMAIN u
  /\ \A f \in WrFields \ {"op", "info", "dlg", "payload", "revealed"} : u[f] = ui[f]
  /\ u.op = [ui.op EXCEPT ![c] = "idle"]
  /\ u.info \in MaybeCap /\ u.dlg \in {ui.dlg, "none"} /\ u.revealed \in BOOLEAN
  /\ \/ u.payload \in {ui.payload, NoCap} /\ u.revealed = ui.revealed
     \/ u.payload \in Caps /\ server.cap[u.payload] = "used" /\ u.revealed = FALSE

\* The handlers end by selecting the capsule, with or without a new status.
LEMMA AnswersKeep ==
  ASSUME WrCore, NEW c \in WrControls, NEW w \in Caps, NEW u, Taken(u, c)
  PROVE  /\ SelectRow(u, w) => WrCore'
         /\ \A st \in Endings \cup {"active"} :
              /\ Upsert(u, w, st)
              /\ st \in {"used", "revoked"} => server.cap[w] = st
              /\ st \in {"expired", "missing"} => Spent(server, w)
              => WrCore'
         /\ WrRender(cache, u) => WrCore'
<1> DEFINE F == {"op", "ses", "cur", "pick", "info", "dlg", "payload", "revealed"}
<1>1. /\ WrFields \subseteq DOMAIN u /\ u.ses = ui.ses /\ u.pick = ui.pick /\ u.cur = ui.cur /\ ui.cur \in MaybeCap
      /\ F \subseteq WrFields /\ Caps \subseteq MaybeCap
  BY PageFacts DEF Taken, WrFields
<1>2. ASSUME SelectRow(u, w)
      PROVE  WrCore'
  <2>1. server' = server /\ cache' = cache /\ ui' = Chosen(u, w)
    BY <1>2 DEF SelectRow, WrRender
  <2>2. /\ WrFields \subseteq DOMAIN ui' /\ ui'.cur = w /\ ui'.pick \in {u.pick, NoCap}
        /\ \A f \in WrFields \ {"cur", "pick"} : ui'[f] = u[f]
    BY <1>1, <2>1, ChosenFields
  <2>3. /\ SameBut(ui, ui', F) /\ ui'.ses = ui.ses /\ ui'.op = u.op /\ ui'.info = u.info /\ ui'.dlg = u.dlg
        /\ ui'.payload = u.payload /\ ui'.revealed = u.revealed
    BY <1>1, <2>2 DEF SameBut, Taken
  <2> QED
    BY ZenonT(40), <1>1, <2>1, <2>2, <2>3, BackStep DEF Taken
<1>3. ASSUME NEW st \in Endings \cup {"active"}, Upsert(u, w, st),
             st \in {"used", "revoked"} => server.cap[w] = st,
             st \in {"expired", "missing"} => Spent(server, w)
      PROVE  WrCore'
  <2> DEFINE v == [u EXCEPT !.ses[w] = st]
  <2>1. server' = server /\ cache' = WrRefetch /\ ui' = Chosen(v, w)
    BY <1>3 DEF Upsert, WrRender
  <2>2. /\ WrFields \subseteq DOMAIN v /\ v.ses = [u.ses EXCEPT ![w] = st]
        /\ \A f \in WrFields \ {"ses"} : v[f] = u[f]
    BY <1>1 DEF WrFields
  <2> HIDE DEF v
  <2>3. /\ WrFields \subseteq DOMAIN ui' /\ ui'.cur = w /\ ui'.pick \in {v.pick, NoCap}
        /\ \A f \in WrFields \ {"cur", "pick"} : ui'[f] = v[f]
    BY <2>1, <2>2, ChosenFields
  <2>4. /\ SameBut(ui, ui', F) /\ ui'.ses = [ui.ses EXCEPT ![w] = st] /\ ui'.op = u.op /\ ui'.info = u.info
        /\ ui'.dlg = u.dlg /\ ui'.payload = u.payload /\ ui'.revealed = u.revealed /\ v.pick = ui.pick
    BY <1>1, <2>2, <2>3 DEF SameBut, Taken
  <2>5. \E x \in Endings \cup {"active"} :
              /\ ui'.ses = [ui.ses EXCEPT ![w] = x]
              /\ x \in {"used", "revoked"} => server.cap[w] = x
              /\ x \in {"expired", "missing"} => Spent(server, w)
    BY <1>3, <2>4
  <2>6. /\ ui'.op = [ui.op EXCEPT ![c] = "idle"] /\ ui'.cur \in MaybeCap /\ ui'.pick \in {ui.pick, NoCap}
        /\ ui'.info \in MaybeCap /\ ui'.dlg \in {ui.dlg, "none"} /\ ui'.revealed \in BOOLEAN
        /\ \/ ui'.payload \in {ui.payload, NoCap} /\ ui'.revealed = ui.revealed
           \/ ui'.payload \in Caps /\ server.cap[ui'.payload] = "used" /\ ui'.revealed = FALSE
    BY <1>1, <2>3, <2>4 DEF Taken
  <2>7. cache' \in {cache, WrRefetch}
    BY <2>1
  <2> QED
    BY Zenon, <2>1, <2>4, <2>5, <2>6, <2>7, BackStep
<1>4. ASSUME WrRender(cache, u)
      PROVE  WrCore'
  <2>1. server' = server /\ cache' = cache /\ ui' = u
    BY <1>4 DEF WrRender
  <2>2. SameBut(ui, ui', F)
    BY <2>1 DEF SameBut, Taken
  <2> QED
    BY Zenon, <1>1, <2>1, <2>2, BackStep DEF Taken
<1> QED
  BY Zenon, <1>2, <1>3, <1>4
\* failed, once the answer of c was taken: 404 and 410 were answered for a capsule
\* that is spent.
LEMMA EndsOnKeeps ==
  ASSUME WrCore, NEW c \in WrControls \ {"wrap"}, ui.op[c] \notin {"idle", "sent"}, NEW u, Taken(u, c), NEW known,
         EndsOn(u, ui.req[c], ui.op[c], known)
  PROVE  WrCore'
<1> DEFINE w == ui.req[c]
<1>1. w \in Caps /\ (ui.op[c] \in {"404", "410"} => Spent(server, w))
  BY DEF WrCore, OpsTrue
<1>2. \/ SelectRow(u, w)
      \/ ui.op[c] \in {"404", "410"} /\ \E st \in {"expired", "missing"} : Upsert(u, w, st)
  BY Zenon DEF EndsOn
<1> HIDE DEF w
<1>3. CASE SelectRow(u, w)
  BY <1>1, <1>3, AnswersKeep
<1>4. ASSUME NEW st \in {"expired", "missing"}, Upsert(u, w, st), Spent(server, w)
      PROVE  WrCore'
  <2>1. st \in Endings \cup {"active"} /\ st \notin {"used", "revoked"}
    BY <1>4 DEF Endings
  <2> QED
    BY <1>1, <1>4, <2>1, AnswersKeep
<1> QED
  BY Zenon, <1>1, <1>2, <1>3, <1>4

\* The answers of the four requests are taken.
LEMMA BackActionsKeep ==
  ASSUME WrCore, WrapBack \/ LookupBack \/ RevokeBack \/ UnwrapBack
  PROVE  WrCore'
<1>1. /\ WrFields \subseteq DOMAIN ui /\ ui.info \in MaybeCap /\ ui.payload \in MaybeCap /\ ui.revealed \in BOOLEAN
      /\ NoCap \in MaybeCap /\ Caps \subseteq MaybeCap
  BY PageFacts
<1>2. /\ "wrap" \in WrControls /\ "lookup" \in WrControls \ {"wrap"} /\ "unwrap" \in WrControls \ {"wrap"}
      /\ "revoke" \in WrControls \ {"wrap"} /\ {"used", "revoked", "active"} \subseteq Endings \cup {"active"}
  BY Zenon DEF WrControls, Endings
<1>3. /\ \A c \in WrControls : ui.op[c] # "idle" => ui.req[c] \in Caps
      /\ ui.op["unwrap"] = "ok" => server.cap[ui.req["unwrap"]] = "used"
      /\ ui.op["revoke"] = "ok" => server.cap[ui.req["revoke"]] = "revoked"
  BY DEF WrCore, OpsTrue
<1>4. CASE WrapBack
  <2> DEFINE u == [[ui EXCEPT !.op["wrap"] = "idle"] EXCEPT !.stage = "rest"]
  <2>1. Taken(u, "wrap")
    BY Zenon, <1>1 DEF Taken, WrFields
  <2>2. ui.req["wrap"] \in Caps /\ (Upsert(u, ui.req["wrap"], "active") \/ WrRender(cache, u))
    BY <1>2, <1>3, <1>4 DEF WrapBack, Settle
  <2> HIDE DEF u
  <2> QED
    BY <1>2, <2>1, <2>2, AnswersKeep
<1>5. CASE LookupBack
  <2> DEFINE u == [ui EXCEPT !.op["lookup"] = "idle"]
             w == ui.req["lookup"]
             v == [u EXCEPT !.info = w]
  <2>1. w \in Caps /\ ui.op["lookup"] \notin {"idle", "sent"}
    BY <1>2, <1>3, <1>5 DEF LookupBack
  <2>2. Taken(u, "lookup") /\ Taken(v, "lookup")
    BY Zenon, <1>1, <2>1 DEF Taken, WrFields
  <2>3. Upsert(v, w, "active") \/ EndsOn(u, w, ui.op["lookup"], ui.ses[w])
    BY <1>5 DEF LookupBack, Settle
  <2> HIDE DEF u, v
  <2>4. CASE Upsert(v, w, "active")
    BY <1>2, <2>1, <2>2, <2>4, AnswersKeep
  <2>5. CASE EndsOn(u, w, ui.op["lookup"], ui.ses[w])
    BY <1>2, <2>1, <2>2, <2>5, EndsOnKeeps
  <2> QED
    BY <2>3, <2>4, <2>5
<1>6. CASE RevokeBack
  <2> DEFINE u == [[ui EXCEPT !.op["revoke"] = "idle"] EXCEPT !.dlg = "none"]
             w == ui.req["revoke"]
             v == [u EXCEPT !.info = NoCap]
  <2>1. w \in Caps /\ ui.op["revoke"] \notin {"idle", "sent"}
    BY <1>2, <1>3, <1>6 DEF RevokeBack
  <2>2. Taken(u, "revoke") /\ Taken(v, "revoke")
    BY Zenon, <1>1, <2>1 DEF Taken, WrFields
  <2>3. \/ ui.op["revoke"] = "ok" /\ Upsert(v, w, "revoked")
        \/ EndsOn(u, w, ui.op["revoke"], ui.saw)
    BY <1>6 DEF RevokeBack, Settle
  <2> HIDE DEF u, v
  <2>4. CASE ui.op["revoke"] = "ok" /\ Upsert(v, w, "revoked")
    BY <1>2, <1>3, <2>1, <2>2, <2>4, AnswersKeep
  <2>5. CASE EndsOn(u, w, ui.op["revoke"], ui.saw)
    BY <1>2, <2>1, <2>2, <2>5, EndsOnKeeps
  <2> QED
    BY <2>3, <2>4, <2>5
<1>7. CASE UnwrapBack
  <2> DEFINE u == [ui EXCEPT !.op["unwrap"] = "idle"]
             w == ui.req["unwrap"]
             v == [u EXCEPT !.payload = w, !.revealed = FALSE, !.stage = "breaking", !.play = 2]
             x == [u EXCEPT !.payload = NoCap]
  <2>1. w \in Caps /\ ui.op["unwrap"] \notin {"idle", "sent"}
    BY <1>2, <1>3, <1>7 DEF UnwrapBack
  <2>2. Taken(x, "unwrap")
    BY Zenon, <1>1, <2>1 DEF Taken, WrFields
  <2>3. ui.op["unwrap"] = "ok" => Taken(v, "unwrap")
    BY Zenon, <1>1, <1>3, <2>1 DEF Taken, WrFields
  <2>4. \/ ui.op["unwrap"] = "ok" /\ Upsert(v, w, "used")
        \/ EndsOn(x, w, ui.op["unwrap"], ui.ses[w])
    BY <1>7 DEF UnwrapBack, Settle
  <2> HIDE DEF u, v, x
  <2>5. CASE ui.op["unwrap"] = "ok" /\ Upsert(v, w, "used")
    BY <1>2, <1>3, <2>1, <2>3, <2>5, AnswersKeep
  <2>6. CASE EndsOn(x, w, ui.op["unwrap"], ui.ses[w])
    BY Zenon, <1>2, <2>1, <2>2, <2>6, EndsOnKeeps
  <2> QED
    BY <2>4, <2>5, <2>6
<1> QED
  BY <1>4, <1>5, <1>6, <1>7
\* A token is typed into a box; it was issued before.
LEMMA TypeTokenKeeps ==
  ASSUME WrCore, NEW b \in {"lookup", "unwrap"}, NEW w \in Caps, TypeToken(b, w)
  PROVE  WrCore'
<1>1. /\ WrFields \subseteq DOMAIN ui /\ BoxTrue(server, ui.box, ui.dlg) /\ w \in MaybeCap /\ w # NoCap
      /\ ui.box \in [{"lookup", "unwrap"} -> MaybeCap]
  BY PageFacts DEF WrCore, WrPage
<1>2. server' = server /\ cache' = cache /\ server.cap[w] # "none"
  BY DEF TypeToken, WrRender
<1>3. SameBut(ui, ui', {"box"}) /\ ui'.box = [ui.box EXCEPT ![b] = w]
  BY <1>1 DEF TypeToken, WrRender, SameBut, WrFields
<1>4. /\ ui'.page = ui.page /\ ui'.op = ui.op /\ ui'.req = ui.req /\ ui'.dlg = ui.dlg /\ ui'.rows = ui.rows
      /\ ui'.ses = ui.ses /\ ui'.cur = ui.cur /\ ui'.pick = ui.pick /\ ui'.gone = ui.gone /\ ui'.info = ui.info
      /\ ui'.payload = ui.payload /\ ui'.revealed = ui.revealed /\ ui'.asked = ui.asked
      /\ WrFields \subseteq DOMAIN ui'
  BY <1>3, SameFields
<1>5. /\ ui'.box \in [{"lookup", "unwrap"} -> MaybeCap]
      /\ \A d \in {"lookup", "unwrap"} : ui'.box[d] = IF d = b THEN w ELSE ui.box[d]
  BY <1>1, <1>3
<1>6. BoxTrue(server, ui'.box, ui'.dlg)
  BY Zenon, <1>1, <1>2, <1>4, <1>5 DEF BoxTrue
<1>7. WrPage(ui')
  BY <1>4, <1>5 DEF WrPage, WrCore
<1> QED
  BY Zenon, <1>2, <1>4, <1>6, <1>7, PageStep DEF WrCore

\* The revocation of rows is asked for, confirmed, and reported: the row picked
\* when it was confirmed is marked when its revocation succeeded.
LEMMA RowActionsKeep ==
  ASSUME WrCore, (\E T \in SUBSET Caps : AskRevokeRows(T)) \/ ConfirmRows \/ RowsBack
  PROVE  WrCore'
<1>1. /\ WrFields \subseteq DOMAIN ui /\ ui.rows \in RowsType /\ ui.pick \in MaybeCap /\ ui.gone \in BOOLEAN
      /\ BoxTrue(server, ui.box, ui.dlg) /\ RowsTrue(server, ui.rows) /\ NoCap \in MaybeCap
      /\ PickTrue(server, cache["list"], ui.pick, ui.gone)
  BY PageFacts DEF WrCore
<1> DEFINE F == {"dlg", "rows", "pick", "gone"}
<1>2. SUFFICES /\ server' = server /\ cache' \in {cache, WrRefetch}
               /\ SameBut(ui, ui', F)
               /\ ui'.dlg \in {ui.dlg, "rows"} /\ ui'.rows \in RowsType /\ RowsTrue(server, ui'.rows)
               /\ ui'.pick \in MaybeCap /\ ui'.gone \in BOOLEAN
               /\ PickTrue(server, cache["list"], ui'.pick, ui'.gone)
  <2>1. SUFFICES ASSUME server' = server, cache' \in {cache, WrRefetch}, SameBut(ui, ui', F),
                        ui'.dlg \in {ui.dlg, "rows"}, ui'.rows \in RowsType, RowsTrue(server, ui'.rows),
                        ui'.pick \in MaybeCap, ui'.gone \in BOOLEAN,
                        PickTrue(server, cache["list"], ui'.pick, ui'.gone)
                 PROVE  WrCore'
    OBVIOUS
  <2>2. /\ ui'.page = ui.page /\ ui'.op = ui.op /\ ui'.req = ui.req /\ ui'.box = ui.box
        /\ ui'.ses = ui.ses /\ ui'.cur = ui.cur /\ ui'.info = ui.info
        /\ ui'.payload = ui.payload /\ ui'.revealed = ui.revealed /\ ui'.asked = ui.asked
        /\ WrFields \subseteq DOMAIN ui'
    BY <2>1, SameFields
  <2>3. BoxTrue(server, ui'.box, ui'.dlg)
    BY Zenon, <1>1, <2>1, <2>2 DEF BoxTrue
  <2>4. WrPage(ui')
    BY <2>1, <2>2 DEF WrPage, WrCore
  <2> QED
    BY <2>1, <2>2, <2>3, <2>4, PageStep DEF WrCore
<1>3. ASSUME NEW T \in SUBSET Caps, AskRevokeRows(T)
      PROVE  /\ server' = server /\ cache' = cache /\ SameBut(ui, ui', {"dlg", "rows"})
             /\ ui'.dlg = "rows" /\ ui'.rows = [NoRows EXCEPT !.wait = T]
             /\ ui'.rows \in RowsType /\ ui'.rows.done = {}
  <2>1. /\ server' = server /\ cache' = cache /\ SameBut(ui, ui', {"dlg", "rows"})
        /\ ui'.dlg = "rows" /\ ui'.rows = [NoRows EXCEPT !.wait = T]
    BY Zenon, <1>1, <1>3 DEF AskRevokeRows, WrRender, SameBut, WrFields
  <2>2. [NoRows EXCEPT !.wait = T] = [wait |-> T, done |-> {}, pc |-> "asked", pick |-> NoCap]
    BY DEF NoRows
  <2> QED
    BY SMTT(30), <1>1, <2>1, <2>2 DEF RowsType
<1>4. ASSUME ConfirmRows
      PROVE  /\ server' = server /\ cache' = cache /\ SameBut(ui, ui', {"rows"})
             /\ ui'.rows \in RowsType /\ ui'.rows.done = ui.rows.done
  <2> DEFINE r == [ui.rows EXCEPT !.pc = "sent"]
             q == [r EXCEPT !.pick = ui.pick]
  <2>1. server' = server /\ cache' = cache /\ SameBut(ui, ui', {"rows"}) /\ ui'.rows = q
    BY Zenon, <1>1, <1>4 DEF ConfirmRows, WrRender, SameBut, WrFields
  <2>2. r \in RowsType /\ r.done = ui.rows.done
    BY <1>1 DEF RowsType
  <2> HIDE DEF r
  <2>3. q \in RowsType /\ q.done = ui.rows.done
    BY <1>1, <2>2 DEF RowsType
  <2> QED
    BY <2>1, <2>3
<1>5. ASSUME RowsBack
      PROVE  /\ server' = server /\ cache' = WrRefetch /\ SameBut(ui, ui', {"rows", "pick", "gone"})
             /\ ui'.rows \in RowsType /\ ui'.rows.done = ui.rows.done
             /\ \/ ui'.pick = ui.pick /\ ui'.gone = ui.gone
                \/ ui'.pick = ui.rows.pick /\ ui.rows.pick \in ui.rows.done /\ ui'.gone = TRUE
  <2> DEFINE u == [ui EXCEPT !.rows.pc = "wait", !.sel = {}, !.at = server.index]
             r == [ui.rows EXCEPT !.pc = "wait"]
  <2>1. /\ server' = server /\ cache' = WrRefetch
        /\ \/ ui' = u
           \/ ui' = [u EXCEPT !.pick = ui.rows.pick, !.gone = TRUE] /\ ui.rows.pick \in ui.rows.done
    BY <1>5 DEF RowsBack, WrRender
  <2>2. /\ WrFields \subseteq DOMAIN u /\ u.rows = r
        /\ \A f \in WrFields \ {"rows"} : u[f] = ui[f]
    BY Zenon, <1>1 DEF WrFields
  <2>3. r \in RowsType /\ r.done = ui.rows.done
    BY <1>1 DEF RowsType
  <2> HIDE DEF u, r
  <2>4. SameBut(ui, ui', {"rows", "pick", "gone"}) /\ ui'.rows = r
    BY Zenon, <2>1, <2>2 DEF SameBut, WrFields
  <2>5. \/ ui'.pick = ui.pick /\ ui'.gone = ui.gone
        \/ ui'.pick = ui.rows.pick /\ ui.rows.pick \in ui.rows.done /\ ui'.gone = TRUE
    BY Zenon, <2>1, <2>2 DEF WrFields
  <2> QED
    BY <2>1, <2>3, <2>4, <2>5
<1>6. \A w \in ui.rows.done : w \in MaybeCap /\ PickTrue(server, cache["list"], w, TRUE)
  BY <1>1 DEF RowsType, RowsTrue, PickTrue, Over, Usable, MaybeCap
<1>7. CASE \E T \in SUBSET Caps : AskRevokeRows(T)
  <2>1. SameBut(ui, ui', F) /\ ui'.pick = ui.pick /\ ui'.gone = ui.gone
    BY Zenon, <1>3, <1>7 DEF SameBut, WrFields
  <2> QED
    BY Zenon, <1>1, <1>3, <1>7, <2>1 DEF RowsTrue
<1>8. CASE ConfirmRows
  <2>1. SameBut(ui, ui', F) /\ ui'.pick = ui.pick /\ ui'.gone = ui.gone /\ ui'.dlg = ui.dlg
    BY <1>4, <1>8 DEF SameBut, WrFields
  <2> QED
    BY <1>1, <1>4, <1>8, <2>1 DEF RowsTrue
<1>9. CASE RowsBack
  <2>1. SameBut(ui, ui', F) /\ ui'.dlg = ui.dlg
    BY <1>5, <1>9 DEF SameBut, WrFields
  <2> QED
    BY Zenon, <1>1, <1>5, <1>6, <1>9, <2>1 DEF RowsTrue
<1> QED
  BY Zenon, <1>7, <1>8, <1>9
\* A step of the polled query of the list.
LEMMA QueryStep ==
  ASSUME WrCore, server' = server, SameBut(ui, ui', {}), NEW e \in WrEntry, cache' = [cache EXCEPT !["list"] = e],
         ListTrue(server, e), PickTrue(server, e, ui.pick, ui.gone)
  PROVE  WrCore'
<1>1. /\ ui'.page = ui.page /\ ui'.op = ui.op /\ ui'.req = ui.req /\ ui'.box = ui.box /\ ui'.dlg = ui.dlg
      /\ ui'.ses = ui.ses /\ ui'.cur = ui.cur /\ ui'.pick = ui.pick /\ ui'.gone = ui.gone /\ ui'.info = ui.info
      /\ ui'.payload = ui.payload /\ ui'.revealed = ui.revealed /\ ui'.asked = ui.asked /\ ui'.rows = ui.rows
      /\ WrFields \subseteq DOMAIN ui'
  BY SameFields
<1>2. WrPage(ui')
  BY <1>1 DEF WrPage, WrCore
<1>3. cache' \in [{"list"} -> WrEntry] /\ cache'["list"] = e
  BY DEF WrCore
<1> QED
  BY <1>1, <1>2, <1>3 DEF WrCore

\* The list is asked for, answered from the server's state at that moment, and
\* delivered later.
LEMMA QueryActionsKeep ==
  ASSUME WrCore, WrPoll \/ WrQuery
  PROVE  WrCore'
<1> DEFINE e == cache["list"]
           now == [caps |-> Listed(server), index |-> server.index]
<1>1. /\ e \in WrEntry /\ server \in WrStore /\ cache \in [{"list"} -> WrEntry] /\ ListTrue(server, e)
      /\ PickTrue(server, e, ui.pick, ui.gone) /\ ui.pick \in MaybeCap /\ WrFields \subseteq DOMAIN ui
  BY PageFacts DEF WrCore
<1>2. now \in Lists /\ now # None /\ now # Failed
  BY <1>1, WrConstants DEF Lists, Listed, WrStore
<1>3. SameBut(ui, ui, {})
  BY <1>1 DEF SameBut
<1>4. CASE WrPoll
  <2> DEFINE f == Ask(e)
  <2>1. server' = server /\ ui' = ui /\ cache' = [cache EXCEPT !["list"] = f]
    BY <1>4 DEF WrPoll, PollTick, FetchNow
  <2>2. f \in WrEntry /\ f.data = e.data /\ f.ans = None /\ f.fetch = "sent"
    BY Zenon, <1>1 DEF Ask, WrEntry
  <2> HIDE DEF e, f
  <2>3. ShownCaps(f) = ShownCaps(e) /\ f.ans \notin Lists
    BY <2>2, WrConstants DEF ShownCaps
  <2>4. ListTrue(server, f) /\ PickTrue(server, f, ui.pick, ui.gone)
    BY <1>1, <2>2, <2>3 DEF ListTrue, PickTrue
  <2> QED
    BY Zenon, <1>3, <2>1, <2>2, <2>4, QueryStep
<1>5. ASSUME NEW a \in {now, Failed}, cache' = Answered(cache, "list", a), server' = server, SameBut(ui, ui', {})
      PROVE  WrCore'
  <2> DEFINE f == [[e EXCEPT !.fetch = "back"] EXCEPT !.ans = a]
  <2>1. cache' = [cache EXCEPT !["list"] = f]
    BY Zenon, <1>1, <1>5 DEF Answered
  <2>2. f \in WrEntry /\ f.data = e.data /\ f.ans = a /\ f.fetch = "back"
    <3>1. a \in Lists \cup {None, Failed}
      BY <1>2, <1>5
    <3> HIDE DEF now
    <3> QED
      BY ZenonT(40), <1>1, <3>1 DEF WrEntry
  <2> HIDE DEF f, e
  <2>3. ShownCaps(f) = ShownCaps(e) /\ a # None /\ ShownCaps(e) \subseteq Caps
    BY <1>1, <1>2, <1>5, <2>2, ConsoleConstants DEF ShownCaps, WrEntry, Lists
  <2>4. a \in Lists => a.caps = Listed(server)
    BY <1>5, WrConstants
  <2>5. \A w \in Caps : w \notin Listed(server) => ~Usable(server, w)
    BY DEF Listed
  <2>6. \A w \in Listed(server) : server.cap[w] # "none"
    BY DEF Listed, Usable
  <2>7. ListTrue(server, f)
    BY <1>1, <2>2, <2>3, <2>4, <2>5, <2>6 DEF ListTrue, Over
  <2>8. PickTrue(server, f, ui.pick, ui.gone)
    BY <1>1, <2>2, <2>3, <2>4, <2>5 DEF PickTrue, Over, MaybeCap
  <2> QED
    BY <1>5, <2>1, <2>2, <2>7, <2>8, QueryStep
<1>6. CASE QueryServe("list", now)
  <2>1. server' = server /\ \E a \in {now, Failed} : cache' = Answered(cache, "list", a)
    BY <1>6 DEF QueryServe
  <2>2. SameBut(ui, ui', {})
    BY <1>1, <1>6 DEF QueryServe, SameBut, WrFields
  <2> HIDE DEF now
  <2> QED
    BY <1>5, <2>1, <2>2
<1>7. CASE WrDeliver
  <2> DEFINE lost == [e EXCEPT !.err = TRUE, !.fresh = FALSE, !.fetch = "idle", !.ans = None]
             good == [data |-> e.ans, err |-> FALSE, fresh |-> TRUE, fetch |-> "idle", ans |-> None]
             f == IF e.ans = Failed THEN lost ELSE good
  <2>1. server' = server /\ ui' = ui /\ cache' = [cache EXCEPT !["list"] = f] /\ e.fetch = "back"
    BY <1>7 DEF WrDeliver, WrRender, Deliver
  <2>2. e.ans = Failed \/ e.ans \in Lists
    BY <1>1, <2>1 DEF ListTrue, WrEntry
  <2>3. /\ f \in WrEntry /\ f.ans = None /\ f.fetch = "idle"
        /\ f.data = IF e.ans = Failed THEN e.data ELSE e.ans
    BY ZenonT(40), <1>1, <2>2 DEF WrEntry
  <2> HIDE DEF f, e
  <2>4. f.ans \notin Lists /\ ShownCaps(f) = IF e.ans = Failed THEN ShownCaps(e) ELSE e.ans.caps
    BY <2>2, <2>3, WrConstants DEF ShownCaps
  <2>5. ListTrue(server, f) /\ PickTrue(server, f, ui.pick, ui.gone)
    BY <1>1, <2>2, <2>3, <2>4 DEF ListTrue, PickTrue
  <2> QED
    BY Zenon, <1>3, <2>1, <2>3, <2>5, QueryStep
<1> QED
  BY Zenon, <1>4, <1>6, <1>7 DEF WrQuery

-----------------------------------------------------------------------------

\* The page opens in such a state.
LEMMA WrInitially == WrInit => WrCore
<1> SUFFICES ASSUME NEW sc \in WrScenes,
                    server = [cap |-> [w \in Caps |-> IF w \in sc.caps THEN "live" ELSE "none"],
                              late |-> [w \in Caps |-> FALSE], index |-> 1],
                    cache = Observe([k \in {"list"} |-> Blank], {"list"}),
                    ui = [page |-> "wrapping", scene |-> sc.name, ops |-> sc.ops, own |-> sc.own,
                          others |-> sc.others, faults |-> sc.faults,
                          op |-> [c \in WrControls |-> "idle"], req |-> [c \in WrControls |-> NoCap],
                          box |-> [b \in {"lookup", "unwrap"} |-> NoCap], ses |-> [w \in Caps |-> "unknown"],
                          noted |-> {}, saw |-> "unknown", cur |-> NoCap, pick |-> NoCap, gone |-> FALSE,
                          info |-> NoCap, payload |-> NoCap, revealed |-> FALSE, asked |-> NoCap, stage |-> "rest",
                          play |-> 0, dlg |-> "none", sel |-> {}, rows |-> NoRows, at |-> 0]
             PROVE  WrCore
  BY ZenonT(40) DEF WrInit
<1>1. server \in WrStore
  BY DEF WrStore, CapStates
<1>2. cache = [k \in {"list"} |-> Ask(Blank)]
  BY DEF Observe, Blank
<1>3. /\ Ask(Blank) \in WrEntry /\ Ask(Blank).data = None /\ Ask(Blank).ans = None /\ Ask(Blank).fetch = "sent"
  BY Zenon DEF Ask, Blank, WrEntry
<1>4. ListTrue(server, cache["list"])
  BY Zenon, <1>2, <1>3, WrConstants DEF ListTrue, ShownCaps
<1>5. NoRows \in RowsType /\ NoRows.done = {}
  BY Zenon DEF NoRows, RowsType, MaybeCap
<1>6. WrPage(ui)
  BY Zenon, <1>5 DEF WrPage, WrFields, WrCodes, MaybeCap
<1>7. OpsTrue(server, ui.op, ui.req)
  BY Zenon DEF OpsTrue, WrControls
<1>8. /\ BoxTrue(server, ui.box, ui.dlg) /\ SesTrue(server, ui.ses) /\ RowsTrue(server, ui.rows)
      /\ PickTrue(server, cache["list"], ui.pick, ui.gone)
      /\ ClearTrue(server, ui.payload, ui.revealed, ui.asked)
  BY <1>5 DEF BoxTrue, SesTrue, RowsTrue, PickTrue, ClearTrue
<1>9. cache \in [{"list"} -> WrEntry]
  BY <1>2, <1>3
<1> QED
  BY Zenon, <1>1, <1>4, <1>6, <1>7, <1>8, <1>9 DEF WrCore

\* Every step of the wrapping page, of the server and of others keeps it.
LEMMA WrCoreKept == WrCore /\ [OnWrapping /\ WrNext]_consoleVars => WrCore'
<1> SUFFICES ASSUME WrCore, [OnWrapping /\ WrNext]_consoleVars
             PROVE  WrCore'
  OBVIOUS
<1>1. CASE UNCHANGED consoleVars
  BY <1>1 DEF consoleVars, WrCore
<1>2. CASE \E w \in Caps : SubmitWrap(w) \/ PickRow(w) \/ CheckRow(w) \/ WrOther(w)
                           \/ \E b \in {"lookup", "unwrap"} : TypeToken(b, w)
  BY <1>2, SendActionsKeep, PickRowKeeps, IdleActionsKeep, WrOtherKeeps, TypeTokenKeeps
<1>3. CASE (\E T \in SUBSET Caps : AskRevokeRows(T)) \/ ConfirmRows
  BY <1>3, RowActionsKeep
<1>4. CASE SubmitLookup \/ ConfirmRevoke \/ ConfirmUnwrap \/ TryAgain
  BY <1>4, SendActionsKeep
<1>5. CASE AskRevoke \/ AskUnwrap \/ CancelDialog
  BY <1>5, DialogActionsKeep
<1>6. CASE ToggleReveal \/ ClearPayload
  BY <1>6, PayloadActionsKeep
<1>7. CASE CheckAll
  BY <1>7, IdleActionsKeep
<1>8. CASE WrPoll \/ WrQuery
  BY <1>8, QueryActionsKeep
<1>9. CASE WrStep
  BY <1>9, BackActionsKeep, RowActionsKeep, DialogActionsKeep, RowServeKeeps DEF WrStep
<1>10. CASE WrTimers
  BY <1>10, PayloadActionsKeep, IdleActionsKeep DEF WrTimers
<1>11. CASE WrAnswer
  BY <1>11, WrServeKeeps DEF WrAnswer
<1> QED
  BY <1>1, <1>2, <1>3, <1>4, <1>5, <1>6, <1>7, <1>8, <1>9, <1>10, <1>11 DEF WrNext

\* What the page says of a capsule follows from what it has witnessed.
LEMMA WrCoreIsHonest == WrCore => UnwrapHonest /\ WrTypeOK
<1> SUFFICES ASSUME WrCore PROVE UnwrapHonest /\ WrTypeOK
  OBVIOUS
<1>1. /\ server \in WrStore /\ WrPage(ui) /\ SesTrue(server, ui.ses) /\ NoCap \notin Caps
      /\ PickTrue(server, cache["list"], ui.pick, ui.gone) /\ ClearTrue(server, ui.payload, ui.revealed, ui.asked)
  BY WrConstants DEF WrCore
<1>2. \A w \in Caps :
         /\ StatusOf(w) \in {"used", "revoked"} => server.cap[w] = StatusOf(w)
         /\ StatusOf(w) \in {"expired", "missing"} => ~Usable(server, w)
  BY <1>1 DEF StatusOf, SesTrue, Usable, Spent
<1>3. ui.pick # NoCap => /\ PickStatus = "revoked" => server.cap[ui.pick] = "revoked"
                         /\ PickStatus \in {"expired", "missing"} => ~Usable(server, ui.pick)
  BY <1>1 DEF PickStatus, PickTrue, WrRows, ShownCaps, Over, Usable
<1>4. EndingsAreReal
  BY <1>2, <1>3 DEF EndingsAreReal
<1>5. PayloadIsOnlyCopy /\ RevealWasAsked
  BY <1>1 DEF PayloadIsOnlyCopy, RevealWasAsked, ClearTrue
<1>6. WrTypeOK
  BY <1>1 DEF WrTypeOK, WrPage, WrStore, CapStates, MaybeCap
<1> QED
  BY <1>4, <1>5, <1>6 DEF UnwrapHonest

\* Whichever requests are lost, answered late or overtaken, and whatever others do
\* to the capsules, the wrapping page calls a capsule used, revoked, expired or
\* missing only when it is, holds only payloads whose capsule it consumed, and
\* shows one in clear only after that was asked for (wrapping.page.tsx and its
\* panels).
THEOREM WrappingPageHonest == WrSpec => [](UnwrapHonest /\ WrTypeOK)
<1>1. WrInit => WrCore
  BY WrInitially
<1>2. WrCore /\ [OnWrapping /\ WrNext]_consoleVars => WrCore'
  BY WrCoreKept
<1>3. WrCore => UnwrapHonest /\ WrTypeOK
  BY WrCoreIsHonest
<1> QED
  BY <1>1, <1>2, <1>3, PTL DEF WrSpec
=============================================================================
