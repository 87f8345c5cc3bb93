----------------------------- MODULE WebLiveLog -----------------------------
(***************************************************************************)
(* The live audit log of the web console: the tail that useLiveLog keeps   *)
(* open over server-sent events, with its pauses, filter changes and       *)
(* reconnections, the polled query that it is merged with, and the server  *)
(* side of the stream over the ring buffer of recent records.              *)
(*                                                                         *)
(* A record is <<sequence number, kind, boot>>. The filters of the page    *)
(* are "all" and one that keeps a single kind of record, "denied".         *)
(***************************************************************************)
EXTENDS WebConsole

CONSTANTS
  RingSize,   \* records the server keeps in memory
  TailCap,    \* rows the page keeps (LIVE_LOG_CAP)
  LlScenes    \* [name, ops, own, appends, restarts, cuts, faults]

ASSUME LiveLogConstants == RingSize > 0 /\ TailCap > 0

Kinds == {"denied", "other"}
LogFilters == {"all", "denied"}
Passes(f, e) == f = "all" \/ e[2] = f

LlDoes(op) == op \in ui.ops

-----------------------------------------------------------------------------
(* The server: the log of this boot and the ring over its end. *)

HeadSeq == Len(server.log)
Entry(i) == <<i, server.log[i], server.boot>>
InRing == {i \in 1..HeadSeq : i + RingSize > HeadSeq}

(* After: what the ring still has beyond seq, and whether it lost some. *)
Later(seq) == {i \in InRing : i > seq}
GapAfter(seq) == Later(seq) # {} /\ seq # 0 /\ seq + 1 \notin Later(seq)

(* getAuditEvents: the most recent records that pass the filter. *)
Recent(f) == {Entry(i) : i \in {j \in InRing : Passes(f, Entry(j))}}

LogAppend(kind) ==
  /\ ui.appends > 0
  /\ server' = [server EXCEPT !.log = Append(@, kind)]
  /\ ui' = [ui EXCEPT !.appends = @ - 1]
  /\ UNCHANGED cache

-----------------------------------------------------------------------------
(* The hook. A connection is off, connecting, live with what the server sent
   and the page has not read, or lost and waiting for its timer. *)

Off == [pc |-> "off", filter |-> "all", cursor |-> 0, sent |-> <<>>]
Dial(f) == [Off EXCEPT !.pc = "connecting", !.filter = f]

Forbidden(c, u) == c[u.filter].err
Wanted(c, u) == <<~Forbidden(c, u) /\ ~u.paused, u.filter>>

RedialUnfiltered(c, u) ==
  IF Wanted(c, u)[1] = u.wanted[1] THEN u
  ELSE [u EXCEPT !.wanted = Wanted(c, u), !.conn = IF Wanted(c, u)[1] THEN Dial(u.filter) ELSE Off]

(* The effect of the hook: a pause, a resumption, a filter or a refusal drops
   the stream and, if the tail is still wanted, opens it anew. *)
Redial(c, u) ==
  IF Wanted(c, u) = u.wanted THEN u
  ELSE [u EXCEPT !.wanted = Wanted(c, u), !.conn = IF Wanted(c, u)[1] THEN Dial(u.filter) ELSE Off]

LlRender(c, u) == cache' = c /\ ui' = Redial(c, u)

TogglePause ==
  /\ LlDoes("pause") /\ ui.own > 0 /\ ~Forbidden(cache, ui)
  /\ LlRender(cache, [ui EXCEPT !.paused = ~@, !.own = @ - 1])
  /\ UNCHANGED server

SetLogFilter(f) ==
  /\ LlDoes("filter") /\ ui.own > 0 /\ ~Forbidden(cache, ui) /\ f # ui.filter
  /\ \E aged \in {{}, {f}} :
       LlRender(Observe(Aged(cache, aged), {f}), [ui EXCEPT !.filter = f, !.own = @ - 1])
  /\ UNCHANGED server

ClearGap ==
  /\ ui.gap
  /\ LlRender(cache, [ui EXCEPT !.gap = FALSE])
  /\ UNCHANGED server

(* The server takes the stream: it starts after the last record the page has
   seen, or at the head for a page that has seen none. *)
TailAcceptHead ==
  /\ ui.conn.pc = "connecting"
  /\ ui' = [ui EXCEPT !.conn.pc = "live", !.conn.cursor = HeadSeq, !.conn.sent = <<[event |-> "hello", head |-> HeadSeq]>>]
  /\ UNCHANGED <<server, cache>>

TailAccept ==
  /\ ui.conn.pc = "connecting"
  /\ LET at == IF ui.lastSeq = 0 THEN HeadSeq ELSE ui.lastSeq
     IN ui' = [ui EXCEPT !.conn.pc = "live", !.conn.cursor = at, !.conn.sent = <<[event |-> "hello", head |-> at]>>]
  /\ UNCHANGED <<server, cache>>

(* One turn of the stream's loop: a gap if the ring overtook the cursor, then
   the records that pass the filter. *)
TailPush ==
  /\ ui.conn.pc = "live" /\ Later(ui.conn.cursor) # {}
  /\ LET from == CHOOSE i \in Later(ui.conn.cursor) : \A j \in Later(ui.conn.cursor) : i <= j
         batch == [i \in 1..(HeadSeq - from + 1) |-> Entry(from + i - 1)]
         kept == SelectSeq(batch, LAMBDA e : Passes(ui.conn.filter, e))
         msgs == [i \in 1..Len(kept) |-> [event |-> "audit", entry |-> kept[i]]]
         gap == IF GapAfter(ui.conn.cursor) THEN <<[event |-> "gap"]>> ELSE <<>>
     IN ui' = [ui EXCEPT !.conn.cursor = HeadSeq, !.conn.sent = @ \o gap \o msgs]
  /\ UNCHANGED <<server, cache>>

CappedOver(rows) == SubSeq(rows, 1, IF Len(rows) <= TailCap THEN Len(rows) ELSE TailCap + 1)

Capped(rows) == SubSeq(rows, 1, IF Len(rows) < TailCap THEN Len(rows) ELSE TailCap)

ReadKeepsSeq(u, m) ==
  CASE m.event = "hello" -> IF u.lastSeq = 0 THEN [u EXCEPT !.lastSeq = m.head, !.base = m.head] ELSE u
    [] m.event = "gap" -> [u EXCEPT !.gap = TRUE, !.missed = TRUE]
    [] m.event = "audit" -> [u EXCEPT !.rows = Capped(<<m.entry>> \o @), !.got = @ \cup {m.entry}]

(* What the page does with an event of the stream. base, got and missed are
   what the reader has been told since the tail began. *)
Read(u, m) ==
  CASE m.event = "hello" -> IF u.lastSeq = 0 THEN [u EXCEPT !.lastSeq = m.head, !.base = m.head] ELSE u
    [] m.event = "gap" -> [u EXCEPT !.gap = TRUE, !.missed = TRUE]
    [] m.event = "audit" ->
         [u EXCEPT !.lastSeq = m.entry[1], !.rows = Capped(<<m.entry>> \o @), !.got = @ \cup {m.entry}]

TailRead ==
  /\ ui.conn.pc = "live" /\ ui.conn.sent # <<>>
  /\ LlRender(cache, Read([ui EXCEPT !.conn.sent = Tail(@)], Head(ui.conn.sent)))
  /\ UNCHANGED server

Dropped(u) == [u EXCEPT !.conn = IF @.pc \in {"connecting", "live"} THEN [Off EXCEPT !.pc = "lost"] ELSE @]

(* The stream ends: the network, the server's limit on its age or on the
   number of streams. What was on its way is lost. *)
TailCut ==
  /\ ui.cuts > 0 /\ ui.conn.pc \in {"connecting", "live"}
  /\ ui' = [Dropped(ui) EXCEPT !.cuts = @ - 1]
  /\ UNCHANGED <<server, cache>>

(* The timer of RECONNECT_MS. *)
TailRetry ==
  /\ ui.conn.pc = "lost"
  /\ ui' = [ui EXCEPT !.conn = Dial(ui.filter)]
  /\ UNCHANGED <<server, cache>>

(* The server restarts. A log kept in a file resumes its numbers and the ring
   is read back, so only the stream is lost; one that goes to standard output
   starts again from one. *)
LogRestart ==
  /\ ui.restarts > 0
  /\ server' = [log |-> <<>>, boot |-> server.boot + 1]
  /\ ui' = [Dropped(ui) EXCEPT !.restarts = @ - 1]
  /\ UNCHANGED cache

-----------------------------------------------------------------------------
(* The polled records and the merged list. *)

Polled == cache[ui.filter].data
PolledRecords == IF Polled = None THEN {} ELSE Polled.events

(* A record that came both ways is listed once, keyed by its number. *)
Merged ==
  LET live == {ui.rows[i] : i \in DOMAIN ui.rows}
  IN live \cup {e \in PolledRecords : \A r \in live : r[1] # e[1]}

(* The interval of the query; scenes about the stream leave it out. *)
LlPoll == LlDoes("poll") /\ PollTick(ui.filter)
(* The failures that matter are refusals (403); after others the query keeps
   its records and the tail goes on. *)
LlAnswer(f) == QueryServe(f, [events |-> Recent(f)])

LlDeliver(f) ==
  /\ cache[f].fetch = "back"
  /\ LlRender(Deliver(cache, f), ui)
  /\ UNCHANGED server

(* The hash chain check of the records in memory. *)
RunVerify ==
  /\ LlDoes("verify") /\ ui.own > 0 /\ ui.op["verify"] = "idle" /\ ~Forbidden(cache, ui)
  /\ ui' = [Push(ui, "verify") EXCEPT !.own = @ - 1]
  /\ UNCHANGED <<server, cache>>

(* An answer and a failure both set a verdict and free the button. *)
VerifyBack ==
  /\ ui.op["verify"] \in {"ok", "failed"}
  /\ ui' = [Settle(ui, "verify") EXCEPT !.verdict = ui.op["verify"]]
  /\ UNCHANGED <<server, cache>>

LlInit ==
  \E sc \in LlScenes :
    /\ server = [log |-> <<"other">>, boot |-> 1]
    /\ cache = Observe([f \in LogFilters |-> Blank], {"all"})
    /\ ui = [page |-> "livelog", scene |-> sc.name, ops |-> sc.ops, own |-> sc.own, appends |-> sc.appends,
             restarts |-> sc.restarts, cuts |-> sc.cuts, faults |-> sc.faults, op |-> [c \in {"verify"} |-> "idle"],
             filter |-> "all", paused |-> FALSE, wanted |-> <<TRUE, "all">>, conn |-> Dial("all"),
             rows |-> <<>>, lastSeq |-> 0, gap |-> FALSE, base |-> 0, got |-> {}, missed |-> FALSE, verdict |-> "none"]

OnLiveLog == ui.page = "livelog"

LlStream == TailAccept \/ TailPush \/ TailRead \/ TailRetry
LlQuery == \E f \in LogFilters : LlAnswer(f) \/ LlDeliver(f)
LlVerify == OpServe("verify", {server}) \/ VerifyBack

LlNext ==
  \/ \E kind \in Kinds : LogAppend(kind)
  \/ \E f \in LogFilters : SetLogFilter(f)
  \/ TogglePause \/ ClearGap \/ TailCut \/ LogRestart \/ LlPoll \/ RunVerify
  \/ LlStream \/ LlQuery \/ LlVerify

(* The stream runs and its timer fires, requests are answered or fail, and
   the polling goes on. *)
LlFairness ==
  /\ WF_consoleVars(OnLiveLog /\ LlStream) /\ WF_consoleVars(OnLiveLog /\ LlQuery)
  /\ WF_consoleVars(OnLiveLog /\ LlVerify) /\ WF_consoleVars(OnLiveLog /\ LlPoll)

-----------------------------------------------------------------------------

(* The live log is in one of its states: it never keeps more rows than the cap
   of useAuditTail, and a connection is up or being made exactly while the
   page wants one. *)
LlTypeOK ==
  OnLiveLog =>
    /\ server.log \in Seq(Kinds) /\ ui.conn.pc \in {"off", "connecting", "live", "lost"}
    /\ ui.conn.filter \in LogFilters /\ ui.conn.cursor \in Nat /\ ui.lastSeq \in Nat
    /\ Len(ui.rows) <= TailCap /\ ui.wanted \in BOOLEAN \X LogFilters
    /\ ui.wanted[1] <=> (ui.conn.pc # "off")

(* The records that pass every filter of the page, since the tail began. *)
Due == {i \in 1..HeadSeq : server.log[i] = "denied" /\ i > ui.base}

(* The tail "never silently drops a gap" of a server that keeps running: once
   a live stream has caught up, every record since the tail began that passes
   the filters was shown in it, or the gap was announced, whatever was cut,
   paused or overwritten. *)
TailComplete ==
  OnLiveLog /\ server.boot = 1 /\ ui.conn.pc = "live" /\ ui.conn.sent = <<>> /\ Later(ui.conn.cursor) = {} /\ ui.lastSeq # 0 =>
    ui.missed \/ \A i \in Due : Entry(i) \in ui.got

(* The tail "never re-plays history": its rows are in strictly descending
   order, each record once, across reconnections, filter changes and restarts
   of the server. *)
TailOnce ==
  OnLiveLog => \A i, j \in DOMAIN ui.rows :
                 i < j => ui.rows[i][3] > ui.rows[j][3] \/ (ui.rows[i][3] = ui.rows[j][3] /\ ui.rows[i][1] > ui.rows[j][1])

(* A record that enters the tail passes the filter that is on the page at that
   moment, and none enters while the tail is paused or refused. *)
TailObeys ==
  OnLiveLog /\ ui'.rows # ui.rows =>
    ~ui.paused /\ ~Forbidden(cache, ui) /\ Passes(ui.filter, ui'.rows[1])

(* The check is running, a record of the ring that passes the filter is in
   neither the tail nor the polled list, or the tail is behind one. *)
LlBusy ==
  OnLiveLog /\ (ui.op["verify"] # "idle" \/ (LlDoes("poll") /\ ~(Recent(ui.filter) \subseteq Merged))
                \/ (ui.wanted[1] /\ server.boot = 1 /\ ~ui.missed /\ ui.lastSeq # 0 /\ \E i \in Due : Entry(i) \notin ui.got))

=============================================================================
