----------------------------- MODULE WebConsole -----------------------------
(***************************************************************************)
(* What the pages of the web console share: the server behind the API, the *)
(* query cache of @tanstack/react-query and the state of the mounted page. *)
(* The router mounts one page at a time, so the page modules that extend   *)
(* this one all speak of the same three variables.                         *)
(*                                                                         *)
(* A cache entry holds the last good answer for its key, whether the last  *)
(* fetch failed, whether the answer is younger than its staleTime, and the *)
(* fetch in flight, if any: sent, or answered and not delivered yet.       *)
(***************************************************************************)
EXTENDS Naturals, Sequences, FiniteSets

CONSTANTS
  None,     \* nothing
  Failed    \* the answer of a request that failed

ASSUME ConsoleConstants == None # Failed

VARIABLES
  server,   \* what the server stores for the page
  cache,    \* the query cache: [query keys -> entries]
  ui        \* the state of the mounted page

consoleVars == <<server, cache, ui>>

Blank == [data |-> None, err |-> FALSE, fresh |-> FALSE, fetch |-> "idle", ans |-> None]

Ask(e) == [e EXCEPT !.fetch = "sent", !.ans = None]

(* Observers of the keys K mount: a key that has no fresh answer is fetched,
   unless a fetch is in flight, which the observers then share. *)
Observe(c, K) ==
  [k \in DOMAIN c |->
     IF k \in K /\ c[k].fetch = "idle" /\ ~c[k].fresh THEN Ask(c[k]) ELSE c[k]]

(* invalidateQueries: an observed key is fetched again, and a fetch in flight
   is thrown away and restarted; only a very first fetch, which has no data to
   fall back on, is kept. A key nobody observes is just marked stale. *)
Invalidate(c, K, observed) ==
  [k \in DOMAIN c |->
     IF k \notin K THEN c[k]
     ELSE IF k \notin observed THEN [c[k] EXCEPT !.fresh = FALSE]
     ELSE IF c[k].fetch # "idle" /\ c[k].data = None THEN c[k]
     ELSE Ask([c[k] EXCEPT !.fresh = FALSE])]

(* fetchQuery with staleTime 0: joins a fetch in flight. *)
FetchNow(c, k) == IF c[k].fetch = "idle" THEN [c EXCEPT ![k] = Ask(@)] ELSE c

Waiting(c, K) == \E k \in K : c[k].fetch # "idle"

Answered(c, k, a) == [c EXCEPT ![k].fetch = "back", ![k].ans = a]

(* The answer is delivered. A failed fetch keeps the data of the last good one. *)
Deliver(c, k) ==
  [c EXCEPT ![k] =
     IF @.ans = Failed
     THEN [@ EXCEPT !.err = TRUE, !.fresh = FALSE, !.fetch = "idle", !.ans = None]
     ELSE [data |-> @.ans, err |-> FALSE, fresh |-> TRUE, fetch |-> "idle", ans |-> None]]

(* The staleTime of the answers K ran out; that matters to an observer that
   mounts, so it is decided there. *)
Aged(c, K) == [k \in DOMAIN c |-> IF k \in K THEN [c[k] EXCEPT !.fresh = FALSE] ELSE c[k]]

(* setQueryData: a mutation's own answer becomes the data. *)
SetData(c, k, a) == [c EXCEPT ![k].data = a, ![k].err = FALSE, ![k].fresh = TRUE]

-----------------------------------------------------------------------------
(* Controls that send one request and show a spinner until it is answered.
   ui.op[c] is "idle", "sent", the answer on its way, "ok" or "failed", or
   "wait" while a success waits for the queries it invalidated. *)

OpStates == {"idle", "sent", "ok", "failed", "wait"}
Push(u, c) == [u EXCEPT !.op[c] = "sent"]
Settle(u, c) == [u EXCEPT !.op[c] = "idle"]
(* at is the change that a refetch of k will show; the very first fetch of k
   is not restarted and may have been answered before the change. *)
Await(u, c, k) ==
  [u EXCEPT !.op[c] = "wait", !.at[c] = IF cache[k].data = None THEN 0 ELSE server.index]
Returned(c) == ui.op[c] \in {"ok", "failed"}
Busy(C) == \E c \in C : ui.op[c] # "idle"

(* The server carries the request of c out, which leads to one of the states
   done, and refuses it when there is none. The network may lose the request
   or its answer: the page sees a failure and the effect may have happened. *)
OpServe(c, done) ==
  /\ ui.op[c] = "sent"
  /\ \/ server' \in done /\ ui' = [ui EXCEPT !.op[c] = "ok"]
     \/ done = {} /\ server' = server /\ ui' = [ui EXCEPT !.op[c] = "failed"]
     \/ /\ ui.faults > 0 /\ server' \in done \cup {server}
        /\ ui' = [ui EXCEPT !.op[c] = "failed", !.faults = @ - 1]
  /\ UNCHANGED cache

(* The server answers the query k with a, or the request fails. *)
QueryServe(k, a) ==
  /\ cache[k].fetch = "sent"
  /\ \/ cache' = Answered(cache, k, a) /\ ui' = ui
     \/ /\ ui.faults > 0 /\ cache' = Answered(cache, k, Failed)
        /\ ui' = [ui EXCEPT !.faults = @ - 1]
  /\ UNCHANGED server

(* The page reads from k what is at least as recent as the change of c that it
   waited for, or the refetch failed. *)
ChangeShown(c, k) == cache[k].err \/ (cache[k].data # None /\ cache[k].data.index >= ui.at[c])

(* The interval of a polled query ran out: it is fetched unless it is already. *)
PollTick(k) ==
  /\ cache[k].fetch = "idle"
  /\ cache' = FetchNow(cache, k)
  /\ UNCHANGED <<server, ui>>

=============================================================================
