------------------------------ MODULE WebStatus ------------------------------
(***************************************************************************)
(* The status page of the web console and the unseal dialog of the sign-in *)
(* page: the polled seal status, the form that submits the shares of a     *)
(* Shamir seal (or asks an automatic seal to unseal), sealing, rotation of *)
(* the root key and the snapshot.                                          *)
(***************************************************************************)
EXTENDS WebConsole

CONSTANTS
  Shards,     \* the shares the operators hold
  Threshold,  \* how many of them rebuild the root key
  StScenes    \* [name, place, type, sealed, ops, own, others, faults]

ASSUME StatusConstants == Threshold \in 2 .. Cardinality(Shards)

NoShard == "none"
StControls == {"unseal", "seal", "rotate", "snapshot"}

StDoes(op) == op \in ui.ops
OnPage == ui.place = "status"

-----------------------------------------------------------------------------
(* The server. received holds the shares of this round, done says that a
   round has reached the threshold, key is the generation of the root key;
   the operators hold shares of generation ui.held. *)

Opened == [server EXCEPT !.sealed = FALSE, !.index = @ + 1]

(* AcceptShard refuses after a completed round and refuses a share twice. *)
ShardTaken(s) == server.type = "shamir" => (~server.done /\ s # NoShard /\ s \notin server.received)
RoundEndsLate(s) == Cardinality(server.received \cup {s}) > Threshold
RoundEnds(s) == Cardinality(server.received \cup {s}) >= Threshold

(* The state after a share. Old shares rebuild an old key: the round is done
   and the barrier stays sealed, which is an error. *)
UnsealShard(s) ==
  IF ~ShardTaken(s) THEN server
  ELSE IF server.type # "shamir" THEN (IF server.sealed THEN Opened ELSE server)
  ELSE IF ~RoundEnds(s) THEN [server EXCEPT !.received = @ \cup {s}, !.index = @ + 1]
  ELSE IF ui.held = server.key THEN [Opened EXCEPT !.received = {}, !.done = TRUE]
  ELSE [server EXCEPT !.received = {}, !.done = TRUE, !.index = @ + 1]

UnsealAccepted(s) == ShardTaken(s) /\ (server.type = "shamir" /\ RoundEnds(s) => ui.held = server.key)

SealEffect == IF server.sealed THEN {} ELSE {[server EXCEPT !.sealed = TRUE, !.received = {}, !.done = FALSE, !.index = @ + 1]}
RotateEffect == IF server.sealed THEN {} ELSE {[server EXCEPT !.key = @ + 1, !.index = @ + 1]}
SnapshotEffect == IF server.sealed THEN {} ELSE {server}

StatusAnswer(sv) ==
  [sealed |-> sv.sealed, type |-> sv.type, received |-> Cardinality(sv.received), index |-> sv.index]
(* The answer to a share reports the progress and not the type of the seal. *)
UnsealAnswer(sv) == [StatusAnswer(sv) EXCEPT !.type = "none"]

-----------------------------------------------------------------------------
(* The view. *)

SealStatus == cache["seal"].data

StView ==
  IF cache["seal"].err THEN "error"
  ELSE IF SealStatus = None THEN "loading"
  ELSE IF ~SealStatus.sealed THEN "ok"
  ELSE IF SealStatus.type = "shamir" THEN "sealed" ELSE "auto"

StRender(c, u) == cache' = c /\ ui' = u /\ UNCHANGED server
StRefetch(c) == Invalidate(c, {"seal"}, {"seal"})

StRetry ==
  /\ OnPage /\ StView = "error" /\ ui.own > 0
  /\ StRender(StRefetch(cache), [ui EXCEPT !.own = @ - 1])

-----------------------------------------------------------------------------
(* Unsealing. On the status page the form is there while the view is sealed,
   and the mutation ends with the refetch; the dialog of the sign-in page is
   open while the status says sealed, and its mutation ends at once. *)

FormShown == IF OnPage THEN StView \in {"sealed", "auto"} ELSE ui.dialog /\ SealStatus # None /\ SealStatus.sealed
AsksShard == SealStatus.type = "shamir"

OpenUnseal ==
  /\ ~OnPage /\ ~ui.dialog /\ SealStatus # None /\ SealStatus.sealed /\ ui.own > 0
  /\ StRender(cache, [ui EXCEPT !.dialog = TRUE, !.shard = NoShard])

CloseUnseal ==
  /\ ~OnPage /\ ui.dialog
  /\ StRender(cache, [ui EXCEPT !.dialog = FALSE])

TypeShard(s) ==
  /\ StDoes("unseal") /\ FormShown /\ AsksShard /\ ui.shard # s /\ ui.op["unseal"] = "idle"
  /\ StRender(cache, [ui EXCEPT !.shard = s])

SubmitShard ==
  /\ StDoes("unseal") /\ FormShown /\ ui.op["unseal"] = "idle" /\ ui.own > 0
  /\ AsksShard => ui.shard # NoShard
  /\ StRender(cache, [Push(ui, "unseal") EXCEPT !.own = @ - 1, !.put = IF AsksShard THEN ui.shard ELSE NoShard])

(* The network may lose the request or its answer. *)
UnsealServe ==
  /\ ui.op["unseal"] = "sent"
  /\ \/ /\ server' = UnsealShard(ui.put)
        /\ ui' = [ui EXCEPT !.op["unseal"] = IF UnsealAccepted(ui.put) THEN "ok" ELSE "failed",
                            !.res = UnsealAnswer(server')]
     \/ /\ ui.faults > 0 /\ server' \in {server, UnsealShard(ui.put)}
        /\ ui' = [ui EXCEPT !.op["unseal"] = "failed", !.faults = @ - 1]
  /\ UNCHANGED cache

UnsealBackUnread ==
  /\ Returned("unseal")
  /\ IF ui.op["unseal"] = "failed" THEN StRender(cache, Settle(ui, "unseal"))
     ELSE LET c == SetData(cache, "seal", ui.res) IN
          IF OnPage THEN StRender(c, [Settle(ui, "unseal") EXCEPT !.shard = NoShard])
          ELSE StRender(c, [Settle(ui, "unseal") EXCEPT !.shard = NoShard, !.closing = ~ui.res.sealed])

(* The answer becomes the status; the page then reads the status again. *)
UnsealBack ==
  /\ Returned("unseal")
  /\ IF ui.op["unseal"] = "failed" THEN StRender(cache, Settle(ui, "unseal"))
     ELSE LET c == SetData(cache, "seal", ui.res) IN
          IF OnPage THEN StRender(StRefetch(c), [ui EXCEPT !.op["unseal"] = "wait", !.at["unseal"] = ui.res.index,
                                                           !.shard = NoShard])
          ELSE StRender(c, [Settle(ui, "unseal") EXCEPT !.shard = NoShard, !.closing = ~ui.res.sealed])

UnsealDone ==
  /\ ui.op["unseal"] = "wait" /\ ~Waiting(cache, {"seal"})
  /\ StRender(cache, Settle(ui, "unseal"))

(* 650 ms after the last share the dialog closes and the status is read. *)
DialogDone ==
  /\ ui.closing
  /\ StRender(StRefetch(cache), [ui EXCEPT !.closing = FALSE, !.dialog = FALSE])

-----------------------------------------------------------------------------
(* Sealing takes a dialog with a box to tick, rotation a dialog, the snapshot
   one click. Their buttons are off while the page knows no status. *)

StOff == StView \in {"loading", "error"}

OpenDialog(c) ==
  /\ OnPage /\ StDoes(c) /\ c \in {"seal", "rotate"} /\ ui.ask = NoShard /\ ui.own > 0
  /\ IF c = "seal" THEN StView = "ok" ELSE ~StOff
  /\ StRender(cache, [ui EXCEPT !.ask = c, !.ack = FALSE])

TickAck ==
  /\ ui.ask = "seal" /\ ui.op["seal"] = "idle" /\ ~ui.ack
  /\ StRender(cache, [ui EXCEPT !.ack = TRUE])

CancelAsk ==
  /\ ui.ask # NoShard /\ ui.op[ui.ask] = "idle"
  /\ StRender(cache, [ui EXCEPT !.ask = NoShard])

ConfirmAsk ==
  /\ ui.ask # NoShard /\ ui.op[ui.ask] = "idle" /\ (ui.ask = "seal" => ui.ack) /\ ui.own > 0
  /\ StRender(cache, [Push(ui, ui.ask) EXCEPT !.own = @ - 1])

SealBackUnread ==
  /\ Returned("seal")
  /\ IF ui.op["seal"] = "failed" THEN StRender(cache, Settle(ui, "seal"))
     ELSE StRender(cache, [Await(ui, "seal", "seal") EXCEPT !.ask = NoShard])

(* A success of sealing closes the dialog and waits for the status. *)
SealBack ==
  /\ Returned("seal")
  /\ IF ui.op["seal"] = "failed" THEN StRender(cache, Settle(ui, "seal"))
     ELSE StRender(StRefetch(cache), [Await(ui, "seal", "seal") EXCEPT !.ask = NoShard])

SealDone ==
  /\ ui.op["seal"] = "wait" /\ ~Waiting(cache, {"seal"})
  /\ StRender(cache, Settle(ui, "seal"))

(* The answer of a rotation is dropped, the new shares in it with it; the
   dialog closes on success only. *)
RotateBack ==
  /\ Returned("rotate")
  /\ StRender(cache, [Settle(ui, "rotate") EXCEPT !.ask = IF ui.op["rotate"] = "ok" THEN NoShard ELSE @])

TakeSnapshot ==
  /\ OnPage /\ StDoes("snapshot") /\ ui.ask = NoShard /\ ~StOff /\ ui.op["snapshot"] = "idle" /\ ui.own > 0
  /\ StRender(cache, [Push(ui, "snapshot") EXCEPT !.own = @ - 1])

SnapshotBack == Returned("snapshot") /\ StRender(cache, Settle(ui, "snapshot"))

-----------------------------------------------------------------------------
StEffect(c) == CASE c = "seal" -> SealEffect [] c = "rotate" -> RotateEffect [] c = "snapshot" -> SnapshotEffect

(* Another operator submits a share or seals. *)
StOther ==
  /\ ui.others > 0
  /\ \/ \E s \in Shards : server' = UnsealShard(s) /\ server' # server
     \/ server' \in SealEffect
  /\ ui' = [ui EXCEPT !.others = @ - 1]
  /\ UNCHANGED cache

StPoll == PollTick("seal") /\ \A c \in StControls : ui.op[c] # "wait"
StDeliver == cache["seal"].fetch = "back" /\ StRender(Deliver(cache, "seal"), ui)

StInit ==
  \E sc \in StScenes :
    /\ server = [sealed |-> sc.sealed, type |-> sc.type, received |-> {}, done |-> ~sc.sealed, key |-> 1, index |-> 1]
    /\ cache = Observe([k \in {"seal"} |-> Blank], {"seal"})
    /\ ui = [page |-> "status", scene |-> sc.name, place |-> sc.place, ops |-> sc.ops, own |-> sc.own,
             others |-> sc.others, faults |-> sc.faults, held |-> 1, op |-> [c \in StControls |-> "idle"],
             at |-> [c \in StControls |-> 0], shard |-> NoShard, put |-> NoShard, res |-> None, ask |-> NoShard,
             ack |-> FALSE, dialog |-> FALSE, closing |-> FALSE]

OnStatus == ui.page = "status"

StStep ==
  \/ UnsealServe \/ \E c \in StControls \ {"unseal"} : OpServe(c, StEffect(c))
  \/ UnsealBack \/ UnsealDone \/ SealBack \/ SealDone \/ RotateBack \/ SnapshotBack \/ DialogDone
StQuery == QueryServe("seal", StatusAnswer(server)) \/ StDeliver

StNext ==
  \/ \E s \in Shards : TypeShard(s)
  \/ \E c \in StControls : OpenDialog(c)
  \/ OpenUnseal \/ CloseUnseal \/ SubmitShard \/ TickAck \/ CancelAsk \/ ConfirmAsk \/ TakeSnapshot
  \/ StRetry \/ StOther \/ StPoll \/ StStep \/ StQuery

StFairness == WF_consoleVars(OnStatus /\ StStep) /\ WF_consoleVars(OnStatus /\ StQuery)

-----------------------------------------------------------------------------

(* The status page is in one of its states, and the server forgets the shares of
   a round as soon as they reach the threshold. *)
StTypeOK ==
  OnStatus =>
    /\ server.received \subseteq Shards /\ Cardinality(server.received) < Threshold
    /\ ui.op \in [StControls -> OpStates] /\ ui.shard \in Shards \cup {NoShard}

(* The answer to a share says nothing of the seal's type, so a server with a
   Shamir seal may look like one that unseals itself, with a button in place
   of the field for the share: on the status page this ends with the spinner. *)
ShardFormKept == OnStatus /\ OnPage /\ StView = "auto" => server.type # "shamir" \/ ui.op["unseal"] # "idle"

(* The spinner of sealing and of a share ends with the change on the page. *)
SealChangeShown ==
  OnStatus => \A c \in {"seal", "unseal"} :
    ui.op[c] = "wait" /\ ui'.op[c] = "idle" => ChangeShown(c, "seal")

(* Only the answer to a share, which may come late, and which the page follows
   with a refetch, takes the status page back in time: a poll answered before
   a share was accepted does not take the share off the page again. *)
StatusNeverBack ==
  OnStatus /\ OnPage /\ SealStatus # None /\ ~Returned("unseal") =>
    SealStatus'.index >= SealStatus.index

(* "The root key stays the same" when the page rotates, and "unsealing will
   need the key share holders": a round of their shares that reached the
   threshold opens the server. *)
SharesOpen == OnStatus /\ server.type = "shamir" /\ server.done => ~server.sealed

StBusy == OnStatus /\ (Busy(StControls) \/ ui.closing)

=============================================================================
