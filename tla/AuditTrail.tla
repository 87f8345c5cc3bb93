------------------------------ MODULE AuditTrail ------------------------------
(***************************************************************************)
(* The audit trail (internal/audit): the middleware that records requests, *)
(* the Dispatcher that seals entries into one hash chain, the primary log  *)
(* file with its rotation, the in-memory window, and one named sink with   *)
(* its delivery workers.                                                   *)
(*                                                                         *)
(* An entry is known by its hash: entry h is the h-th ever sealed, and     *)
(* sealed[h] holds its sequence number and the hash it links to (0 for     *)
(* GenesisHash).  The complete lines ever written to the primary log are   *)
(* numbered: a file is the lines after its first number, up to where the   *)
(* next file starts.  Bad is a line that is no record, and "partial" says  *)
(* that the active file ends in a line without its newline.  Sizes are     *)
(* counted in lines.                                                       *)
(*                                                                         *)
(* Dispatcher.Log holds chainMu from sealing to the last enqueue, so it is *)
(* one step; each delivery attempt of a sink is a step of its own.  Two    *)
(* rotations are at least a second apart (their names differ).             *)
(***************************************************************************)
EXTENDS Integers, Sequences, FiniteSets

CONSTANTS MaxSize,     \* lines after which the file is rotated
          MaxBackups,  \* rotated files kept
          RingCap,     \* size of the in-memory window
          QueueSize,   \* sinkQueueSize
          Attempts,    \* delivery attempts of the sink's RetryPolicy
          FailFast,    \* failures in a row after which one attempt must do
          MaxRunners,  \* bound: registrations of the sink
          Bounds       \* the bounds of a behaviour, one of a set of records:
                       \* entries, registrations, crashes and failing file operations

ASSUME AuditAssumption ==
  /\ {MaxSize, MaxBackups, RingCap, QueueSize, Attempts, FailFast} \subseteq Nat \ {0}
  /\ Bounds \subseteq [entries : Nat, runners : 0..MaxRunners, crashes : Nat, faults : Nat]

VARIABLES
  sealed,    \* history: the entries sealed, by hash
  chain,     \* [prevHash, seq] of the Dispatcher
  ring,      \* the in-memory window
  file,      \* the primary log: its lines (history: also those of purged files),
             \* start, the lines before the active file; partial; size as the
             \* logger counts it; open handle; backups, where each of the rotated
             \* files starts; whether old files are to be purged
  runners,   \* the sinkRunners created by this process
  current,   \* the registered one, or 0
  dest,      \* history: what the sink's destination (a file) received, in order;
             \* a failed attempt leaves nothing there
  served,    \* requests handled by the process whose entry is not logged yet
  lost,      \* history: requests handled and never recorded in the primary log
  cuts,      \* history: restarts that found the active file empty after a rotation
  crashes, faults,
  bound      \* the bounds of this behaviour

vars == <<sealed, chain, ring, file, runners, current, dest, served, lost, cuts, crashes, faults,
          bound>>

Bad == -1

Genesis == [prevHash |-> 0, seq |-> 0]

EmptyFile == [log |-> <<>>, start |-> 0, partial |-> FALSE, size |-> 0, open |-> TRUE,
              backups |-> <<>>, purge |-> FALSE]

\* The lines of the active file.
Lines(f) == SubSeq(f.log, f.start + 1, Len(f.log))
NoLines(f) == f.start = Len(f.log)

LastOf(s, n) == IF Len(s) <= n THEN s ELSE SubSeq(s, Len(s) - n + 1, Len(s))

Init == /\ sealed = <<>> /\ chain = Genesis /\ ring = <<>>
        /\ file = EmptyFile
        /\ runners = <<>> /\ current = 0 /\ dest = <<>>
        /\ served = 0 /\ lost = 0 /\ cuts = 0
        /\ crashes = 0 /\ faults = 0
        /\ bound \in Bounds

-----------------------------------------------------------------------------
(* The rotating file.  Each operator gives the set of possible results;    *)
(* a result is the file and the faults spent on it.                        *)

Result(f, n) == [file |-> f, faults |-> n]

Rotated(f) == [f EXCEPT !.start = Len(f.log), !.partial = FALSE, !.size = 0, !.open = TRUE,
                        !.backups = Append(@, f.start), !.purge = TRUE]

\* rotateLocked: the handle is closed, then the file renamed, then opened again.
\* A failing rename leaves the file where it is; a failing open leaves a closed
\* handle and the old size, so that the next write rotates again.  A path that
\* does not exist (after a failing open) has nothing to rename.
Rotate(f) ==
  IF f.size < MaxSize THEN {Result(f, 0)}
  ELSE IF ~f.open /\ NoLines(f)
    THEN {Result([f EXCEPT !.size = 0, !.open = TRUE, !.purge = TRUE], 0),
          Result(f, 1)}
  ELSE {Result(Rotated(f), 0),
        Result([f EXCEPT !.open = TRUE, !.purge = TRUE], 1),
        Result([Rotated(f) EXCEPT !.size = f.size, !.open = FALSE, !.purge = f.purge], 1),
        Result([f EXCEPT !.open = FALSE], 1)}

\* Logger.Write of entry h: complete, refused, or cut short.  A complete line
\* that follows a partial one ends up in that line.
WriteLine(f, h) ==
  IF ~f.open THEN {Result(f, 0)}
  ELSE {Result([f EXCEPT !.log = Append(@, IF f.partial THEN Bad ELSE h),
                         !.partial = FALSE, !.size = @ + 1], 0),
        Result(f, 1),
        Result([f EXCEPT !.partial = TRUE, !.size = @ + 1], 1)}

\* RotatingFileLogger.Write
Written(f, h) ==
  UNION {{Result(w.file, r.faults + w.faults) : w \in WriteLine(r.file, h)} : r \in Rotate(f)}

\* purgeOldFiles, a goroutine of its own.
Purge ==
  /\ file.purge
  /\ file' = [file EXCEPT !.backups = LastOf(@, MaxBackups), !.purge = FALSE]
  /\ UNCHANGED <<sealed, chain, ring, runners, current, dest, served, lost, cuts, crashes, faults>>

-----------------------------------------------------------------------------
(* The sink's workers.                                                     *)

NewRunner(paused) ==
  [state |-> "run", q |-> <<>>, cur |-> 0, left |-> 0, failing |-> 0, paused |-> paused,
   stopped |-> FALSE, last |-> 0,
   offered |-> 0, sent |-> 0, errors |-> 0, dropped |-> 0, skipped |-> 0]

\* Fault: a full queue drops the oldest entry without counting it.
Enqueued_DropsOldest(r, h) ==
  [r EXCEPT !.offered = @ + 1,
            !.skipped = IF r.paused THEN @ + 1 ELSE @,
            !.q = IF r.paused THEN @
                  ELSE IF Len(@) < QueueSize THEN Append(@, h) ELSE Append(Tail(@), h)]

\* enqueue: skipped while paused, dropped when the queue is full.
Enqueued(r, h) ==
  [r EXCEPT !.offered = @ + 1,
            !.skipped = IF r.paused THEN @ + 1 ELSE @,
            !.dropped = IF ~r.paused /\ Len(r.q) >= QueueSize THEN @ + 1 ELSE @,
            !.q = IF r.paused \/ Len(@) >= QueueSize THEN @ ELSE Append(@, h)]

Worker(i) == i \in DOMAIN runners

\* The worker takes the next entry; after FailFast failures it tries it once.
Take(i) ==
  /\ Worker(i) /\ runners[i].cur = 0 /\ runners[i].q # <<>>
  /\ runners' = [runners EXCEPT
       ![i] = [@ EXCEPT !.cur = Head(runners[i].q), !.q = Tail(runners[i].q),
                        !.left = IF runners[i].failing >= FailFast THEN 1 ELSE Attempts]]
  /\ UNCHANGED <<sealed, chain, ring, file, current, dest, served, lost, cuts, crashes, faults>>

Delivered(r) ==
  [r EXCEPT !.last = r.cur, !.cur = 0, !.left = 0, !.sent = @ + 1, !.failing = 0]

\* A failed attempt: the last one, a permanent error, or a stop during the
\* backoff ends the delivery with an error.
Failed(r, permanent) ==
  IF permanent \/ r.left = 1 \/ r.stopped
    THEN [r EXCEPT !.last = r.cur, !.cur = 0, !.left = 0, !.errors = @ + 1,
                   !.failing = IF @ < FailFast THEN @ + 1 ELSE @]
    ELSE [r EXCEPT !.left = @ - 1]

\* Fault: an entry whose attempts all fail is tried for ever.
Send_Forever(i) ==
  /\ Worker(i) /\ runners[i].cur # 0
  /\ \/ /\ dest' = Append(dest, runners[i].cur)
        /\ runners' = [runners EXCEPT ![i] = Delivered(@)]
     \/ UNCHANGED dest /\ runners' = [runners EXCEPT ![i].left = 3 - @]
  /\ UNCHANGED <<sealed, chain, ring, file, current, served, lost, cuts, crashes, faults>>

Send(i) ==
  /\ Worker(i) /\ runners[i].cur # 0
  /\ \/ /\ dest' = Append(dest, runners[i].cur)
        /\ runners' = [runners EXCEPT ![i] = Delivered(@)]
     \/ \E permanent \in BOOLEAN :
          /\ UNCHANGED dest
          /\ runners' = [runners EXCEPT ![i] = Failed(@, permanent)]
  /\ UNCHANGED <<sealed, chain, ring, file, current, served, lost, cuts, crashes, faults>>

\* close, after its queue is closed: the worker ends when the queue is empty,
\* then the sink is closed.
CloseDone(i) ==
  /\ Worker(i) /\ runners[i].state = "closing" /\ runners[i].q = <<>> /\ runners[i].cur = 0
  /\ runners' = [runners EXCEPT ![i].state = "done"]
  /\ UNCHANGED <<sealed, chain, ring, file, current, dest, served, lost, cuts, crashes, faults>>

\* drainTimeout passes: pending backoff sleeps are aborted.
DrainTimeout(i) ==
  /\ Worker(i) /\ runners[i].state = "closing" /\ ~runners[i].stopped
  /\ runners' = [runners EXCEPT ![i].stopped = TRUE]
  /\ UNCHANGED <<sealed, chain, ring, file, current, dest, served, lost, cuts, crashes, faults>>

Closing(rs) == [i \in DOMAIN rs |->
                  IF i = current THEN [rs[i] EXCEPT !.state = "closing"] ELSE rs[i]]

\* RegisterWith: the new runner is installed before the old one is closed.
Register(paused) ==
  /\ Len(runners) < bound.runners
  /\ runners' = Append(Closing(runners), NewRunner(paused))
  /\ current' = Len(runners) + 1
  /\ UNCHANGED <<sealed, chain, ring, file, dest, served, lost, cuts, crashes, faults>>

\* Deregister; Dispatcher.Close does the same for every sink.
Deregister ==
  /\ current # 0
  /\ runners' = Closing(runners)
  /\ current' = 0
  /\ UNCHANGED <<sealed, chain, ring, file, dest, served, lost, cuts, crashes, faults>>

SetPaused(paused) ==
  /\ current # 0
  /\ runners' = [runners EXCEPT ![current].paused = paused]
  /\ UNCHANGED <<sealed, chain, ring, file, current, dest, served, lost, cuts, crashes, faults>>

-----------------------------------------------------------------------------
(* Requests.                                                               *)

\* Middleware: the handler runs first, the entry is logged after it.
Serve ==
  /\ Len(sealed) + served < bound.entries
  /\ served' = served + 1
  /\ UNCHANGED <<sealed, chain, ring, file, runners, current, dest, lost, cuts, crashes, faults>>

\* Fault: a rotated file starts a chain of its own.
Seal_NewChain(h) ==
  /\ sealed' = Append(sealed, [seq |-> chain.seq + 1,
                               prev |-> IF file.size >= MaxSize THEN 0 ELSE chain.prevHash])
  /\ chain' = [prevHash |-> h, seq |-> chain.seq + 1]

Seal(h) ==
  /\ sealed' = Append(sealed, [seq |-> chain.seq + 1, prev |-> chain.prevHash])
  /\ chain' = [prevHash |-> h, seq |-> chain.seq + 1]

\* Dispatcher.Log: seal, write to the primary log, append to the window, enqueue.
Log ==
  LET h == Len(sealed) + 1 IN
  /\ served > 0
  /\ served' = served - 1
  /\ Seal(h)
  /\ \E w \in Written(file, h) :
       /\ faults + w.faults <= bound.faults
       /\ file' = w.file /\ faults' = faults + w.faults
       /\ lost' = IF \E i \in DOMAIN w.file.log : w.file.log[i] = h THEN lost ELSE lost + 1
  /\ ring' = LastOf(Append(ring, h), RingCap)
  /\ runners' = [i \in DOMAIN runners |->
                   IF i = current THEN Enqueued(runners[i], h) ELSE runners[i]]
  /\ UNCHANGED <<current, dest, cuts, crashes>>

-----------------------------------------------------------------------------
(* Crash and restart.                                                      *)

Records(lines) == SelectSeq(lines, LAMBDA h : h # Bad)

\* Fault: the sequence starts again after every restart.
TailOf_NoSeq(f) ==
  LET last == f.log[Len(f.log)] IN
  IF NoLines(f) \/ last = Bad THEN Genesis ELSE [prevHash |-> last, seq |-> 0]

\* readTail: the last complete line, if it is a record.
TailOf(f) ==
  LET last == f.log[Len(f.log)] IN
  IF NoLines(f) \/ last = Bad THEN Genesis
  ELSE [prevHash |-> last, seq |-> sealed[last].seq]

\* NewRotatingFileLogger, NewDispatcherSize and seed, on file f.
Restart(f) ==
  /\ file' = [f EXCEPT !.size = Len(f.log) - f.start + (IF f.partial THEN 1 ELSE 0),
                       !.open = TRUE, !.purge = FALSE]
  /\ chain' = TailOf(f)
  /\ ring' = LastOf(Records(Lines(f)), RingCap)
  /\ cuts' = IF NoLines(f) /\ f.backups # <<>> THEN cuts + 1 ELSE cuts
  /\ runners' = <<>> /\ current' = 0
  /\ lost' = lost + served /\ served' = 0
  /\ crashes' = crashes + 1

Crash ==
  /\ crashes < bound.crashes
  /\ Restart(file)
  /\ UNCHANGED <<sealed, dest, faults>>

\* The process dies in Log: after rotating the file, or in the middle of a line.
CrashInLog ==
  /\ crashes < bound.crashes /\ served > 0
  /\ \E r \in Rotate(file) :
       /\ faults + r.faults < bound.faults
       /\ \/ Restart(r.file) /\ faults' = faults + r.faults
          \/ /\ r.file.open
             /\ Restart([r.file EXCEPT !.partial = TRUE])
             /\ faults' = faults + r.faults + 1
  /\ UNCHANGED <<sealed, dest>>

Next ==
  /\ \/ Serve \/ Log \/ Purge \/ Crash \/ CrashInLog \/ Deregister
     \/ \E paused \in BOOLEAN : Register(paused) \/ SetPaused(paused)
     \/ \E i \in 1..MaxRunners : Take(i) \/ Send(i) \/ CloseDone(i) \/ DrainTimeout(i)
  /\ UNCHANGED bound

\* The workers and close run in goroutines that the scheduler does not starve,
\* and every attempt of a sink ends (its timeout bounds it).
Fairness ==
  \A i \in 1..MaxRunners : WF_vars((Take(i) \/ Send(i) \/ CloseDone(i)) /\ UNCHANGED bound)

Spec == Init /\ [][Next]_vars /\ Fairness

-----------------------------------------------------------------------------
Hashes == 1..Len(sealed)

Runner ==
  [state : {"run", "closing", "done"}, q : Seq(Nat), cur : Nat, left : Nat, failing : Nat,
   paused : BOOLEAN, stopped : BOOLEAN, last : Nat,
   offered : Nat, sent : Nat, errors : Nat, dropped : Nat, skipped : Nat]

\* The shape of the state; the sequence number in memory is that of the entry
\* the chain continues from, a closed handle is left by a failed rotation only,
\* and only the registered worker accepts entries.
TypeOK ==
  /\ sealed \in Seq([seq : Nat, prev : Nat])
  /\ \A h \in Hashes : sealed[h].prev \in 0..(h - 1) /\ sealed[h].seq \in 1..h
  /\ chain \in [prevHash : 0..Len(sealed), seq : Nat]
  /\ chain.seq = IF chain.prevHash = 0 THEN 0 ELSE sealed[chain.prevHash].seq
  /\ file \in [log : Seq(Nat \cup {Bad}), start : Nat, partial : BOOLEAN, size : Nat,
               open : BOOLEAN, backups : Seq(Nat), purge : BOOLEAN]
  /\ \A i \in DOMAIN file.log : file.log[i] \in Hashes \cup {Bad}
  /\ file.start <= Len(file.log) /\ (file.start > 0 => file.backups # <<>>)
  /\ ~file.open => file.size >= MaxSize
  /\ runners \in Seq(Runner) /\ current \in 0..Len(runners)
  /\ \A i \in DOMAIN runners : runners[i].state \in
       (IF i = current THEN {"run"} ELSE {"closing", "done"})
  /\ bound \in Bounds /\ served \in 0..bound.entries
  /\ {lost, cuts, crashes, faults} \subseteq Nat

\* VerifyEntries on two neighbours: the second links to the first and has the
\* next sequence number.
Linked(a, b) == /\ {a, b} \subseteq Hashes
                /\ sealed[b].prev = a /\ sealed[b].seq = sealed[a].seq + 1

\* The lines of s after the first n at which verification of those lines fails.
Broken(s, n) ==
  {i \in (n + 1)..Len(s) : s[i] = Bad \/ (i > n + 1 /\ ~Linked(s[i - 1], s[i]))}

Breaks(s, n) == Cardinality(Broken(s, n))

\* The number of the first line that is still there, less one.
Kept == IF file.backups = <<>> THEN file.start ELSE file.backups[1]

\* The rotated files and the active one, read in order, are one hash chain
\* across crashes, restarts and rotations.  Only a failing file operation breaks
\* it (in at most two places), and a crash between the rotation of the file and
\* the first record of the new one.
OneChain == Breaks(file.log, Kept) <= 2 * faults + cuts

\* The breaks that the next lines will add: after a torn line a bad one and one
\* that does not link to it, and otherwise one if the chain in memory does not
\* continue the last line.
Owed == IF file.partial THEN 2
        ELSE IF file.log = <<>> THEN 0
        ELSE IF file.log[Len(file.log)] = chain.prevHash THEN 0 ELSE 1

\* The failures so far account for the breaks in the log, those still to come
\* included.
BreaksAreAccounted == Breaks(file.log, 0) + Owed <= 2 * faults + cuts

\* A worker has the entries in chain order, and none that was not sealed.
InOrder(r) ==
  /\ r.last <= Len(sealed) /\ r.cur <= Len(sealed)
  /\ r.cur # 0 => r.last < r.cur
  /\ \A i \in DOMAIN r.q : r.last < r.q[i] /\ r.cur < r.q[i] /\ r.q[i] <= Len(sealed)
  /\ \A i, j \in DOMAIN r.q : i < j => r.q[i] < r.q[j]

\* What holds in every state: a well-formed one whose files are one chain, whose
\* failures account for what breaks it, and whose workers are in order.
AuditInv == /\ TypeOK /\ OneChain /\ BreaksAreAccounted
            /\ \A i \in DOMAIN runners : InOrder(runners[i])

\* VerifyMemory succeeds: the window is one chain whatever happens to the file,
\* and after a restart it is broken only where the file is.
WindowVerifies == /\ Len(ring) <= RingCap
                  /\ Breaks(ring, 0) <= IF crashes = 0 THEN 0 ELSE 2 * faults

Increasing(s) == \A i, j \in DOMAIN s : i < j => s[i] < s[j]

\* Every entry offered to a worker is delivered, counted as an error, dropped or
\* skipped exactly once, and the worker handles the entries in chain order; a
\* closed worker has handled everything it accepted.
SinkAccounts ==
  \A i \in DOMAIN runners :
    LET r == runners[i]
        pending == (IF r.cur = 0 THEN <<>> ELSE <<r.cur>>) \o r.q
    IN /\ r.offered = r.sent + r.errors + r.dropped + r.skipped + Len(pending)
       /\ Increasing(<<r.last>> \o pending)
       /\ r.state = "done" => pending = <<>>

\* Replacing or removing a sink ends: close returns although the destination may
\* fail every attempt.
CloseEnds ==
  \A i \in 1..MaxRunners :
    (Worker(i) /\ runners[i].state = "closing") ~> ~(Worker(i) /\ runners[i].state = "closing")

\* "all outputs share one order": the destination of a sink receives the
\* entries in chain order, also when the sink is registered anew.
SinkInOrder == Increasing(dest)

\* Auditing is fail-closed: no request is handled without its record in the
\* primary log.
FailClosed == lost = 0
=============================================================================
