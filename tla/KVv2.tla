-------------------------------- MODULE KVv2 --------------------------------
(***************************************************************************)
(* One secret path of the KV v2 engine (internal/kvv2): a metadata entry   *)
(* and one data entry per version, all separate entries of the barrier.    *)
(*                                                                         *)
(* Writers of a path hold its lock for the whole operation; Read takes no  *)
(* lock.  A step is one storage access that something else can observe:    *)
(* another request may read between two of them, the process may crash,    *)
(* and a write that reports an error may or may not have been applied.     *)
(***************************************************************************)
EXTENDS Integers, FiniteSets

CONSTANTS Procs, Values, None,
          DefaultMax, \* max_versions of a new path (defaultMax or the mount's)
          Limits,     \* what UpdateMetadata may set max_versions to; 0: no limit
          MaxVer,     \* bound: versions of a path
          MaxDeletes  \* bound: completed DeleteAll

ASSUME KVAssumption == /\ None \notin Values \cup Procs
                       /\ Limits \cup {DefaultMax, MaxVer, MaxDeletes} \subseteq Nat

VARIABLES
  exists,  \* the metadata entry exists
  meta,    \* its contents: current_version, max_versions, cas_required, versions
           \* (NewMeta while there is no entry)
  data,    \* data[v]: the data entry of version v, or None
  lock,    \* the process that holds the path's lock, or None
  op,      \* op[p]: the operation of process p
  acked,   \* history: acked[v], the value Write reported as stored in version v
  doomed,  \* history: versions that Destroy or DeleteAll was asked to remove
  inc,     \* history: completed DeleteAll
  mixed    \* history: a Read returned a value that is not its version's

vars == <<exists, meta, data, lock, op, acked, doomed, inc, mixed>>

Versions == 1..MaxVer

\* A version is "live", "deleted" or "destroyed"; val is the value of the Write
\* that created it (history, not stored in the metadata).
NewMeta == [cur |-> 0, max |-> DefaultMax, cas |-> FALSE,
            vers |-> [v \in {} |-> [state |-> "live", val |-> None]]]

Idle == [pc |-> "idle", meta |-> NewMeta, ver |-> 0, val |-> None, vs |-> {}, inc |-> 0]

NothingAcked == [v \in Versions |-> None]

Init == /\ exists = FALSE
        /\ meta = NewMeta
        /\ data = [v \in Versions |-> None]
        /\ lock = None
        /\ op = [p \in Procs |-> Idle]
        /\ acked = NothingAcked
        /\ doomed = {} /\ inc = 0 /\ mixed = FALSE

\* putMeta.  On an error the caller does not know whether it was applied.
PutMeta(m) == exists' = TRUE /\ meta' = m
PutMetaErr(m) == PutMeta(m) \/ UNCHANGED <<exists, meta>>

\* The best-effort deletion of data entries: errors are ignored.
Wipe(vs) == \E failed \in SUBSET vs :
              data' = [v \in Versions |-> IF v \in vs \ failed THEN None ELSE data[v]]

Free(p) == lock = None /\ op[p].pc = "idle"
Release(p) == lock' = None /\ op' = [op EXCEPT ![p] = Idle]

-----------------------------------------------------------------------------
(* Write                                                                   *)

\* Fault: the newest version counts as one of those beyond the limit.
Evicted_OffByOne(m) == {v \in DOMAIN m.vers : m.max > 0 /\ v <= m.cur - m.max + 1}

\* evict: the versions at or below CurrentVersion - MaxVersions.
Evicted(m) == {v \in DOMAIN m.vers : m.max > 0 /\ v <= m.cur - m.max}

Without(m, vs) == [m EXCEPT !.vers = [v \in DOMAIN m.vers \ vs |-> m.vers[v]]]

Extended(m, val) ==
  [m EXCEPT !.cur = m.cur + 1,
            !.vers = [v \in DOMAIN m.vers \cup {m.cur + 1} |->
                        IF v = m.cur + 1 THEN [state |-> "live", val |-> val] ELSE m.vers[v]]]

\* Fault: no lock.
WriteStart_Unlocked(p, val, cas) ==
  LET new == Extended(meta, val) IN
  /\ op[p].pc = "idle" /\ meta.cur < MaxVer
  /\ cas = None => ~meta.cas
  /\ cas # None => cas = meta.cur
  /\ op' = [op EXCEPT ![p] = [Idle EXCEPT !.pc = "data", !.ver = new.cur, !.val = val,
                                          !.meta = Without(new, Evicted(new)),
                                          !.vs = Evicted(new)]]
  /\ UNCHANGED <<exists, meta, data, lock, acked, doomed, inc, mixed>>

\* The check-and-set conditions; a Write that fails them has no effect.
WriteStart(p, val, cas) ==
  LET new == Extended(meta, val) IN
  /\ Free(p) /\ meta.cur < MaxVer
  /\ cas = None => ~meta.cas
  /\ cas # None => cas = meta.cur
  /\ lock' = p
  /\ op' = [op EXCEPT ![p] = [Idle EXCEPT !.pc = "data", !.ver = new.cur, !.val = val,
                                          !.meta = Without(new, Evicted(new)),
                                          !.vs = Evicted(new)]]
  /\ UNCHANGED <<exists, meta, data, acked, doomed, inc, mixed>>

\* Fault: the evicted versions are wiped while the metadata still lists them.
WriteData_WipesFirst(p) ==
  /\ op[p].pc = "data"
  /\ data' = [v \in Versions |-> IF v = op[p].ver THEN op[p].val
                                ELSE IF v \in op[p].vs THEN None ELSE data[v]]
  /\ op' = [op EXCEPT ![p].pc = "meta"]
  /\ UNCHANGED <<exists, meta, lock, acked, doomed, inc, mixed>>

WriteData(p) ==
  /\ op[p].pc = "data"
  /\ \/ /\ data' = [data EXCEPT ![op[p].ver] = op[p].val]
        /\ op' = [op EXCEPT ![p].pc = "meta"]
        /\ UNCHANGED lock
     \/ /\ data' \in {data, [data EXCEPT ![op[p].ver] = op[p].val]}
        /\ Release(p)
  /\ UNCHANGED <<exists, meta, acked, doomed, inc, mixed>>

WriteMeta(p) ==
  /\ op[p].pc = "meta"
  /\ \/ /\ PutMeta(op[p].meta)
        /\ op' = [op EXCEPT ![p].pc = "evict"]
        /\ UNCHANGED lock
     \/ PutMetaErr(op[p].meta) /\ Release(p)
  /\ UNCHANGED <<data, acked, doomed, inc, mixed>>

\* "Only after the metadata no longer references them is the data wiped."
WriteDone(p) ==
  /\ op[p].pc = "evict"
  /\ Wipe(op[p].vs)
  /\ acked' = [acked EXCEPT ![op[p].ver] = op[p].val]
  /\ Release(p)
  /\ UNCHANGED <<exists, meta, doomed, inc, mixed>>

-----------------------------------------------------------------------------
(* Operations with a single write.                                         *)

WithState(m, vs, from, to) ==
  [m EXCEPT !.vers = [v \in DOMAIN m.vers |->
                        IF v \in vs /\ m.vers[v].state \in from
                          THEN [m.vers[v] EXCEPT !.state = to] ELSE m.vers[v]]]

Update(p, m) ==
  /\ Free(p)
  /\ PutMetaErr(m)
  /\ UNCHANGED <<data, lock, op, acked, doomed, inc, mixed>>

SoftDelete(p, vs) == exists /\ Update(p, WithState(meta, vs, {"live"}, "deleted"))

\* Fault: destroyed versions are undeleted too.
Undelete_All(p, vs) ==
  exists /\ Update(p, WithState(meta, vs, {"deleted", "destroyed"}, "live"))

Undelete(p, vs) == exists /\ Update(p, WithState(meta, vs, {"deleted"}, "live"))

\* UpdateMetadata creates the entry when the path was never written, and evicts
\* nothing.
UpdateMetadata(p, max, cas) == Update(p, [meta EXCEPT !.max = max, !.cas = cas])

-----------------------------------------------------------------------------
(* Destroy and DeleteAll: data first, then the metadata.                   *)

Destroy(p, vs) ==
  LET live == {v \in vs \cap DOMAIN meta.vers : meta.vers[v].state # "destroyed"} IN
  /\ Free(p) /\ exists
  /\ lock' = p
  /\ Wipe(live)
  /\ doomed' = doomed \cup live
  /\ op' = [op EXCEPT ![p] = [Idle EXCEPT !.pc = "mark", !.vs = live]]
  /\ UNCHANGED <<exists, meta, acked, inc, mixed>>

DestroyMeta(p) ==
  /\ op[p].pc = "mark"
  /\ PutMetaErr(WithState(meta, op[p].vs, {"live", "deleted"}, "destroyed"))
  /\ Release(p)
  /\ UNCHANGED <<data, acked, doomed, inc, mixed>>

DeleteAll(p) ==
  /\ Free(p) /\ exists
  /\ lock' = p
  /\ Wipe(DOMAIN meta.vers)
  /\ doomed' = doomed \cup DOMAIN meta.vers
  /\ op' = [op EXCEPT ![p] = [Idle EXCEPT !.pc = "unlist"]]
  /\ UNCHANGED <<exists, meta, acked, inc, mixed>>

\* The path starts again at version 1.
DeleteMeta(p) ==
  /\ op[p].pc = "unlist" /\ inc < MaxDeletes
  /\ Release(p)
  /\ \/ /\ exists' = FALSE /\ meta' = NewMeta /\ inc' = inc + 1
        /\ acked' = NothingAcked /\ doomed' = {}
     \/ UNCHANGED <<exists, meta, inc, acked, doomed>>
  /\ UNCHANGED <<data, mixed>>

-----------------------------------------------------------------------------
(* Read, without the lock: the metadata, then the data.                    *)

\* ver = 0 asks for the current version; a version that is not there, is deleted
\* or is destroyed ends the read.
ReadMeta(p, ver) ==
  LET v == IF ver = 0 THEN meta.cur ELSE ver IN
  /\ op[p].pc = "idle" /\ v \in DOMAIN meta.vers /\ meta.vers[v].state = "live"
  /\ op' = [op EXCEPT ![p] = [Idle EXCEPT !.pc = "read", !.ver = v,
                                          !.val = meta.vers[v].val, !.inc = inc]]
  /\ UNCHANGED <<exists, meta, data, lock, acked, doomed, inc, mixed>>

ReadData(p) ==
  /\ op[p].pc = "read"
  /\ mixed' = (mixed \/ (data[op[p].ver] \notin {None, op[p].val} /\ op[p].inc = inc))
  /\ op' = [op EXCEPT ![p] = Idle]
  /\ UNCHANGED <<exists, meta, data, lock, acked, doomed, inc>>

Crash ==
  /\ \E p \in Procs : op[p] # Idle
  /\ lock' = None
  /\ op' = [p \in Procs |-> Idle]
  /\ UNCHANGED <<exists, meta, data, acked, doomed, inc, mixed>>

Next ==
  \/ \E p \in Procs :
       \/ \E val \in Values, cas \in {None} \cup 0..MaxVer : WriteStart(p, val, cas)
       \/ WriteData(p) \/ WriteMeta(p) \/ WriteDone(p)
       \/ \E vs \in SUBSET Versions \ {{}} : SoftDelete(p, vs) \/ Undelete(p, vs) \/ Destroy(p, vs)
       \/ \E max \in Limits, cas \in BOOLEAN : UpdateMetadata(p, max, cas)
       \/ DestroyMeta(p) \/ DeleteAll(p) \/ DeleteMeta(p)
       \/ \E ver \in 0..MaxVer : ReadMeta(p, ver)
       \/ ReadData(p)
  \/ Crash

Spec == Init /\ [][Next]_vars

-----------------------------------------------------------------------------
States == {"live", "deleted", "destroyed"}
VersionTables == UNION {[vs -> [state : States, val : Values]] : vs \in SUBSET Versions}
Metas == [cur : 0..MaxVer, max : Limits \cup {DefaultMax}, cas : BOOLEAN, vers : VersionTables]
Operations == [pc : {"idle", "data", "meta", "evict", "mark", "unlist", "read"}, meta : Metas,
               ver : 0..MaxVer, val : Values \cup {None}, vs : SUBSET Versions, inc : 0..MaxDeletes]

\* The versions listed are a contiguous range that ends with the current one.
Contiguous(m) == \/ m.cur = 0 /\ DOMAIN m.vers = {}
                 \/ \E oldest \in 1..m.cur : DOMAIN m.vers = oldest..m.cur

\* The types of the stored entries and of the operations in flight.  Eviction
\* never removes the version that was just written and numbering has no gaps.
TypeOK ==
  /\ exists \in BOOLEAN /\ meta \in Metas /\ Contiguous(meta)
  /\ ~exists => meta = NewMeta
  /\ data \in [Versions -> Values \cup {None}] /\ acked \in [Versions -> Values \cup {None}]
  /\ lock \in Procs \cup {None} /\ op \in [Procs -> Operations]
  /\ doomed \subseteq Versions /\ inc \in 0..MaxDeletes /\ mixed \in BOOLEAN

\* Every version in the metadata that was not asked to be destroyed has exactly
\* the data of the Write that created it, across crashes, storage errors,
\* concurrent writers and leftovers of earlier attempts.
VersionsHaveTheirData ==
  \A v \in DOMAIN meta.vers \ doomed : data[v] = meta.vers[v].val

\* A version number that Write returned belongs to that Write for good: no later
\* write gets the same number, and it is missing only if it was evicted.
AckedIsKept ==
  \A v \in Versions : acked[v] # None =>
    /\ exists /\ v <= meta.cur
    /\ IF v \in DOMAIN meta.vers THEN meta.vers[v].val = acked[v]
       ELSE \A w \in DOMAIN meta.vers : v < w

\* An operation that changes anything holds the lock of the path.
LockHeld == \A p \in Procs : op[p].pc \notin {"idle", "read"} => lock = p

\* What the holder of the lock decided when it took the lock is still right: the
\* metadata it will store succeeds the stored one, and what it will wipe or has
\* wiped is not listed or doomed.
HolderIsRight ==
  \A p \in Procs :
    LET new == Extended(meta, op[p].val) IN
    /\ op[p].pc \in {"data", "meta"} =>
         /\ op[p].val \in Values /\ op[p].ver = meta.cur + 1
         /\ op[p].vs = Evicted(new) /\ op[p].meta = Without(new, Evicted(new))
    /\ op[p].pc = "meta" => data[op[p].ver] = op[p].val
    /\ op[p].pc = "evict" =>
         /\ exists /\ op[p].ver \in DOMAIN meta.vers /\ meta.vers[op[p].ver].val = op[p].val
         /\ op[p].vs \cap DOMAIN meta.vers = {}
         /\ acked[op[p].ver] = None
    /\ op[p].pc = "mark" => exists /\ op[p].vs \subseteq doomed
    /\ op[p].pc = "unlist" => exists /\ DOMAIN meta.vers \subseteq doomed

\* A listed version has its own data or, if it is doomed, none.
DataIsOwn == \A v \in DOMAIN meta.vers : data[v] \in {None, meta.vers[v].val}

\* What a reader took from the metadata still is the only value its version can
\* have, unless the path was deleted since.
ReaderIsRight ==
  \A p \in Procs : op[p].pc = "read" =>
    /\ op[p].inc <= inc
    /\ op[p].inc = inc => op[p].ver \in 1..meta.cur /\ data[op[p].ver] \in {None, op[p].val}

\* What holds in every state: versions with the data of their Write, none of the
\* acknowledged ones renumbered or lost; and what makes this inductive.
KVv2Inv == /\ TypeOK /\ VersionsHaveTheirData /\ AckedIsKept
           /\ LockHeld /\ HolderIsRight /\ DataIsOwn /\ ReaderIsRight

\* A Read, which takes no lock, returns the value that belongs to the version
\* metadata it returns, unless the whole path was deleted meanwhile.
ReadsMatchMetadata == ~mixed

\* Destroying a version "cannot be undone": nothing makes it readable again
\* except deleting the path altogether.
DestroyedForever ==
  [][\A v \in DOMAIN meta.vers : 
       exists /\ exists' /\ meta.vers[v].state = "destroyed" /\ v \in DOMAIN meta'.vers
         => meta'.vers[v].state = "destroyed"]_vars

\* "Destroy permanently removes the data for the listed versions."
DestroyedIsGone ==
  \A v \in DOMAIN meta.vers : meta.vers[v].state = "destroyed" => data[v] = None
=============================================================================
