----------------------------- MODULE KVv2Proofs -----------------------------
(***************************************************************************)
(* Proofs about KVv2 for any number of processes, values, versions and     *)
(* deletions of the path.                                                  *)
(***************************************************************************)
EXTENDS KVv2, TLAPS

VersionRecs == [state : States, val : Values]

-----------------------------------------------------------------------------
(* The operators on metadata.                                              *)

\* A function from a set of versions to version records is a version table.
LEMMA TableIntro ==
  ASSUME NEW D \in SUBSET Versions, NEW f \in [D -> VersionRecs]
  PROVE  f \in VersionTables
BY DEF VersionTables, VersionRecs

\* What a version table is.
LEMMA TableElim ==
  ASSUME NEW f \in VersionTables
  PROVE  DOMAIN f \subseteq Versions /\ f \in [DOMAIN f -> VersionRecs]
BY DEF VersionTables, VersionRecs

\* The metadata of a path that was never written.
LEMMA NewMetaType == NewMeta \in Metas /\ Contiguous(NewMeta) /\ DOMAIN NewMeta.vers = {} /\ NewMeta.cur = 0
<1>1. NewMeta.vers \in VersionTables
  <2>1. NewMeta.vers \in [{} -> VersionRecs]
    BY DEF NewMeta
  <2> QED
    BY <2>1, TableIntro
<1>2. DefaultMax \in Nat /\ MaxVer \in Nat
  BY KVAssumption
<1> QED
  BY <1>1, <1>2 DEF NewMeta, Metas, Contiguous

\* A process without an operation.
LEMMA IdleType == Idle \in Operations /\ Idle.pc = "idle"
BY NewMetaType, KVAssumption DEF Idle, Operations

\* The versions of well-formed metadata lie between 1 and the current one, and
\* the current one is listed as soon as there is one.
LEMMA ContiguousFacts ==
  ASSUME NEW m \in Metas, Contiguous(m)
  PROVE  /\ m.cur \in Nat /\ m.cur <= MaxVer
         /\ \A v \in DOMAIN m.vers : v \in 1..m.cur
         /\ m.cur # 0 => m.cur \in DOMAIN m.vers
         /\ m.cur + 1 \notin DOMAIN m.vers
BY KVAssumption DEF Metas, Contiguous

\* Write's new metadata: the next number, its own record, the others as before.
LEMMA ExtendedFacts ==
  ASSUME NEW m \in Metas, Contiguous(m), m.cur < MaxVer, NEW val \in Values
  PROVE  LET new == Extended(m, val) IN
         /\ new \in Metas
         /\ new.cur = m.cur + 1 /\ new.max = m.max
         /\ DOMAIN new.vers = DOMAIN m.vers \cup {m.cur + 1}
         /\ new.vers[m.cur + 1] = [state |-> "live", val |-> val]
         /\ \A v \in DOMAIN m.vers : new.vers[v] = m.vers[v]
<1> DEFINE D == DOMAIN m.vers \cup {m.cur + 1}
           f == [v \in D |-> IF v = m.cur + 1 THEN [state |-> "live", val |-> val] ELSE m.vers[v]]
<1>1. m.cur \in 0..MaxVer /\ MaxVer \in Nat /\ m.vers \in VersionTables
  BY KVAssumption DEF Metas
<1>2. D \in SUBSET Versions
  BY <1>1, TableElim DEF Versions
<1>3. f \in [D -> VersionRecs]
  <2> SUFFICES ASSUME NEW v \in D
               PROVE  (IF v = m.cur + 1 THEN [state |-> "live", val |-> val] ELSE m.vers[v]) \in VersionRecs
    OBVIOUS
  <2>1. CASE v = m.cur + 1
    BY <2>1 DEF VersionRecs, States
  <2>2. CASE v # m.cur + 1
    BY <2>2, <1>1, TableElim
  <2> QED
    BY <2>1, <2>2
<1>4. f \in VersionTables
  BY <1>2, <1>3, TableIntro
<1>5. Extended(m, val) = [m EXCEPT !.cur = m.cur + 1, !.vers = f]
  BY DEF Extended
<1>6. /\ Extended(m, val) \in Metas
      /\ Extended(m, val).cur = m.cur + 1 /\ Extended(m, val).max = m.max /\ Extended(m, val).vers = f
  <2> HIDE DEF f, D
  <2>1. m.cur + 1 \in 0..MaxVer
    BY <1>1
  <2>2. [m EXCEPT !.cur = m.cur + 1, !.vers = f] \in Metas
    BY Zenon, <2>1, <1>4 DEF Metas
  <2> QED
    BY <1>5, <2>2 DEF Metas
<1>7. \A v \in DOMAIN m.vers : v # m.cur + 1
  BY ContiguousFacts
<1> QED
  BY <1>6, <1>7

\* Removing versions from the metadata.
LEMMA WithoutFacts ==
  ASSUME NEW m \in Metas, NEW vs
  PROVE  /\ Without(m, vs) \in Metas
         /\ Without(m, vs).cur = m.cur
         /\ DOMAIN Without(m, vs).vers = DOMAIN m.vers \ vs
         /\ \A v \in DOMAIN m.vers \ vs : Without(m, vs).vers[v] = m.vers[v]
<1> DEFINE f == [v \in DOMAIN m.vers \ vs |-> m.vers[v]]
<1>1. m.vers \in VersionTables
  BY DEF Metas
<1>2. DOMAIN m.vers \ vs \in SUBSET Versions /\ f \in [DOMAIN m.vers \ vs -> VersionRecs]
  BY <1>1, TableElim
<1>3. f \in VersionTables
  BY <1>2, TableIntro
<1>4. Without(m, vs) = [m EXCEPT !.vers = f]
  BY DEF Without
<1>5. Without(m, vs) \in Metas /\ Without(m, vs).cur = m.cur /\ Without(m, vs).vers = f
  <2> HIDE DEF f
  <2> QED
    BY <1>3, <1>4 DEF Metas
<1> QED
  BY <1>5

\* The metadata Write stores: contiguous, the new version is kept, and whatever
\* is evicted is older than whatever is kept.
LEMMA WrittenFacts ==
  ASSUME NEW m \in Metas, Contiguous(m), m.cur < MaxVer, NEW val \in Values
  PROVE  LET new == Extended(m, val)
             w == Without(new, Evicted(new)) IN
         /\ w \in Metas /\ Contiguous(w) /\ w.cur = m.cur + 1
         /\ w.cur \in DOMAIN w.vers /\ w.vers[w.cur].val = val
         /\ \A v \in DOMAIN w.vers : v # w.cur => v \in DOMAIN m.vers /\ w.vers[v] = m.vers[v]
         /\ \A v \in DOMAIN m.vers \ DOMAIN w.vers, x \in DOMAIN w.vers : v < x
         /\ Evicted(new) \subseteq Versions /\ Evicted(new) \cap DOMAIN w.vers = {}
<1> DEFINE new == Extended(m, val)
           w == Without(new, Evicted(new))
<1>1. /\ new \in Metas
      /\ new.cur = m.cur + 1 /\ new.max = m.max
      /\ DOMAIN new.vers = DOMAIN m.vers \cup {m.cur + 1}
      /\ new.vers[m.cur + 1] = [state |-> "live", val |-> val]
      /\ \A v \in DOMAIN m.vers : new.vers[v] = m.vers[v]
  BY ExtendedFacts
<1>2. /\ w \in Metas /\ w.cur = new.cur
      /\ DOMAIN w.vers = DOMAIN new.vers \ Evicted(new)
      /\ \A v \in DOMAIN new.vers \ Evicted(new) : w.vers[v] = new.vers[v]
  BY <1>1, WithoutFacts
<1>3. /\ m.cur \in Nat /\ m.max \in Nat /\ MaxVer \in Nat
      /\ \A v \in DOMAIN m.vers : v \in 1..m.cur
  BY ContiguousFacts, KVAssumption DEF Metas
<1> HIDE DEF new, w
<1>4. m.cur + 1 \notin Evicted(new) /\ \A v \in Evicted(new) : v \in DOMAIN m.vers
  BY <1>1, <1>3 DEF Evicted
<1>5. \A v \in DOMAIN m.vers \ DOMAIN w.vers, x \in DOMAIN w.vers : v < x
  BY <1>1, <1>2, <1>3 DEF Evicted
<1>6. Contiguous(w)
  <2>1. PICK lo \in 1..(m.cur + 1) : DOMAIN new.vers = lo..(m.cur + 1)
    <3>1. CASE m.cur = 0 /\ DOMAIN m.vers = {}
      <4>1. DOMAIN new.vers = 1..(m.cur + 1)
        BY <3>1, <1>1
      <4> QED
        BY <4>1, <3>1
    <3>2. CASE \E lo \in 1..m.cur : DOMAIN m.vers = lo..m.cur
      <4>1. PICK lo \in 1..m.cur : DOMAIN m.vers = lo..m.cur
        BY <3>2
      <4>2. DOMAIN new.vers = lo..(m.cur + 1)
        BY <4>1, <1>1, <1>3
      <4> QED
        BY <4>1, <4>2, <1>3
    <3> QED
      BY <3>1, <3>2 DEF Contiguous
  <2> DEFINE cut == m.cur + 1 - m.max
  <2>2. CASE m.max > 0 /\ cut >= lo
    <3>1. DOMAIN w.vers = (cut + 1)..(m.cur + 1)
      <4>1. Evicted(new) = lo..cut
        BY <2>1, <2>2, <1>1, <1>3 DEF Evicted
      <4>2. DOMAIN w.vers = (lo..(m.cur + 1)) \ (lo..cut)
        BY <2>1, <4>1, <1>2
      <4>3. cut \in Int /\ lo \in Int /\ lo <= cut /\ cut <= m.cur
        BY <2>2, <1>3
      <4> HIDE DEF cut
      <4> QED
        BY <4>2, <4>3, <1>3
    <3>2. cut + 1 \in 1..w.cur
      BY <2>2, <1>1, <1>2, <1>3
    <3> QED
      BY <3>1, <3>2, <1>1, <1>2 DEF Contiguous
  <2>3. CASE ~(m.max > 0 /\ cut >= lo)
    <3>1. DOMAIN w.vers = lo..(m.cur + 1)
      <4>1. ASSUME NEW v \in lo..(m.cur + 1), new.max > 0, v <= new.cur - new.max
            PROVE  FALSE
        BY <2>3, <4>1, <1>1, <1>3
      <4>2. Evicted(new) = {}
        BY Zenon, <2>1, <4>1 DEF Evicted
      <4> QED
        BY Zenon, <2>1, <4>2, <1>2
    <3> QED
      BY <3>1, <1>1, <1>2 DEF Contiguous
  <2> QED
    BY <2>2, <2>3
<1>7. Evicted(new) \subseteq Versions
  BY <1>4, TableElim DEF Metas
<1> QED
  BY <1>1, <1>2, <1>3, <1>4, <1>5, <1>6, <1>7 DEF new, w

\* SoftDelete, Undelete and Destroy change states of listed versions only.
LEMMA WithStateFacts ==
  ASSUME NEW m \in Metas, NEW vs, NEW from, NEW to \in States
  PROVE  LET n == WithState(m, vs, from, to) IN
         /\ n \in Metas /\ n.cur = m.cur
         /\ DOMAIN n.vers = DOMAIN m.vers
         /\ \A v \in DOMAIN m.vers :
              /\ n.vers[v].val = m.vers[v].val
              /\ m.vers[v].state \notin from => n.vers[v].state = m.vers[v].state
<1> DEFINE f == [v \in DOMAIN m.vers |->
                   IF v \in vs /\ m.vers[v].state \in from
                     THEN [m.vers[v] EXCEPT !.state = to] ELSE m.vers[v]]
<1>1. m.vers \in VersionTables /\ DOMAIN m.vers \in SUBSET Versions /\ m.vers \in [DOMAIN m.vers -> VersionRecs]
  BY TableElim DEF Metas
<1>2. \A v \in DOMAIN m.vers : /\ f[v] \in VersionRecs
                               /\ f[v].val = m.vers[v].val
                               /\ m.vers[v].state \notin from => f[v].state = m.vers[v].state
  BY <1>1 DEF VersionRecs
<1>3. f \in VersionTables
  BY Zenon, <1>1, <1>2, TableIntro
<1>4. WithState(m, vs, from, to) = [m EXCEPT !.vers = f]
  BY DEF WithState
<1>5. WithState(m, vs, from, to) \in Metas /\ WithState(m, vs, from, to).cur = m.cur
      /\ WithState(m, vs, from, to).vers = f
  <2> HIDE DEF f
  <2> QED
    BY <1>3, <1>4 DEF Metas
<1> QED
  BY <1>2, <1>5

-----------------------------------------------------------------------------
(* What several steps share.                                               *)

\* Deletions of data entries, some of which fail.
LEMMA WipeFacts ==
  ASSUME NEW vs, Wipe(vs), data \in [Versions -> Values \cup {None}]
  PROVE  /\ data' \in [Versions -> Values \cup {None}]
         /\ \A v \in Versions : data'[v] \in {data[v], None}
         /\ \A v \in Versions \ vs : data'[v] = data[v]
BY DEF Wipe

\* The step of one process leaves the operations of the others alone.
LEMMA OpFacts ==
  ASSUME NEW p \in Procs, NEW r \in Operations, op \in [Procs -> Operations],
         op' = [op EXCEPT ![p] = r]
  PROVE  /\ op' \in [Procs -> Operations] /\ op'[p] = r
         /\ \A q \in Procs : q # p => op'[q] = op[q]
OBVIOUS

\* Operations of which only the program counter moves on.
LEMMA PcFacts ==
  ASSUME NEW p \in Procs, NEW pc \in {"meta", "evict"}, op \in [Procs -> Operations],
         op' = [op EXCEPT ![p].pc = pc]
  PROVE  /\ op' \in [Procs -> Operations]
         /\ op'[p].pc = pc /\ op'[p].meta = op[p].meta /\ op'[p].ver = op[p].ver
         /\ op'[p].val = op[p].val /\ op'[p].vs = op[p].vs /\ op'[p].inc = op[p].inc
         /\ \A q \in Procs : q # p => op'[q] = op[q]
BY DEF Operations

\* Only one process changes the path at a time, and none while the lock is free.
LEMMA OneHolder ==
  ASSUME KVv2Inv
  PROVE  /\ lock = None => \A q \in Procs : op[q].pc \in {"idle", "read"}
         /\ \A p, q \in Procs : op[p].pc \notin {"idle", "read"} /\ q # p => op[q].pc \in {"idle", "read"}
BY KVAssumption DEF KVv2Inv, LockHeld

\* The end of an operation.
LEMMA ReleaseFacts ==
  ASSUME NEW p \in Procs, KVv2Inv, Release(p), op[p].pc \notin {"idle", "read"}
  PROVE  /\ op' \in [Procs -> Operations] /\ lock' = None
         /\ \A q \in Procs : /\ op'[q].pc \in {"idle", "read"}
                             /\ op'[q].pc = "read" => op'[q] = op[q]
BY IdleType, OneHolder DEF Release, KVv2Inv, TypeOK

\* What is left to show of a step that ends its operation.
LEMMA NoHolderInv ==
  ASSUME \A q \in Procs : op[q].pc \in {"idle", "read"}
  PROVE  LockHeld /\ HolderIsRight
BY DEF LockHeld, HolderIsRight

\* The version of a reader that no deletion of the path overtook.
LEMMA ReadVersions ==
  ASSUME KVv2Inv, NEW q \in Procs, op[q].pc = "read", op[q].inc = inc
  PROVE  op[q].ver \in Versions
<1>1. meta.cur \in Nat /\ MaxVer \in Nat /\ meta.cur <= MaxVer
  BY ContiguousFacts, KVAssumption DEF KVv2Inv, TypeOK
<1>2. op[q].ver \in 1..meta.cur
  BY DEF KVv2Inv, ReaderIsRight
<1> QED
  BY <1>1, <1>2 DEF Versions

\* The invariant is about the variables only.
LEMMA StutterInv ==
  ASSUME KVv2Inv, UNCHANGED vars
  PROVE  KVv2Inv'
BY DEF vars, KVv2Inv, TypeOK, Contiguous, VersionsHaveTheirData, AckedIsKept, LockHeld, HolderIsRight,
       DataIsOwn, ReaderIsRight

-----------------------------------------------------------------------------
(* One lemma per action.                                                   *)

\* A path that was never written satisfies the invariant.
LEMMA InitInv == Init => KVv2Inv /\ ~mixed
<1> SUFFICES ASSUME Init PROVE KVv2Inv /\ ~mixed
  OBVIOUS
<1> USE DEF Init
<1>1. DOMAIN meta.vers = {}
  BY NewMetaType
<1>2. TypeOK
  <2>1. exists \in BOOLEAN /\ mixed \in BOOLEAN
    BY Zenon
  <2>2. meta \in Metas /\ Contiguous(meta) /\ meta = NewMeta
    BY NewMetaType
  <2>3. /\ data \in [Versions -> Values \cup {None}] /\ acked \in [Versions -> Values \cup {None}]
        /\ op \in [Procs -> Operations]
    BY IdleType DEF NothingAcked
  <2>4. lock \in Procs \cup {None} /\ doomed \subseteq Versions /\ inc \in 0..MaxDeletes
    BY KVAssumption
  <2> QED
    BY <2>1, <2>2, <2>3, <2>4 DEF TypeOK
<1>3. VersionsHaveTheirData /\ DataIsOwn
  BY <1>1 DEF VersionsHaveTheirData, DataIsOwn
<1>4. AckedIsKept
  BY DEF AckedIsKept, NothingAcked
<1>5. \A p \in Procs : op[p].pc = "idle"
  BY IdleType
<1>6. LockHeld /\ HolderIsRight /\ ReaderIsRight
  BY <1>5, NoHolderInv DEF ReaderIsRight
<1> QED
  BY <1>2, <1>3, <1>4, <1>6 DEF KVv2Inv

\* Write takes the lock and decides on the new metadata.
LEMMA WriteStartInv ==
  ASSUME KVv2Inv, NEW p \in Procs, NEW val \in Values, NEW cas, WriteStart(p, val, cas)
  PROVE  KVv2Inv'
<1> DEFINE new == Extended(meta, val)
           r == [Idle EXCEPT !.pc = "data", !.ver = new.cur, !.val = val,
                             !.meta = Without(new, Evicted(new)), !.vs = Evicted(new)]
<1> USE DEF KVv2Inv
<1>1. /\ lock = None /\ lock' = p /\ op[p].pc = "idle" /\ op' = [op EXCEPT ![p] = r]
      /\ meta.cur < MaxVer /\ UNCHANGED <<exists, meta, data, acked, doomed, inc, mixed>>
  BY DEF WriteStart, Free
<1>2. meta \in Metas /\ Contiguous(meta) /\ op \in [Procs -> Operations]
  BY DEF TypeOK
<1>3. /\ Without(new, Evicted(new)) \in Metas /\ new.cur = meta.cur + 1
      /\ Evicted(new) \subseteq Versions
  BY Zenon, <1>1, <1>2, WrittenFacts, ExtendedFacts
<1>4. meta.cur + 1 \in 0..MaxVer
  BY <1>1, <1>2, KVAssumption DEF Metas
<1>5. /\ r \in Operations /\ r.pc = "data" /\ r.ver = new.cur /\ r.val = val
      /\ r.meta = Without(new, Evicted(new)) /\ r.vs = Evicted(new)
  <2> HIDE DEF new
  <2> QED
    BY Zenon, <1>3, <1>4, IdleType DEF Operations
<1> HIDE DEF r
<1>6. /\ op' \in [Procs -> Operations] /\ op'[p] = r
      /\ \A q \in Procs : q # p => op'[q] = op[q]
  BY <1>1, <1>2, <1>5, OpFacts
<1>7. \A q \in Procs : q # p => op'[q].pc \in {"idle", "read"}
  BY <1>1, <1>6, OneHolder
<1>8. TypeOK'
  BY <1>1, <1>6 DEF TypeOK
<1>9. VersionsHaveTheirData' /\ AckedIsKept' /\ DataIsOwn'
  BY <1>1 DEF VersionsHaveTheirData, AckedIsKept, DataIsOwn
<1>10. LockHeld'
  BY Zenon, <1>1, <1>7 DEF LockHeld
<1>11. HolderIsRight'
  BY <1>1, <1>3, <1>5, <1>6, <1>7 DEF HolderIsRight
<1>12. ReaderIsRight'
  BY <1>1, <1>5, <1>6 DEF ReaderIsRight
<1> QED
  BY <1>8, <1>9, <1>10, <1>11, <1>12

\* Write stores the data of a version that is not listed yet.
LEMMA WriteDataInv ==
  ASSUME KVv2Inv, NEW p \in Procs, WriteData(p)
  PROVE  KVv2Inv'
<1> USE DEF KVv2Inv
<1>1. /\ op[p].pc = "data" /\ op[p].val \in Values /\ op[p].ver = meta.cur + 1
      /\ UNCHANGED <<exists, meta, acked, doomed, inc, mixed>>
  BY DEF WriteData, HolderIsRight
<1>2. /\ meta \in Metas /\ Contiguous(meta) /\ op \in [Procs -> Operations]
      /\ data \in [Versions -> Values \cup {None}]
  BY DEF TypeOK
<1>3. op[p].ver \in Versions
  BY <1>1, <1>2, KVAssumption DEF Operations, Metas, Versions
<1>4. data' \in {data, [data EXCEPT ![op[p].ver] = op[p].val]}
  BY DEF WriteData
<1>5. /\ data' \in [Versions -> Values \cup {None}]
      /\ \A v \in Versions : v # meta.cur + 1 => data'[v] = data[v]
  BY <1>1, <1>2, <1>4
<1>6. \A v \in DOMAIN meta.vers : v \in Versions /\ v # meta.cur + 1
  BY <1>2, ContiguousFacts, TableElim DEF Metas
<1>7. VersionsHaveTheirData' /\ AckedIsKept' /\ DataIsOwn'
  BY <1>1, <1>5, <1>6 DEF VersionsHaveTheirData, AckedIsKept, DataIsOwn
<1>8. \A q \in Procs : op[q].pc = "read" /\ op[q].inc = inc => data'[op[q].ver] = data[op[q].ver]
  <2>1. meta.cur \in Nat /\ MaxVer \in Nat /\ meta.cur <= MaxVer
    BY <1>2, ContiguousFacts, KVAssumption
  <2>2. \A q \in Procs : op[q].pc = "read" /\ op[q].inc = inc => op[q].ver \in 1..meta.cur
    BY DEF ReaderIsRight
  <2>3. \A x \in 1..meta.cur : x \in Versions /\ x # meta.cur + 1
    BY <2>1 DEF Versions
  <2> QED
    BY <1>5, <2>2, <2>3
<1>9. CASE /\ data' = [data EXCEPT ![op[p].ver] = op[p].val]
           /\ op' = [op EXCEPT ![p].pc = "meta"] /\ UNCHANGED lock
  <2>1. /\ op' \in [Procs -> Operations]
        /\ op'[p].pc = "meta" /\ op'[p].meta = op[p].meta /\ op'[p].ver = op[p].ver
        /\ op'[p].val = op[p].val /\ op'[p].vs = op[p].vs /\ op'[p].inc = op[p].inc
        /\ \A q \in Procs : q # p => op'[q] = op[q]
    BY ZenonT(40), <1>2, <1>9, PcFacts
  <2>2. \A q \in Procs : q # p => op'[q].pc \in {"idle", "read"}
    BY <1>1, <2>1, OneHolder
  <2>3. TypeOK'
    BY <1>1, <1>5, <1>9, <2>1 DEF TypeOK
  <2>4. LockHeld'
    BY <1>1, <1>9, <2>1 DEF LockHeld
  <2>5. data'[op'[p].ver] = op'[p].val
    BY Zenon, <1>2, <1>3, <1>9, <2>1
  <2>6. HolderIsRight'
    BY <1>1, <2>1, <2>2, <2>5 DEF HolderIsRight
  <2>7. ReaderIsRight'
    BY <1>1, <1>8, <2>1 DEF ReaderIsRight
  <2> QED
    BY <1>7, <2>3, <2>4, <2>6, <2>7
<1>10. CASE Release(p)
  <2>1. /\ op' \in [Procs -> Operations] /\ lock' = None
        /\ \A q \in Procs : /\ op'[q].pc \in {"idle", "read"}
                            /\ op'[q].pc = "read" => op'[q] = op[q]
    BY <1>1, <1>10, ReleaseFacts
  <2>2. TypeOK'
    BY Zenon, <1>1, <1>5, <2>1 DEF TypeOK
  <2>3. LockHeld' /\ HolderIsRight'
    BY Zenon, <2>1 DEF LockHeld, HolderIsRight
  <2>4. ReaderIsRight'
    BY <1>1, <1>8, <2>1 DEF ReaderIsRight
  <2> QED
    BY Zenon, <1>7, <2>2, <2>3, <2>4
<1> QED
  BY <1>9, <1>10 DEF WriteData

\* Write stores the metadata it decided on, or reports an error after which it
\* is stored or not.
LEMMA WriteMetaInv ==
  ASSUME KVv2Inv, NEW p \in Procs, WriteMeta(p)
  PROVE  KVv2Inv'
<1> USE DEF KVv2Inv
<1> DEFINE new == Extended(meta, op[p].val)
           w == Without(new, Evicted(new))
<1>1. /\ op[p].pc = "meta" /\ op[p].val \in Values /\ op[p].ver = meta.cur + 1
      /\ op[p].meta = w /\ op[p].vs = Evicted(new) /\ data[op[p].ver] = op[p].val
      /\ UNCHANGED <<data, acked, doomed, inc, mixed>>
  BY DEF WriteMeta, HolderIsRight
<1>2. /\ meta \in Metas /\ Contiguous(meta) /\ op \in [Procs -> Operations]
  BY DEF TypeOK
<1>3. meta.cur < MaxVer
  <2>1. op[p].ver \in 0..MaxVer
    BY <1>2 DEF Operations
  <2>2. meta.cur \in Nat /\ MaxVer \in Nat
    BY <1>2, ContiguousFacts, KVAssumption
  <2> QED
    BY <1>1, <2>1, <2>2
<1>4. /\ w \in Metas /\ Contiguous(w) /\ w.cur = meta.cur + 1
      /\ w.cur \in DOMAIN w.vers /\ w.vers[w.cur].val = op[p].val
      /\ \A v \in DOMAIN w.vers : v # w.cur => v \in DOMAIN meta.vers /\ w.vers[v] = meta.vers[v]
      /\ \A v \in DOMAIN meta.vers \ DOMAIN w.vers, x \in DOMAIN w.vers : v < x
      /\ Evicted(new) \subseteq Versions /\ Evicted(new) \cap DOMAIN w.vers = {}
  BY Zenon, <1>1, <1>2, <1>3, WrittenFacts
<1> HIDE DEF new, w
<1>5. \A v \in Versions : acked[v] # None => v <= meta.cur
  BY DEF AckedIsKept
<1>6. meta.cur \in Nat
  BY <1>2, ContiguousFacts
<1>7. ASSUME exists' = TRUE, meta' = w
      PROVE  /\ VersionsHaveTheirData' /\ AckedIsKept' /\ DataIsOwn'
             /\ exists' \in BOOLEAN /\ meta' \in Metas /\ Contiguous(meta)' /\ (~exists => meta = NewMeta)'
  <2>1. VersionsHaveTheirData' /\ DataIsOwn'
    BY <1>1, <1>4, <1>7 DEF VersionsHaveTheirData, DataIsOwn
  <2>2. AckedIsKept'
    <3> SUFFICES ASSUME NEW v \in Versions, acked[v] # None
                 PROVE  /\ v <= w.cur
                        /\ IF v \in DOMAIN w.vers THEN w.vers[v].val = acked[v]
                           ELSE \A x \in DOMAIN w.vers : v < x
      BY <1>1, <1>7 DEF AckedIsKept
    <3>1. v <= meta.cur /\ v \in Nat
      BY <1>5 DEF Versions
    <3>2. CASE v \in DOMAIN w.vers
      BY <1>4, <1>6, <3>1, <3>2 DEF AckedIsKept
    <3>3. CASE v \notin DOMAIN w.vers
      <4>1. CASE v \in DOMAIN meta.vers
        BY <1>4, <1>6, <3>1, <3>3, <4>1
      <4>2. CASE v \notin DOMAIN meta.vers
        <5>1. \A x \in DOMAIN meta.vers : v < x
          BY <4>2 DEF AckedIsKept
        <5>2. \A x \in DOMAIN w.vers : x = w.cur \/ v < x
          BY <1>4, <5>1
        <5> QED
          BY <5>2, <1>4, <1>6, <3>1, <3>3
      <4> QED
        BY <4>1, <4>2
    <3> QED
      BY Zenon, <3>2, <3>3
  <2>3. Contiguous(meta)'
    BY <1>4, <1>7 DEF Contiguous
  <2> QED
    BY <2>1, <2>2, <2>3, <1>4, <1>7
<1>8. CASE exists' = TRUE /\ meta' = w /\ op' = [op EXCEPT ![p].pc = "evict"] /\ UNCHANGED lock
  <2>1. /\ op' \in [Procs -> Operations]
        /\ op'[p].pc = "evict" /\ op'[p].meta = op[p].meta /\ op'[p].ver = op[p].ver
        /\ op'[p].val = op[p].val /\ op'[p].vs = op[p].vs /\ op'[p].inc = op[p].inc
        /\ \A q \in Procs : q # p => op'[q] = op[q]
    BY Zenon, <1>2, <1>8, PcFacts
  <2>2. \A q \in Procs : q # p => op'[q].pc \in {"idle", "read"}
    BY <1>1, <2>1, OneHolder
  <2>3. TypeOK'
    BY <1>1, <1>7, <1>8, <2>1 DEF TypeOK
  <2>4. LockHeld'
    BY <1>1, <1>8, <2>1 DEF LockHeld
  <2>5. acked[op[p].ver] = None
    <3>1. op[p].ver \in Versions
      BY <1>1, <1>2, <1>3, <1>6, KVAssumption DEF Versions
    <3> QED
      BY <1>1, <1>5, <1>6, <3>1
  <2>6. HolderIsRight'
    BY <1>1, <1>4, <1>8, <2>1, <2>2, <2>5 DEF HolderIsRight
  <2>7. ReaderIsRight'
    BY <1>1, <1>4, <1>6, <1>8, <2>1 DEF ReaderIsRight
  <2> QED
    BY <1>7, <1>8, <2>3, <2>4, <2>6, <2>7
<1>9. CASE Release(p) /\ ((exists' = TRUE /\ meta' = w) \/ UNCHANGED <<exists, meta>>)
  <2>1. /\ op' \in [Procs -> Operations] /\ lock' = None
        /\ \A q \in Procs : /\ op'[q].pc \in {"idle", "read"}
                            /\ op'[q].pc = "read" => op'[q] = op[q]
    BY Zenon, <1>1, <1>9, ReleaseFacts
  <2>2. LockHeld' /\ HolderIsRight'
    BY <2>1 DEF LockHeld, HolderIsRight
  <2>3. CASE exists' = TRUE /\ meta' = w
    <3>1. TypeOK'
      BY <1>1, <1>7, <2>1, <2>3 DEF TypeOK
    <3>2. ReaderIsRight'
      BY <1>1, <1>4, <1>6, <2>1, <2>3 DEF ReaderIsRight
    <3> QED
      BY <1>7, <2>2, <2>3, <3>1, <3>2
  <2>4. CASE UNCHANGED <<exists, meta>>
    <3>1. TypeOK'
      BY Zenon, <1>1, <2>1, <2>4 DEF TypeOK
    <3>2. VersionsHaveTheirData' /\ AckedIsKept' /\ DataIsOwn' /\ ReaderIsRight'
      BY <1>1, <2>1, <2>4 DEF VersionsHaveTheirData, AckedIsKept, DataIsOwn, ReaderIsRight
    <3> QED
      BY <2>2, <3>1, <3>2
  <2> QED
    BY Zenon, <1>9, <2>3, <2>4
<1> QED
  BY Zenon, <1>1, <1>8, <1>9 DEF WriteMeta, PutMeta, PutMetaErr

\* Write wipes what it evicted and reports its version.
LEMMA WriteDoneInv ==
  ASSUME KVv2Inv, NEW p \in Procs, WriteDone(p)
  PROVE  KVv2Inv'
<1> USE DEF KVv2Inv
<1>1. /\ op[p].pc = "evict" /\ exists /\ op[p].ver \in DOMAIN meta.vers
      /\ meta.vers[op[p].ver].val = op[p].val /\ op[p].vs \cap DOMAIN meta.vers = {}
      /\ Wipe(op[p].vs) /\ acked' = [acked EXCEPT ![op[p].ver] = op[p].val]
      /\ Release(p) /\ UNCHANGED <<exists, meta, doomed, inc, mixed>>
  BY DEF WriteDone, HolderIsRight
<1>2. /\ meta \in Metas /\ Contiguous(meta) /\ op \in [Procs -> Operations]
      /\ data \in [Versions -> Values \cup {None}] /\ acked \in [Versions -> Values \cup {None}]
  BY Zenon DEF TypeOK
<1>3. /\ data' \in [Versions -> Values \cup {None}]
      /\ \A v \in Versions : data'[v] \in {data[v], None}
      /\ \A v \in Versions \ op[p].vs : data'[v] = data[v]
  BY Zenon, <1>1, <1>2, WipeFacts
<1>4. /\ op' \in [Procs -> Operations] /\ lock' = None
      /\ \A q \in Procs : /\ op'[q].pc \in {"idle", "read"}
                          /\ op'[q].pc = "read" => op'[q] = op[q]
  BY <1>1, ReleaseFacts
<1>5. DOMAIN meta.vers \subseteq Versions /\ op[p].val \in Values \cup {None}
  BY <1>2, TableElim DEF Metas, Operations
<1>6. acked' \in [Versions -> Values \cup {None}]
  BY Zenon, <1>1, <1>2, <1>5
<1>7. TypeOK'
  BY Zenon, <1>1, <1>3, <1>4, <1>6 DEF TypeOK
<1>8. VersionsHaveTheirData' /\ DataIsOwn'
  BY <1>1, <1>3, <1>5 DEF VersionsHaveTheirData, DataIsOwn
<1>9. AckedIsKept'
  <2> SUFFICES ASSUME NEW v \in Versions, acked'[v] # None
               PROVE  /\ v <= meta.cur
                      /\ IF v \in DOMAIN meta.vers THEN meta.vers[v].val = acked'[v]
                         ELSE \A x \in DOMAIN meta.vers : v < x
    BY <1>1 DEF AckedIsKept
  <2>1. CASE v = op[p].ver
    BY <1>1, <1>2, <2>1, ContiguousFacts
  <2>2. CASE v # op[p].ver
    BY Zenon, <1>1, <1>2, <2>2 DEF AckedIsKept
  <2> QED
    BY Zenon, <2>1, <2>2
<1>10. LockHeld' /\ HolderIsRight'
  BY <1>4 DEF LockHeld, HolderIsRight
<1>11. ReaderIsRight'
  BY <1>1, <1>3, <1>4, ReadVersions DEF ReaderIsRight
<1> QED
  BY Zenon, <1>7, <1>8, <1>9, <1>10, <1>11

\* An operation of a single write replaces the metadata by one that lists the
\* same versions with the same values.
LEMMA UpdateInv ==
  ASSUME KVv2Inv, NEW p \in Procs, NEW m \in Metas, Update(p, m),
         m.cur = meta.cur, DOMAIN m.vers = DOMAIN meta.vers,
         \A v \in DOMAIN meta.vers : m.vers[v].val = meta.vers[v].val
  PROVE  KVv2Inv'
<1> USE DEF KVv2Inv
<1>1. /\ lock = None
      /\ (exists' = TRUE /\ meta' = m) \/ UNCHANGED <<exists, meta>>
      /\ UNCHANGED <<data, lock, op, acked, doomed, inc, mixed>>
  BY DEF Update, Free, PutMetaErr, PutMeta
<1>2. CASE UNCHANGED <<exists, meta>>
  <2>1. UNCHANGED vars
    BY <1>1, <1>2 DEF vars
  <2> QED
    BY <2>1, StutterInv
<1>3. CASE exists' = TRUE /\ meta' = m
  <2>1. Contiguous(meta)'
    BY <1>3 DEF Contiguous, TypeOK
  <2>2. TypeOK'
    BY <1>1, <1>3, <2>1 DEF TypeOK
  <2>3. VersionsHaveTheirData' /\ DataIsOwn'
    BY <1>1, <1>3 DEF VersionsHaveTheirData, DataIsOwn
  <2>4. AckedIsKept'
    BY <1>1, <1>3 DEF AckedIsKept
  <2>5. \A q \in Procs : op[q].pc \in {"idle", "read"}
    BY Zenon, <1>1, OneHolder
  <2>6. LockHeld' /\ HolderIsRight'
    BY <1>1, <2>5 DEF LockHeld, HolderIsRight
  <2>7. ReaderIsRight'
    BY Zenon, <1>1, <1>3 DEF ReaderIsRight
  <2> QED
    BY <2>2, <2>3, <2>4, <2>6, <2>7
<1> QED
  BY Zenon, <1>1, <1>2, <1>3

\* SoftDelete, Undelete and UpdateMetadata are such operations.
LEMMA SingleWriteInv ==
  ASSUME KVv2Inv, NEW p \in Procs,
         \/ \E vs \in SUBSET Versions : SoftDelete(p, vs) \/ Undelete(p, vs)
         \/ \E max \in Limits, cas \in BOOLEAN : UpdateMetadata(p, max, cas)
  PROVE  KVv2Inv'
<1>1. meta \in Metas
  BY Zenon DEF KVv2Inv, TypeOK
<1>2. ASSUME NEW vs, NEW from, NEW to \in States, Update(p, WithState(meta, vs, from, to))
      PROVE  KVv2Inv'
  BY <1>1, <1>2, WithStateFacts, UpdateInv
<1>3. ASSUME NEW max \in Limits, NEW cas \in BOOLEAN, Update(p, [meta EXCEPT !.max = max, !.cas = cas])
      PROVE  KVv2Inv'
  <2> DEFINE m == [meta EXCEPT !.max = max, !.cas = cas]
  <2>1. m \in Metas /\ m.cur = meta.cur /\ m.vers = meta.vers
    BY ZenonT(40), <1>1 DEF Metas
  <2> HIDE DEF m
  <2>2. Update(p, m)
    BY <1>3 DEF m
  <2> QED
    BY <2>1, <2>2, UpdateInv
<1> QED
  BY Zenon, <1>2, <1>3 DEF SoftDelete, Undelete, UpdateMetadata, States

\* Destroy and DeleteAll wipe the data of listed versions, which are doomed.
LEMMA WipeListedInv ==
  ASSUME KVv2Inv, NEW p \in Procs, NEW vs \in SUBSET DOMAIN meta.vers, NEW r \in Operations,
         Free(p), exists, lock' = p, Wipe(vs), doomed' = doomed \cup vs,
         op' = [op EXCEPT ![p] = r],
         \/ r.pc = "mark" /\ r.vs = vs
         \/ r.pc = "unlist" /\ vs = DOMAIN meta.vers,
         UNCHANGED <<exists, meta, acked, inc, mixed>>
  PROVE  KVv2Inv'
<1> USE DEF KVv2Inv
<1>1. /\ meta \in Metas /\ op \in [Procs -> Operations] /\ data \in [Versions -> Values \cup {None}]
      /\ lock = None
  BY DEF TypeOK, Free
<1>2. /\ data' \in [Versions -> Values \cup {None}]
      /\ \A v \in Versions : data'[v] \in {data[v], None}
      /\ \A v \in Versions \ vs : data'[v] = data[v]
  BY <1>1, WipeFacts
<1>3. /\ op' \in [Procs -> Operations] /\ op'[p] = r
      /\ \A q \in Procs : q # p => op'[q] = op[q]
  BY <1>1, OpFacts
<1>4. \A q \in Procs : q # p => op'[q].pc \in {"idle", "read"}
  BY <1>1, <1>3, OneHolder
<1>5. DOMAIN meta.vers \subseteq Versions
  BY <1>1, TableElim DEF Metas
<1>6. TypeOK'
  BY Zenon, <1>2, <1>3, <1>5 DEF TypeOK
<1>7. VersionsHaveTheirData' /\ DataIsOwn'
  BY <1>2, <1>5 DEF VersionsHaveTheirData, DataIsOwn
<1>8. AckedIsKept'
  BY Zenon DEF AckedIsKept
<1>9. LockHeld' /\ HolderIsRight'
  BY Zenon, <1>3, <1>4 DEF LockHeld, HolderIsRight
<1>10. ReaderIsRight'
  BY Zenon, <1>2, <1>3, ReadVersions DEF ReaderIsRight
<1> QED
  BY <1>6, <1>7, <1>8, <1>9, <1>10

\* Destroy, first step.
LEMMA DestroyInv ==
  ASSUME KVv2Inv, NEW p \in Procs, NEW vs \in SUBSET Versions, Destroy(p, vs)
  PROVE  KVv2Inv'
<1> DEFINE live == {v \in vs \cap DOMAIN meta.vers : meta.vers[v].state # "destroyed"}
           r == [Idle EXCEPT !.pc = "mark", !.vs = live]
<1>1. live \in SUBSET DOMAIN meta.vers /\ live \subseteq Versions
  OBVIOUS
<1>2. r \in Operations /\ r.pc = "mark" /\ r.vs = live
  BY Zenon, <1>1, IdleType DEF Operations
<1>3. /\ Free(p) /\ exists /\ lock' = p /\ Wipe(live) /\ doomed' = doomed \cup live
      /\ op' = [op EXCEPT ![p] = r] /\ UNCHANGED <<exists, meta, acked, inc, mixed>>
  BY DEF Destroy
<1> HIDE DEF live, r
<1> QED
  BY Zenon, <1>1, <1>2, <1>3, WipeListedInv

\* DeleteAll, first step.
LEMMA DeleteAllInv ==
  ASSUME KVv2Inv, NEW p \in Procs, DeleteAll(p)
  PROVE  KVv2Inv'
<1> DEFINE r == [Idle EXCEPT !.pc = "unlist"]
<1>1. r \in Operations /\ r.pc = "unlist"
  BY IdleType DEF Operations
<1>2. /\ Free(p) /\ exists /\ lock' = p /\ Wipe(DOMAIN meta.vers) /\ doomed' = doomed \cup DOMAIN meta.vers
      /\ op' = [op EXCEPT ![p] = r] /\ UNCHANGED <<exists, meta, acked, inc, mixed>>
  BY DEF DeleteAll
<1> HIDE DEF r
<1> QED
  BY Zenon, <1>1, <1>2, WipeListedInv

\* Destroy, second step: the doomed versions are marked, or not on an error.
LEMMA DestroyMetaInv ==
  ASSUME KVv2Inv, NEW p \in Procs, DestroyMeta(p)
  PROVE  KVv2Inv'
<1> USE DEF KVv2Inv
<1> DEFINE m == WithState(meta, op[p].vs, {"live", "deleted"}, "destroyed")
<1>1. /\ op[p].pc = "mark" /\ exists /\ Release(p) /\ UNCHANGED <<data, acked, doomed, inc, mixed>>
      /\ (exists' = TRUE /\ meta' = m) \/ UNCHANGED <<exists, meta>>
  BY DEF DestroyMeta, HolderIsRight, PutMetaErr, PutMeta
<1>2. meta \in Metas /\ Contiguous(meta)
  BY DEF TypeOK
<1>3. /\ m \in Metas /\ m.cur = meta.cur /\ DOMAIN m.vers = DOMAIN meta.vers
      /\ \A v \in DOMAIN meta.vers : m.vers[v].val = meta.vers[v].val
  BY SMTT(30), <1>2, WithStateFacts DEF States
<1> HIDE DEF m
<1>4. /\ exists' = TRUE /\ meta' \in Metas /\ meta'.cur = meta.cur /\ DOMAIN meta'.vers = DOMAIN meta.vers
      /\ \A v \in DOMAIN meta.vers : meta'.vers[v].val = meta.vers[v].val
  <2>1. CASE exists' = TRUE /\ meta' = m
    BY <1>3, <2>1
  <2>2. CASE UNCHANGED <<exists, meta>>
    BY <1>1, <1>2, <2>2 DEF TypeOK
  <2> QED
    BY Zenon, <1>1, <2>1, <2>2
<1>5. /\ op' \in [Procs -> Operations] /\ lock' = None
      /\ \A q \in Procs : /\ op'[q].pc \in {"idle", "read"}
                          /\ op'[q].pc = "read" => op'[q] = op[q]
  BY Zenon, <1>1, ReleaseFacts
<1>6. Contiguous(meta)'
  BY Zenon, <1>2, <1>4 DEF Contiguous
<1>7. TypeOK'
  BY Zenon, <1>1, <1>4, <1>5, <1>6 DEF TypeOK
<1>8. VersionsHaveTheirData' /\ DataIsOwn'
  BY <1>1, <1>4 DEF VersionsHaveTheirData, DataIsOwn
<1>9. AckedIsKept'
  BY Zenon, <1>1, <1>4 DEF AckedIsKept
<1>10. LockHeld' /\ HolderIsRight'
  BY <1>5 DEF LockHeld, HolderIsRight
<1>11. ReaderIsRight'
  BY Zenon, <1>1, <1>4, <1>5 DEF ReaderIsRight
<1> QED
  BY Zenon, <1>7, <1>8, <1>9, <1>10, <1>11

\* DeleteAll, second step: the path starts again, whatever data is left.
LEMMA DeleteMetaInv ==
  ASSUME KVv2Inv, NEW p \in Procs, DeleteMeta(p)
  PROVE  KVv2Inv'
<1> USE DEF KVv2Inv
<1>1. op[p].pc = "unlist" /\ inc < MaxDeletes /\ Release(p) /\ UNCHANGED <<data, mixed>>
  BY DEF DeleteMeta
<1>2. /\ op' \in [Procs -> Operations] /\ lock' = None
      /\ \A q \in Procs : /\ op'[q].pc \in {"idle", "read"}
                          /\ op'[q].pc = "read" => op'[q] = op[q]
  BY <1>1, ReleaseFacts
<1>3. LockHeld' /\ HolderIsRight'
  BY <1>2 DEF LockHeld, HolderIsRight
<1>4. CASE exists' = FALSE /\ meta' = NewMeta /\ inc' = inc + 1 /\ acked' = NothingAcked /\ doomed' = {}
  <2>1. meta' \in Metas /\ Contiguous(meta)' /\ DOMAIN meta'.vers = {}
    BY <1>4, NewMetaType DEF Contiguous
  <2>2. inc \in Nat /\ inc' \in 0..MaxDeletes /\ inc' = inc + 1
    BY <1>1, <1>4, KVAssumption DEF TypeOK
  <2>3. acked' \in [Versions -> Values \cup {None}] /\ \A v \in Versions : acked'[v] = None
    BY <1>4 DEF NothingAcked
  <2>4. TypeOK'
    BY Zenon, <1>1, <1>2, <1>4, <2>1, <2>2, <2>3 DEF TypeOK
  <2>5. VersionsHaveTheirData' /\ DataIsOwn' /\ AckedIsKept'
    BY <2>1, <2>3 DEF VersionsHaveTheirData, DataIsOwn, AckedIsKept
  <2>6. \A q \in Procs : op[q].inc \in Nat
    BY KVAssumption DEF TypeOK, Operations
  <2>7. ReaderIsRight'
    BY SMTT(30), <1>2, <2>2, <2>6 DEF ReaderIsRight
  <2> QED
    BY <1>3, <2>4, <2>5, <2>7
<1>5. CASE UNCHANGED <<exists, meta, inc, acked, doomed>>
  <2>1. TypeOK'
    BY Zenon, <1>1, <1>2, <1>5 DEF TypeOK, Contiguous
  <2>2. VersionsHaveTheirData' /\ AckedIsKept' /\ DataIsOwn' /\ ReaderIsRight'
    BY ZenonT(40), <1>1, <1>2, <1>5 DEF VersionsHaveTheirData, AckedIsKept, DataIsOwn, ReaderIsRight
  <2> QED
    BY <1>3, <2>1, <2>2
<1> QED
  BY Zenon, <1>4, <1>5 DEF DeleteMeta

\* Read takes a live version from the metadata.
LEMMA ReadMetaInv ==
  ASSUME KVv2Inv, NEW p \in Procs, NEW ver \in 0..MaxVer, ReadMeta(p, ver)
  PROVE  KVv2Inv'
<1> USE DEF KVv2Inv
<1>1. PICK v \in DOMAIN meta.vers :
        /\ op' = [op EXCEPT ![p] = [Idle EXCEPT !.pc = "read", !.ver = v,
                                                !.val = meta.vers[v].val, !.inc = inc]]
        /\ op[p].pc = "idle" /\ UNCHANGED <<exists, meta, data, lock, acked, doomed, inc, mixed>>
  BY Zenon DEF ReadMeta
<1> DEFINE r == [Idle EXCEPT !.pc = "read", !.ver = v, !.val = meta.vers[v].val, !.inc = inc]
<1>2. /\ meta \in Metas /\ Contiguous(meta) /\ op \in [Procs -> Operations] /\ inc \in 0..MaxDeletes
  BY DEF TypeOK
<1>3. v \in 1..meta.cur /\ v \in 0..MaxVer /\ meta.vers[v].val \in Values
  <2>1. meta.vers[v] \in VersionRecs /\ v \in Versions
    BY <1>2, TableElim DEF Metas
  <2> QED
    BY <1>2, <2>1, ContiguousFacts, KVAssumption DEF VersionRecs, Versions
<1>4. r \in Operations /\ r.pc = "read" /\ r.ver = v /\ r.val = meta.vers[v].val /\ r.inc = inc
  BY Zenon, <1>2, <1>3, IdleType DEF Operations
<1> HIDE DEF r
<1>5. /\ op' \in [Procs -> Operations] /\ op'[p] = r
      /\ \A q \in Procs : q # p => op'[q] = op[q]
  BY <1>1, <1>2, <1>4, OpFacts DEF r
<1>6. TypeOK'
  BY <1>1, <1>5 DEF TypeOK, Contiguous
<1>7. VersionsHaveTheirData' /\ AckedIsKept' /\ DataIsOwn'
  BY <1>1 DEF VersionsHaveTheirData, AckedIsKept, DataIsOwn
<1>8. LockHeld' /\ HolderIsRight'
  <2>1. LockHeld'
    BY <1>1, <1>4, <1>5 DEF LockHeld
  <2>2. HolderIsRight'
    BY <1>1, <1>4, <1>5 DEF HolderIsRight
  <2> QED
    BY <2>1, <2>2
<1>9. inc <= inc
  BY <1>2, KVAssumption
<1>10. ReaderIsRight'
  BY <1>1, <1>3, <1>4, <1>5, <1>9 DEF ReaderIsRight, DataIsOwn
<1> QED
  BY <1>6, <1>7, <1>8, <1>10

\* Read returns the data: that of its version, or none.
LEMMA ReadDataInv ==
  ASSUME KVv2Inv, ~mixed, NEW p \in Procs, ReadData(p)
  PROVE  KVv2Inv' /\ ~mixed'
<1> USE DEF KVv2Inv
<1>1. /\ op[p].pc = "read" /\ op' = [op EXCEPT ![p] = Idle]
      /\ mixed' = (mixed \/ (data[op[p].ver] \notin {None, op[p].val} /\ op[p].inc = inc))
      /\ UNCHANGED <<exists, meta, data, lock, acked, doomed, inc>>
  BY Zenon DEF ReadData
<1>2. op[p].inc = inc => data[op[p].ver] \in {None, op[p].val}
  BY <1>1 DEF ReaderIsRight
<1>3. mixed' = FALSE
  BY ZenonT(40), <1>1, <1>2
<1>4. /\ op' \in [Procs -> Operations] /\ op'[p] = Idle
      /\ \A q \in Procs : q # p => op'[q] = op[q]
  BY Zenon, <1>1, IdleType, OpFacts DEF TypeOK
<1>5. TypeOK'
  BY <1>1, <1>3, <1>4 DEF TypeOK, Contiguous
<1>6. VersionsHaveTheirData' /\ AckedIsKept' /\ DataIsOwn'
  BY ZenonT(40), <1>1 DEF VersionsHaveTheirData, AckedIsKept, DataIsOwn
<1>7. LockHeld' /\ ReaderIsRight'
  BY Zenon, <1>1, <1>4, IdleType DEF LockHeld, ReaderIsRight
<1>8. HolderIsRight'
  BY ZenonT(40), <1>1, <1>4, IdleType DEF HolderIsRight
<1> QED
  BY <1>3, <1>5, <1>6, <1>7, <1>8

\* A crash forgets the operations and the lock, and nothing that is stored.
LEMMA CrashInv ==
  ASSUME KVv2Inv, Crash
  PROVE  KVv2Inv'
<1> USE DEF KVv2Inv, Crash
<1>1. op' \in [Procs -> Operations] /\ \A q \in Procs : op'[q].pc = "idle"
  BY Zenon, IdleType
<1>2. TypeOK'
  BY <1>1 DEF TypeOK, Contiguous
<1>3. VersionsHaveTheirData' /\ AckedIsKept' /\ DataIsOwn'
  BY ZenonT(40) DEF VersionsHaveTheirData, AckedIsKept, DataIsOwn
<1>4. LockHeld' /\ HolderIsRight' /\ ReaderIsRight'
  BY <1>1 DEF LockHeld, HolderIsRight, ReaderIsRight
<1> QED
  BY <1>2, <1>3, <1>4

-----------------------------------------------------------------------------
(* The results.                                                            *)

\* Every step keeps the invariant and returns no read that mixes versions.
LEMMA NextInv ==
  ASSUME KVv2Inv, ~mixed, [Next]_vars
  PROVE  KVv2Inv' /\ ~mixed'
<1>1. CASE UNCHANGED vars
  BY <1>1, StutterInv DEF vars
<1>2. ASSUME NEW p \in Procs,
             \/ \E val \in Values, cas \in {None} \cup 0..MaxVer : WriteStart(p, val, cas)
             \/ WriteData(p) \/ WriteMeta(p) \/ WriteDone(p)
      PROVE  KVv2Inv' /\ ~mixed'
  <2>1. KVv2Inv'
    BY Zenon, <1>2, WriteStartInv, WriteDataInv, WriteMetaInv, WriteDoneInv
  <2>2. mixed' = mixed
    BY Zenon, <1>2 DEF WriteStart, WriteData, WriteMeta, WriteDone
  <2> QED
    BY <2>1, <2>2
<1>3. ASSUME NEW p \in Procs,
             \/ \E vs \in SUBSET Versions \ {{}} : SoftDelete(p, vs) \/ Undelete(p, vs)
             \/ \E max \in Limits, cas \in BOOLEAN : UpdateMetadata(p, max, cas)
      PROVE  KVv2Inv' /\ ~mixed'
  <2>1. KVv2Inv'
    BY Zenon, <1>3, SingleWriteInv
  <2>2. mixed' = mixed
    BY Zenon, <1>3 DEF SoftDelete, Undelete, UpdateMetadata, Update
  <2> QED
    BY <2>1, <2>2
<1>4. ASSUME NEW p \in Procs,
             \/ \E vs \in SUBSET Versions \ {{}} : Destroy(p, vs)
             \/ DestroyMeta(p) \/ DeleteAll(p) \/ DeleteMeta(p)
             \/ \E ver \in 0..MaxVer : ReadMeta(p, ver)
      PROVE  KVv2Inv' /\ ~mixed'
  <2>1. KVv2Inv'
    BY Zenon, <1>4, DestroyInv, DestroyMetaInv, DeleteAllInv, DeleteMetaInv, ReadMetaInv
  <2>2. mixed' = mixed
    BY Zenon, <1>4 DEF Destroy, DestroyMeta, DeleteAll, DeleteMeta, ReadMeta
  <2> QED
    BY <2>1, <2>2
<1>5. ASSUME NEW p \in Procs, ReadData(p)
      PROVE  KVv2Inv' /\ ~mixed'
  BY <1>5, ReadDataInv
<1>6. CASE Crash
  BY <1>6, CrashInv DEF Crash
<1> QED
  BY <1>1, <1>2, <1>3, <1>4, <1>5, <1>6 DEF Next

\* Every listed version has the data of the Write that created it and every
\* version number that Write returned stays with that Write, for any number of
\* writers, readers, crashes and storage errors.
THEOREM KVv2Correct == Spec => []KVv2Inv
<1>1. Init => KVv2Inv /\ ~mixed
  BY InitInv
<1>2. KVv2Inv /\ ~mixed /\ [Next]_vars => (KVv2Inv /\ ~mixed)'
  BY NextInv
<1> QED
  BY <1>1, <1>2, PTL DEF Spec

\* A Read, which takes no lock, returns the data of the version whose metadata it
\* returns, or none.
THEOREM ReadsAreConsistent == Spec => []ReadsMatchMetadata
<1>1. Init => KVv2Inv /\ ~mixed
  BY InitInv
<1>2. KVv2Inv /\ ~mixed /\ [Next]_vars => (KVv2Inv /\ ~mixed)'
  BY NextInv
<1>3. ~mixed => ReadsMatchMetadata
  BY DEF ReadsMatchMetadata
<1> QED
  BY <1>1, <1>2, <1>3, PTL DEF Spec

\* A destroyed version stays destroyed until the path is deleted altogether:
\* neither Undelete nor a Write that was under way brings it back.
THEOREM DestroyedStays == Spec => DestroyedForever
<1> DEFINE A == \A v \in DOMAIN meta.vers :
                  exists /\ exists' /\ meta.vers[v].state = "destroyed" /\ v \in DOMAIN meta'.vers
                    => meta'.vers[v].state = "destroyed"
<1>1. ASSUME KVv2Inv, [Next]_vars
      PROVE  A
  <2>1. meta \in Metas /\ Contiguous(meta)
    BY Zenon, <1>1 DEF KVv2Inv, TypeOK
  <2>2. CASE meta' = meta
    BY Zenon, <2>2
  <2>3. ASSUME NEW vs, NEW from \in SUBSET {"live", "deleted"}, NEW to \in States,
               meta' = WithState(meta, vs, from, to)
        PROVE  A
    BY <2>1, <2>3, WithStateFacts
  <2>4. ASSUME NEW p \in Procs, op[p].pc = "meta", meta' = op[p].meta
        PROVE  A
    <3> DEFINE new == Extended(meta, op[p].val)
    <3>1. /\ op[p].val \in Values /\ op[p].ver = meta.cur + 1
          /\ meta' = Without(new, Evicted(new)) /\ op[p].ver \in 0..MaxVer
      BY Zenon, <1>1, <2>4 DEF KVv2Inv, HolderIsRight, TypeOK, Operations
    <3>2. meta.cur < MaxVer /\ meta.cur + 1 \notin DOMAIN meta.vers
      <4>1. meta.cur \in Nat /\ meta.cur + 1 \notin DOMAIN meta.vers
        BY Zenon, <2>1, ContiguousFacts
      <4>2. meta.cur + 1 \in 0..MaxVer /\ MaxVer \in Nat
        BY Zenon, <3>1, KVAssumption
      <4> QED
        BY <4>1, <4>2
    <3>3. \A v \in DOMAIN meta'.vers : v # meta.cur + 1 => meta'.vers[v] = meta.vers[v]
      BY <2>1, <3>1, <3>2, WrittenFacts
    <3> QED
      BY Zenon, <3>2, <3>3
  <2>5. ASSUME NEW max, NEW cas, meta' = [meta EXCEPT !.max = max, !.cas = cas]
        PROVE  A
    BY <2>1, <2>5 DEF Metas
  <2>6. CASE exists' = FALSE
    BY <2>6
  <2> HIDE DEF A
  <2>7. CASE UNCHANGED vars
    BY Zenon, <2>2, <2>7 DEF vars
  <2>8. ASSUME NEW p \in Procs,
               \/ \E val \in Values, cas \in {None} \cup 0..MaxVer : WriteStart(p, val, cas)
               \/ WriteData(p) \/ WriteDone(p) \/ DeleteAll(p) \/ ReadData(p)
               \/ \E vs \in SUBSET Versions \ {{}} : Destroy(p, vs)
               \/ \E ver \in 0..MaxVer : ReadMeta(p, ver)
        PROVE  A
    BY Zenon, <2>2, <2>8 DEF WriteStart, WriteData, WriteDone, DeleteAll, ReadData, Destroy, ReadMeta
  <2>9. ASSUME NEW p \in Procs, WriteMeta(p)
        PROVE  A
    BY <2>2, <2>4, <2>9 DEF WriteMeta, PutMeta, PutMetaErr
  <2>10. ASSUME NEW p \in Procs, \E vs \in SUBSET Versions \ {{}} : SoftDelete(p, vs) \/ Undelete(p, vs)
         PROVE  A
    BY Zenon, <2>2, <2>3, <2>10 DEF SoftDelete, Undelete, Update, PutMeta, PutMetaErr, States
  <2>11. ASSUME NEW p \in Procs, \E max \in Limits, cas \in BOOLEAN : UpdateMetadata(p, max, cas)
         PROVE  A
    BY Zenon, <2>2, <2>5, <2>11 DEF UpdateMetadata, Update, PutMeta, PutMetaErr
  <2>12. ASSUME NEW p \in Procs, DestroyMeta(p)
         PROVE  A
    BY <2>2, <2>3, <2>12 DEF DestroyMeta, PutMeta, PutMetaErr, States
  <2>13. ASSUME NEW p \in Procs, DeleteMeta(p)
         PROVE  A
    BY Zenon, <2>2, <2>6, <2>13 DEF DeleteMeta
  <2>14. CASE Crash
    BY <2>2, <2>14 DEF Crash
  <2> QED
    BY ZenonT(40), <1>1, <2>7, <2>8, <2>9, <2>10, <2>11, <2>12, <2>13, <2>14 DEF Next
<1>2. KVv2Inv /\ [Next]_vars => [A]_vars
  BY <1>1
<1> HIDE DEF A
<1>3. Spec => [][A]_vars
  BY <1>2, KVv2Correct, PTL DEF Spec
<1> QED
  BY <1>3 DEF A, DestroyedForever
=============================================================================
