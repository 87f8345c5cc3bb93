---------------------------- MODULE ClusterProofs ----------------------------
(***************************************************************************)
(* Proofs about ClusterKeyring for any cluster, any set of keys and any    *)
(* number of rotations, restores and changes of leader.                    *)
(***************************************************************************)
EXTENDS ClusterKeyring, TLAPS

KeyTables == UNION {[vs -> 1..MaxKeys] : vs \in SUBSET (1..MaxKeys)}

\* A ring whose versions are at most b; IsRing(ring) is RingUpTo(ring, drawn).
RingUpTo(ring, b) == /\ ring \in Rings /\ ring.active <= b
                     /\ ring.active \in DOMAIN ring.keys /\ DOMAIN ring.keys \subseteq 1..ring.active

-----------------------------------------------------------------------------
(* The operators on keyrings.                                              *)

\* A ring stays one when more keys are drawn.
LEMMA RingMonotone ==
  ASSUME NEW ring, NEW a \in Nat, NEW b \in Nat, a <= b, RingUpTo(ring, a)
  PROVE  RingUpTo(ring, b)
BY ClusterAssumption DEF RingUpTo, Rings

\* What the keys of a ring are.
LEMMA KeysOfRing ==
  ASSUME NEW ring \in Rings
  PROVE  /\ DOMAIN ring.keys \subseteq 1..MaxKeys
         /\ ring.keys \in [DOMAIN ring.keys -> 1..MaxKeys]
         /\ ring.active \in 1..MaxKeys /\ ring.root \in 1..MaxKeys
         /\ ring = [root |-> ring.root, active |-> ring.active, keys |-> ring.keys]
BY DEF Rings

\* A record with the fields of a ring is one.
LEMMA RingOfFields ==
  ASSUME NEW r \in 1..MaxKeys, NEW a \in 1..MaxKeys, NEW vs \in SUBSET (1..MaxKeys),
         NEW ks \in [vs -> 1..MaxKeys]
  PROVE  [root |-> r, active |-> a, keys |-> ks] \in Rings
BY Zenon DEF Rings

\* The keyring of a new cluster.
LEMMA FirstRingFacts == RingUpTo(FirstRing, 1) /\ FirstRing.root = 1
<1>1. 1 \in 1..MaxKeys /\ MaxKeys \in Nat
  BY ClusterAssumption
<1>2. [v \in {1} |-> 1] \in [{1} -> 1..MaxKeys] /\ {1} \in SUBSET (1..MaxKeys)
  BY <1>1
<1>3. FirstRing \in Rings
  BY <1>1, <1>2, RingOfFields DEF FirstRing
<1> QED
  BY <1>3 DEF FirstRing, RingUpTo

\* The data of a new cluster.
LEMMA FirstDataFacts == FirstData \in Datas /\ RingUpTo(FirstData.ring, 1) /\ Consistent(FirstData)
<1>1. FirstData.entry \in [Keys -> Entries] /\ \A k \in Keys : FirstData.entry[k] = Absent
  BY ClusterAssumption DEF FirstData, Entries, Absent
<1>2. FirstRing \in Rings /\ FirstData.ring = FirstRing
  BY FirstRingFacts DEF RingUpTo, FirstData
<1>3. FirstData \in Datas
  BY <1>1, <1>2, ClusterAssumption DEF FirstData, Datas
<1>4. Consistent(FirstData)
  BY <1>1, <1>2, FirstRingFacts DEF Consistent, FirstData
<1> QED
  BY <1>2, <1>3, <1>4, FirstRingFacts

\* An entry sealed with a ring is one, is not the absent one, and the ring opens it.
LEMMA SealedFacts ==
  ASSUME NEW ring, NEW b, RingUpTo(ring, b)
  PROVE  Sealed(ring) \in Entries /\ Sealed(ring) # Absent /\ Opens(ring, Sealed(ring))
<1>1. /\ ring.active \in 1..MaxKeys /\ ring.keys[ring.active] \in 1..MaxKeys /\ MaxKeys \in Nat
      /\ ring.active \in DOMAIN ring.keys
  BY KeysOfRing, ClusterAssumption DEF RingUpTo
<1>2. Sealed(ring).ver = ring.active /\ Sealed(ring).dek = ring.keys[ring.active]
  BY DEF Sealed
<1>3. Sealed(ring) \in Entries
  BY <1>1 DEF Sealed, Entries
<1>4. Sealed(ring) # Absent
  BY <1>1, <1>2 DEF Absent
<1> QED
  BY <1>1, <1>2, <1>3, <1>4 DEF Opens

\* A rotation adds a key under a version no key of the ring has, so that the new
\* ring opens what the old one opened.
LEMMA RotatedFacts ==
  ASSUME NEW ring, drawn \in Nat, drawn < MaxKeys, RingUpTo(ring, drawn)
  PROVE  /\ RingUpTo(Rotated(ring), drawn + 1)
         /\ Rotated(ring).root = ring.root
         /\ \A e \in Entries : Opens(ring, e) => Opens(Rotated(ring), e)
<1> DEFINE D == DOMAIN ring.keys \cup {ring.active + 1}
           f == [v \in D |-> IF v = ring.active + 1 THEN drawn + 1 ELSE ring.keys[v]]
<1>1. /\ DOMAIN ring.keys \subseteq 1..MaxKeys /\ ring.keys \in [DOMAIN ring.keys -> 1..MaxKeys]
      /\ ring.active \in 1..MaxKeys /\ ring.root \in 1..MaxKeys
      /\ ring.active <= drawn /\ MaxKeys \in Nat /\ DOMAIN ring.keys \subseteq 1..ring.active
      /\ ring.active \in DOMAIN ring.keys
      /\ ring = [root |-> ring.root, active |-> ring.active, keys |-> ring.keys]
  BY KeysOfRing, ClusterAssumption DEF RingUpTo
<1>2. drawn + 1 \in 1..MaxKeys /\ ring.active + 1 \in 1..MaxKeys
  BY <1>1
<1>3. D \in SUBSET (1..MaxKeys) /\ f \in [D -> 1..MaxKeys]
  BY <1>1, <1>2
<1>4. Rotated(ring) = [ring EXCEPT !.active = ring.active + 1, !.keys = f]
  BY DEF Rotated
<1>5. /\ Rotated(ring) \in Rings /\ Rotated(ring).root = ring.root
      /\ Rotated(ring).active = ring.active + 1 /\ Rotated(ring).keys = f
  <2> HIDE DEF f, D
  <2>1. f \in KeyTables
    BY Zenon, <1>3 DEF KeyTables
  <2> QED
    BY Zenon, <1>1, <1>2, <1>4, <2>1 DEF KeyTables, Rings, RingUpTo
<1>6. DOMAIN Rotated(ring).keys = D /\ \A v \in DOMAIN ring.keys : Rotated(ring).keys[v] = f[v]
  BY <1>5
<1>7. \A v \in DOMAIN ring.keys : v # ring.active + 1
  BY <1>1
<1>8. \A v \in DOMAIN ring.keys : Rotated(ring).keys[v] = ring.keys[v]
  BY Zenon, <1>6, <1>7
<1>9. D \subseteq 1..(ring.active + 1) /\ ring.active + 1 <= drawn + 1
  BY <1>1
<1>10. RingUpTo(Rotated(ring), drawn + 1)
  BY <1>5, <1>6, <1>9 DEF RingUpTo
<1> QED
  BY <1>5, <1>6, <1>8, <1>10 DEF Opens

\* Pruning keeps the active key.
LEMMA PrunedFacts ==
  ASSUME NEW ring, NEW b, RingUpTo(ring, b)
  PROVE  /\ RingUpTo(Pruned(ring), b)
         /\ Pruned(ring).root = ring.root
         /\ Opens(Pruned(ring), Sealed(ring))
<1> DEFINE f == [v \in {ring.active} |-> ring.keys[v]]
<1>1. /\ ring.keys \in [DOMAIN ring.keys -> 1..MaxKeys]
      /\ ring.active \in 1..MaxKeys /\ ring.root \in 1..MaxKeys
      /\ ring.active <= b /\ ring.active \in DOMAIN ring.keys
      /\ ring = [root |-> ring.root, active |-> ring.active, keys |-> ring.keys]
  BY KeysOfRing DEF RingUpTo
<1>2. {ring.active} \in SUBSET (1..MaxKeys) /\ f \in [{ring.active} -> 1..MaxKeys]
  BY <1>1
<1>3. Pruned(ring) = [root |-> ring.root, active |-> ring.active, keys |-> f]
  BY <1>1 DEF Pruned
<1>4. Pruned(ring) \in Rings
  <2> HIDE DEF f
  <2> QED
    BY <1>1, <1>2, <1>3, RingOfFields
<1>5. /\ Pruned(ring).root = ring.root /\ Pruned(ring).active = ring.active
      /\ DOMAIN Pruned(ring).keys = {ring.active} /\ Pruned(ring).keys[ring.active] = ring.keys[ring.active]
  BY <1>3
<1>6. {ring.active} \subseteq 1..ring.active
  BY <1>1
<1>7. RingUpTo(Pruned(ring), b)
  BY <1>1, <1>4, <1>5, <1>6 DEF RingUpTo
<1> QED
  BY <1>5, <1>7 DEF Opens, Sealed

\* A ring under another root key opens the same entries.
LEMMA RekeyedFacts ==
  ASSUME NEW ring, NEW b, RingUpTo(ring, b), NEW r \in 1..MaxKeys
  PROVE  /\ RingUpTo([ring EXCEPT !.root = r], b)
         /\ [ring EXCEPT !.root = r].root = r
         /\ \A e : Opens([ring EXCEPT !.root = r], e) <=> Opens(ring, e)
<1>1. /\ [ring EXCEPT !.root = r] \in Rings /\ [ring EXCEPT !.root = r].root = r
      /\ [ring EXCEPT !.root = r].active = ring.active /\ [ring EXCEPT !.root = r].keys = ring.keys
  BY DEF RingUpTo, Rings
<1> QED
  BY <1>1 DEF RingUpTo, Opens

-----------------------------------------------------------------------------
(* The steps.                                                              *)

\* The types in terms of RingUpTo.
LEMMA TypeFacts ==
  ASSUME TypeOK
  PROVE  /\ drawn \in 1..MaxKeys /\ drawn \in Nat /\ MaxKeys \in Nat
         /\ db \in Datas /\ RingUpTo(db.ring, drawn)
         /\ snapshot \in Datas /\ RingUpTo(snapshot.ring, drawn)
         /\ fsm \in [Nodes -> Datas] /\ mem \in [Nodes -> Rings]
         /\ \A n \in Nodes : RingUpTo(fsm[n].ring, drawn) /\ RingUpTo(mem[n], drawn)
BY ClusterAssumption DEF TypeOK, IsData, IsRing, RingUpTo

\* The initial state of the cluster.
LEMMA InitInv == Init => ClusterInv /\ RestoreSeals
<1> SUFFICES ASSUME Init PROVE ClusterInv /\ RestoreSeals
  OBVIOUS
<1> USE DEF Init
<1>1. IsRing(FirstRing) /\ IsData(FirstData)
  BY FirstRingFacts, FirstDataFacts DEF IsRing, IsData, RingUpTo
<1>2. TypeOK
  <2>1. open \in [Nodes -> BOOLEAN] /\ misread \in BOOLEAN /\ strayed \in BOOLEAN
    BY Zenon
  <2>2. seen \in [Nodes -> 0..MaxRestores] /\ leader \in Nodes /\ mustSeal \subseteq Nodes /\ drawn \in 1..MaxKeys
    BY ClusterAssumption
  <2>3. fsm \in [Nodes -> Datas] /\ mem \in [Nodes -> Rings]
    BY <1>1 DEF IsData, IsRing
  <2> QED
    BY <1>1, <2>1, <2>2, <2>3 DEF TypeOK
<1>3. DataOutlivesLeaders
  BY FirstDataFacts DEF DataOutlivesLeaders
<1>4. RestoreSeals
  BY DEF RestoreSeals
<1> QED
  BY <1>2, <1>3, <1>4 DEF ClusterInv

\* Applying the log: the data, and the hook.
LEMMA ApplyFacts ==
  ASSUME TypeOK, NEW n \in Nodes, NEW d \in Datas, Apply(n, d)
  PROVE  /\ fsm' \in [Nodes -> Datas] /\ fsm'[n] = d
         /\ \A m \in Nodes \ {n} : fsm'[m] = fsm[m]
         /\ mustSeal' \subseteq Nodes /\ mustSeal \subseteq mustSeal'
         /\ n \notin LateNodes /\ fsm[n].restores # d.restores => n \in mustSeal'
BY DEF Apply, TypeOK

\* A step that commits data which is readable, unless a leader strayed, and that
\* gives the leader a well-formed keyring.
LEMMA CommitInv ==
  ASSUME ClusterInv, NEW n \in Nodes, NEW d \in Datas, NEW ring \in Rings,
         drawn' \in {drawn, drawn + 1}, drawn' <= MaxKeys,
         RingUpTo(d.ring, drawn'), RingUpTo(ring, drawn'),
         Commit(n, d), mem' = [mem EXCEPT ![n] = ring],
         strayed' \in BOOLEAN, ~strayed' => ~strayed /\ Consistent(d),
         UNCHANGED <<seen, open, leader, snapshot, misread>>
  PROVE  ClusterInv'
<1>1. TypeOK /\ DataOutlivesLeaders
  BY DEF ClusterInv
<1>2. /\ fsm' \in [Nodes -> Datas] /\ fsm'[n] = d
      /\ \A m \in Nodes \ {n} : fsm'[m] = fsm[m]
      /\ mustSeal' \subseteq Nodes /\ db' = d
  BY <1>1, ApplyFacts DEF Commit
<1>3. drawn \in Nat /\ drawn' \in Nat /\ drawn <= drawn' /\ drawn' \in 1..MaxKeys
  BY <1>1, TypeFacts
<1>4. /\ RingUpTo(snapshot.ring, drawn')
      /\ \A m \in Nodes : RingUpTo(fsm[m].ring, drawn') /\ RingUpTo(mem[m], drawn')
  BY <1>1, <1>3, TypeFacts, RingMonotone
<1>5. mem' \in [Nodes -> Rings] /\ \A m \in Nodes : RingUpTo(mem'[m], drawn')
  BY <1>1, <1>4, TypeFacts
<1>6. \A m \in Nodes : RingUpTo(fsm'[m].ring, drawn')
  BY <1>2, <1>4
<1>7. TypeOK'
  <2>1. IsData(db)' /\ IsData(snapshot)'
    BY <1>1, <1>2, <1>4, TypeFacts DEF IsData, IsRing, RingUpTo
  <2>2. \A m \in Nodes : IsData(fsm[m])' /\ IsRing(mem[m])'
    BY <1>2, <1>5, <1>6 DEF IsData, IsRing, RingUpTo
  <2>3. /\ open' \in [Nodes -> BOOLEAN] /\ seen' \in [Nodes -> 0..MaxRestores]
        /\ leader' \in Nodes /\ misread' \in BOOLEAN
    BY <1>1 DEF TypeOK
  <2> QED
    BY <1>2, <1>3, <1>5, <2>1, <2>2, <2>3 DEF TypeOK
<1>8. ASSUME ~strayed'
      PROVE  Consistent(db') /\ Consistent(snapshot') /\ \A m \in Nodes : Consistent(fsm'[m])
  <2>1. Consistent(d) /\ Consistent(snapshot) /\ \A m \in Nodes : Consistent(fsm[m])
    BY <1>1, <1>8 DEF DataOutlivesLeaders
  <2>2. \A m \in Nodes : Consistent(fsm'[m])
    BY ZenonT(40), <1>2, <2>1
  <2> QED
    BY <1>2, <2>1, <2>2
<1>9. DataOutlivesLeaders'
  BY Zenon, <1>8 DEF DataOutlivesLeaders, Consistent, Opens, Absent
<1> QED
  BY <1>7, <1>9 DEF ClusterInv

\* The data with another entry, ring or published root key.
LEMMA DataFacts ==
  ASSUME NEW d \in Datas
  PROVE  /\ d.ring \in Rings /\ d.entry \in [Keys -> Entries] /\ d.meta \in 1..MaxKeys
         /\ d.restores \in 0..MaxRestores
         /\ \A k \in Keys, e \in Entries :
              LET x == [d EXCEPT !.entry[k] = e] IN
              /\ x \in Datas /\ x.ring = d.ring /\ x.meta = d.meta
              /\ x.entry = [d.entry EXCEPT ![k] = e]
         /\ \A r \in Rings :
              LET x == [d EXCEPT !.ring = r] IN
              x \in Datas /\ x.ring = r /\ x.meta = d.meta /\ x.entry = d.entry
         /\ \A m \in 1..MaxKeys :
              LET x == [d EXCEPT !.meta = m] IN
              x \in Datas /\ x.ring = d.ring /\ x.meta = m /\ x.entry = d.entry
         /\ \A es \in [Keys -> Entries] :
              LET x == [d EXCEPT !.entry = es] IN
              x \in Datas /\ x.ring = d.ring /\ x.meta = d.meta /\ x.entry = es
         /\ \A i \in 0..MaxRestores :
              LET x == [d EXCEPT !.restores = i] IN
              x \in Datas /\ x.ring = d.ring /\ x.meta = d.meta /\ x.entry = d.entry
BY DEF Datas

\* Put seals under the keyring in memory.
LEMMA PutInv ==
  ASSUME ClusterInv, NEW n \in Nodes, NEW k \in Keys, Put(n, k)
  PROVE  ClusterInv'
<1> DEFINE e == Sealed(mem[n])
           d == [db EXCEPT !.entry[k] = e]
<1>1. TypeOK /\ DataOutlivesLeaders
  BY DEF ClusterInv
<1>2. /\ Commit(n, d) /\ strayed' = (strayed \/ ~Opens(db.ring, e))
      /\ UNCHANGED <<mem, seen, open, leader, snapshot, drawn, changes, misread>>
  BY DEF Put
<1>3. RingUpTo(mem[n], drawn) /\ mem[n] \in Rings /\ e \in Entries
  BY <1>1, TypeFacts, SealedFacts
<1>4. d \in Datas /\ d.ring = db.ring /\ d.meta = db.meta /\ d.entry = [db.entry EXCEPT ![k] = e]
  BY <1>1, <1>3, TypeFacts, DataFacts
<1> HIDE DEF d, e
<1>5. strayed' \in BOOLEAN
  BY <1>2
<1>6. ASSUME ~strayed'
      PROVE  ~strayed /\ Consistent(d)
  <2>1. ~strayed /\ Opens(db.ring, e) /\ Consistent(db)
    BY Zenon, <1>1, <1>2, <1>6 DEF DataOutlivesLeaders
  <2>2. \A x \in Keys : d.entry[x] = IF x = k THEN e ELSE db.entry[x]
    BY <1>1, <1>4, TypeFacts, DataFacts
  <2> QED
    BY <1>4, <2>1, <2>2 DEF Consistent
<1>7. mem' = [mem EXCEPT ![n] = mem[n]] /\ drawn <= MaxKeys
  BY <1>1, <1>2, TypeFacts
<1>8. RingUpTo(d.ring, drawn') /\ RingUpTo(mem[n], drawn') /\ drawn' = drawn /\ drawn' <= MaxKeys
  BY <1>1, <1>2, <1>3, <1>4, <1>7, TypeFacts
<1> QED
  BY Zenon, <1>2, <1>3, <1>4, <1>5, <1>6, <1>7, <1>8, CommitInv

\* Restore brings back the data of the snapshot.
LEMMA RestoreInv ==
  ASSUME ClusterInv, NEW n \in Nodes, Restore(n)
  PROVE  ClusterInv'
<1> DEFINE d == [snapshot EXCEPT !.restores = db.restores + 1]
<1>1. TypeOK /\ DataOutlivesLeaders
  BY DEF ClusterInv
<1>2. /\ Commit(n, d) /\ db.restores < MaxRestores
      /\ UNCHANGED <<mem, seen, open, leader, snapshot, drawn, changes, misread, strayed>>
  BY DEF Restore
<1>3. db.restores + 1 \in 0..MaxRestores
  BY <1>1, <1>2, TypeFacts, DataFacts, ClusterAssumption
<1>4. d \in Datas /\ d.ring = snapshot.ring /\ d.meta = snapshot.meta /\ d.entry = snapshot.entry
  BY <1>1, <1>3, TypeFacts, DataFacts
<1> HIDE DEF d
<1>5. ASSUME ~strayed'
      PROVE  ~strayed /\ Consistent(d)
  BY <1>1, <1>2, <1>4, <1>5 DEF DataOutlivesLeaders, Consistent
<1>6. mem' = [mem EXCEPT ![n] = mem[n]] /\ drawn <= MaxKeys /\ strayed' \in BOOLEAN
  BY <1>1, <1>2, TypeFacts DEF TypeOK
<1>7. RingUpTo(d.ring, drawn') /\ RingUpTo(mem[n], drawn') /\ drawn' = drawn /\ drawn' <= MaxKeys /\ mem[n] \in Rings
  BY <1>1, <1>2, <1>4, <1>6, TypeFacts
<1> QED
  BY Zenon, <1>2, <1>4, <1>5, <1>6, <1>7, CommitInv

\* A rotation: the leader's keyring replaces the stored one, which it was if no
\* leader strayed.
LEMMA PersistInv ==
  ASSUME ClusterInv, NEW n \in Nodes, NEW ring, NEW d \in Datas,
         drawn' = drawn + 1, drawn < MaxKeys, RingUpTo(ring, drawn + 1), Persist(n, ring, d),
         ~strayed /\ mem[n] = db.ring =>
           ring.root = d.meta /\ \A k \in Keys : d.entry[k] # Absent => Opens(ring, d.entry[k]),
         UNCHANGED <<seen, open, leader, snapshot, misread>>
  PROVE  ClusterInv'
<1> DEFINE x == [d EXCEPT !.ring = ring]
<1>1. /\ Commit(n, x) /\ mem' = [mem EXCEPT ![n] = ring]
      /\ strayed' = (strayed \/ mem[n] # db.ring)
  BY DEF Persist
<1>2. ring \in Rings
  BY DEF RingUpTo
<1>3. x \in Datas /\ x.ring = ring /\ x.meta = d.meta /\ x.entry = d.entry
  BY <1>2, DataFacts
<1> HIDE DEF x
<1>4. strayed' \in BOOLEAN
  BY <1>1
<1>5. ~strayed' => ~strayed /\ Consistent(x)
  BY Zenon, <1>1, <1>3 DEF Consistent
<1>6. drawn' <= MaxKeys
  BY TypeFacts DEF ClusterInv
<1> QED
  BY Zenon, <1>1, <1>2, <1>3, <1>4, <1>5, <1>6, CommitInv

\* RotateKey: a new root key, stored and published.
LEMMA RotateKeyInv ==
  ASSUME ClusterInv, NEW n \in Nodes, RotateKey(n)
  PROVE  ClusterInv'
<1> DEFINE ring == [mem[n] EXCEPT !.root = drawn + 1]
           d == [db EXCEPT !.meta = drawn + 1]
<1>1. TypeOK /\ DataOutlivesLeaders
  BY DEF ClusterInv
<1>2. /\ drawn < MaxKeys /\ drawn' = drawn + 1 /\ Persist(n, ring, d)
      /\ UNCHANGED <<seen, open, leader, snapshot, misread>>
  BY DEF RotateKey
<1>3. drawn + 1 \in 1..MaxKeys /\ RingUpTo(mem[n], drawn + 1)
  BY <1>1, <1>2, TypeFacts, RingMonotone
<1>4. /\ RingUpTo(ring, drawn + 1) /\ ring.root = drawn + 1
      /\ \A e : Opens(ring, e) <=> Opens(mem[n], e)
  BY <1>3, RekeyedFacts
<1>5. d \in Datas /\ d.meta = drawn + 1 /\ d.entry = db.entry
  BY <1>1, <1>3, TypeFacts, DataFacts
<1> HIDE DEF ring, d
<1>6. ~strayed /\ mem[n] = db.ring =>
        ring.root = d.meta /\ \A k \in Keys : d.entry[k] # Absent => Opens(ring, d.entry[k])
  BY <1>1, <1>4, <1>5 DEF DataOutlivesLeaders, Consistent
<1> QED
  BY <1>2, <1>4, <1>5, <1>6, PersistInv

\* RotateDataKey: the new ring opens what the old one opened.
LEMMA RotateDataKeyInv ==
  ASSUME ClusterInv, NEW n \in Nodes, RotateDataKey(n)
  PROVE  ClusterInv'
<1> DEFINE ring == Rotated(mem[n])
<1>1. TypeOK /\ DataOutlivesLeaders
  BY DEF ClusterInv
<1>2. /\ drawn < MaxKeys /\ drawn' = drawn + 1 /\ Persist(n, ring, db)
      /\ UNCHANGED <<seen, open, leader, snapshot, misread>>
  BY DEF RotateDataKey
<1>3. /\ RingUpTo(ring, drawn + 1) /\ ring.root = mem[n].root
      /\ \A e \in Entries : Opens(mem[n], e) => Opens(ring, e)
  BY <1>1, <1>2, TypeFacts, RotatedFacts
<1>4. db \in Datas /\ db.entry \in [Keys -> Entries]
  BY <1>1, TypeFacts, DataFacts
<1> HIDE DEF ring
<1>5. ~strayed /\ mem[n] = db.ring =>
        ring.root = db.meta /\ \A k \in Keys : db.entry[k] # Absent => Opens(ring, db.entry[k])
  BY <1>1, <1>3, <1>4 DEF DataOutlivesLeaders, Consistent
<1> QED
  BY <1>2, <1>3, <1>4, <1>5, PersistInv

\* RotateDataKey with reencrypt: the old keys go only when every entry has been
\* rewritten, and the loop is never stopped by an entry unless a leader strayed.
LEMMA RotateAndReencryptInv ==
  ASSUME ClusterInv, NEW n \in Nodes, RotateAndReencrypt(n)
  PROVE  ClusterInv'
<1> DEFINE ring == Rotated(mem[n])
           present == {k \in Keys : db.entry[k] # Absent}
           readable == {k \in present : Opens(ring, db.entry[k])}
           Entry(ks) == [k \in Keys |-> IF k \in ks THEN Sealed(ring) ELSE db.entry[k]]
           Rewritten(ks) == [db EXCEPT !.entry = Entry(ks)]
<1>1. TypeOK /\ DataOutlivesLeaders
  BY DEF ClusterInv
<1>2. /\ drawn < MaxKeys /\ drawn' = drawn + 1
      /\ UNCHANGED <<seen, open, leader, snapshot, misread>>
      /\ \/ Persist(n, Pruned(ring), Rewritten(present))
         \/ \E ks \in SUBSET readable : Persist(n, ring, Rewritten(ks))
  BY DEF RotateAndReencrypt
<1>3. /\ RingUpTo(ring, drawn + 1) /\ ring.root = mem[n].root
      /\ \A e \in Entries : Opens(mem[n], e) => Opens(ring, e)
  BY <1>1, <1>2, TypeFacts, RotatedFacts
<1> HIDE DEF ring
<1>4. Sealed(ring) \in Entries /\ Opens(ring, Sealed(ring))
  BY <1>3, SealedFacts
<1>5. db \in Datas /\ db.entry \in [Keys -> Entries]
  BY <1>1, TypeFacts, DataFacts
<1>6. \A ks : /\ Entry(ks) \in [Keys -> Entries]
              /\ \A k \in Keys : Entry(ks)[k] = IF k \in ks THEN Sealed(ring) ELSE db.entry[k]
  BY <1>4, <1>5
<1> HIDE DEF Entry
<1>7. \A ks : Rewritten(ks) \in Datas /\ Rewritten(ks).meta = db.meta /\ Rewritten(ks).entry = Entry(ks)
  BY <1>5, <1>6, DataFacts
<1> HIDE DEF Rewritten
<1>8. CASE Persist(n, Pruned(ring), Rewritten(present))
  <2>1. /\ RingUpTo(Pruned(ring), drawn + 1) /\ Pruned(ring).root = ring.root
        /\ Opens(Pruned(ring), Sealed(ring))
    BY <1>3, PrunedFacts
  <2>2. \A k \in Keys : Entry(present)[k] # Absent => Entry(present)[k] = Sealed(ring)
    BY <1>6
  <2>3. ~strayed /\ mem[n] = db.ring =>
          /\ Pruned(ring).root = Rewritten(present).meta
          /\ \A k \in Keys : Rewritten(present).entry[k] # Absent
                               => Opens(Pruned(ring), Rewritten(present).entry[k])
    BY Zenon, <1>1, <1>3, <1>7, <2>1, <2>2 DEF DataOutlivesLeaders, Consistent
  <2> QED
    BY <1>2, <1>7, <1>8, <2>1, <2>3, PersistInv
<1>9. ASSUME NEW ks \in SUBSET readable, Persist(n, ring, Rewritten(ks))
      PROVE  ClusterInv'
  <2>1. ~strayed /\ mem[n] = db.ring =>
          /\ ring.root = Rewritten(ks).meta
          /\ \A k \in Keys : Rewritten(ks).entry[k] # Absent => Opens(ring, Rewritten(ks).entry[k])
    BY <1>1, <1>3, <1>4, <1>5, <1>6, <1>7 DEF DataOutlivesLeaders, Consistent
  <2> QED
    BY <1>2, <1>3, <1>7, <1>9, <2>1, PersistInv
<1> QED
  BY <1>2, <1>8, <1>9

\* The other steps change no stored data and draw no key.
LEMMA QuietInv ==
  ASSUME ClusterInv, NEW n \in Nodes,
         \/ Unseal(n) \/ Seal(n) \/ Crash(n) \/ ChangeLeader(n) \/ SealAfterRestore(n)
         \/ TakeSnapshot(n) \/ \E k \in Keys : Get(n, k)
  PROVE  ClusterInv'
<1>1. TypeOK /\ DataOutlivesLeaders
  BY DEF ClusterInv
<1>2. UNCHANGED <<db, fsm, drawn, strayed>>
  BY DEF Unseal, Seal, Crash, ChangeLeader, SealAfterRestore, TakeSnapshot, Get
<1>3. snapshot' = snapshot \/ snapshot' = fsm[n]
  BY DEF Unseal, Seal, Crash, ChangeLeader, SealAfterRestore, TakeSnapshot, Get
<1>4. mem' = mem \/ mem' = [mem EXCEPT ![n] = fsm[n].ring]
  BY DEF Unseal, Seal, Crash, ChangeLeader, SealAfterRestore, TakeSnapshot, Get
<1>5. seen' = seen \/ seen' = [seen EXCEPT ![n] = fsm[n].restores]
  BY DEF Unseal, Seal, Crash, ChangeLeader, SealAfterRestore, TakeSnapshot, Get
<1>6. open' = open \/ open' = [open EXCEPT ![n] = TRUE] \/ open' = [open EXCEPT ![n] = FALSE]
  BY DEF Unseal, Seal, Crash, ChangeLeader, SealAfterRestore, TakeSnapshot, Get
<1>7. leader' \in Nodes /\ mustSeal' \subseteq Nodes
  BY Zenon, <1>1 DEF Unseal, Seal, Crash, ChangeLeader, SealAfterRestore, TakeSnapshot, Get, TypeOK
<1>8. misread' \in BOOLEAN
  BY <1>1 DEF Unseal, Seal, Crash, ChangeLeader, SealAfterRestore, TakeSnapshot, Get, TypeOK
<1>9. TypeOK'
  <2>1. open' \in [Nodes -> BOOLEAN]
    BY Zenon, <1>1, <1>6 DEF TypeOK
  <2>2. seen' \in [Nodes -> 0..MaxRestores]
    BY <1>1, <1>5, TypeFacts, DataFacts DEF TypeOK
  <2>3. IsData(fsm[n]) /\ \A m \in Nodes : IsRing(mem[m])
    BY <1>1 DEF TypeOK
  <2>4. mem' \in [Nodes -> Rings] /\ \A m \in Nodes : mem'[m] \in {mem[m], fsm[n].ring}
    BY <1>1, <1>4, TypeFacts, DataFacts
  <2>5. \A m \in Nodes : IsRing(mem[m])'
    BY <1>2, <2>3, <2>4 DEF IsData, IsRing
  <2>6. IsData(snapshot)' /\ IsData(db)' /\ \A m \in Nodes : IsData(fsm[m])'
    BY ZenonT(40), <1>1, <1>2, <1>3 DEF TypeOK, IsData, IsRing
  <2> QED
    BY <1>1, <1>2, <1>7, <1>8, <2>1, <2>2, <2>4, <2>5, <2>6 DEF TypeOK
<1>10. DataOutlivesLeaders'
  BY <1>1, <1>2, <1>3 DEF DataOutlivesLeaders, Consistent, Opens, Absent
<1> QED
  BY <1>9, <1>10 DEF ClusterInv

\* A node catches up with the committed data.
LEMMA ReplicateInv ==
  ASSUME ClusterInv, NEW n \in Nodes, Replicate(n)
  PROVE  ClusterInv'
<1>1. TypeOK /\ DataOutlivesLeaders
  BY DEF ClusterInv
<1>2. /\ Apply(n, db)
      /\ UNCHANGED <<db, mem, seen, open, leader, snapshot, drawn, misread, strayed>>
  BY DEF Replicate
<1>3. db \in Datas /\ Commit(n, db) /\ mem' = [mem EXCEPT ![n] = mem[n]]
  BY <1>1, <1>2, TypeFacts DEF Commit
<1>4. /\ RingUpTo(db.ring, drawn') /\ RingUpTo(mem[n], drawn') /\ drawn' = drawn
      /\ drawn' <= MaxKeys /\ mem[n] \in Rings
  BY <1>1, <1>2, TypeFacts
<1>5. strayed' \in BOOLEAN /\ (~strayed' => ~strayed /\ Consistent(db))
  BY <1>1, <1>2 DEF TypeOK, DataOutlivesLeaders
<1> QED
  BY Zenon, <1>2, <1>3, <1>4, <1>5, CommitInv

-----------------------------------------------------------------------------
(* The results.                                                            *)

\* Every step keeps the invariant.
LEMMA NextInv ==
  ASSUME ClusterInv, [Next]_vars
  PROVE  ClusterInv'
<1>1. CASE UNCHANGED vars
  BY Zenon, <1>1 DEF vars, ClusterInv, TypeOK, IsData, IsRing, DataOutlivesLeaders, Consistent, Opens
<1>2. CASE Next
  BY <1>2, QuietInv, PutInv, RotateKeyInv, RotateDataKeyInv, RotateAndReencryptInv, ReplicateInv,
     RestoreInv DEF Next
<1> QED
  BY Zenon, <1>1, <1>2

\* Whoever leads and however far the nodes lag, every copy of the data - the
\* committed one, each node's and the snapshot - can be unsealed with its own
\* published root key and its keyring opens all of its entries, unless a leader
\* wrote under a keyring that was not the stored one.
THEOREM ClusterCorrect == Spec => []ClusterInv
<1>1. Init => ClusterInv
  BY InitInv
<1>2. ClusterInv /\ [Next]_vars => ClusterInv'
  BY NextInv
<1> QED
  BY <1>1, <1>2, PTL DEF Spec

\* A node that applies a restore in time does not stay open with the keyring of
\* before: it is sealed, or its hook is still to run.
THEOREM RestoredNodesSeal == Spec => []RestoreSeals
<1>1. Init => RestoreSeals
  BY InitInv
<1>2. ASSUME ClusterInv, RestoreSeals, [Next]_vars
      PROVE  RestoreSeals'
  <2>1. TypeOK
    BY <1>2 DEF ClusterInv
  <2>2. ASSUME NEW n \in Nodes, NEW d \in Datas, Apply(n, d), UNCHANGED <<open, seen>>
        PROVE  RestoreSeals'
    BY <1>2, <2>1, <2>2, ApplyFacts DEF RestoreSeals
  <2>3. ASSUME NEW n \in Nodes, \/ Seal(n) \/ Crash(n) \/ SealAfterRestore(n)
        PROVE  RestoreSeals'
    BY <1>2, <2>1, <2>3 DEF Seal, Crash, SealAfterRestore, RestoreSeals, TypeOK
  <2>4. ASSUME NEW n \in Nodes, Unseal(n)
        PROVE  RestoreSeals'
    BY <1>2, <2>1, <2>4 DEF Unseal, RestoreSeals, TypeOK
  <2>5. ASSUME NEW n \in Nodes, \/ ChangeLeader(n) \/ TakeSnapshot(n) \/ \E k \in Keys : Get(n, k)
        PROVE  RestoreSeals'
    BY <1>2, <2>5 DEF ChangeLeader, TakeSnapshot, Get, RestoreSeals
  <2>6. ASSUME NEW n \in Nodes, \E k \in Keys : Put(n, k)
        PROVE  RestoreSeals'
    BY <2>1, <2>2, <2>6, TypeFacts, DataFacts, SealedFacts DEF Put, Commit
  <2>7. ASSUME NEW n \in Nodes, Replicate(n)
        PROVE  RestoreSeals'
    BY <2>1, <2>2, <2>7, TypeFacts DEF Replicate
  <2>8. ASSUME NEW n \in Nodes, Restore(n)
        PROVE  RestoreSeals'
    <3>1. db.restores + 1 \in 0..MaxRestores
      BY <2>1, <2>8, TypeFacts, DataFacts, ClusterAssumption DEF Restore
    <3> QED
      BY <2>1, <2>2, <2>8, <3>1, TypeFacts, DataFacts DEF Restore, Commit
  <2>9. ASSUME NEW n \in Nodes, \/ RotateKey(n) \/ RotateDataKey(n) \/ RotateAndReencrypt(n)
        PROVE  RestoreSeals'
    <3>1. \E d : Commit(n, d) /\ UNCHANGED <<open, seen>>
      BY Zenon, <2>9 DEF RotateKey, RotateDataKey, RotateAndReencrypt, Persist
    <3>2. PICK d : Commit(n, d) /\ UNCHANGED <<open, seen>>
      BY <3>1
    <3>3. db' = d /\ Apply(n, d)
      BY <3>2 DEF Commit
    <3>4. db' \in Datas
      BY <1>2, NextInv DEF ClusterInv, TypeOK, IsData
    <3> QED
      BY Zenon, <2>2, <3>2, <3>3, <3>4
  <2>10. CASE UNCHANGED vars
    BY <1>2, <2>10 DEF vars, RestoreSeals
  <2> QED
    BY <1>2, <2>3, <2>4, <2>5, <2>6, <2>7, <2>8, <2>9, <2>10 DEF Next
<1> QED
  BY <1>1, <1>2, ClusterCorrect, PTL DEF Spec
=============================================================================
