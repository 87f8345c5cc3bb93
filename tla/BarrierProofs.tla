---------------------------- MODULE BarrierProofs ----------------------------
(***************************************************************************)
(* Proofs about Barrier for every set of keys, values and root keys and    *)
(* for any number of rotations.                                            *)
(***************************************************************************)
EXTENDS Barrier, TLAPS

Inv == TypeOK /\ BarrierInv

USE DEF Reply, Report

\* The initial states - a new store or an old, unversioned one - satisfy it.
LEMMA InitInv == Init => Inv
<1> SUFFICES ASSUME Init PROVE Inv
  OBVIOUS
<1>1. IsRing(NoRing)
  BY DEF IsRing, NoRing, IsKeys
<1>2. TypeOK
  <2>1. IsRing(keyring)
    <3>1. CASE keyring = NoRing
      BY <1>1, <3>1
    <3>2. CASE \E r \in RootKeys : keyring = [root |-> r, active |-> 0, keys |-> [v \in {0} |-> 0], versioned |-> FALSE]
      BY <3>2 DEF IsRing, IsKeys
    <3> QED
      BY <3>1, <3>2 DEF Init
  <2>2. store \in [AllKeys -> Entries]
    BY DEF Init, Absent, Entries
  <2>3. mem = NoRing
    BY DEF Init
  <2>4. IsRing(mem)
    BY <1>1, <2>3
  <2>5. inited \in BOOLEAN /\ open \in BOOLEAN
    BY Zenon DEF Init
  <2>6. fresh \in Nat /\ todo \subseteq AllKeys /\ op = "idle" /\ req = None /\ res = "done" /\ meta \in {"absent", "plain"}
    BY DEF Init
  <2> QED
    BY <2>1, <2>2, <2>4, <2>5, <2>6 DEF TypeOK, Codes
<1>3. BarrierInv
  <2>1. KeyringOpensEverything
    BY DEF Init, KeyringOpensEverything, Present, Absent, AllKeys
  <2>2. FormatMatches
    BY DEF Init, FormatMatches
  <2>3. ActiveKeyInRing
    BY DEF Init, ActiveKeyInRing, NewestIsActive
  <2>4. MemoryKeysAreDurable /\ MemoryOpensEverything /\ PassedIsActive /\ InitPhase
    BY DEF Init, MemoryKeysAreDurable, MemoryOpensEverything, PassedIsActive, InitPhase
  <2> QED
    BY <2>1, <2>2, <2>3, <2>4 DEF BarrierInv
<1> QED
  BY <1>2, <1>3 DEF Inv

-----------------------------------------------------------------------------
(* One lemma per action.                                                   *)

\* A record with the fields of a ring, each in its type, is a ring.
LEMMA RingOfFields ==
  ASSUME NEW r \in RootKeys \cup {None}, NEW a \in Nat, NEW ks, IsKeys(ks), NEW b \in BOOLEAN
  PROVE  IsRing([root |-> r, active |-> a, keys |-> ks, versioned |-> b])
BY DEF IsRing

\* Replacing the root key of a ring (Rekey) gives a ring.
LEMMA RingWithRoot ==
  ASSUME NEW ring, IsRing(ring), NEW r \in RootKeys
  PROVE  /\ IsRing([ring EXCEPT !.root = r])
         /\ [ring EXCEPT !.root = r].keys = ring.keys
         /\ [ring EXCEPT !.root = r].active = ring.active
         /\ [ring EXCEPT !.root = r].versioned = ring.versioned
         /\ [ring EXCEPT !.root = r].root = r
BY DEF IsRing

\* The empty ring of a sealed barrier is a ring.
LEMMA RingEmpty == IsRing(NoRing)
BY DEF IsRing, NoRing, IsKeys

\* A function on one version is a well-formed set of keys.
LEMMA SingleKey ==
  ASSUME NEW n \in Nat, NEW d \in Nat
  PROVE  IsKeys([v \in {n} |-> d])
BY DEF IsKeys

\* initialize, first write: the invariant survives the metadata record.
LEMMA InitializeInv ==
  ASSUME NEW r \in RootKeys, Inv, Initialize(r)
  PROVE  Inv'
<1> USE DEF Inv, Initialize
<1>1. IsRing(mem')
  BY RingEmpty, RingWithRoot DEF TypeOK, Codes
<1>2. TypeOK'
  BY <1>1 DEF TypeOK, Codes
<1>3. BarrierInv'
  BY DEF BarrierInv, KeyringOpensEverything, FormatMatches, ActiveKeyInRing, NewestIsActive,
         MemoryKeysAreDurable, MemoryOpensEverything, PassedIsActive, InitPhase, Present, Opens
<1> QED
  BY <1>2, <1>3

\* initialize, second write: the first keyring.
LEMMA InitializeKeyringInv ==
  ASSUME Inv, InitializeKeyring
  PROVE  Inv'
<1> USE DEF Inv, InitializeKeyring
<1>1. IsRing(mem')
  BY RingEmpty
<1>2. IsRing(keyring')
  <2>1. CASE keyring' = keyring
    BY <2>1 DEF TypeOK, Codes
  <2>2. CASE keyring' = [root |-> mem.root, active |-> 1,
                         keys |-> [v \in {1} |-> fresh], versioned |-> TRUE]
    <3>1. mem.root \in RootKeys \cup {None} /\ fresh \in Nat
      BY DEF TypeOK, IsRing
    <3>2. IsKeys([v \in {1} |-> fresh])
      BY Zenon, <3>1, SingleKey
    <3> QED
      BY Zenon, <2>2, <3>1, <3>2, RingOfFields
  <2> QED
    BY <2>1, <2>2
<1>3. TypeOK'
  <2>1. inited' \in BOOLEAN /\ open' \in BOOLEAN
    BY Zenon DEF TypeOK, Codes
  <2>2. fresh' \in Nat /\ store' = store /\ op' = "idle" /\ todo' = todo /\ meta' = meta
        /\ req' = None /\ res' \in {"done", "failed"}
    BY DEF TypeOK, Codes
  <2> QED
    BY <1>1, <1>2, <2>1, <2>2 DEF TypeOK, Codes
<1>4. BarrierInv'
  BY DEF BarrierInv, KeyringOpensEverything, FormatMatches, ActiveKeyInRing, NewestIsActive,
         MemoryKeysAreDurable, MemoryOpensEverything, PassedIsActive, InitPhase, Present, Opens
<1> QED
  BY <1>3, <1>4

\* Unseal reads the stored keyring in the format that was announced.
LEMMA UnsealInv ==
  ASSUME NEW r \in RootKeys, Inv, Unseal(r)
  PROVE  Inv'
<1> USE DEF Inv, Unseal
<1>1. mem' = keyring
  BY DEF BarrierInv, FormatMatches
<1>2. TypeOK'
  BY <1>1 DEF TypeOK, Codes
<1>3. BarrierInv'
  BY <1>1 DEF BarrierInv, KeyringOpensEverything, FormatMatches, ActiveKeyInRing, NewestIsActive,
         MemoryKeysAreDurable, MemoryOpensEverything, PassedIsActive, InitPhase, Present, Opens
<1> QED
  BY <1>2, <1>3

\* Seal only forgets what is in memory.
LEMMA SealInv ==
  ASSUME Inv, Seal
  PROVE  Inv'
<1> USE DEF Inv, Seal
<1>1. TypeOK'
  BY Zenon, RingEmpty DEF TypeOK, Codes
<1>2. BarrierInv'
  BY DEF BarrierInv, KeyringOpensEverything, FormatMatches, ActiveKeyInRing, NewestIsActive,
         MemoryKeysAreDurable, MemoryOpensEverything, PassedIsActive, InitPhase, Present, Opens
<1> QED
  BY <1>1, <1>2

\* A crash at any step of any operation preserves the invariant.
LEMMA CrashInv ==
  ASSUME Inv, Crash
  PROVE  Inv'
<1> USE DEF Inv, Crash
<1>1. TypeOK'
  BY Zenon, RingEmpty DEF TypeOK, Codes
<1>2. BarrierInv'
  BY DEF BarrierInv, KeyringOpensEverything, FormatMatches, ActiveKeyInRing, NewestIsActive,
         MemoryKeysAreDurable, MemoryOpensEverything, PassedIsActive, InitPhase, Present, Opens
<1> QED
  BY <1>1, <1>2

\* A request that only reports a result.
LEMMA ReadOnlyInv ==
  ASSUME Inv, UNCHANGED <<meta, inited, keyring, store, open, mem, op, todo, fresh>>,
         req' \in Keys \cup {None}, res' \in Values \cup {None} \cup Codes
  PROVE  Inv'
<1>1. TypeOK'
  BY DEF Inv, TypeOK
<1>2. BarrierInv'
  BY DEF Inv, BarrierInv, KeyringOpensEverything, FormatMatches, ActiveKeyInRing, NewestIsActive,
         MemoryKeysAreDurable, MemoryOpensEverything, PassedIsActive, InitPhase, Present, Opens
<1> QED
  BY <1>1, <1>2 DEF Inv

\* Replacing one entry by an absent one or by one sealed under the active key.
LEMMA WriteInv ==
  ASSUME Inv, open, NEW k \in Keys, NEW e \in {Absent} \cup {Seal1(mem, v) : v \in Values},
         store' = [store EXCEPT ![k] = e],
         UNCHANGED <<meta, inited, keyring, open, mem, op, todo, fresh>>,
         op = "idle", req' = k, res' \in {"ok", "io"}
  PROVE  Inv'
<1> USE DEF Inv
<1>1. mem.active \in Nat /\ mem.active \in DOMAIN mem.keys /\ mem.keys[mem.active] \in Nat
  BY DEF TypeOK, BarrierInv, ActiveKeyInRing, NewestIsActive, IsRing, IsKeys
<1>2. e \in Entries
  BY <1>1 DEF Entries, Absent, Seal1
<1>3. TypeOK'
  BY Zenon, <1>2 DEF TypeOK, Codes
<1>4. e.val # None => Opens(mem, e)
  BY <1>1 DEF Absent, Seal1, Opens
<1>5. e.val # None => inited /\ Opens(keyring, e)
  BY <1>4 DEF BarrierInv, MemoryKeysAreDurable, Opens
<1>6. \A j \in Keys : store'[j] = IF j = k THEN e ELSE store[j]
  BY DEF TypeOK, AllKeys
<1>7. BarrierInv'
  <2>1. KeyringOpensEverything'
    BY <1>5, <1>6 DEF BarrierInv, KeyringOpensEverything, Present, Opens
  <2>2. MemoryOpensEverything'
    BY <1>4, <1>6 DEF BarrierInv, MemoryOpensEverything, Present, Opens
  <2>3. (FormatMatches /\ ActiveKeyInRing /\ MemoryKeysAreDurable /\ PassedIsActive /\ InitPhase)'
    BY DEF BarrierInv, FormatMatches, ActiveKeyInRing, NewestIsActive, MemoryKeysAreDurable,
           PassedIsActive, InitPhase
  <2> QED
    BY <2>1, <2>2, <2>3 DEF BarrierInv
<1> QED
  BY <1>3, <1>7

\* Get, Put, Delete and refused requests preserve the invariant.
LEMMA RequestInv ==
  ASSUME NEW k \in Keys, Inv, Get(k) \/ Delete(k) \/ Refuse \/ \E v \in Values : Put(k, v)
  PROVE  Inv'
<1>1. CASE Get(k)
  <2>1. store[k].val \in Values \cup {None}
    BY DEF Inv, TypeOK, AllKeys, Entries
  <2> QED
    BY <1>1, <2>1, ReadOnlyInv DEF Get, Codes
<1>2. CASE Refuse
  BY <1>2, ReadOnlyInv DEF Refuse, Codes
<1>3. CASE Delete(k)
  <2>1. CASE store' = store
    BY <1>3, <2>1, ReadOnlyInv DEF Delete, Codes
  <2>2. CASE store' = [store EXCEPT ![k] = Absent]
    BY Zenon, <1>3, <2>2, WriteInv DEF Delete
  <2> QED
    BY <1>3, <2>1, <2>2 DEF Delete
<1>4. CASE \E v \in Values : Put(k, v)
  <2> PICK v \in Values : Put(k, v)
    BY <1>4
  <2>1. CASE store' = store
    BY <2>1, ReadOnlyInv DEF Put, Codes
  <2>2. CASE store' = [store EXCEPT ![k] = Seal1(mem, v)]
    BY Zenon, <2>2, WriteInv DEF Put
  <2> QED
    BY <2>1, <2>2 DEF Put
<1> QED
  BY <1>1, <1>2, <1>3, <1>4

\* publishSealMeta writes outside the keys of the barrier.
LEMMA PutForeignInv ==
  ASSUME NEW k \in Foreign, Inv, PutForeign(k)
  PROVE  Inv'
<1> USE DEF Inv, PutForeign
<1>1. [ver |-> Garbage, dek |-> 0, val |-> None] \in Entries
  BY DEF Entries, Garbage
<1>2. TypeOK'
  BY ZenonT(40), <1>1 DEF TypeOK, Codes
<1>3. \A j \in Keys : store'[j] = store[j]
  BY KeysAssumption DEF TypeOK, AllKeys
<1>4. BarrierInv'
  BY SMTT(30), <1>3 DEF BarrierInv, KeyringOpensEverything, FormatMatches, ActiveKeyInRing, NewestIsActive,
         MemoryKeysAreDurable, MemoryOpensEverything, PassedIsActive, InitPhase, Present, Opens
<1> QED
  BY <1>2, <1>4

\* Persisting a ring that opens every entry, and holding in memory one that
\* it contains, preserves the invariant: the core of every maintenance step.
LEMMA RingsInv ==
  ASSUME Inv, open, op \in {"idle", "reencrypt"},
         UNCHANGED <<meta, inited, store, open>>,
         IsRing(keyring'), IsRing(mem'), NewestIsActive(keyring'), NewestIsActive(mem'),
         keyring'.versioned <=> keyring.versioned, mem'.versioned <=> keyring.versioned,
         \A v \in DOMAIN mem'.keys : v \in DOMAIN keyring'.keys /\ keyring'.keys[v] = mem'.keys[v],
         \A k \in Keys : Present(k) => Opens(mem', store[k]),
         op' = "idle" \/ (op' = "reencrypt" /\ \A k \in Keys : Present(k) => k \in todo'),
         todo' \subseteq AllKeys, fresh' \in Nat, req' = None, res' \in {"done", "failed"}
  PROVE  Inv'
<1> USE DEF Inv
<1>1. inited
  BY Zenon DEF BarrierInv, MemoryKeysAreDurable
<1>2. TypeOK'
  BY Zenon DEF TypeOK, Codes
<1>3. KeyringOpensEverything' /\ MemoryOpensEverything'
  BY <1>1 DEF KeyringOpensEverything, MemoryOpensEverything, Present, Opens
<1>4. FormatMatches' /\ MemoryKeysAreDurable' /\ InitPhase'
  BY <1>1 DEF BarrierInv, FormatMatches, MemoryKeysAreDurable, InitPhase
<1>5. ActiveKeyInRing'
  BY DEF ActiveKeyInRing, NewestIsActive
<1>6. PassedIsActive'
  BY DEF PassedIsActive, Present
<1> QED
  BY <1>2, <1>3, <1>4, <1>5, <1>6 DEF BarrierInv

\* Rekey preserves the invariant, also when its write is reported as failed.
LEMMA RekeyInv ==
  ASSUME NEW r \in RootKeys, Inv, Rekey(r)
  PROVE  Inv'
<1> USE DEF Inv
<1> DEFINE new == [mem EXCEPT !.root = r]
<1>1. /\ IsRing(new) /\ new.keys = mem.keys /\ new.active = mem.active
      /\ (new.versioned <=> mem.versioned)
  BY RingWithRoot DEF TypeOK, Codes
<1>2. \/ mem' = new /\ keyring' = new
      \/ mem' = mem /\ keyring' = keyring
      \/ mem' = mem /\ keyring' = new
  BY DEF Rekey, PersistOK, PersistErr
<1>3. open /\ inited /\ op = "idle"
  BY DEF Rekey, BarrierInv, MemoryKeysAreDurable
<1>4. mem.versioned <=> keyring.versioned
  BY <1>3 DEF BarrierInv, FormatMatches
<1>5. IsRing(keyring') /\ IsRing(mem')
  BY <1>1, <1>2 DEF TypeOK, Codes
<1>6. NewestIsActive(keyring') /\ NewestIsActive(mem')
  BY Zenon, <1>1, <1>2, <1>3 DEF BarrierInv, ActiveKeyInRing, NewestIsActive
<1>7. (keyring'.versioned <=> keyring.versioned) /\ (mem'.versioned <=> keyring.versioned)
  BY Zenon, <1>1, <1>2, <1>4
<1>8. \A v \in DOMAIN mem'.keys : v \in DOMAIN keyring'.keys /\ keyring'.keys[v] = mem'.keys[v]
  BY Zenon, <1>1, <1>2, <1>3 DEF BarrierInv, MemoryKeysAreDurable
<1>9. \A k \in Keys : Present(k) => Opens(mem', store[k])
  BY ZenonT(40), <1>1, <1>2, <1>3 DEF BarrierInv, MemoryOpensEverything, Opens
<1>10. UNCHANGED <<meta, inited, store, open, op, todo, fresh>> /\ req' = None /\ res' \in {"done", "failed"}
       /\ todo' \subseteq AllKeys /\ fresh' \in Nat /\ op' = "idle"
  BY DEF Rekey, TypeOK
<1> QED
  BY <1>3, <1>4, <1>5, <1>6, <1>7, <1>8, <1>9, <1>10, RingsInv

\* Rotated adds a version above every other one; Pruned keeps the active one.
LEMMA RotatedRing ==
  ASSUME Inv, open
  PROVE  /\ IsRing(Rotated) /\ NewestIsActive(Rotated)
         /\ (Rotated.versioned <=> mem.versioned)
         /\ \A v \in DOMAIN mem.keys : v \in DOMAIN Rotated.keys /\ Rotated.keys[v] = mem.keys[v]
<1> USE DEF Inv
<1> DEFINE n == mem.active + 1
           ks == WithKey(mem.keys, n, fresh)
<1>1. IsRing(mem) /\ fresh \in Nat /\ NewestIsActive(mem) /\ mem.active \in Nat /\ IsKeys(mem.keys)
  BY DEF TypeOK, IsRing, BarrierInv, ActiveKeyInRing
<1>2. /\ DOMAIN ks = DOMAIN mem.keys \cup {n}
      /\ \A v \in DOMAIN mem.keys : v # n /\ ks[v] = mem.keys[v]
      /\ ks[n] = fresh
  BY SMTT(30), <1>1 DEF WithKey, NewestIsActive, IsKeys
<1>3. IsKeys(ks)
  BY <1>1, <1>2 DEF IsKeys, WithKey
<1>4. Rotated = [root |-> mem.root, active |-> n, keys |-> ks, versioned |-> mem.versioned]
  BY DEF Rotated
<1>5. IsRing(Rotated)
  BY <1>1, <1>3, <1>4, RingOfFields DEF IsRing
<1>6. Rotated.active = n /\ Rotated.keys = ks /\ (Rotated.versioned <=> mem.versioned)
  BY <1>4
<1>7. NewestIsActive(Rotated)
  BY <1>1, <1>2, <1>6 DEF NewestIsActive, IsKeys
<1> QED
  BY <1>2, <1>5, <1>6, <1>7

\* The ring that is left after a re-encryption is a ring with its active key.
LEMMA PrunedRing ==
  ASSUME Inv, open
  PROVE  /\ IsRing(Pruned) /\ NewestIsActive(Pruned)
         /\ (Pruned.versioned <=> mem.versioned)
         /\ DOMAIN Pruned.keys = {mem.active} /\ Pruned.keys[mem.active] = mem.keys[mem.active]
         /\ mem.active \in DOMAIN mem.keys
<1> USE DEF Inv
<1> DEFINE n == mem.active
           ks == OnlyKey(mem.keys, n)
<1>1. IsRing(mem) /\ NewestIsActive(mem) /\ n \in Nat /\ IsKeys(mem.keys) /\ n \in DOMAIN mem.keys
  BY DEF TypeOK, IsRing, BarrierInv, ActiveKeyInRing, NewestIsActive
<1>2. DOMAIN ks = {n} /\ ks[n] = mem.keys[n] /\ IsKeys(ks)
  BY <1>1 DEF OnlyKey, IsKeys
<1>3. Pruned = [root |-> mem.root, active |-> n, keys |-> ks, versioned |-> mem.versioned]
  BY <1>1 DEF Pruned, IsRing
<1>4. IsRing(Pruned)
  BY <1>1, <1>2, <1>3, RingOfFields DEF IsRing
<1>5. Pruned.active = n /\ Pruned.keys = ks /\ (Pruned.versioned <=> mem.versioned)
  BY <1>3
<1> QED
  BY <1>1, <1>2, <1>4, <1>5 DEF NewestIsActive

\* RotateDataKey preserves the invariant, also when it is rolled back.
LEMMA RotateDataKeyInv ==
  ASSUME NEW re \in BOOLEAN, Inv, RotateDataKey(re)
  PROVE  Inv'
<1> USE DEF Inv
<1>1. open /\ inited /\ op = "idle"
  BY DEF RotateDataKey, BarrierInv, MemoryKeysAreDurable
<1>2. \/ mem' = Rotated /\ keyring' = Rotated
      \/ mem' = mem /\ keyring' = keyring
      \/ mem' = mem /\ keyring' = Rotated
  BY DEF RotateDataKey, PersistOK, PersistErr
<1>3. mem.versioned <=> keyring.versioned
  BY <1>1 DEF BarrierInv, FormatMatches
<1>4. IsRing(keyring') /\ IsRing(mem')
  BY <1>1, <1>2, RotatedRing DEF TypeOK, Codes
<1>5. NewestIsActive(keyring') /\ NewestIsActive(mem')
  BY <1>1, <1>2, RotatedRing DEF BarrierInv, ActiveKeyInRing
<1>6. (keyring'.versioned <=> keyring.versioned) /\ (mem'.versioned <=> keyring.versioned)
  BY <1>1, <1>2, <1>3, RotatedRing
<1>7. \A v \in DOMAIN mem'.keys : v \in DOMAIN keyring'.keys /\ keyring'.keys[v] = mem'.keys[v]
  BY <1>1, <1>2, RotatedRing DEF BarrierInv, MemoryKeysAreDurable
<1>8. \A k \in Keys : Present(k) => Opens(mem', store[k])
  BY <1>1, <1>2, RotatedRing DEF BarrierInv, MemoryOpensEverything, Opens
<1>9. todo' \subseteq AllKeys
  BY DEF RotateDataKey, TypeOK, Listed
<1>10. op' = "idle" \/ (op' = "reencrypt" /\ \A k \in Keys : Present(k) => k \in todo')
  <2>1. CASE op' = op
    BY <1>1, <2>1
  <2>2. CASE op' = IF re THEN "reencrypt" ELSE "idle"
    BY <2>2 DEF RotateDataKey, Listed, Present, Absent, AllKeys
  <2> QED
    BY <2>1, <2>2 DEF RotateDataKey
<1>11. UNCHANGED <<meta, inited, store, open>> /\ req' = None /\ res' \in {"done", "failed"} /\ fresh' \in Nat
  BY DEF RotateDataKey, TypeOK
<1> QED
  BY <1>1, <1>4, <1>5, <1>6, <1>7, <1>8, <1>9, <1>10, <1>11, RingsInv

\* Dropping the old keys after a full pass preserves the invariant.
LEMMA DropOldKeysInv ==
  ASSUME Inv, DropOldKeys
  PROVE  Inv'
<1> USE DEF Inv
<1>1. open /\ inited /\ op = "reencrypt" /\ todo = {}
  BY DEF DropOldKeys, BarrierInv, PassedIsActive, MemoryKeysAreDurable
<1>2. mem' = Pruned /\ (keyring' = keyring \/ keyring' = Pruned)
  BY DEF DropOldKeys, PersistOK, PersistErr
<1>3. mem.versioned <=> keyring.versioned
  BY <1>1 DEF BarrierInv, FormatMatches
<1>4. IsRing(keyring') /\ IsRing(mem')
  BY <1>1, <1>2, PrunedRing DEF TypeOK, Codes
<1>5. NewestIsActive(keyring') /\ NewestIsActive(mem')
  BY <1>1, <1>2, PrunedRing DEF BarrierInv, ActiveKeyInRing
<1>6. (keyring'.versioned <=> keyring.versioned) /\ (mem'.versioned <=> keyring.versioned)
  BY <1>1, <1>2, <1>3, PrunedRing
<1>7. \A v \in DOMAIN mem'.keys : v \in DOMAIN keyring'.keys /\ keyring'.keys[v] = mem'.keys[v]
  BY <1>1, <1>2, PrunedRing DEF BarrierInv, MemoryKeysAreDurable
<1>8. \A k \in Keys : Present(k) => Opens(mem', store[k])
  BY <1>1, <1>2, PrunedRing DEF BarrierInv, MemoryOpensEverything, PassedIsActive, Opens
<1>9. UNCHANGED <<meta, inited, store, open>> /\ req' = None /\ res' \in {"done", "failed"} /\ fresh' \in Nat
      /\ op' = "idle" /\ todo' \subseteq AllKeys
  BY DEF DropOldKeys, TypeOK
<1> QED
  BY <1>1, <1>4, <1>5, <1>6, <1>7, <1>8, <1>9, RingsInv

\* One turn of the loop of reencryptLocked preserves the invariant.
LEMMA ReencryptInv ==
  ASSUME NEW k \in AllKeys, Inv, Reencrypt(k)
  PROVE  Inv'
<1> USE DEF Inv
<1> DEFINE e == Seal1(mem, store[k].val)
<1>1. open /\ inited /\ op = "reencrypt" /\ k \in todo /\ UNCHANGED <<meta, inited, keyring, open, mem, fresh>>
  BY DEF Reencrypt, BarrierInv, PassedIsActive, MemoryKeysAreDurable
<1>2. mem.active \in Nat /\ mem.active \in DOMAIN mem.keys /\ mem.keys[mem.active] \in Nat
  BY Zenon, <1>1 DEF TypeOK, BarrierInv, ActiveKeyInRing, NewestIsActive, IsRing, IsKeys
<1>3. store[k] \in Entries /\ e \in Entries /\ e.val = store[k].val /\ e.ver = mem.active /\ Opens(mem, e)
  BY Zenon, <1>2 DEF TypeOK, Entries, Seal1, Opens
<1>4. store' = store \/ store' = [store EXCEPT ![k] = e]
  BY DEF Reencrypt
<1>5. \A j \in AllKeys : store'[j] = store[j] \/ (j = k /\ store'[j] = e)
  BY Zenon, <1>4 DEF TypeOK, Codes
<1>6. \A j \in Keys : /\ Present(j)' => Present(j)
                      /\ Present(j)' => Opens(mem, store'[j])
  BY Zenon, <1>1, <1>3, <1>5 DEF Present, BarrierInv, MemoryOpensEverything, AllKeys
<1>7. TypeOK'
  BY Zenon, <1>1, <1>3, <1>4 DEF Reencrypt, TypeOK, Codes
<1>8. MemoryOpensEverything' /\ KeyringOpensEverything'
  BY <1>1, <1>6 DEF MemoryOpensEverything, KeyringOpensEverything, BarrierInv, MemoryKeysAreDurable,
                    Opens, Present
<1>9. (FormatMatches /\ ActiveKeyInRing /\ MemoryKeysAreDurable)'
  BY <1>1 DEF BarrierInv, FormatMatches, ActiveKeyInRing, NewestIsActive, MemoryKeysAreDurable
<1>10. op' \in {"idle", "reencrypt"}
  BY <1>1 DEF Reencrypt
<1>11. InitPhase'
  BY <1>10 DEF InitPhase
<1>12. PassedIsActive'
  <2>1. CASE op' = "idle"
    BY <2>1 DEF PassedIsActive
  <2>2. CASE op' = "reencrypt"
    <3>1. todo' = todo \ {k} /\ store'[k].ver = mem.active
      BY <1>1, <1>3, <2>2 DEF Reencrypt, TypeOK, Codes
    <3>2. \A j \in Keys \ todo' : Present(j)' => store'[j].ver = mem.active
      BY <1>1, <1>5, <1>6, <3>1 DEF BarrierInv, PassedIsActive, Present, AllKeys
    <3> QED
      BY Zenon, <1>1, <3>2 DEF PassedIsActive
  <2> QED
    BY <1>10, <2>1, <2>2
<1> QED
  BY Zenon, <1>7, <1>8, <1>9, <1>11, <1>12 DEF BarrierInv

-----------------------------------------------------------------------------
\* The invariant is inductive.
LEMMA NextInv == Inv /\ [Next]_vars => Inv'
<1> SUFFICES ASSUME Inv, [Next]_vars PROVE Inv'
  BY Zenon
<1>1. CASE UNCHANGED vars
  BY <1>1 DEF vars, Inv, TypeOK, BarrierInv, KeyringOpensEverything, FormatMatches, ActiveKeyInRing,
     NewestIsActive, MemoryKeysAreDurable, MemoryOpensEverything, PassedIsActive, InitPhase, Present, Opens
<1>2. ASSUME NEW r \in RootKeys, Initialize(r) \/ Unseal(r) \/ Rekey(r) PROVE Inv'
  BY <1>2, InitializeInv, UnsealInv, RekeyInv
<1>3. CASE InitializeKeyring
  BY <1>3, InitializeKeyringInv
<1>4. CASE Seal
  BY <1>4, SealInv
<1>5. ASSUME NEW k \in Keys, Get(k) \/ Delete(k) \/ \E v \in Values : Put(k, v) PROVE Inv'
  BY <1>5, RequestInv
<1>6. CASE Refuse
  BY <1>6, ReadOnlyInv DEF Refuse, Codes
<1>7. ASSUME NEW k \in Foreign, PutForeign(k) PROVE Inv'
  BY <1>7, PutForeignInv
<1>8. ASSUME NEW re \in BOOLEAN, RotateDataKey(re) PROVE Inv'
  BY <1>8, RotateDataKeyInv
<1>9. CASE RotationStep
  BY <1>9, ReencryptInv, DropOldKeysInv DEF RotationStep
<1>10. CASE Crash
  BY <1>10, CrashInv
<1> QED
  BY <1>1, <1>2, <1>3, <1>4, <1>5, <1>6, <1>7, <1>8, <1>9, <1>10 DEF Next

\* The inductive invariant holds of every behaviour of the barrier, for every
\* set of keys, values and root keys and any number of rotations.
THEOREM BarrierInvariant == Spec => []BarrierInv
<1>1. Spec => []Inv
  BY InitInv, NextInv, PTL DEF Spec
<1>2. Inv => BarrierInv
  BY DEF Inv
<1> QED
  BY <1>1, <1>2, PTL

\* No crash, storage error or interrupted rotation makes an entry unreadable:
\* the keyring on disk always opens everything on disk.
THEOREM NoDataLoss == Spec => []KeyringOpensEverything
<1>1. BarrierInv => KeyringOpensEverything
  BY DEF BarrierInv
<1> QED
  BY <1>1, BarrierInvariant, PTL

\* Every variable stays in its type.
THEOREM TypeCorrect == Spec => []TypeOK
<1>1. Spec => []Inv
  BY InitInv, NextInv, PTL DEF Spec
<1>2. Inv => TypeOK
  BY DEF Inv
<1> QED
  BY <1>1, <1>2, PTL

-----------------------------------------------------------------------------
(* Refinement: the barrier implements SealedKV.                            *)

\* In a reachable state nothing is lost: the abstract map is what was stored.
LEMMA AbsIsStored ==
  /\ Inv => AbsKV = [k \in Keys |-> store[k].val]
  /\ Inv' => AbsKV' = [k \in Keys |-> store'[k].val]
BY DEF Inv, BarrierInv, KeyringOpensEverything, AbsKV, Present

\* Initial states of the barrier are initial states of the map.
LEMMA InitRefines == Init => KV!Init
<1> SUFFICES ASSUME Init PROVE KV!Init
  OBVIOUS
<1>1. AbsKV = [k \in Keys |-> None]
  BY DEF Init, AbsKV, Present, Absent, AllKeys
<1> QED
  BY <1>1 DEF Init, KV!Init, AbsRes

\* A step that keeps every stored value maps to Maintain.
LEMMA MaintainRefines ==
  ASSUME Inv, Inv', \A k \in Keys : store'[k].val = store[k].val,
         \/ req' = None /\ res' \in {"done", "failed", "unreadable"}
         \/ UNCHANGED <<req, res>>
  PROVE  KV!Next
<1>1. AbsKV' = AbsKV
  <2>1. AbsKV' = [k \in Keys |-> store'[k].val]
    BY AbsIsStored
  <2> QED
    BY <2>1, AbsIsStored
<1>2. \/ req' = None /\ AbsRes' \in {"done", "failed"}
      \/ UNCHANGED req /\ AbsRes' = AbsRes
  BY DEF AbsRes
<1>3. open' \in BOOLEAN
  BY DEF Inv, TypeOK
<1> QED
  BY <1>1, <1>2, <1>3 DEF KV!Next, KV!Maintain

\* Put and Delete are writes of the map.
LEMMA WriteRefines ==
  ASSUME Inv, Inv', open, open' = open, NEW k \in Keys, req' = k, NEW v \in Values \cup {None}, NEW e, e.val = v,
         \/ store' = [store EXCEPT ![k] = e] /\ res' \in {"ok", "io"}
         \/ store' = store /\ res' = "io"
  PROVE  KV!Next
<1>1. AbsKV = [j \in Keys |-> store[j].val] /\ AbsKV' = [j \in Keys |-> store'[j].val]
  BY AbsIsStored
<1>2. AbsRes' = res'
  BY DEF AbsRes
<1>3. CASE store' = [store EXCEPT ![k] = e] /\ res' \in {"ok", "io"}
  <2>1. \A j \in Keys : store'[j].val = IF j = k THEN v ELSE store[j].val
    BY <1>3 DEF Inv, TypeOK, AllKeys
  <2>2. AbsKV' = [AbsKV EXCEPT ![k] = v]
    BY <1>1, <2>1
  <2> QED
    BY ZenonT(40), <1>2, <1>3, <2>2 DEF KV!Next, KV!Write
<1>4. CASE store' = store /\ res' = "io"
  BY <1>1, <1>2, <1>4 DEF KV!Next, KV!Write
<1> QED
  BY <1>3, <1>4

\* Every request of the barrier is a request of the map.
LEMMA RequestRefines ==
  ASSUME Inv, Inv', NEW k \in Keys, Get(k) \/ Delete(k) \/ \E v \in Values : Put(k, v)
  PROVE  KV!Next
<1>1. CASE Get(k)
  <2>1. AbsKV = [j \in Keys |-> store[j].val] /\ AbsKV' = AbsKV
    BY ZenonT(40), <1>1, AbsIsStored DEF Get, AbsKV, Present, Opens
  <2>2. store[k].val # None => Opens(mem, store[k])
    BY ZenonT(40), <1>1 DEF Get, Inv, BarrierInv, MemoryOpensEverything, Present
  <2>3. res' \in {store[k].val, "io"}
    BY Zenon, <1>1, <2>2 DEF Get
  <2>4. store[k].val \in Values \cup {None}
    BY DEF Inv, TypeOK, AllKeys, Entries
  <2>5. AbsRes' \in {AbsKV[k], "io"}
    BY <2>1, <2>3, <2>4, ValuesAssumption DEF AbsRes, Codes
  <2> QED
    BY <1>1, <2>1, <2>5 DEF Get, KV!Next, KV!Read
<1>2. CASE Delete(k)
  <2>1. Absent.val = None
    BY DEF Absent
  <2> QED
    BY <1>2, <2>1, WriteRefines DEF Delete
<1>3. CASE \E v \in Values : Put(k, v)
  <2> PICK v \in Values : Put(k, v)
    BY <1>3
  <2>1. Seal1(mem, v).val = v
    BY DEF Seal1
  <2> QED
    BY <2>1, WriteRefines DEF Put
<1> QED
  BY <1>1, <1>2, <1>3

\* Every step of the barrier is a step of the map, or a stutter.
LEMMA NextRefines == Inv /\ Inv' /\ [Next]_vars => [KV!Next]_KV!vars
<1> SUFFICES ASSUME Inv, Inv', [Next]_vars PROVE [KV!Next]_KV!vars
  OBVIOUS
<1>1. CASE UNCHANGED vars
  BY <1>1 DEF vars, KV!vars, AbsKV, AbsRes, Present, Opens
<1>2. ASSUME NEW r \in RootKeys, Initialize(r) \/ Unseal(r) \/ Rekey(r) PROVE KV!Next
  BY <1>2, MaintainRefines DEF Initialize, Unseal, Rekey
<1>3. CASE InitializeKeyring
  BY <1>3, MaintainRefines DEF InitializeKeyring
<1>4. CASE Seal
  BY <1>4, MaintainRefines DEF Seal
<1>5. ASSUME NEW k \in Keys, Get(k) \/ Delete(k) \/ \E v \in Values : Put(k, v) PROVE KV!Next
  BY <1>5, RequestRefines
<1>6. CASE Refuse
  <2>1. AbsKV' = AbsKV /\ req' = None /\ AbsRes' = "sealed" /\ open' = open /\ ~open
    BY <1>6 DEF Refuse, AbsKV, AbsRes, Present, Opens
  <2> QED
    BY <2>1 DEF KV!Next, KV!Refuse
<1>7. ASSUME NEW k \in Foreign, PutForeign(k) PROVE KV!Next
  <2>1. \A j \in Keys : store'[j].val = store[j].val
    BY <1>7, KeysAssumption DEF PutForeign, Inv, TypeOK, AllKeys
  <2> QED
    BY <1>7, <2>1, MaintainRefines DEF PutForeign
<1>8. ASSUME NEW re \in BOOLEAN, RotateDataKey(re) PROVE KV!Next
  BY <1>8, MaintainRefines DEF RotateDataKey
<1>9. ASSUME NEW k \in AllKeys, Reencrypt(k) PROVE KV!Next
  <2>1. store' = store \/ store' = [store EXCEPT ![k] = Seal1(mem, store[k].val)]
    BY <1>9 DEF Reencrypt
  <2>2. \A j \in Keys : store'[j].val = store[j].val
    BY <2>1 DEF Inv, TypeOK, AllKeys, Seal1
  <2> QED
    BY <1>9, <2>2, MaintainRefines DEF Reencrypt
<1>10. CASE DropOldKeys
  BY <1>10, MaintainRefines DEF DropOldKeys
<1>11. CASE Crash
  BY <1>11, MaintainRefines DEF Crash
<1> QED
  BY <1>1, <1>2, <1>3, <1>4, <1>5, <1>6, <1>7, <1>8, <1>9, <1>10, <1>11 DEF Next, RotationStep

\* Once a keyring exists no step removes it or rewrites the format record.
THEOREM FormatNeverChanges == Spec => FormatFixed
<1>1. Inv /\ [Next]_vars => [inited => inited' /\ meta' = meta]_vars
  BY Zenon DEF Inv, BarrierInv, InitPhase, Next, vars, Initialize, InitializeKeyring, Unseal, Seal, Get, Put,
     Delete, Refuse, PutForeign, Rekey, RotateDataKey, RotationStep, Reencrypt, DropOldKeys, Crash
<1>2. Spec => []Inv
  BY InitInv, NextInv, PTL DEF Spec
<1> QED
  BY <1>1, <1>2, PTL DEF Spec, FormatFixed

\* The barrier is a map behind a lock: for every instance, each step of it is
\* a read, a write or a refusal of that map, or leaves the map alone.
THEOREM BarrierRefinesKV == Spec => ImplementsSealedKV
<1>1. Spec => []Inv
  BY InitInv, NextInv, PTL DEF Spec
<1> QED
  BY <1>1, InitRefines, NextRefines, PTL DEF Spec, ImplementsSealedKV, KV!Spec
=============================================================================
