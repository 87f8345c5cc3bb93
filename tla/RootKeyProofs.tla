---------------------------- MODULE RootKeyProofs ----------------------------
(***************************************************************************)
(* Proofs about RootKey for any set of nodes, any number of concurrent     *)
(* rotations, any deployment and any number of faults.                     *)
(***************************************************************************)
EXTENDS RootKey, TLAPS

\* The inductive part of RootKeyInv: KeyNotLost follows from the rest.
Windows == intact => WindowsAreTheLeaders
Somewhere == intact /\ keyRoot # 0 => KeyIsSomewhere
Core == TypeOK /\ Phases /\ Windows /\ Somewhere

Places == {"down", "await", "publish", "barrier", "token", "unseal", "retry", "sealed", "shards", "open"}

USE DEF SealType, Clustered, Members, IsLeader, HasFile, Replicates, Running, Initializing

\* Outside the windows the key is where it will be looked for.
LEMMA CoreGivesInv == Core => RootKeyInv
<1> SUFFICES ASSUME Core PROVE KeyNotLost
  BY DEF Core, RootKeyInv, Windows, Somewhere
<1> SUFFICES ASSUME keyRoot # 0, intact, \A n \in Nodes : ~Exposed(n)
             PROVE  Recoverable /\ rootToken
  BY DEF KeyNotLost
<1>1. KeyIsSomewhere /\ \A q \in Running : rot[q].node \in Nodes
  BY DEF Core, Somewhere, Phases, TypeOK
<1>2. \A n \in Nodes : pc[n] # "token"
  BY Zenon DEF Exposed
<1>3. \A q \in Running : rot[q].pc # IF HasFile /\ ~Replicates THEN "rekey" ELSE "publish"
  BY <1>1 DEF Exposed
<1> QED
  BY <1>1, <1>2, <1>3 DEF KeyIsSomewhere, Recoverable

\* What is known of the deployment and of the types.
LEMMA TypeFacts ==
  ASSUME TypeOK
  PROVE  /\ dep \in Deployments /\ dep.nodes \subseteq Nodes /\ Nodes # {}
         /\ HasFile /\ ~Replicates => ~Clustered
         /\ ~Clustered => \A m, n \in Members : m = n
         /\ drawn \in Nat /\ MaxRoot \in Nat
         /\ leader \in Nodes
         /\ pc \in [Nodes -> Places]
         /\ file \in [Nodes -> 0..drawn] /\ hold \in [Nodes -> 0..drawn]
BY DeploymentsAssumption DEF TypeOK, Places

\* The state of a request that is not running.
LEMMA IdleFacts == Nodes # {} => Idle.pc = "idle" /\ Idle.node \in Nodes /\ Idle.root = 0 
                                 /\ Idle = [pc |-> "idle", node |-> Idle.node, root |-> 0]
BY DEF Idle

\* There is at most one leader among the members.
LEMMA OneLeader ==
  ASSUME TypeOK, NEW m \in Members, NEW n \in Members, IsLeader(m), IsLeader(n)
  PROVE  m = n
BY TypeFacts

\* The deployments as they start.
LEMMA InitCore == Init => Core
<1> SUFFICES ASSUME Init PROVE Core
  OBVIOUS
<1> USE DEF Init
<1>1. Nodes # {} /\ dep \in Deployments /\ leader \in Members /\ MaxRoot \in Nat /\ MaxFaults \in Nat
  BY DeploymentsAssumption
<1>2. Idle \in [pc : {"idle", "rekey", "publish"}, node : Nodes, root : 0..0]
  BY <1>1, IdleFacts
<1>3. TypeOK
  <2>1. rootToken \in BOOLEAN /\ intact \in BOOLEAN
    BY Zenon
  <2>2. rot \in [Requests -> [pc : {"idle", "rekey", "publish"}, node : Nodes, root : 0..drawn]]
    BY <1>2
  <2>3. file \in [Nodes -> 0..drawn] /\ hold \in [Nodes -> 0..drawn] /\ pc \in [Nodes -> Places]
    BY DEF Places
  <2>4. {keyRoot, sealMeta} \cup shown \subseteq 0..drawn /\ drawn \in 0..MaxRoot /\ faults \in 0..MaxFaults
    BY <1>1
  <2> QED
    BY <1>1, <2>1, <2>2, <2>3, <2>4 DEF TypeOK, Places
<1>4. Phases /\ Windows /\ Somewhere
  BY <1>1, IdleFacts DEF Phases, Windows, WindowsAreTheLeaders, Somewhere, Opening
<1> QED
  BY <1>3, <1>4 DEF Core

-----------------------------------------------------------------------------
(* One lemma per action.                                                   *)

\* A step that only moves a node to a place outside the windows.
LEMMA MoveCore ==
  ASSUME Core, UNCHANGED dep, NEW n \in Members,
         NEW to \in {"down", "await", "unseal", "retry", "sealed", "shards", "open"},
         Goto(n, to),
         intact' \in BOOLEAN, intact' => intact /\ pc[n] # "token",
         to = "down" => \A q \in Running : rot[q].node # n,
         to \in Opening => keyRoot # 0,
         \A q \in Running : rot[q].node = n => to \in {"open", "sealed", "shards"},
         UNCHANGED <<keyRoot, sealMeta, rootToken, leader, file, shown, hold, rot, drawn>>,
         faults' \in 0..MaxFaults
  PROVE  Core'
<1> USE DEF Core
<1>1. /\ n \in Nodes /\ pc' \in [Nodes -> Places] /\ pc'[n] = to
      /\ \A m \in Nodes : m # n => pc'[m] = pc[m]
  BY TypeFacts DEF Goto, Places
<1>2. TypeOK'
  BY <1>1 DEF TypeOK, Places
<1>3. Phases'
  BY <1>1 DEF Phases, TypeOK, Opening
<1>4. Windows'
  BY <1>1 DEF Windows, WindowsAreTheLeaders, TypeOK
<1>5. Somewhere'
  BY <1>1 DEF Somewhere, KeyIsSomewhere, TypeOK
<1> QED
  BY <1>2, <1>3, <1>4, <1>5

\* The steps of that kind.
LEMMA QuietCore ==
  ASSUME Core, UNCHANGED dep, NEW n \in Members,
         \/ AwaitInit(n) \/ StartUnseal(n) \/ SealUnavailable(n) \/ AutoUnseal(n)
         \/ UnsealShards(n) \/ Seal(n)
  PROVE  Core'
<1> USE DEF Core
<1>1. n \in Nodes /\ faults \in 0..MaxFaults /\ MaxFaults \in Nat /\ intact \in BOOLEAN
  BY TypeFacts, DeploymentsAssumption DEF TypeOK
<1>2. /\ UNCHANGED <<keyRoot, sealMeta, rootToken, leader, file, shown, hold, rot, drawn, intact>>
      /\ pc[n] # "token"
  BY DEF AwaitInit, StartUnseal, SealUnavailable, AutoUnseal, UnsealShards, Seal
<1>3. faults' \in 0..MaxFaults
  BY <1>1 DEF AwaitInit, StartUnseal, SealUnavailable, AutoUnseal, UnsealShards, Seal, Fault
<1>4. \A q \in Running : rot[q].node = n => pc[n] \in {"open", "sealed", "shards"}
  BY Zenon DEF Phases
<1>5. ASSUME NEW to \in {"down", "await", "unseal", "retry", "sealed", "shards", "open"}, Goto(n, to),
             to \notin {"open", "sealed", "shards"} => pc[n] \notin {"open", "sealed", "shards"},
             to \in Opening => pc[n] \in Opening
      PROVE  Core'
  BY <1>1, <1>2, <1>3, <1>4, <1>5, MoveCore DEF Phases
<1>6. CASE AwaitInit(n)
  BY <1>5, <1>6 DEF AwaitInit, Opening
<1>7. CASE StartUnseal(n)
  BY <1>5, <1>7 DEF StartUnseal, Opening
<1>8. CASE SealUnavailable(n)
  BY <1>5, <1>8 DEF SealUnavailable, Opening
<1>9. CASE AutoUnseal(n) \/ UnsealShards(n) \/ Seal(n)
  BY <1>5, <1>9 DEF Opening, AutoUnseal, UnsealShards, Seal
<1> QED
  BY <1>6, <1>7, <1>8, <1>9

\* seal.Init draws a key that is not 0 and overwrites the file of its node.
LEMMA SealInitFacts ==
  ASSUME TypeOK, NEW n \in Nodes, SealInit(n)
  PROVE  /\ drawn' = drawn + 1 /\ drawn + 1 # 0 /\ drawn + 1 \in 0..drawn' /\ drawn' \in 0..MaxRoot
         /\ 0..drawn \subseteq 0..drawn'
         /\ file' \in [Nodes -> 0..drawn']
         /\ HasFile => file'[n] = drawn + 1
         /\ \A m \in Nodes : m # n => file'[m] = file[m]
<1>1. drawn \in Nat /\ MaxRoot \in Nat /\ file \in [Nodes -> 0..drawn] /\ drawn < MaxRoot /\ drawn' = drawn + 1
  BY TypeFacts DEF SealInit
<1>2. 0..drawn \subseteq 0..drawn' /\ drawn + 1 \in 0..drawn' /\ drawn' \in 0..MaxRoot /\ drawn + 1 # 0
  BY <1>1
<1>3. file' = IF HasFile THEN [file EXCEPT ![n] = drawn + 1] ELSE file
  BY DEF SealInit
<1> QED
  BY <1>1, <1>2, <1>3

\* The types of the variables that more drawn keys leave alone.
LEMMA MoreKeys ==
  ASSUME TypeOK, NEW d \in Nat, 0..drawn \subseteq 0..d
  PROVE  /\ {keyRoot, sealMeta} \cup shown \subseteq 0..d
         /\ hold \in [Nodes -> 0..d]
         /\ rot \in [Requests -> [pc : {"idle", "rekey", "publish"}, node : Nodes, root : 0..d]]
<1>1. {keyRoot, sealMeta} \cup shown \subseteq 0..d /\ hold \in [Nodes -> 0..d]
  BY Zenon DEF TypeOK
<1>2. ASSUME NEW q \in Requests
      PROVE  rot[q] \in [pc : {"idle", "rekey", "publish"}, node : Nodes, root : 0..d]
  BY DEF TypeOK
<1>3. rot \in [Requests -> [pc : {"idle", "rekey", "publish"}, node : Nodes, root : 0..d]]
  BY <1>2 DEF TypeOK
<1> QED
  BY <1>1, <1>3

\* Start draws the first root key.
LEMMA StartInitCore ==
  ASSUME Core, UNCHANGED dep, NEW n \in Members, StartInit(n)
  PROVE  Core'
<1> USE DEF Core
<1>1. /\ pc[n] \in {"down", "await"} /\ keyRoot = 0 /\ IsLeader(n) /\ SealInit(n)
      /\ hold' = [hold EXCEPT ![n] = drawn + 1]
      /\ UNCHANGED <<keyRoot, sealMeta, rootToken, leader, shown, rot, faults, intact>>
  BY DEF StartInit
<1>2. n \in Nodes /\ pc' \in [Nodes -> Places] /\ pc'[n] = "publish" /\ \A m \in Nodes : m # n => pc'[m] = pc[m]
  BY TypeFacts DEF StartInit, Goto, Places
<1>3. /\ drawn' = drawn + 1 /\ drawn + 1 # 0 /\ drawn + 1 \in 0..drawn' /\ drawn' \in 0..MaxRoot
      /\ 0..drawn \subseteq 0..drawn' /\ file' \in [Nodes -> 0..drawn']
      /\ HasFile => file'[n] = drawn + 1
      /\ \A m \in Nodes : m # n => file'[m] = file[m]
  BY <1>1, <1>2, SealInitFacts
<1>4. /\ hold' \in [Nodes -> 0..drawn'] /\ hold'[n] = drawn + 1
      /\ \A m \in Nodes : m # n => hold'[m] = hold[m]
  BY <1>1, <1>2, <1>3, TypeFacts
<1>5. drawn' \in Nat
  BY <1>3, TypeFacts
<1>6. TypeOK'
  BY <1>1, <1>2, <1>3, <1>4, <1>5, MoreKeys DEF TypeOK, Places
<1>7. \A q \in Running : rot[q].node # n /\ rot[q].node \in Nodes
  BY <1>1, <1>2 DEF Phases, TypeOK
<1>8. Phases'
  BY <1>1, <1>2, <1>3, <1>4, <1>7 DEF Phases, Opening
<1>9. Windows'
  BY <1>1, <1>2, <1>3, <1>4, <1>7 DEF Windows, WindowsAreTheLeaders
<1>10. Somewhere'
  BY <1>1 DEF Somewhere
<1> QED
  BY <1>6, <1>8, <1>9, <1>10

\* The leader publishes the first key before it writes the keyring.
LEMMA StartPublishCore ==
  ASSUME Core, UNCHANGED dep, NEW n \in Members, StartPublish(n)
  PROVE  Core'
<1> USE DEF Core
<1>1. /\ pc[n] = "publish" /\ sealMeta' = IF Replicates /\ IsLeader(n) THEN file[n] ELSE sealMeta
      /\ UNCHANGED <<keyRoot, rootToken, leader, file, shown, hold, rot, drawn, faults, intact>>
  BY DEF StartPublish
<1>2. n \in Nodes /\ pc' \in [Nodes -> Places] /\ pc'[n] = "barrier" /\ \A m \in Nodes : m # n => pc'[m] = pc[m]
  BY TypeFacts DEF StartPublish, Goto, Places
<1>3. sealMeta' \in 0..drawn
  BY <1>1, <1>2 DEF TypeOK
<1>4. TypeOK'
  BY <1>1, <1>2, <1>3 DEF TypeOK, Places
<1>5. Phases'
  BY <1>1, <1>2 DEF Phases, Opening, TypeOK
<1>6. Windows'
  <2> SUFFICES ASSUME intact PROVE WindowsAreTheLeaders'
    BY <1>1 DEF Windows
  <2>1. WindowsAreTheLeaders
    BY DEF Windows
  <2>2. Replicates => sealMeta' = hold[n] /\ \A m \in Nodes : pc[m] = "barrier" => m = n
    <3> SUFFICES ASSUME Replicates PROVE sealMeta' = hold[n] /\ \A m \in Nodes : pc[m] = "barrier" => m = n
      OBVIOUS
    <3>1. IsLeader(n) /\ file[n] = hold[n]
      BY <1>1, <1>2, <2>1 DEF WindowsAreTheLeaders, Phases
    <3>2. \A m \in Nodes : pc[m] = "barrier" => IsLeader(m)
      BY <2>1 DEF WindowsAreTheLeaders
    <3> QED
      BY <1>1, <3>1, <3>2
  <2> QED
    BY <1>1, <1>2, <2>1, <2>2 DEF WindowsAreTheLeaders, TypeOK
<1>7. Somewhere'
  <2> SUFFICES ASSUME intact, keyRoot # 0 PROVE KeyIsSomewhere'
    BY <1>1 DEF Somewhere
  <2>1. ~HasFile
    BY <1>1, <1>2 DEF Windows, WindowsAreTheLeaders
  <2>2. KeyIsSomewhere
    BY DEF Somewhere
  <2> QED
    BY <1>1, <1>2, <2>1, <2>2 DEF KeyIsSomewhere
<1> QED
  BY <1>4, <1>5, <1>6, <1>7

\* The first keyring is wrapped with the key Start has in hand.
LEMMA StartBarrierCore ==
  ASSUME Core, UNCHANGED dep, NEW n \in Members, StartBarrier(n)
  PROVE  Core'
<1> USE DEF Core
<1>1. /\ pc[n] = "barrier"
      /\ UNCHANGED <<sealMeta, rootToken, leader, file, shown, hold, rot, drawn, faults, intact>>
  BY DEF StartBarrier
<1>2. CASE keyRoot = 0 /\ IsLeader(n)
  <2>1. /\ n \in Nodes /\ pc' \in [Nodes -> Places] /\ pc'[n] = "token" /\ keyRoot' = hold[n]
        /\ \A m \in Nodes : m # n => pc'[m] = pc[m]
    BY <1>2, TypeFacts DEF StartBarrier, Goto, Places
  <2>2. hold[n] \in 0..drawn /\ hold[n] # 0 /\ (HasFile => file[n] = hold[n])
    BY <1>1, <2>1, TypeFacts DEF Phases
  <2>3. TypeOK'
    BY <1>1, <2>1, <2>2 DEF TypeOK, Places
  <2>4. Phases'
    BY <1>1, <2>1 DEF Phases, TypeOK
  <2>5. ASSUME intact PROVE WindowsAreTheLeaders'
    <3>1. WindowsAreTheLeaders
      BY <2>5 DEF Windows
    <3>2. \A m \in Nodes : pc[m] = "token" => m = n
      BY <1>2, <2>1, <3>1, OneLeader DEF WindowsAreTheLeaders, Phases
    <3>3. HasFile => \A m \in Initializing : m = n
      BY <1>2, <2>1, <3>1, OneLeader DEF WindowsAreTheLeaders, Phases
    <3>4. \A q \in Running : rot[q].node # n /\ rot[q].node \in Members
      BY <1>1 DEF Phases
    <3>5. \A q \in Running : rot[q].pc # "publish"
      BY <1>2, <3>1, <3>4, OneLeader DEF WindowsAreTheLeaders
    <3> QED
      BY <1>1, <1>2, <2>1, <2>2, <3>1, <3>2, <3>3, <3>5 DEF WindowsAreTheLeaders
  <2>6. ASSUME intact PROVE KeyIsSomewhere'
    <3>1. Replicates => sealMeta = hold[n]
      BY <1>1, <2>1, <2>6 DEF Windows, WindowsAreTheLeaders
    <3>2. HasFile /\ ~Replicates => \A m \in Members : m = n
      BY TypeFacts
    <3> QED
      BY <1>1, <2>1, <2>2, <3>1, <3>2 DEF KeyIsSomewhere
  <2> QED
    BY <1>1, <2>3, <2>4, <2>5, <2>6 DEF Windows, Somewhere
<1>3. CASE ~(keyRoot = 0 /\ IsLeader(n))
  <2>1. Goto(n, "down") /\ keyRoot' = keyRoot
    BY <1>3 DEF StartBarrier
  <2>2. \A q \in Running : rot[q].node # n
    BY <1>1 DEF Phases
  <2>3. intact \in BOOLEAN /\ faults' \in 0..MaxFaults
    BY <1>1 DEF TypeOK
  <2> QED
    BY <1>1, <2>1, <2>2, <2>3, MoveCore DEF Opening
<1> QED
  BY <1>2, <1>3

\* The root token is stored and, with Shamir, the shares are handed out.
LEMMA StartTokenCore ==
  ASSUME Core, UNCHANGED dep, NEW n \in Members, StartToken(n)
  PROVE  Core'
<1> USE DEF Core
<1>1. /\ pc[n] = "token"
      /\ UNCHANGED <<keyRoot, sealMeta, leader, file, hold, rot, drawn, faults, intact>>
  BY DEF StartToken
<1>2. n \in Nodes /\ \A q \in Running : rot[q].node # n /\ rot[q].node \in Nodes
  BY <1>1, TypeFacts DEF Phases, TypeOK
<1>3. CASE IsLeader(n)
  <2>1. /\ pc' \in [Nodes -> Places] /\ pc'[n] = "open" /\ rootToken' = TRUE
        /\ shown' = IF SealType = "shamir" THEN shown \cup {hold[n]} ELSE shown
        /\ \A m \in Nodes : m # n => pc'[m] = pc[m]
    BY <1>2, <1>3, TypeFacts DEF StartToken, Goto, Places
  <2>2. shown' \subseteq 0..drawn
    BY <1>2, <2>1, TypeFacts DEF TypeOK
  <2>3. TypeOK'
    BY <1>1, <2>1, <2>2 DEF TypeOK, Places
  <2>4. Phases'
    BY <1>1, <1>2, <2>1 DEF Phases, Opening
  <2>5. Windows'
    BY <1>1, <1>2, <2>1 DEF Windows, WindowsAreTheLeaders
  <2>6. ASSUME intact, keyRoot # 0 PROVE KeyIsSomewhere'
    <3>1. KeyIsSomewhere /\ hold[n] = keyRoot
      BY <1>1, <1>2, <2>6 DEF Somewhere, Windows, WindowsAreTheLeaders
    <3>2. HasFile \/ SealType = "shamir"
      BY DeploymentsAssumption DEF TypeOK
    <3> QED
      BY <1>1, <2>1, <3>1, <3>2 DEF KeyIsSomewhere
  <2> QED
    BY <1>1, <2>3, <2>4, <2>5, <2>6 DEF Somewhere
<1>4. CASE ~IsLeader(n)
  <2>1. ~intact
    BY <1>1, <1>2, <1>4 DEF Windows, WindowsAreTheLeaders
  <2>2. Goto(n, "down") /\ UNCHANGED <<rootToken, shown>>
    BY <1>4 DEF StartToken
  <2>3. intact' \in BOOLEAN /\ faults' \in 0..MaxFaults /\ ~intact'
    BY <1>1, <2>1 DEF TypeOK
  <2> QED
    BY <1>1, <1>2, <2>2, <2>3, MoveCore DEF Opening
<1> QED
  BY <1>3, <1>4

\* syncSealMeta copies a key; while nothing is lost there always is one to copy.
LEMMA SyncCore ==
  ASSUME Core, UNCHANGED dep, NEW n \in Members, Sync(n)
  PROVE  Core'
<1> USE DEF Core
<1>1. /\ pc[n] \in {"down", "await"} /\ keyRoot # 0
      /\ UNCHANGED <<keyRoot, rootToken, leader, shown, hold, rot, drawn, faults, intact>>
  BY DEF Sync
<1>2. /\ n \in Nodes /\ pc' \in [Nodes -> Places] /\ pc'[n] \in {"unseal", "shards"}
      /\ \A m \in Nodes : m # n => pc'[m] = pc[m]
  BY TypeFacts DEF Sync, Goto, Places
<1>3. /\ file' = file \/ (Replicates /\ sealMeta # 0 /\ file' = [file EXCEPT ![n] = sealMeta])
      /\ sealMeta' = sealMeta \/ (Replicates /\ sealMeta = 0 /\ IsLeader(n) /\ sealMeta' = file[n])
  BY DEF Sync
<1>4. file' \in [Nodes -> 0..drawn] /\ \A m \in Nodes : m # n => file'[m] = file[m]
  BY <1>2, <1>3 DEF TypeOK
<1>5. sealMeta' \in 0..drawn
  BY <1>2, <1>3 DEF TypeOK
<1>6. TypeOK'
  BY <1>1, <1>2, <1>4, <1>5 DEF TypeOK, Places
<1>7. \A q \in Running : rot[q].node # n /\ rot[q].node \in Nodes /\ rot[q].node \in Members
  BY <1>1, <1>2 DEF Phases, TypeOK
<1>8. Phases'
  BY <1>1, <1>2, <1>4, <1>7 DEF Phases
<1>9. intact => sealMeta' = sealMeta
  <2> SUFFICES ASSUME intact, Replicates, IsLeader(n), sealMeta = 0 PROVE FALSE
    BY <1>3
  <2>1. PICK q \in Running : rot[q].pc = "publish"
    BY <1>1 DEF Somewhere, KeyIsSomewhere
  <2>2. IsLeader(rot[q].node)
    BY Zenon, <2>1 DEF Windows, WindowsAreTheLeaders
  <2> QED
    BY <1>7, <2>1, <2>2
<1>10. Windows'
  BY <1>1, <1>2, <1>4, <1>7, <1>9 DEF Windows, WindowsAreTheLeaders
<1>11. ~Replicates => file' = file
  BY <1>3
<1>12. Somewhere'
  BY <1>1, <1>2, <1>9, <1>11 DEF Somewhere, KeyIsSomewhere
<1> QED
  BY <1>6, <1>8, <1>10, <1>12

\* What a step of one request leaves alone.
LEMMA RotFacts ==
  ASSUME NEW q \in Requests, NEW d \in Nat, NEW r \in [pc : {"idle", "rekey", "publish"}, node : Nodes, root : 0..d],
         rot \in [Requests -> [pc : {"idle", "rekey", "publish"}, node : Nodes, root : 0..d]],
         rot' = [rot EXCEPT ![q] = r]
  PROVE  /\ rot' \in [Requests -> [pc : {"idle", "rekey", "publish"}, node : Nodes, root : 0..d]]
         /\ rot'[q] = r
         /\ \A p \in Requests : p # q => rot'[p] = rot[p]
OBVIOUS

\* RotateKey draws a key; a seal with a file overwrites it.
LEMMA RotateInitCore ==
  ASSUME Core, UNCHANGED dep, NEW n \in Members, NEW q \in Requests, RotateInit(q, n)
  PROVE  Core'
<1> USE DEF Core
<1> DEFINE r == [pc |-> "rekey", node |-> n, root |-> drawn + 1]
<1>1. /\ rot[q].pc = "idle" /\ pc[n] = "open" /\ IsLeader(n) /\ SealInit(n) /\ rot' = [rot EXCEPT ![q] = r]
      /\ intact' = (intact /\ ~(HasFile /\ \E p \in Running : rot[p].node = n))
      /\ UNCHANGED <<keyRoot, sealMeta, rootToken, leader, shown, pc, hold, faults>>
  BY DEF RotateInit
<1>2. n \in Nodes
  BY Zenon, TypeFacts
<1>3. /\ drawn' = drawn + 1 /\ drawn + 1 # 0 /\ drawn + 1 \in 0..drawn' /\ drawn' \in 0..MaxRoot
      /\ 0..drawn \subseteq 0..drawn' /\ file' \in [Nodes -> 0..drawn']
      /\ HasFile => file'[n] = drawn + 1
      /\ \A m \in Nodes : m # n => file'[m] = file[m]
  BY Zenon, <1>1, <1>2, SealInitFacts
<1>4. drawn' \in Nat
  BY <1>3, TypeFacts
<1>5. /\ {keyRoot, sealMeta} \cup shown \subseteq 0..drawn' /\ hold \in [Nodes -> 0..drawn']
      /\ rot \in [Requests -> [pc : {"idle", "rekey", "publish"}, node : Nodes, root : 0..drawn']]
  BY <1>3, <1>4, MoreKeys
<1>6. r \in [pc : {"idle", "rekey", "publish"}, node : Nodes, root : 0..drawn']
  BY Zenon, <1>2, <1>3
<1>7. /\ rot' \in [Requests -> [pc : {"idle", "rekey", "publish"}, node : Nodes, root : 0..drawn']]
      /\ rot'[q].pc = "rekey" /\ rot'[q].node = n /\ rot'[q].root = drawn + 1
      /\ \A p \in Requests : p # q => rot'[p] = rot[p]
  BY <1>1, <1>4, <1>5, <1>6, RotFacts
<1>8. intact' \in BOOLEAN
  BY <1>1
<1>9. TypeOK'
  BY <1>1, <1>3, <1>5, <1>7, <1>8 DEF TypeOK
<1>10. \A m \in Initializing : m # n
  BY <1>1
<1>11. Phases'
  <2>1. (\A m \in Nodes : (pc[m] # "down" => m \in Members) /\ (pc[m] \in Opening => keyRoot # 0))'
    BY Zenon, <1>1 DEF Phases
  <2>2. (\A m \in Initializing : hold[m] # 0 /\ (HasFile => file[m] = hold[m]))'
    BY Zenon, <1>1, <1>3, <1>10 DEF Phases, Initializing
  <2>3. (\A p \in Running : /\ rot[p].root # 0 /\ rot[p].node \in Members
                            /\ pc[rot[p].node] \in {"open", "sealed", "shards"})'
    <3> SUFFICES ASSUME NEW p \in Running'
                 PROVE  (/\ rot[p].root # 0 /\ rot[p].node \in Members
                         /\ pc[rot[p].node] \in {"open", "sealed", "shards"})'
      BY Zenon
    <3>1. CASE p = q
      BY Zenon, <1>1, <1>3, <1>7, <3>1
    <3>2. CASE p # q
      <4>1. p \in Running /\ rot'[p] = rot[p]
        BY Zenon, <1>7, <3>2 DEF Running
      <4> QED BY Zenon, <1>1, <4>1 DEF Phases
    <3> QED BY <3>1, <3>2
  <2> QED BY Zenon, <2>1, <2>2, <2>3 DEF Phases
<1>12. ASSUME intact'
       PROVE  WindowsAreTheLeaders'
  <2>1. WindowsAreTheLeaders /\ (HasFile => \A p \in Running : rot[p].node # n)
    BY Zenon, <1>1, <1>12 DEF Windows
  <2>2. \A p \in Running : rot[p].node \in Nodes
    BY Zenon DEF TypeOK
  <2>3. HasFile => \A p \in Running' : file'[rot'[p].node] = rot'[p].root
    BY SMTT(30), <1>1, <1>3, <1>7, <2>1, <2>2 DEF WindowsAreTheLeaders
  <2> QED
    BY SMTT(30), <1>1, <1>3, <1>7, <1>10, <2>1, <2>3 DEF WindowsAreTheLeaders
<1>13. ASSUME intact', keyRoot # 0
       PROVE  KeyIsSomewhere'
  <2>1. KeyIsSomewhere
    BY Zenon, <1>1, <1>13 DEF Somewhere
  <2>2. \A p \in Running : p # q
    BY <1>1
  <2> QED
    BY <1>1, <1>7, <2>1, <2>2 DEF KeyIsSomewhere
<1> QED
  BY <1>1, <1>9, <1>11, <1>12, <1>13 DEF Windows, Somewhere

\* barrier.Rekey: the keyring is wrapped with the new key.
LEMMA RotateRekeyCore ==
  ASSUME Core, UNCHANGED dep, NEW q \in Requests, RotateRekey(q)
  PROVE  Core'
<1> USE DEF Core
<1> DEFINE n == rot[q].node
<1>1. /\ rot[q].pc = "rekey" /\ pc[n] = "open" /\ IsLeader(n) /\ keyRoot' = rot[q].root
      /\ rot' = [rot EXCEPT ![q].pc = "publish"]
      /\ UNCHANGED <<sealMeta, rootToken, leader, file, shown, pc, hold, drawn, faults, intact>>
  BY DEF RotateRekey
<1>2. /\ rot' \in [Requests -> [pc : {"idle", "rekey", "publish"}, node : Nodes, root : 0..drawn]]
      /\ rot'[q].pc = "publish" /\ rot'[q].node = n /\ rot'[q].root = rot[q].root
      /\ \A p \in Requests : p # q => rot'[p] = rot[p]
  BY <1>1 DEF TypeOK
<1>3. n \in Members /\ n \in Nodes /\ rot[q].root # 0 /\ rot[q].root \in 0..drawn
  BY <1>1 DEF Phases, TypeOK
<1>4. TypeOK'
  BY <1>1, <1>2, <1>3 DEF TypeOK
<1>5. Phases'
  BY <1>1, <1>2 DEF Phases
<1> HIDE DEF n
<1>6. ASSUME intact
      PROVE  WindowsAreTheLeaders'
  <2>1. WindowsAreTheLeaders
    BY <1>6 DEF Windows
  <2>2. \A m \in Nodes : pc[m] # "token" /\ (HasFile => m \notin Initializing)
    BY <1>1, <1>3, <2>1, OneLeader DEF WindowsAreTheLeaders, Phases
  <2>3. \A p \in Requests : rot[p].pc = "publish" => IsLeader(rot[p].node) /\ rot[p].node \in Members
    BY <2>1 DEF WindowsAreTheLeaders, Phases
  <2>4. HasFile => \A p \in Requests : rot[p].pc # "publish"
    <3> SUFFICES ASSUME HasFile, NEW p \in Requests, rot[p].pc = "publish" PROVE FALSE
      OBVIOUS
    <3>1. rot[p].node = n
      BY <1>1, <1>3, <2>3, OneLeader
    <3> QED
      BY <1>1, <2>1, <3>1 DEF WindowsAreTheLeaders, n
  <2>5. \A p \in Requests : rot'[p].node = rot[p].node /\ rot'[p].root = rot[p].root
                            /\ (p \in Running' <=> p \in Running)
    BY <1>1, <1>2 DEF n
  <2>6. HasFile => /\ \A p \in Running' : file'[rot'[p].node] = rot'[p].root
                                          /\ (rot'[p].pc = "publish" => keyRoot' = rot'[p].root)
                   /\ \A o, p \in Running' : rot'[o].node = rot'[p].node => o = p
    BY <1>1, <1>2, <2>1, <2>4, <2>5 DEF WindowsAreTheLeaders
  <2>7. \A p \in Running' : rot'[p].pc = "publish" => (Clustered => leader = rot'[p].node)
    BY <1>1, <1>2, <2>3, <2>5
  <2>8. Replicates => \A m \in Nodes : pc[m] # "barrier"
    BY <2>2
  <2> QED
    BY <1>1, <2>2, <2>6, <2>7, <2>8 DEF WindowsAreTheLeaders
<1>7. ASSUME intact
      PROVE  KeyIsSomewhere'
  <2>1. WindowsAreTheLeaders
    BY <1>7 DEF Windows
  <2>2. q \in Running' /\ rot'[q].pc = "publish" /\ rot'[q].root = keyRoot'
    BY <1>1, <1>2
  <2>3. rootToken
    <3>1. \A m \in Nodes : pc[m] # "token"
      BY <1>1, <1>3, <2>1, OneLeader DEF WindowsAreTheLeaders, Phases
    <3>2. keyRoot # 0
      BY <1>1, <1>3 DEF Phases, Opening
    <3> QED
      BY <1>7, <3>1, <3>2 DEF Somewhere, KeyIsSomewhere
  <2>4. HasFile /\ ~Replicates => \A m \in Members : file'[m] = keyRoot'
    <3>1. HasFile => file[n] = rot[q].root
      BY <1>1, <2>1 DEF WindowsAreTheLeaders, n
    <3>2. HasFile /\ ~Replicates => \A m \in Members : m = n
      BY <1>3, TypeFacts
    <3> QED
      BY <1>1, <3>1, <3>2
  <2> QED
    BY <1>1, <2>2, <2>3, <2>4 DEF KeyIsSomewhere
<1> QED
  BY <1>1, <1>4, <1>5, <1>6, <1>7 DEF Windows, Somewhere

\* A request that ends without a fault in a window, or with one.
LEMMA EndOfRequest ==
  ASSUME TypeOK, NEW q \in Requests, rot' = [rot EXCEPT ![q] = Idle]
  PROVE  /\ rot' \in [Requests -> [pc : {"idle", "rekey", "publish"}, node : Nodes, root : 0..drawn]]
         /\ rot'[q].pc = "idle"
         /\ \A p \in Requests : p # q => rot'[p] = rot[p]
<1>1. Idle \in [pc : {"idle", "rekey", "publish"}, node : Nodes, root : 0..drawn] /\ Idle.pc = "idle"
  BY IdleFacts, TypeFacts
<1> QED
  BY <1>1, TypeFacts, RotFacts DEF TypeOK

\* The rotation is given up: the file is not put back.
LEMMA RotateFailCore ==
  ASSUME Core, UNCHANGED dep, NEW q \in Requests, RotateFail(q)
  PROVE  Core'
<1> USE DEF Core
<1>1. /\ rot[q].pc = "rekey" /\ rot' = [rot EXCEPT ![q] = Idle]
      /\ keyRoot' \in {keyRoot, rot[q].root}
      /\ intact' = (intact /\ keyRoot' = keyRoot /\ (HasFile => Replicates))
      /\ UNCHANGED <<sealMeta, rootToken, leader, file, shown, pc, hold, drawn>>
  BY DEF RotateFail
<1>2. /\ rot' \in [Requests -> [pc : {"idle", "rekey", "publish"}, node : Nodes, root : 0..drawn]]
      /\ rot'[q].pc = "idle"
      /\ \A p \in Requests : p # q => rot'[p] = rot[p]
  BY Zenon, <1>1, EndOfRequest
<1>3. rot[q].root # 0 /\ rot[q].root \in 0..drawn
  BY <1>1 DEF Phases, TypeOK
<1>4. faults' \in 0..MaxFaults
  BY DeploymentsAssumption DEF RotateFail, Fault, TypeOK
<1>5. intact' \in BOOLEAN
  BY <1>1
<1>6. TypeOK'
  BY <1>1, <1>2, <1>3, <1>4, <1>5 DEF TypeOK
<1>7. Phases'
  BY <1>1, <1>2, <1>3 DEF Phases
<1>8. ASSUME intact'
      PROVE  WindowsAreTheLeaders'
  <2>1. WindowsAreTheLeaders /\ keyRoot' = keyRoot
    BY Zenon, <1>1, <1>8 DEF Windows
  <2> QED
    BY <1>1, <1>2, <2>1 DEF WindowsAreTheLeaders
<1>9. ASSUME intact', keyRoot' # 0
      PROVE  KeyIsSomewhere'
  <2>1. KeyIsSomewhere /\ keyRoot' = keyRoot /\ (HasFile => Replicates)
    BY Zenon, <1>1, <1>9 DEF Somewhere
  <2> QED
    BY <1>1, <1>2, <2>1 DEF KeyIsSomewhere
<1> QED
  BY <1>6, <1>7, <1>8, <1>9 DEF Windows, Somewhere

\* publishSealMeta publishes the file, or the shares are returned.
LEMMA RotatePublishCore ==
  ASSUME Core, UNCHANGED dep, NEW q \in Requests, RotatePublish(q)
  PROVE  Core'
<1> USE DEF Core
<1> DEFINE n == rot[q].node
<1>1. /\ rot[q].pc = "publish" /\ rot' = [rot EXCEPT ![q] = Idle]
      /\ sealMeta' = IF Replicates /\ IsLeader(n) THEN file[n] ELSE sealMeta
      /\ shown' = IF SealType = "shamir" THEN shown \cup {rot[q].root} ELSE shown
      /\ UNCHANGED <<keyRoot, rootToken, leader, file, pc, hold, drawn, faults, intact>>
  BY DEF RotatePublish
<1>2. /\ rot' \in [Requests -> [pc : {"idle", "rekey", "publish"}, node : Nodes, root : 0..drawn]]
      /\ rot'[q].pc = "idle"
      /\ \A p \in Requests : p # q => rot'[p] = rot[p]
  BY ZenonT(40), <1>1, EndOfRequest
<1>3. n \in Members /\ n \in Nodes /\ rot[q].root \in 0..drawn /\ pc[n] \in {"open", "sealed", "shards"}
  BY <1>1 DEF Phases, TypeOK
<1>4. sealMeta' \in 0..drawn /\ shown' \subseteq 0..drawn
  BY <1>1, <1>3 DEF TypeOK
<1>5. TypeOK'
  BY Zenon, <1>1, <1>2, <1>4 DEF TypeOK
<1>6. Phases'
  BY <1>1, <1>2 DEF Phases
<1>7. ASSUME intact
      PROVE  /\ WindowsAreTheLeaders /\ IsLeader(n)
             /\ HasFile => file[n] = keyRoot
             /\ HasFile => \A m \in Nodes : pc[m] # "barrier"
  <2>1. WindowsAreTheLeaders /\ IsLeader(n) /\ (HasFile => file[n] = keyRoot)
    BY ZenonT(40), <1>1, <1>7 DEF Windows, WindowsAreTheLeaders
  <2>2. HasFile => \A m \in Nodes : pc[m] # "barrier"
    BY ZenonT(40), <1>3, <2>1, OneLeader DEF WindowsAreTheLeaders, Phases
  <2> QED
    BY Zenon, <2>1, <2>2
<1> HIDE DEF n
<1>8. ASSUME intact
      PROVE  WindowsAreTheLeaders'
  BY ZenonT(40), <1>1, <1>2, <1>7, <1>8 DEF WindowsAreTheLeaders
<1>9. ASSUME intact, keyRoot # 0
      PROVE  KeyIsSomewhere'
  <2>1. KeyIsSomewhere
    BY <1>9 DEF Somewhere
  <2>2. Replicates => sealMeta' = keyRoot
    BY <1>1, <1>7, <1>9
  <2>3. HasFile \/ SealType = "shamir"
    BY DeploymentsAssumption DEF TypeOK
  <2> QED
    BY <1>1, <1>2, <2>1, <2>2, <2>3 DEF KeyIsSomewhere
<1> QED
  BY <1>1, <1>5, <1>6, <1>8, <1>9 DEF Windows, Somewhere

\* publishSealMeta fails, which falls into a window.
LEMMA RotatePublishFailCore ==
  ASSUME Core, UNCHANGED dep, NEW q \in Requests, RotatePublishFail(q)
  PROVE  Core'
<1> USE DEF Core
<1>1. /\ rot[q].pc = "publish" /\ rot' = [rot EXCEPT ![q] = Idle] /\ intact' = FALSE
      /\ sealMeta' \in {sealMeta, file[rot[q].node]}
      /\ UNCHANGED <<keyRoot, rootToken, leader, file, shown, pc, hold, drawn>>
  BY DEF RotatePublishFail
<1>2. /\ rot' \in [Requests -> [pc : {"idle", "rekey", "publish"}, node : Nodes, root : 0..drawn]]
      /\ rot'[q].pc = "idle"
      /\ \A p \in Requests : p # q => rot'[p] = rot[p]
  BY Zenon, <1>1, EndOfRequest
<1>3. faults' \in 0..MaxFaults
  BY DeploymentsAssumption DEF RotatePublishFail, Fault, TypeOK
<1>4. sealMeta' \in 0..drawn
  BY <1>1 DEF TypeOK
<1>5. intact' \in BOOLEAN /\ ~intact'
  BY Zenon, <1>1
<1>6. TypeOK'
  BY Zenon, <1>1, <1>2, <1>3, <1>4, <1>5 DEF TypeOK
<1>7. Phases'
  BY <1>1, <1>2 DEF Phases
<1> QED
  BY <1>5, <1>6, <1>7 DEF Windows, Somewhere

\* A process stops; its rotations are gone.
LEMMA CrashCore ==
  ASSUME Core, UNCHANGED dep, NEW n \in Members, Crash(n)
  PROVE  Core'
<1> USE DEF Core
<1>1. /\ rot' = [q \in Requests |-> IF rot[q].node = n THEN Idle ELSE rot[q]]
      /\ intact' = (intact /\ ~Exposed(n))
      /\ UNCHANGED <<keyRoot, sealMeta, rootToken, leader, file, shown, hold, drawn>>
  BY DEF Crash
<1>2. n \in Nodes /\ pc' \in [Nodes -> Places] /\ pc'[n] = "down" /\ \A m \in Nodes : m # n => pc'[m] = pc[m]
  BY TypeFacts DEF Crash, Goto, Places
<1>3. Idle \in [pc : {"idle", "rekey", "publish"}, node : Nodes, root : 0..drawn] /\ Idle.pc = "idle"
  BY IdleFacts, TypeFacts
<1>4. /\ rot' \in [Requests -> [pc : {"idle", "rekey", "publish"}, node : Nodes, root : 0..drawn]]
      /\ \A q \in Requests : rot[q].node = n => rot'[q].pc = "idle"
      /\ \A q \in Requests : rot[q].node # n => rot'[q] = rot[q]
  BY <1>1, <1>3 DEF TypeOK
<1>5. faults' \in 0..MaxFaults /\ intact' \in BOOLEAN
  <2>1. faults' \in 0..MaxFaults
    BY DeploymentsAssumption DEF Crash, Fault, TypeOK
  <2>2. intact' \in BOOLEAN
    BY Zenon, <1>1
  <2> QED
    BY <2>1, <2>2
<1>6. TypeOK'
  BY <1>1, <1>2, <1>4, <1>5 DEF TypeOK, Places
<1>7. \A q \in Requests : rot'[q].pc # "idle" => rot[q].pc # "idle" /\ rot[q].node # n /\ rot'[q] = rot[q]
  BY Zenon, <1>4
<1>8. Phases'
  <2>1. \A m \in Nodes : pc'[m] # "down" => m # n /\ pc'[m] = pc[m]
    BY <1>2
  <2>2. \A q \in Requests : rot'[q].pc # "idle" => rot[q].node \in Nodes /\ rot[q].node # n /\ pc'[rot[q].node] = pc[rot[q].node]
    BY ZenonT(40), <1>2, <1>7 DEF TypeOK
  <2> QED
    BY <1>1, <1>7, <2>1, <2>2 DEF Phases, Opening
<1>9. ASSUME intact'
      PROVE  WindowsAreTheLeaders'
  <2>1. WindowsAreTheLeaders
    BY Zenon, <1>1, <1>9 DEF Windows
  <2> QED
    BY <1>1, <1>2, <1>7, <2>1 DEF WindowsAreTheLeaders
<1>10. ASSUME intact', keyRoot # 0
       PROVE  KeyIsSomewhere'
  <2>1. KeyIsSomewhere /\ ~Exposed(n)
    BY ZenonT(40), <1>1, <1>10 DEF Somewhere
  <2>2. pc[n] # "token"
    BY <2>1 DEF Exposed
  <2>3. \A q \in Running : rot[q].pc = (IF HasFile /\ ~Replicates THEN "rekey" ELSE "publish")
                             => rot[q].node # n /\ rot'[q] = rot[q]
    BY Zenon, <1>4, <2>1 DEF Exposed
  <2> QED
    BY Zenon, <1>1, <1>2, <2>1, <2>2, <2>3 DEF KeyIsSomewhere
<1> QED
  BY Zenon, <1>1, <1>6, <1>8, <1>9, <1>10 DEF Windows, Somewhere

\* Another node becomes the leader.
LEMMA ChangeLeaderCore ==
  ASSUME Core, UNCHANGED dep, NEW n \in Members, ChangeLeader(n)
  PROVE  Core'
<1> USE DEF Core
<1>1. /\ Clustered /\ leader' = n
      /\ intact' = (intact /\ ~Exposed(leader) /\ (Replicates => Initializing = {}))
      /\ UNCHANGED <<keyRoot, sealMeta, rootToken, file, shown, pc, hold, rot, drawn>>
  BY Zenon DEF ChangeLeader
<1>2. faults' \in 0..MaxFaults
  BY SMTT(30), DeploymentsAssumption DEF ChangeLeader, Fault, TypeOK
<1>3. intact' \in BOOLEAN
  BY <1>1
<1>4. TypeOK'
  BY Zenon, <1>1, <1>2, <1>3 DEF TypeOK
<1>5. Phases'
  BY Zenon, <1>1 DEF Phases
<1>6. ASSUME intact'
      PROVE  WindowsAreTheLeaders'
  <2>1. WindowsAreTheLeaders /\ ~Exposed(leader) /\ (Replicates => Initializing = {}) /\ (HasFile => Replicates)
    BY ZenonT(40), <1>1, <1>6, TypeFacts DEF Windows
  <2>2. \A m \in Nodes : pc[m] # "token"
    BY Zenon, <1>1, <2>1 DEF WindowsAreTheLeaders, Exposed
  <2>3. \A q \in Running : rot[q].pc # "publish"
    BY ZenonT(40), <1>1, <2>1 DEF WindowsAreTheLeaders, Exposed
  <2> QED
    BY ZenonT(40), <1>1, <2>1, <2>2, <2>3 DEF WindowsAreTheLeaders
<1>7. Somewhere'
  BY Zenon, <1>1 DEF Somewhere, KeyIsSomewhere
<1> QED
  BY Zenon, <1>4, <1>5, <1>6, <1>7 DEF Windows

-----------------------------------------------------------------------------
(* The result.                                                             *)

\* However Start, the rotations, crashes, storage errors and changes of leader
\* interleave, a server that stops can be opened again and has its root token,
\* unless a fault fell into one of the windows named by Exposed.
THEOREM RootKeyCorrect == Spec => []RootKeyInv
<1>1. Init => Core
  BY InitCore
<1>2. ASSUME Core, [Next]_vars
      PROVE  Core'
  <2>1. CASE UNCHANGED vars
    BY ZenonT(40), <1>2, <2>1 DEF vars, Core, TypeOK, Phases, Windows, WindowsAreTheLeaders, Somewhere, KeyIsSomewhere
  <2>2. ASSUME UNCHANGED dep, NEW n \in Members,
               \/ StartStep(n) \/ AutoUnseal(n) \/ UnsealShards(n) \/ Seal(n) \/ Crash(n) \/ ChangeLeader(n)
               \/ \E q \in Requests : RotateInit(q, n)
        PROVE  Core'
    <3> HIDE DEF SealType, Clustered, Members, IsLeader, HasFile, Replicates, Running, Initializing
    <3> QED
      BY <1>2, <2>2, QuietCore, StartInitCore, StartPublishCore, StartBarrierCore, StartTokenCore,
         SyncCore, CrashCore, ChangeLeaderCore, RotateInitCore DEF StartStep
  <2>3. ASSUME UNCHANGED dep, NEW q \in Requests, RotateStep(q)
        PROVE  Core'
    BY <1>2, <2>3, RotateRekeyCore, RotateFailCore, RotatePublishCore, RotatePublishFailCore DEF RotateStep
  <2> QED
    BY Zenon, <1>2, <2>1, <2>2, <2>3 DEF Next
<1> QED
  BY <1>1, <1>2, CoreGivesInv, PTL DEF Spec
=============================================================================
