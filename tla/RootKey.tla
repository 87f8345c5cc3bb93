------------------------------- MODULE RootKey -------------------------------
(***************************************************************************)
(* Where the root key lives: Core.Start, UnsealShard, Seal and RotateKey   *)
(* over the three seals of internal/seal, on one server or on a Raft       *)
(* cluster.                                                                *)
(*                                                                         *)
(* The key that wraps the barrier's keyring (keyRoot) has to be found      *)
(* again after a restart: in the node's local file (dev seal, transit      *)
(* seal), in the replicated copy of that file (transit seal in a cluster), *)
(* or in the shares handed to the operators (Shamir).  These copies are    *)
(* written one after the other, without a lock, by Start and by RotateKey; *)
(* a step of the model is one such write.  Root keys are numbered in the   *)
(* order they are drawn; 0 stands for no key.                              *)
(***************************************************************************)
EXTENDS Integers

CONSTANTS Nodes,
          Requests,    \* concurrent POST /v1/sys/rotate requests
          Deployments, \* the deployments considered
          MaxRoot,     \* bound: root keys ever drawn
          MaxFaults    \* bound: crashes, storage errors, leader changes

\* A deployment is its nodes, its seal, and whether the backend is a cluster; the
\* dev seal, whose key is local, is for a single node.
ASSUME DeploymentsAssumption ==
  /\ \A d \in Deployments :
       /\ d.nodes \subseteq Nodes /\ d.nodes # {}
       /\ d.seal \in {"dev", "transit", "shamir"} /\ d.clustered \in BOOLEAN
       /\ IF d.clustered THEN d.seal # "dev" ELSE \E n \in Nodes : d.nodes = {n}
  /\ MaxRoot \in Nat /\ MaxFaults \in Nat

VARIABLES
  dep,       \* the deployment, which never changes
  keyRoot,   \* the key that wraps barrier/keyring; 0 before initialization
  sealMeta,  \* core/seal-meta, the replicated copy of the wrapped key
  rootToken, \* the root token is stored
  leader,
  file,      \* file[n]: the key in the seal's file on node n
  shown,     \* keys whose shares were returned to an operator
  pc,        \* pc[n]: where node n is between being down and being open
  hold,      \* hold[n]: the key Start of node n has in hand
  rot,       \* rot[q]: the state of a rotation request
  drawn,     \* number of root keys drawn
  faults,
  intact     \* history: no fault has hit one of the windows named by Exposed

vars == <<dep, keyRoot, sealMeta, rootToken, leader, file, shown, pc, hold, rot,
          drawn, faults, intact>>

Idle == [pc |-> "idle", node |-> CHOOSE n \in Nodes : TRUE, root |-> 0]

SealType == dep.seal
Clustered == dep.clustered
Members == dep.nodes

IsLeader(n) == Clustered => leader = n

HasFile == SealType \in {"dev", "transit"}

\* The seal implements wrappedKeySeal and the backend is a cluster.
Replicates == SealType = "transit" /\ Clustered

Running == {q \in Requests : rot[q].pc # "idle"}
Initializing == {n \in Nodes : pc[n] \in {"publish", "barrier", "token"}}

Fault == faults < MaxFaults /\ faults' = faults + 1
Goto(n, where) == pc' = [pc EXCEPT ![n] = where]

Init == /\ dep \in Deployments
        /\ keyRoot = 0 /\ sealMeta = 0 /\ rootToken = FALSE
        /\ leader \in Members
        /\ file = [n \in Nodes |-> 0]
        /\ shown = {}
        /\ pc = [n \in Nodes |-> "down"]
        /\ hold = [n \in Nodes |-> 0]
        /\ rot = [q \in Requests |-> Idle]
        /\ drawn = 0 /\ faults = 0 /\ intact = TRUE

\* Fault: the key is not a new one.
SealInit_NotDrawn(n) == /\ drawn < MaxRoot
                        /\ drawn' = drawn
                        /\ file' = IF HasFile THEN [file EXCEPT ![n] = drawn + 1] ELSE file

\* seal.Init: draws a key, and a seal with a file overwrites it.
SealInit(n) == /\ drawn < MaxRoot
               /\ drawn' = drawn + 1
               /\ file' = IF HasFile THEN [file EXCEPT ![n] = drawn + 1] ELSE file

-----------------------------------------------------------------------------
(* Start on a store that has no keyring.                                   *)

AwaitInit(n) ==
  /\ pc[n] = "down" /\ keyRoot = 0 /\ ~IsLeader(n)
  /\ Goto(n, "await")
  /\ UNCHANGED <<keyRoot, sealMeta, rootToken, leader, file, shown, hold, rot,
                 drawn, faults, intact>>

StartInit(n) ==
  /\ pc[n] \in {"down", "await"} /\ keyRoot = 0 /\ IsLeader(n)
  /\ SealInit(n)
  /\ hold' = [hold EXCEPT ![n] = drawn + 1]
  /\ Goto(n, "publish")
  /\ UNCHANGED <<keyRoot, sealMeta, rootToken, leader, shown, rot, faults, intact>>

StartPublish(n) ==
  /\ pc[n] = "publish"
  /\ sealMeta' = IF Replicates /\ IsLeader(n) THEN file[n] ELSE sealMeta
  /\ Goto(n, "barrier")
  /\ UNCHANGED <<keyRoot, rootToken, leader, file, shown, hold, rot, drawn,
                 faults, intact>>

\* InitializeWithSuite refuses a store that has a keyring, and the backend
\* refuses a follower; main ends the process then.
StartBarrier(n) ==
  /\ pc[n] = "barrier"
  /\ IF keyRoot = 0 /\ IsLeader(n)
       THEN keyRoot' = hold[n] /\ Goto(n, "token")
       ELSE keyRoot' = keyRoot /\ Goto(n, "down")
  /\ UNCHANGED <<sealMeta, rootToken, leader, file, shown, hold, rot, drawn,
                 faults, intact>>

StartToken(n) ==
  /\ pc[n] = "token"
  /\ IF IsLeader(n)
       THEN /\ rootToken' = TRUE
            /\ shown' = IF SealType = "shamir" THEN shown \cup {hold[n]} ELSE shown
            /\ Goto(n, "open")
       ELSE Goto(n, "down") /\ UNCHANGED <<rootToken, shown>>
  /\ UNCHANGED <<keyRoot, sealMeta, leader, file, hold, rot, drawn, faults, intact>>

-----------------------------------------------------------------------------
(* Start on an initialized store, and the other ways to open the barrier.  *)

\* Fault: the polling loop does not look again whether the store is initialized.
Sync_NoPoll(n) ==
  /\ pc[n] = "down" /\ keyRoot # 0
  /\ file' = IF Replicates /\ sealMeta # 0 THEN [file EXCEPT ![n] = sealMeta] ELSE file
  /\ Goto(n, IF HasFile THEN "unseal" ELSE "shards")
  /\ UNCHANGED <<keyRoot, sealMeta, rootToken, leader, shown, hold, rot, drawn,
                 faults, intact>>

\* syncSealMeta: the replicated copy wins; a leader without one publishes its
\* own file.
Sync(n) ==
  /\ pc[n] \in {"down", "await"} /\ keyRoot # 0
  /\ IF ~Replicates THEN UNCHANGED <<file, sealMeta>>
     ELSE IF sealMeta # 0
       THEN file' = [file EXCEPT ![n] = sealMeta] /\ UNCHANGED sealMeta
     ELSE IF IsLeader(n) /\ file[n] # 0
       THEN sealMeta' = file[n] /\ UNCHANGED file
     ELSE UNCHANGED <<file, sealMeta>>
  /\ Goto(n, IF HasFile THEN "unseal" ELSE "shards")
  /\ UNCHANGED <<keyRoot, rootToken, leader, shown, hold, rot, drawn, faults, intact>>

\* The key came from the seal; if it does not open the keyring, main exits.
StartUnseal(n) ==
  /\ pc[n] = "unseal" /\ file[n] # 0
  /\ Goto(n, IF file[n] = keyRoot THEN "open" ELSE "down")
  /\ UNCHANGED <<keyRoot, sealMeta, rootToken, leader, file, shown, hold, rot,
                 drawn, faults, intact>>

\* The file is missing or the transit service does not answer:
\* ErrSealUnavailable, and main starts the retry loop.
SealUnavailable(n) ==
  /\ pc[n] = "unseal"
  /\ \/ file[n] = 0 /\ UNCHANGED faults
     \/ file[n] # 0 /\ SealType = "transit" /\ Fault
  /\ Goto(n, "retry")
  /\ UNCHANGED <<keyRoot, sealMeta, rootToken, leader, file, shown, hold, rot,
                 drawn, intact>>

\* autoUnseal, called by the retry loop ("retry") or by POST /v1/sys/unseal
\* ("sealed").  It asks the seal for its key and does not call syncSealMeta.
AutoUnseal(n) ==
  /\ HasFile /\ pc[n] \in {"retry", "sealed"}
  /\ file[n] = keyRoot
  /\ Goto(n, "open")
  /\ UNCHANGED <<keyRoot, sealMeta, rootToken, leader, file, shown, hold, rot,
                 drawn, faults, intact>>

\* Operators bring the shares they were given last.
UnsealShards(n) ==
  /\ pc[n] = "shards"
  /\ keyRoot \in shown
  /\ Goto(n, "open")
  /\ UNCHANGED <<keyRoot, sealMeta, rootToken, leader, file, shown, hold, rot,
                 drawn, faults, intact>>

Seal(n) ==
  /\ pc[n] = "open"
  /\ Goto(n, IF HasFile THEN "sealed" ELSE "shards")
  /\ UNCHANGED <<keyRoot, sealMeta, rootToken, leader, file, shown, hold, rot,
                 drawn, faults, intact>>

-----------------------------------------------------------------------------
(* RotateKey: seal.Init, barrier.Rekey, publishSealMeta, reply.            *)

\* Fault: the barrier is rekeyed, but the replicated copy is left as it was.
RotateRekey_NoPublish(q) ==
  LET n == rot[q].node IN
  /\ rot[q].pc = "rekey" /\ pc[n] = "open" /\ IsLeader(n)
  /\ keyRoot' = rot[q].root
  /\ rot' = [rot EXCEPT ![q] = Idle]
  /\ shown' = IF SealType = "shamir" THEN shown \cup {rot[q].root} ELSE shown
  /\ UNCHANGED <<sealMeta, rootToken, leader, file, pc, hold, drawn, faults, intact>>

RotateInit(q, n) ==
  /\ rot[q].pc = "idle" /\ pc[n] = "open" /\ IsLeader(n)
  /\ SealInit(n)
  /\ rot' = [rot EXCEPT ![q] = [pc |-> "rekey", node |-> n, root |-> drawn + 1]]
  /\ intact' = (intact /\ ~(HasFile /\ \E p \in Running : rot[p].node = n))
  /\ UNCHANGED <<keyRoot, sealMeta, rootToken, leader, shown, pc, hold, faults>>

RotateRekey(q) ==
  LET n == rot[q].node IN
  /\ rot[q].pc = "rekey" /\ pc[n] = "open" /\ IsLeader(n)
  /\ keyRoot' = rot[q].root
  /\ rot' = [rot EXCEPT ![q].pc = "publish"]
  /\ UNCHANGED <<sealMeta, rootToken, leader, file, shown, pc, hold, drawn, faults, intact>>

\* Rekey fails: the barrier was sealed meanwhile, this node is not the leader
\* any more, or the backend reports an error (and may have done the write).
\* The seal's file is not put back.
RotateFail(q) ==
  LET n == rot[q].node IN
  /\ rot[q].pc = "rekey" /\ pc[n] # "down"
  /\ \/ /\ pc[n] # "open" \/ ~IsLeader(n)
        /\ UNCHANGED <<keyRoot, faults>>
     \/ /\ pc[n] = "open" /\ Fault
        /\ keyRoot' \in {keyRoot, rot[q].root}
  /\ rot' = [rot EXCEPT ![q] = Idle]
  /\ intact' = (intact /\ keyRoot' = keyRoot /\ (HasFile => Replicates))
  /\ UNCHANGED <<sealMeta, rootToken, leader, file, shown, pc, hold, drawn>>

\* publishSealMeta reads the file again; on a node that lost the leadership it
\* returns nil without writing, and the rotation is reported as done.
RotatePublish(q) ==
  LET n == rot[q].node IN
  /\ rot[q].pc = "publish"
  /\ sealMeta' = IF Replicates /\ IsLeader(n) THEN file[n] ELSE sealMeta
  /\ shown' = IF SealType = "shamir" THEN shown \cup {rot[q].root} ELSE shown
  /\ rot' = [rot EXCEPT ![q] = Idle]
  /\ UNCHANGED <<keyRoot, rootToken, leader, file, pc, hold, drawn, faults, intact>>

RotatePublishFail(q) ==
  /\ rot[q].pc = "publish" /\ Replicates /\ Fault
  /\ sealMeta' \in {sealMeta, file[rot[q].node]}
  /\ rot' = [rot EXCEPT ![q] = Idle]
  /\ intact' = FALSE
  /\ UNCHANGED <<keyRoot, rootToken, leader, file, shown, pc, hold, drawn>>

-----------------------------------------------------------------------------
\* The windows in which the one good copy of the root key is a local variable:
\* between overwriting the file and rewrapping the keyring, between rewrapping
\* the keyring and publishing the file (or returning the shares), and between
\* writing the first keyring and the first token.
Exposed(n) ==
  \/ pc[n] = "token"
  \/ \E q \in Running : /\ rot[q].node = n
                        /\ rot[q].pc = IF HasFile /\ ~Replicates THEN "rekey" ELSE "publish"

Crash(n) ==
  /\ pc[n] # "down" /\ Fault
  /\ Goto(n, "down")
  /\ rot' = [q \in Requests |-> IF rot[q].node = n THEN Idle ELSE rot[q]]
  /\ intact' = (intact /\ ~Exposed(n))
  /\ UNCHANGED <<keyRoot, sealMeta, rootToken, leader, file, shown, hold, drawn>>

ChangeLeader(n) ==
  /\ Clustered /\ n # leader /\ Fault
  /\ leader' = n
  /\ intact' = (intact /\ ~Exposed(leader) /\ (Replicates => Initializing = {}))
  /\ UNCHANGED <<keyRoot, sealMeta, rootToken, file, shown, pc, hold, rot, drawn>>

StartStep(n) == \/ AwaitInit(n) \/ StartInit(n) \/ StartPublish(n) \/ StartBarrier(n)
                \/ StartToken(n) \/ Sync(n) \/ StartUnseal(n) \/ SealUnavailable(n)

RotateStep(q) == \/ RotateRekey(q) \/ RotateFail(q)
                 \/ RotatePublish(q) \/ RotatePublishFail(q)

Next == /\ UNCHANGED dep
        /\ \/ \E n \in Members : \/ StartStep(n) \/ AutoUnseal(n) \/ UnsealShards(n)
                                 \/ Seal(n) \/ Crash(n) \/ ChangeLeader(n)
                                 \/ \E q \in Requests : RotateInit(q, n)
           \/ \E q \in Requests : RotateStep(q)

\* Start and a running request do not stop by themselves, a process that ended
\* is restarted, and the retry loop keeps ticking.
Fairness ==
  /\ \A n \in Nodes : /\ WF_vars(n \in Members /\ StartStep(n) /\ UNCHANGED dep)
                      /\ WF_vars(pc[n] = "retry" /\ AutoUnseal(n) /\ UNCHANGED dep)
  /\ \A q \in Requests : WF_vars(RotateStep(q) /\ UNCHANGED dep)

Spec == Init /\ [][Next]_vars /\ Fairness

-----------------------------------------------------------------------------
\* The types of the stored, the local and the in-flight state.
TypeOK == /\ dep \in Deployments
          /\ {keyRoot, sealMeta} \cup shown \subseteq 0..drawn
          /\ rootToken \in BOOLEAN /\ intact \in BOOLEAN
          /\ leader \in Members
          /\ file \in [Nodes -> 0..drawn] /\ hold \in [Nodes -> 0..drawn]
          /\ pc \in [Nodes -> {"down", "await", "publish", "barrier", "token",
                               "unseal", "retry", "sealed", "shards", "open"}]
          /\ rot \in [Requests -> [pc : {"idle", "rekey", "publish"},
                                   node : Nodes, root : 0..drawn]]
          /\ drawn \in 0..MaxRoot /\ faults \in 0..MaxFaults

\* Where a restarted server or its operators would look for the root key.
Recoverable == IF Replicates THEN sealMeta = keyRoot
               ELSE IF HasFile THEN \A n \in Members : file[n] = keyRoot
               ELSE keyRoot \in shown

\* Outside the windows named by Exposed, a server that stops can be opened
\* again and has its root token: whatever was crashed, refused, retried or
\* interleaved before, as long as no fault fell into such a window.
KeyNotLost ==
  keyRoot # 0 /\ intact /\ (\A n \in Nodes : ~Exposed(n)) => Recoverable /\ rootToken

Opening == {"token", "unseal", "retry", "sealed", "shards", "open"}

\* Only members run, on an initialized store once Start is past that; what Start and a rotation have in hand is a key, and Start's
\* is the one in its file; a request runs on a node that has been opened.
Phases ==
  /\ \A n \in Nodes : /\ pc[n] # "down" => n \in Members
                      /\ pc[n] \in Opening => keyRoot # 0
  /\ \A n \in Initializing : hold[n] # 0 /\ (HasFile => file[n] = hold[n])
  /\ \A q \in Running : /\ rot[q].root # 0 /\ rot[q].node \in Members
                        /\ pc[rot[q].node] \in {"open", "sealed", "shards"}

\* As long as no fault fell into a window, whoever is inside one is the leader
\* and has the current key in hand.
WindowsAreTheLeaders ==
  /\ \A n \in Nodes : pc[n] = "token" => IsLeader(n) /\ hold[n] = keyRoot
  /\ \A q \in Running : rot[q].pc = "publish" => IsLeader(rot[q].node)
  /\ HasFile =>
       /\ \A q \in Running : /\ file[rot[q].node] = rot[q].root
                             /\ rot[q].pc = "publish" => keyRoot = rot[q].root
       /\ \A p, q \in Running : rot[p].node = rot[q].node => p = q
       /\ \A n \in Initializing : IsLeader(n) /\ (pc[n] # "token" => keyRoot = 0)
  /\ Replicates => \A n \in Nodes : pc[n] = "barrier" => sealMeta = hold[n]

\* Then the key that wraps the keyring is where it will be looked for, or inside
\* a window.
KeyIsSomewhere ==
  /\ rootToken \/ \E n \in Nodes : pc[n] = "token"
  /\ IF Replicates THEN sealMeta = keyRoot \/ \E q \in Running : rot[q].pc = "publish"
     ELSE IF HasFile
       THEN (\A n \in Members : file[n] = keyRoot) \/ \E q \in Running : rot[q].pc = "rekey"
     ELSE \/ keyRoot \in shown \/ \E n \in Nodes : pc[n] = "token"
          \/ \E q \in Running : rot[q].pc = "publish" /\ rot[q].root = keyRoot

\* What holds in every state: a well-formed one whose root key is not lost; and
\* what makes this inductive.
RootKeyInv == /\ TypeOK /\ KeyNotLost /\ Phases
              /\ intact => WindowsAreTheLeaders /\ (keyRoot # 0 => KeyIsSomewhere)

\* A process that (re)starts gets as far as its seal lets it: no follower waits
\* forever for a leader to initialize the store.
Bootstraps ==
  \A n \in Nodes :
    (n \in Members /\ pc[n] = "down") ~> (pc[n] \in {"open", "retry", "shards"} \/ ~intact)

\* Once nothing is in progress the store can be opened again ("Init overwrites
\* any existing key file. This is safe").
RotationKeepsKey ==
  keyRoot # 0 /\ Running = {} /\ Initializing = {} => Recoverable

\* What syncSealMeta copies to a node is the key the cluster currently uses, "so
\* a follower (or a node that missed a root-key rotation) unseals with" it.
SyncGivesCurrentKey ==
  keyRoot # 0 /\ Running = {} /\ Initializing = {} => sealMeta \in {0, keyRoot}

\* A node whose seal was unavailable opens by itself once the seal answers.
RetryOpens == \A n \in Nodes : pc[n] = "retry" ~> (pc[n] # "retry" \/ ~intact)
=============================================================================
