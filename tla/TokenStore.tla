------------------------------ MODULE TokenStore ------------------------------
(***************************************************************************)
(* The life of a token: created, used, renewed, revoked (with its          *)
(* descendants, or by accessor), exhausted, expired and collected.         *)
(*                                                                         *)
(* A token is a record, an accessor index entry, an entry in its parent's  *)
(* children index and a cubbyhole, all separate entries of the barrier.    *)
(* No lock spans two of them and none spans a read and the write that      *)
(* follows it, so requests interleave at the storage accesses.  The two    *)
(* index entries of a token change in one step here: no operation reads    *)
(* both of them.                                                           *)
(*                                                                         *)
(* Every storage access succeeds and the process does not crash: what a    *)
(* failed index write or a crash between two writes leaves is not covered. *)
(***************************************************************************)
EXTENDS Integers, Sequences

CONSTANTS Tokens, RootToken, Requests, None,
          Shapes,   \* what createToken may be asked for
          Ops,      \* the operations that requests perform
          MaxTime   \* bound: the clock

ASSUME TokensAssumption ==
  /\ RootToken \in Tokens /\ None \notin Tokens /\ MaxTime \in Nat
  /\ Shapes \subseteq [ttl : Nat, maxTTL : Nat, period : Nat, limit : Nat,
                       renewable : BOOLEAN, orphan : BOOLEAN]
  /\ Ops \subseteq {"api", "create", "renew", "self", "revoke", "accessor", "cubby"}

VARIABLES
  tok,     \* auth/token/<hash>: the record, or None
  acc,     \* tokens with an auth/accessor entry
  kids,    \* kids[p]: the children index of p
  cub,     \* tokens with a cubbyhole entry
  ids,     \* token IDs generated so far
  req,     \* req[r]: the state of a request
  gc,      \* the state of runGC
  clock,
  granted, \* history: granted[t], requests let through while t has a use limit,
           \* counted up to the first one too many
  revoked  \* history: tokens whose revocation was completed

vars == <<tok, acc, kids, cub, ids, req, gc, clock, granted, revoked>>
store == <<tok, acc, kids, cub, ids>>

\* CreateToken and its options.  Times are absolute; 0 means never.
Generate(shape, parent) ==
  [parent |-> IF shape.orphan THEN None ELSE parent,
   expires |-> IF shape.ttl = 0 THEN 0 ELSE clock + shape.ttl,
   renewable |-> shape.renewable \/ shape.period # 0,
   cap |-> IF shape.maxTTL = 0 THEN 0 ELSE clock + shape.maxTTL,
   period |-> shape.period,
   limit |-> shape.limit, uses |-> 0]

Present(t) == tok[t] # None
Expired(t) == tok[t].expires # 0 /\ clock > tok[t].expires
Valid(t) == Present(t) /\ ~Expired(t)

RootRecord == [parent |-> None, expires |-> 0, renewable |-> FALSE, cap |-> 0,
               period |-> 0, limit |-> 0, uses |-> 0]

Idle == [pc |-> "idle", op |-> "none", by |-> None, target |-> None, copy |-> None,
         stack |-> << >>, allowed |-> FALSE]

GCIdle == [pc |-> "idle", todo |-> {}, cur |-> None]

Init == /\ tok = [t \in Tokens |-> IF t = RootToken THEN RootRecord ELSE None]
        /\ acc = {RootToken}
        /\ kids = [t \in Tokens |-> {}]
        /\ cub = {}
        /\ ids = {RootToken}
        /\ req = [r \in Requests |-> Idle]
        /\ gc = GCIdle
        /\ clock = 0
        /\ granted = [t \in Tokens |-> 0]
        /\ revoked = {}

-----------------------------------------------------------------------------
(* The store: one operator for each storage access of token.Store.         *)

PutRecord(t, rec) == tok' = [tok EXCEPT ![t] = rec]

\* Fault: Put maintains the accessor index only.
PutIndexes_NoChild(t, rec) == acc' = acc \cup {t} /\ UNCHANGED kids

\* The rest of Put: the accessor index and the parent's children index.
PutIndexes(t, rec) ==
  /\ acc' = acc \cup {t}
  /\ kids' = IF rec.parent = None THEN kids ELSE [kids EXCEPT ![rec.parent] = @ \cup {t}]

\* The first half of Delete: what the record says is indexed.
DropIndexes(t) ==
  IF ~Present(t) THEN UNCHANGED <<acc, kids>>
  ELSE /\ acc' = acc \ {t}
       /\ kids' = IF tok[t].parent = None THEN kids
                  ELSE [kids EXCEPT ![tok[t].parent] = @ \ {t}]

DropRecord(t) == tok' = [tok EXCEPT ![t] = None]

Goto(r, pc) == req' = [req EXCEPT ![r].pc = pc]
Done(r) == req' = [req EXCEPT ![r] = Idle]

\* The request is refused, with no effect of its own on the store.
Refused(r) == Done(r) /\ UNCHANGED store /\ UNCHANGED <<granted, revoked>>

-----------------------------------------------------------------------------
(* requireToken: Authenticate, then TrackUse.                              *)

Authenticate(r, t, op, target) ==
  /\ req[r].pc = "idle" /\ Valid(t)
  /\ req' = [req EXCEPT ![r] = [Idle EXCEPT !.pc = "use", !.op = op, !.by = t,
                                            !.target = target]]
  /\ UNCHANGED <<gc, clock, granted, revoked>> /\ UNCHANGED store

\* The handlers below follow; "api" stands for any other one, which is over.
Grant(r, t, limited) ==
  /\ granted' = IF limited /\ granted[t] <= req[r].copy.limit
                  THEN [granted EXCEPT ![t] = @ + 1] ELSE granted
  /\ IF req[r].op = "api" THEN Done(r)
     ELSE req' = [req EXCEPT ![r].pc = req[r].op, ![r].copy = None]

\* Fault: no early return for a token without a use limit.
TrackUse_AlwaysSaves(r) ==
  LET t == req[r].by IN
  /\ req[r].pc = "use" /\ Present(t)
  /\ req' = [req EXCEPT ![r].pc = "save", ![r].copy = [tok[t] EXCEPT !.uses = @ + 1]]
  /\ UNCHANGED <<granted, revoked, gc, clock>> /\ UNCHANGED store

TrackUse(r) ==
  LET t == req[r].by IN
  /\ req[r].pc = "use"
  /\ \/ ~Present(t) /\ Refused(r)
     \/ /\ Present(t) /\ tok[t].limit = 0
        /\ Grant(r, t, FALSE) /\ UNCHANGED revoked /\ UNCHANGED store
     \/ /\ Present(t) /\ tok[t].limit # 0 /\ tok[t].uses < tok[t].limit
        /\ req' = [req EXCEPT ![r].pc = "save", ![r].copy = [tok[t] EXCEPT !.uses = @ + 1]]
        /\ UNCHANGED <<granted, revoked>> /\ UNCHANGED store
     \/ /\ Present(t) /\ tok[t].limit # 0 /\ tok[t].uses >= tok[t].limit
        /\ DropIndexes(t) /\ Goto(r, "exhausted")
        /\ UNCHANGED <<tok, cub, ids, granted, revoked>>
  /\ UNCHANGED <<gc, clock>>

SaveUse(r) ==
  /\ req[r].pc = "save"
  /\ PutRecord(req[r].by, req[r].copy)
  /\ Goto(r, "saved")
  /\ UNCHANGED <<acc, kids, cub, ids, gc, clock, granted, revoked>>

SavedUse(r) ==
  /\ req[r].pc = "saved"
  /\ PutIndexes(req[r].by, req[r].copy)
  /\ Grant(r, req[r].by, TRUE)
  /\ UNCHANGED <<tok, cub, ids, gc, clock, revoked>>

\* TrackUse deletes the token itself: its cubbyhole is not purged.
Exhausted(r) ==
  /\ req[r].pc = "exhausted"
  /\ DropRecord(req[r].by) /\ Done(r)
  /\ UNCHANGED <<acc, kids, cub, ids, gc, clock, granted, revoked>>

-----------------------------------------------------------------------------
(* The handlers.                                                           *)

\* EnforceAccess: a token that is gone or expired by now is refused, and so is
\* one whose policies do not allow the operation.
EnforceAccess(r) ==
  /\ req[r].pc \in {"create", "renew", "revoke", "accessor"} /\ ~req[r].allowed
  /\ \/ /\ Valid(req[r].by)
        /\ req' = [req EXCEPT ![r].allowed = TRUE]
        /\ UNCHANGED <<granted, revoked>> /\ UNCHANGED store
     \/ Refused(r)
  /\ UNCHANGED <<gc, clock>>

CubbyholePut(r) ==
  /\ req[r].pc = "cubby"
  /\ cub' = cub \cup {req[r].by} /\ Done(r)
  /\ UNCHANGED <<tok, acc, kids, ids, gc, clock, granted, revoked>>

\* A new token is stored before it is indexed.
CreateToken(r, t, shape) ==
  LET rec == Generate(shape, req[r].by) IN
  /\ req[r].pc = "create" /\ req[r].allowed /\ t \notin ids
  /\ ids' = ids \cup {t}
  /\ PutRecord(t, rec)
  /\ req' = [req EXCEPT ![r].pc = "index", ![r].target = t, ![r].copy = rec]
  /\ UNCHANGED <<acc, kids, cub, gc, clock, granted, revoked>>

\* Fault: the cap on the lifetime of a renewable token is not applied.
NewExpiry_NoCap(rec) == clock + (IF rec.period # 0 THEN rec.period ELSE 1)

\* The Period of a periodic token, else the default hour, cut off at
\* CreatedAt + MaxTTL.
NewExpiry(rec) == IF rec.period # 0 THEN clock + rec.period
                  ELSE IF rec.cap # 0 /\ clock + 1 > rec.cap THEN rec.cap
                  ELSE clock + 1

\* renewSelf ("self") needs no policy and renews the caller's token.
RenewToken(r) ==
  LET t == IF req[r].pc = "self" THEN req[r].by ELSE req[r].target IN
  /\ req[r].pc = "self" \/ (req[r].pc = "renew" /\ req[r].allowed)
  /\ IF Valid(t) /\ tok[t].renewable
       THEN req' = [req EXCEPT ![r].pc = "put", ![r].target = t,
                               ![r].copy = [tok[t] EXCEPT !.expires = NewExpiry(tok[t])]]
       ELSE Done(r)
  /\ UNCHANGED <<gc, clock, granted, revoked>> /\ UNCHANGED store

RenewPut(r) ==
  /\ req[r].pc = "put"
  /\ PutRecord(req[r].target, req[r].copy) /\ Goto(r, "index")
  /\ UNCHANGED <<acc, kids, cub, ids, gc, clock, granted, revoked>>

PutDone(r) ==
  /\ req[r].pc = "index"
  /\ PutIndexes(req[r].target, req[r].copy) /\ Done(r)
  /\ UNCHANGED <<tok, cub, ids, gc, clock, granted, revoked>>

\* RevokeTokenByAccessor: look up and purge, then DeleteByAccessor, which does
\* not touch the children index.
AccessorPurge(r) ==
  LET t == req[r].target IN
  /\ req[r].pc = "accessor" /\ req[r].allowed
  /\ cub' = IF t \in acc /\ Present(t) THEN cub \ {t} ELSE cub
  /\ Goto(r, "unlist")
  /\ UNCHANGED <<tok, acc, kids, ids, gc, clock, granted, revoked>>

AccessorUnlist(r) ==
  /\ req[r].pc = "unlist"
  /\ acc' = acc \ {req[r].target}
  /\ IF req[r].target \in acc THEN Goto(r, "forget") ELSE Done(r)
  /\ UNCHANGED <<tok, kids, cub, ids, gc, clock, granted, revoked>>

AccessorForget(r) ==
  /\ req[r].pc = "forget"
  /\ DropRecord(req[r].target) /\ Done(r)
  /\ revoked' = revoked \cup {req[r].target}
  /\ UNCHANGED <<acc, kids, cub, ids, gc, clock, granted>>

-----------------------------------------------------------------------------
(* RevokeTokenTree: a stack of tokens, the deepest one on top.             *)

\* Children(t) is read when the recursion reaches t.
Frame(t) == [id |-> t, pc |-> "kids", kids |-> kids[t]]

RevokeTree(r) ==
  /\ req[r].pc = "revoke" /\ req[r].allowed
  /\ req' = [req EXCEPT ![r].pc = "tree", ![r].stack = << Frame(req[r].target) >>]
  /\ UNCHANGED <<gc, clock, granted, revoked>> /\ UNCHANGED store

AtFrame(r, pc) == req[r].pc = "tree" /\ Head(req[r].stack).pc = pc

FrameGoto(r, pc) == req' = [req EXCEPT ![r].stack[1].pc = pc]

TreeDescend(r, t) ==
  LET top == Head(req[r].stack) IN
  /\ AtFrame(r, "kids") /\ t \in top.kids
  /\ req' = [req EXCEPT ![r].stack =
                << Frame(t), [top EXCEPT !.kids = @ \ {t}] >> \o Tail(@)]
  /\ UNCHANGED <<gc, clock, granted, revoked>> /\ UNCHANGED store

TreePurge(r) ==
  /\ AtFrame(r, "kids") /\ Head(req[r].stack).kids = {}
  /\ cub' = cub \ {Head(req[r].stack).id}
  /\ FrameGoto(r, "unindex")
  /\ UNCHANGED <<tok, acc, kids, ids, gc, clock, granted, revoked>>

TreeUnindex(r) ==
  /\ AtFrame(r, "unindex")
  /\ DropIndexes(Head(req[r].stack).id)
  /\ FrameGoto(r, "drop")
  /\ UNCHANGED <<tok, cub, ids, gc, clock, granted, revoked>>

TreeDrop(r) ==
  /\ AtFrame(r, "drop")
  /\ LET t == Head(req[r].stack).id IN DropRecord(t) /\ revoked' = revoked \cup {t}
  /\ IF Len(req[r].stack) = 1 THEN Done(r) ELSE req' = [req EXCEPT ![r].stack = Tail(@)]
  /\ UNCHANGED <<acc, kids, cub, ids, gc, clock, granted>>

-----------------------------------------------------------------------------
(* runGC, every 15 minutes.                                                *)

\* Fault: one pass over the tokens, then the loop ends.
GCList_Once ==
  /\ gc.pc = "idle"
  /\ \E t \in Tokens : Present(t) /\ Expired(t)
  /\ gc' = [gc EXCEPT !.pc = "stopped"]
  /\ UNCHANGED <<req, clock, granted, revoked>> /\ UNCHANGED store

GCList ==
  /\ gc.pc = "idle"
  /\ \E t \in Tokens : Present(t) /\ Expired(t)
  /\ gc' = [gc EXCEPT !.pc = "next", !.todo = {t \in Tokens : Present(t) /\ Expired(t)}]
  /\ UNCHANGED <<req, clock, granted, revoked>> /\ UNCHANGED store

GCUnindex(t) ==
  /\ gc.pc = "next" /\ t \in gc.todo
  /\ DropIndexes(t)
  /\ gc' = [pc |-> "drop", todo |-> gc.todo \ {t}, cur |-> t]
  /\ UNCHANGED <<tok, cub, ids, req, clock, granted, revoked>>

GCDrop ==
  /\ gc.pc = "drop"
  /\ DropRecord(gc.cur)
  /\ gc' = [gc EXCEPT !.pc = "purge"]
  /\ UNCHANGED <<acc, kids, cub, ids, req, clock, granted, revoked>>

GCPurge ==
  /\ gc.pc = "purge"
  /\ cub' = cub \ {gc.cur}
  /\ gc' = IF gc.todo = {} THEN GCIdle ELSE [gc EXCEPT !.pc = "next", !.cur = None]
  /\ UNCHANGED <<tok, acc, kids, ids, req, clock, granted, revoked>>

GCStep == GCList \/ (\E t \in Tokens : GCUnindex(t)) \/ GCDrop \/ GCPurge

Tick == /\ clock < MaxTime
        /\ clock' = clock + 1
        /\ UNCHANGED <<req, gc, granted, revoked>> /\ UNCHANGED store

Handle(r) == \/ TrackUse(r) \/ SaveUse(r) \/ SavedUse(r) \/ Exhausted(r)
             \/ EnforceAccess(r) \/ CubbyholePut(r)
             \/ \E t \in Tokens, shape \in Shapes : CreateToken(r, t, shape)
             \/ RenewToken(r) \/ RenewPut(r) \/ PutDone(r)
             \/ AccessorPurge(r) \/ AccessorUnlist(r) \/ AccessorForget(r)
             \/ RevokeTree(r) \/ \E t \in Tokens : TreeDescend(r, t)
             \/ TreePurge(r) \/ TreeUnindex(r) \/ TreeDrop(r)

\* The token named in the request's path or body, if there is one.
TargetsOf(op) == IF op \in {"renew", "revoke", "accessor"} THEN ids ELSE {None}

Next == \/ \E r \in Requests :
             \/ \E t \in Tokens, op \in Ops : \E target \in TargetsOf(op) :
                  Authenticate(r, t, op, target)
             \/ Handle(r)
        \/ GCStep
        \/ Tick

\* The collector's ticker keeps firing.
Spec == Init /\ [][Next]_vars /\ WF_vars(GCStep)

-----------------------------------------------------------------------------
Quiet == (\A r \in Requests : req[r] = Idle) /\ gc = GCIdle

Records == [parent : Tokens \cup {None}, expires : Nat, renewable : BOOLEAN,
            cap : Nat, period : Nat, limit : Nat, uses : Nat]

Frames == [id : Tokens, pc : {"kids", "unindex", "drop"}, kids : SUBSET Tokens]

Steps == {"idle", "use", "save", "saved", "exhausted", "create", "renew", "self", "revoke",
          "accessor", "cubby", "put", "index", "unlist", "forget", "tree"}

RequestStates ==
  [pc : Steps, op : Ops \cup {"none"}, by : Tokens \cup {None}, target : Tokens \cup {None},
   copy : Records \cup {None}, stack : Seq(Frames), allowed : BOOLEAN]

\* The types of the stored entries and of the requests in flight; a stored use
\* count never exceeds the limit.
TypeOK == /\ tok \in [Tokens -> Records \cup {None}]
          /\ \A t \in Tokens : Present(t) => t \in ids /\ tok[t].uses <= tok[t].limit
          /\ acc \subseteq ids /\ cub \subseteq ids /\ ids \subseteq Tokens
          /\ kids \in [Tokens -> SUBSET ids]
          /\ req \in [Requests -> RequestStates]
          /\ gc \in [pc : {"idle", "next", "drop", "purge"}, todo : SUBSET ids,
                    cur : ids \cup {None}]
          /\ clock \in 0..MaxTime /\ revoked \subseteq ids

\* A revoked token works again only if a TrackUse or a RenewToken that had read
\* it before wrote it back: nothing else, neither the collector nor a second
\* revocation nor the creation of a child, revives a token.
OnlyWritersRevive ==
  \A t \in revoked : Present(t) => tok[t].limit # 0 \/ tok[t].renewable

\* Whatever interleaved, once nothing is in flight a stored token can be found by
\* its accessor and in its parent's children: it can be revoked both ways.
\* (Put ignores errors of its index writes; the model has no storage errors.)
IndexedWhenQuiet ==
  Quiet => \A t \in Tokens : Present(t) =>
             t \in acc /\ (tok[t].parent # None => t \in kids[tok[t].parent])

\* What a request holds at each step: an authenticated token, a target where the
\* operation has one, the record it is about to write (only TrackUse of a token
\* with a use limit and RenewToken of a renewable one write back what they read)
\* and the tokens its recursion has reached.
HoldsWhatItNeeds(r) ==
  LET q == req[r] IN
  /\ q.pc # "idle" => q.by \in ids /\ q.op \in Ops
  /\ q.op \in {"renew", "revoke", "accessor"} => q.target \in ids
  /\ q.pc \in {"renew", "revoke", "accessor"} => q.op = q.pc
  /\ q.pc \in {"unlist", "forget"} => q.op = "accessor"
  /\ q.pc \in {"put", "index"} => q.target \in ids
  /\ q.pc \in {"save", "saved", "put", "index"} => q.copy \in Records /\ q.copy.uses <= q.copy.limit
  /\ q.pc \in {"save", "saved"} => q.copy.limit # 0
  /\ q.pc = "put" => q.copy.renewable
  /\ q.pc = "tree" => q.stack # << >>
  /\ \A i \in DOMAIN q.stack : q.stack[i].id \in ids /\ q.stack[i].kids \subseteq ids
  /\ q.pc = "idle" => q.op = "none"

\* Request r has a copy of the record of t that it will store or index.
Carries(r, t) == \/ req[r].pc \in {"save", "saved"} /\ req[r].by = t
                 \/ req[r].pc \in {"put", "index"} /\ req[r].target = t

\* Two versions of one record: they differ in the use count and the expiry only.
SameToken(a, b) == /\ a.parent = b.parent /\ a.limit = b.limit /\ a.renewable = b.renewable
                   /\ a.cap = b.cap /\ a.period = b.period

\* The copies of a record in flight are versions of what is stored and of each
\* other, so that it does not matter for the indexes which one is written last.
CopiesAgree ==
  \A t \in Tokens, r \in Requests : Carries(r, t) =>
    /\ Present(t) => SameToken(req[r].copy, tok[t])
    /\ \A s \in Requests : Carries(s, t) => SameToken(req[r].copy, req[s].copy)

Indexed(t) == t \in acc /\ (tok[t].parent # None => t \in kids[tok[t].parent])

\* Request r still has to write the indexes of t, or to delete its record.
WillSettle(r, t) ==
  \/ req[r].pc \in {"saved", "exhausted"} /\ req[r].by = t
  \/ req[r].pc \in {"index", "forget"} /\ req[r].target = t
  \/ AtFrame(r, "drop") /\ Head(req[r].stack).id = t

\* A stored token that its indexes do not lead to is one that somebody is about
\* to index or to delete.
IndexedOrPending ==
  \A t \in Tokens : Present(t) =>
    Indexed(t) \/ (\E r \in Requests : WillSettle(r, t)) \/ (gc.pc = "drop" /\ gc.cur = t)

\* What holds in every state: well-formed records that never count more uses
\* than their limit, and indexes that lead to every stored token once nothing is
\* in flight; with what each request in flight knows and is about to write.
TokenInv == /\ TypeOK /\ IndexedWhenQuiet
            /\ \A r \in Requests : HoldsWhatItNeeds(r)
            /\ CopiesAgree /\ IndexedOrPending

\* A token that is not periodic "cannot be renewed past CreatedAt + maxTTL",
\* whichever of several concurrent writers of its record comes last.
RenewalCapped ==
  [][\A t \in Tokens : /\ Present(t) /\ tok'[t] # None
                       /\ tok[t].cap # 0 /\ tok[t].period = 0
                       /\ tok'[t].expires > tok[t].expires
                       => tok'[t].expires <= tok[t].cap]_vars

\* An expired token is deleted sooner or later, also when a request that was in
\* flight wrote it back after the collector had deleted it.
ExpiredCollected ==
  \A t \in Tokens : (Present(t) /\ Expired(t)) ~> (~Present(t) \/ ~Expired(t))

\* WithMaxUses "limits the token to n authenticated API calls".
UseLimit == \A t \in Tokens : Present(t) /\ tok[t].limit # 0 => granted[t] <= tok[t].limit

\* "When a parent is revoked, all non-orphan children are also revoked."
ChildrenRevoked ==
  Quiet => \A t \in Tokens : Present(t) => tok[t].parent \notin revoked

\* "All entries for a token are automatically purged when the token is revoked
\* or expires."
CubbyholePurged == Quiet => \A t \in cub : Present(t)
=============================================================================
