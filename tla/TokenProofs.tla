----------------------------- MODULE TokenProofs -----------------------------
(***************************************************************************)
(* TLAPS proofs about TokenStore, for any number of tokens, requests and   *)
(* kinds of token and any bound on the clock.                              *)
(***************************************************************************)
EXTENDS TokenStore, TLAPS

\* The inductive part of TokenInv: what follows from it is IndexedWhenQuiet.
Core == TypeOK /\ (\A r \in Requests : HoldsWhatItNeeds(r)) /\ CopiesAgree /\ IndexedOrPending

\* A step that changes the state of no request but r.
Only(r) == /\ req' \in [Requests -> RequestStates]
           /\ \A s \in Requests \ {r} : req'[s] = req[s]

\* The step leaves token t stored, indexed and about to be settled as it was.
Framed(t) == /\ tok'[t] = tok[t]
             /\ t \in acc => t \in acc'
             /\ \A p \in Tokens : t \in kids[p] => t \in kids'[p]
             /\ \A s \in Requests : WillSettle(s, t) => WillSettle(s, t)'
             /\ gc.pc = "drop" /\ gc.cur = t => gc'.pc = "drop" /\ gc'.cur = t

-----------------------------------------------------------------------------
(* Lemmas about the operators of the model.                                *)

\* Goto changes the step of one request and nothing else of it.
LEMMA GotoStep ==
  ASSUME req \in [Requests -> RequestStates], NEW r \in Requests, NEW pc \in Steps, Goto(r, pc)
  PROVE  /\ Only(r) /\ req'[r].pc = pc /\ req'[r].op = req[r].op /\ req'[r].by = req[r].by
         /\ req'[r].target = req[r].target /\ req'[r].copy = req[r].copy
         /\ req'[r].stack = req[r].stack /\ req'[r].allowed = req[r].allowed
<1>1. req[r] \in RequestStates OBVIOUS
<1>2. [req[r] EXCEPT !.pc = pc] \in RequestStates BY Zenon, <1>1 DEF RequestStates
<1>3. req' = [req EXCEPT ![r] = [req[r] EXCEPT !.pc = pc]] BY DEF Goto
<1>4. Only(r) BY <1>2, <1>3 DEF Only
<1>5. req'[r] = [req[r] EXCEPT !.pc = pc] BY <1>3
<1> QED BY <1>1, <1>4, <1>5 DEF RequestStates

\* The idle state is a request state.
LEMMA IdleType == Idle \in RequestStates /\ Idle.pc = "idle" /\ Idle.op = "none" /\ Idle.stack = << >>
BY DEF Idle, RequestStates, Steps

\* Done makes one request idle.
LEMMA DoneStep ==
  ASSUME req \in [Requests -> RequestStates], NEW r \in Requests, Done(r)
  PROVE  Only(r) /\ req'[r] = Idle /\ req'[r].pc = "idle" /\ HoldsWhatItNeeds(r)'
<1>1. Only(r) /\ req'[r] = Idle BY IdleType DEF Done, Only
<1>2. HoldsWhatItNeeds(r)' BY <1>1, IdleType DEF HoldsWhatItNeeds
<1> QED BY <1>1, <1>2, IdleType

\* The generated IDs only grow, so what the other requests hold is still right.
LEMMA OtherRequests ==
  ASSUME NEW r \in Requests, Only(r), ids \subseteq ids', HoldsWhatItNeeds(r)',
         \A s \in Requests : HoldsWhatItNeeds(s)
  PROVE  \A s \in Requests : HoldsWhatItNeeds(s)'
<1> SUFFICES ASSUME NEW s \in Requests, s # r PROVE HoldsWhatItNeeds(s)'
  OBVIOUS
<1>1. req'[s] = req[s] BY DEF Only
<1>2. HoldsWhatItNeeds(s) OBVIOUS
<1> QED BY <1>1, <1>2 DEF HoldsWhatItNeeds

\* A request that has not moved settles what it would have settled before.
LEMMA SameWill ==
  ASSUME NEW s \in Requests, NEW t \in Tokens, req'[s] = req[s]
  PROVE  (WillSettle(s, t)' <=> WillSettle(s, t)) /\ (Carries(s, t)' <=> Carries(s, t))
BY DEF WillSettle, AtFrame, Carries

\* The index invariant is kept when every stored token is framed or settled.
LEMMA SettleStep ==
  ASSUME TypeOK, IndexedOrPending,
         \A t \in Tokens : Present(t)' => \/ Indexed(t)'
                                          \/ \E s \in Requests : WillSettle(s, t)'
                                          \/ (gc.pc = "drop" /\ gc.cur = t)'
                                          \/ Framed(t)
  PROVE  IndexedOrPending'
<1> SUFFICES ASSUME NEW t \in Tokens, Present(t)', Framed(t)
             PROVE  \/ Indexed(t)' \/ (\E s \in Requests : WillSettle(s, t)')
                    \/ (gc.pc = "drop" /\ gc.cur = t)'
  BY DEF IndexedOrPending
<1>1. Present(t) /\ tok[t] \in Records BY DEF Framed, Present, TypeOK
<1>2. CASE Indexed(t)
  <2>1. tok[t].parent # None => tok[t].parent \in Tokens BY <1>1 DEF Records
  <2> QED BY <1>2, <2>1 DEF Indexed, Framed
<1>3. CASE \E s \in Requests : WillSettle(s, t)
  BY <1>3 DEF Framed
<1>4. CASE gc.pc = "drop" /\ gc.cur = t
  BY <1>4 DEF Framed
<1> QED BY <1>1, <1>2, <1>3, <1>4 DEF IndexedOrPending

\* Copies still agree after a step that writes no record and takes no new copy.
LEMMA NoNewCopies ==
  ASSUME CopiesAgree,
         \A t \in Tokens : Present(t)' => tok'[t] = tok[t],
         \A s \in Requests, t \in Tokens : Carries(s, t)' => Carries(s, t) /\ req'[s].copy = req[s].copy
  PROVE  CopiesAgree'
<1> SUFFICES ASSUME NEW t \in Tokens, NEW r \in Requests, Carries(r, t)'
             PROVE  /\ Present(t)' => SameToken(req'[r].copy, tok'[t])
                    /\ \A s \in Requests : Carries(s, t)' => SameToken(req'[r].copy, req'[s].copy)
  BY DEF CopiesAgree, SameToken
<1>1. Carries(r, t) /\ req'[r].copy = req[r].copy OBVIOUS
<1>2. ASSUME Present(t)' PROVE SameToken(req'[r].copy, tok'[t])
  <2>1. tok'[t] = tok[t] /\ Present(t) BY <1>2 DEF Present
  <2> QED BY <1>1, <2>1 DEF CopiesAgree
<1>3. ASSUME NEW s \in Requests, Carries(s, t)' PROVE SameToken(req'[r].copy, req'[s].copy)
  <2>1. Carries(s, t) /\ req'[s].copy = req[s].copy BY <1>3
  <2> QED BY <1>1, <2>1 DEF CopiesAgree
<1> QED BY <1>2, <1>3

-----------------------------------------------------------------------------
(* The steps of a request that change neither records nor indexes.         *)

\* Such a step keeps the types, what requests hold and the index invariant, if
\* the request had nothing to settle.
LEMMA RequestStep ==
  ASSUME Core, NEW r \in Requests, Only(r), HoldsWhatItNeeds(r)',
         UNCHANGED <<tok, acc, kids, ids, gc, clock, revoked>>, cub' \subseteq ids,
         \A t \in Tokens : ~WillSettle(r, t)
  PROVE  TypeOK' /\ (\A s \in Requests : HoldsWhatItNeeds(s)') /\ IndexedOrPending'
<1>1. TypeOK' BY DEF Core, TypeOK, Only, Present
<1>2. \A s \in Requests : HoldsWhatItNeeds(s)' BY OtherRequests DEF Core
<1>3. ASSUME NEW t \in Tokens PROVE Framed(t)
  <2>1. ASSUME NEW s \in Requests, WillSettle(s, t) PROVE WillSettle(s, t)'
    <3>1. s # r /\ req'[s] = req[s] BY <2>1 DEF Only
    <3> QED BY <2>1, <3>1, SameWill
  <2> QED BY <2>1 DEF Framed
<1> QED BY <1>1, <1>2, <1>3, SettleStep DEF Core

\* It keeps all of Core if the request carries no copy afterwards.
LEMMA RequestStepNoCopy ==
  ASSUME Core, NEW r \in Requests, Only(r), HoldsWhatItNeeds(r)',
         UNCHANGED <<tok, acc, kids, ids, gc, clock, revoked>>, cub' \subseteq ids,
         \A t \in Tokens : ~WillSettle(r, t) /\ ~Carries(r, t)'
  PROVE  Core'
<1>1. CopiesAgree'
  <2>1. ASSUME NEW s \in Requests, NEW t \in Tokens, Carries(s, t)'
        PROVE  Carries(s, t) /\ req'[s].copy = req[s].copy
    <3>1. s # r /\ req'[s] = req[s] BY <2>1 DEF Only
    <3> QED BY <2>1, <3>1, SameWill
  <2> QED BY <2>1, NoNewCopies DEF Core
<1> QED BY <1>1, RequestStep DEF Core

\* A refused or finished request.
LEMMA DoneRequest ==
  ASSUME Core, NEW r \in Requests, Done(r),
         UNCHANGED <<tok, acc, kids, ids, gc, clock, revoked>>, cub' \subseteq ids,
         \A t \in Tokens : ~WillSettle(r, t)
  PROVE  Core'
<1>1. Only(r) /\ HoldsWhatItNeeds(r)' /\ req'[r].pc = "idle" BY DoneStep DEF Core, TypeOK
<1>2. \A t \in Tokens : ~Carries(r, t)' BY <1>1 DEF Carries
<1> QED BY <1>1, <1>2, RequestStepNoCopy

\* Only requests at these steps, or at the last step of a frame, settle a token.
LEMMA NothingToSettle ==
  ASSUME NEW r \in Requests, req[r].pc \notin {"saved", "exhausted", "index", "forget", "tree"}
  PROVE  \A t \in Tokens : ~WillSettle(r, t)
BY DEF WillSettle, AtFrame

\* Authentication admits a request with a stored token and a generated target.
LEMMA AuthenticateStep ==
  ASSUME Core, NEW r \in Requests, NEW t \in Tokens, NEW op \in Ops, NEW target \in TargetsOf(op),
         Authenticate(r, t, op, target)
  PROVE  Core'
<1> DEFINE q == [Idle EXCEPT !.pc = "use", !.op = op, !.by = t, !.target = target]
<1>1. t \in ids /\ target \in ids \cup {None} /\ ids \subseteq Tokens
  BY DEF Authenticate, Valid, TargetsOf, Core, TypeOK
<1>2. q \in RequestStates /\ q.pc = "use" /\ q.op = op /\ q.by = t /\ q.target = target /\ q.stack = << >>
  BY Zenon, <1>1, IdleType DEF RequestStates, Steps, Idle
<1>3. req' = [req EXCEPT ![r] = q] /\ req \in [Requests -> RequestStates] BY DEF Authenticate, Core, TypeOK
<1> HIDE DEF q
<1>4. Only(r) /\ req'[r] = q BY <1>2, <1>3 DEF Only
<1>5. HoldsWhatItNeeds(r)'
  <2>1. ids' = ids BY DEF Authenticate, store
  <2>2. op \in {"renew", "revoke", "accessor"} => target \in ids BY DEF TargetsOf
  <2> QED BY <1>1, <1>2, <1>4, <2>1, <2>2 DEF HoldsWhatItNeeds
<1>6. \A u \in Tokens : ~WillSettle(r, u) /\ ~Carries(r, u)'
  BY <1>2, <1>4 DEF WillSettle, AtFrame, Carries, Authenticate
<1>7. UNCHANGED <<tok, acc, kids, ids, gc, clock, revoked, cub>> BY DEF Authenticate, store
<1> QED BY <1>4, <1>5, <1>6, <1>7, RequestStepNoCopy DEF Core, TypeOK

\* A request that is let through goes on to its handler, without a copy.
LEMMA GrantStep ==
  ASSUME Core, NEW r \in Requests, NEW t \in Tokens, NEW limited \in BOOLEAN,
         Grant(r, t, limited), req[r].pc \in {"use", "saved"}, ids' = ids
  PROVE  Only(r) /\ HoldsWhatItNeeds(r)' /\ \A u \in Tokens : ~Carries(r, u)'
<1>1. CASE req[r].op = "api"
  <2>1. Done(r) BY <1>1 DEF Grant
  <2>2. Only(r) /\ HoldsWhatItNeeds(r)' /\ req'[r].pc = "idle" BY <2>1, DoneStep DEF Core, TypeOK
  <2> QED BY <2>2 DEF Carries
<1>2. CASE req[r].op # "api"
  <2> DEFINE q == [req[r] EXCEPT !.pc = req[r].op, !.copy = None]
  <2>1. req[r] \in RequestStates /\ HoldsWhatItNeeds(r) BY DEF Core, TypeOK
  <2>2. req[r].op \in {"create", "renew", "self", "revoke", "accessor", "cubby"}
    BY Zenon, <1>2, <2>1, TokensAssumption DEF HoldsWhatItNeeds
  <2>3. q \in RequestStates BY Zenon, <2>1, <2>2 DEF RequestStates, Steps
  <2>4. /\ q.pc = req[r].op /\ q.op = req[r].op /\ q.by = req[r].by
        /\ q.target = req[r].target /\ q.stack = req[r].stack
    BY <2>1 DEF RequestStates
  <2>5. req' = [req EXCEPT ![r] = q] BY Zenon, <1>2 DEF Grant
  <2> HIDE DEF q
  <2>6. Only(r) /\ req'[r] = q BY Zenon, <2>3, <2>5 DEF Only, Core, TypeOK
  <2>7. HoldsWhatItNeeds(r)'
    <3>1. req[r].by \in ids /\ req[r].op \in Ops BY Zenon, <2>1 DEF HoldsWhatItNeeds
    <3> QED BY Zenon, <2>1, <2>2, <2>4, <2>6, <3>1 DEF HoldsWhatItNeeds
  <2>8. \A u \in Tokens : ~Carries(r, u)' BY <2>2, <2>4, <2>6 DEF Carries
  <2> QED BY <2>6, <2>7, <2>8
<1> QED BY <1>1, <1>2

\* Copies still agree after a request took a fresh copy of a stored record.
LEMMA TakesCopy ==
  ASSUME CopiesAgree, NEW r \in Requests, NEW u \in Tokens, Only(r), tok' = tok, Present(u),
         SameToken(req'[r].copy, tok[u]), \A t \in Tokens : Carries(r, t)' => t = u
  PROVE  CopiesAgree'
<1>1. ASSUME NEW s \in Requests \ {r}, NEW t \in Tokens, Carries(s, t)'
      PROVE  /\ Carries(s, t) /\ req'[s].copy = req[s].copy
             /\ Present(t) => SameToken(req'[s].copy, tok[t])
  <2>1. req'[s] = req[s] BY DEF Only
  <2>2. Carries(s, t) BY Zenon, <1>1, <2>1, SameWill
  <2> QED BY <2>1, <2>2 DEF CopiesAgree
<1> SUFFICES ASSUME NEW t \in Tokens, NEW s \in Requests, Carries(s, t)'
             PROVE  /\ Present(t) => SameToken(req'[s].copy, tok[t])
                    /\ \A v \in Requests : Carries(v, t)' => SameToken(req'[s].copy, req'[v].copy)
  BY DEF CopiesAgree, Present, SameToken
<1>2. Present(t) => SameToken(req'[s].copy, tok[t])
  BY <1>1
<1>3. ASSUME NEW v \in Requests, Carries(v, t)' PROVE SameToken(req'[s].copy, req'[v].copy)
  <2>1. CASE s = r \/ v = r
    <3>1. t = u BY <2>1, <1>3
    <3>2. SameToken(req'[s].copy, tok[u]) BY <3>1, <1>1
    <3>3. SameToken(req'[v].copy, tok[u]) BY <3>1, <1>1, <1>3
    <3> QED BY <3>2, <3>3 DEF SameToken
  <2>2. CASE s # r /\ v # r
    <3>1. Carries(s, t) /\ req'[s].copy = req[s].copy BY <2>2, <1>1
    <3>2. Carries(v, t) /\ req'[v].copy = req[v].copy BY <2>2, <1>1, <1>3
    <3> QED BY <3>1, <3>2 DEF CopiesAgree
  <2> QED BY <2>1, <2>2
<1> QED BY <1>2, <1>3

\* TrackUse takes the count that it will write back.
LEMMA TrackUseCounts ==
  ASSUME Core, NEW r \in Requests, req[r].pc = "use", Present(req[r].by),
         tok[req[r].by].limit # 0, tok[req[r].by].uses < tok[req[r].by].limit,
         req' = [req EXCEPT ![r].pc = "save", ![r].copy = [tok[req[r].by] EXCEPT !.uses = @ + 1]],
         UNCHANGED <<tok, acc, kids, cub, ids, gc, clock, revoked>>
  PROVE  Core'
<1> DEFINE t == req[r].by
           c == [tok[t] EXCEPT !.uses = @ + 1]
           q == [req[r] EXCEPT !.pc = "save", !.copy = c]
<1>1. req[r] \in RequestStates /\ HoldsWhatItNeeds(r) /\ req \in [Requests -> RequestStates]
  BY DEF Core, TypeOK
<1>2. t \in ids /\ t \in Tokens BY <1>1 DEF HoldsWhatItNeeds, Core, TypeOK
<1>3. tok[t] \in Records BY <1>2 DEF Core, TypeOK, Present
<1>4. c \in Records /\ c.uses = tok[t].uses + 1 /\ c.limit = tok[t].limit /\ SameToken(c, tok[t])
  BY <1>3 DEF Records, SameToken
<1>5. req' = [req EXCEPT ![r] = q] BY Zenon
<1> HIDE DEF c
<1>6. /\ q \in RequestStates /\ q.pc = "save" /\ q.copy = c /\ q.op = req[r].op /\ q.by = t
      /\ q.target = req[r].target /\ q.stack = req[r].stack
  BY Zenon, <1>1, <1>4 DEF RequestStates, Steps
<1> HIDE DEF q
<1>7. Only(r) /\ req'[r] = q BY Zenon, <1>1, <1>5, <1>6 DEF Only
<1>8. HoldsWhatItNeeds(r)'
  <2>1. c.uses <= c.limit /\ c.limit # 0 BY <1>3, <1>4 DEF Records
  <2>2. ids' = ids /\ req[r].op \in Ops BY <1>1 DEF HoldsWhatItNeeds
  <2>3. /\ req[r].op \in {"renew", "revoke", "accessor"} => req[r].target \in ids
        /\ \A i \in DOMAIN req[r].stack : req[r].stack[i].id \in ids /\ req[r].stack[i].kids \subseteq ids
    BY <1>1 DEF HoldsWhatItNeeds
  <2> HIDE DEF t
  <2> QED BY Zenon, <1>2, <1>4, <1>6, <1>7, <2>1, <2>2, <2>3 DEF HoldsWhatItNeeds
<1>9. \A u \in Tokens : Carries(r, u)' => u = t BY <1>6, <1>7 DEF Carries
<1>10. CopiesAgree' BY Zenon, <1>2, <1>4, <1>6, <1>7, <1>9, TakesCopy DEF Core
<1>11. cub' \subseteq ids BY DEF Core, TypeOK
<1> QED BY <1>7, <1>8, <1>10, <1>11, NothingToSettle, RequestStep DEF Core

\* The access check only marks the request as allowed, or ends it.
LEMMA EnforceAccessStep ==
  ASSUME Core, NEW r \in Requests, EnforceAccess(r)
  PROVE  Core'
<1>1. req[r].pc \in {"create", "renew", "revoke", "accessor"} BY DEF EnforceAccess
<1>2. \A t \in Tokens : ~WillSettle(r, t) BY <1>1, NothingToSettle
<1>3. UNCHANGED <<tok, acc, kids, ids, gc, clock, revoked, cub>> /\ cub' \subseteq ids
  BY DEF EnforceAccess, Refused, store, Core, TypeOK
<1>4. CASE Refused(r)
  BY <1>2, <1>3, <1>4, DoneRequest DEF Refused
<1>5. CASE req' = [req EXCEPT ![r].allowed = TRUE]
  <2> DEFINE q == [req[r] EXCEPT !.allowed = TRUE]
  <2>1. req[r] \in RequestStates /\ HoldsWhatItNeeds(r) BY DEF Core, TypeOK
  <2>2. /\ q \in RequestStates /\ q.pc = req[r].pc /\ q.op = req[r].op /\ q.by = req[r].by
        /\ q.target = req[r].target /\ q.stack = req[r].stack /\ q.copy = req[r].copy
    BY Zenon, <2>1 DEF RequestStates
  <2>3. req' = [req EXCEPT ![r] = q] BY <1>5
  <2> HIDE DEF q
  <2>4. Only(r) /\ req'[r] = q BY <2>2, <2>3 DEF Only, Core, TypeOK
  <2>5. HoldsWhatItNeeds(r)' BY <1>3, <2>1, <2>2, <2>4 DEF HoldsWhatItNeeds
  <2>6. \A t \in Tokens : ~Carries(r, t)' BY <1>1, <2>2, <2>4 DEF Carries
  <2> QED BY <1>2, <1>3, <2>4, <2>5, <2>6, RequestStepNoCopy
<1> QED BY <1>4, <1>5 DEF EnforceAccess

\* Cubbyholes belong to tokens that were generated.
LEMMA CubbyholePutStep ==
  ASSUME Core, NEW r \in Requests, CubbyholePut(r)
  PROVE  Core'
<1>1. HoldsWhatItNeeds(r) /\ cub \subseteq ids BY DEF Core, TypeOK
<1>2. req[r].by \in ids BY <1>1 DEF HoldsWhatItNeeds, CubbyholePut
<1>3. cub' \subseteq ids BY Zenon, <1>1, <1>2 DEF CubbyholePut
<1>4. \A t \in Tokens : ~WillSettle(r, t) BY Zenon, NothingToSettle DEF CubbyholePut
<1> QED BY <1>3, <1>4, DoneRequest DEF CubbyholePut

\* A new expiry is a time.
LEMMA NewExpiryType ==
  ASSUME NEW rec \in Records, clock \in 0..MaxTime
  PROVE  NewExpiry(rec) \in Nat
<1>1. MaxTime \in Nat BY TokensAssumption
<1> QED BY <1>1 DEF NewExpiry, Records

\* RenewToken takes a copy of a renewable record, with a new expiry.
LEMMA RenewTokenStep ==
  ASSUME Core, NEW r \in Requests, RenewToken(r)
  PROVE  Core'
<1> DEFINE t == IF req[r].pc = "self" THEN req[r].by ELSE req[r].target
           c == [tok[t] EXCEPT !.expires = NewExpiry(tok[t])]
           q == [req[r] EXCEPT !.pc = "put", !.target = t, !.copy = c]
<1>1. req[r] \in RequestStates /\ HoldsWhatItNeeds(r) /\ req \in [Requests -> RequestStates]
  BY DEF Core, TypeOK
<1>2. req[r].pc \in {"self", "renew"} BY DEF RenewToken
<1>3. \A u \in Tokens : ~WillSettle(r, u) BY <1>2, NothingToSettle
<1>4. UNCHANGED <<tok, acc, kids, ids, gc, clock, revoked, cub>> /\ cub' \subseteq ids
  BY DEF RenewToken, store, Core, TypeOK
<1>5. CASE Done(r)
  BY <1>3, <1>4, <1>5, DoneRequest
<1>6. CASE Valid(t) /\ tok[t].renewable /\ req' = [req EXCEPT ![r] = q]
  <2>1. t \in ids /\ t \in Tokens
    <3>1. t \in ids BY <1>1, <1>2 DEF HoldsWhatItNeeds
    <3> QED BY <3>1 DEF Core, TypeOK
  <2> HIDE DEF t
  <2>2. Present(t) /\ tok[t] \in Records /\ tok[t].uses <= tok[t].limit /\ clock \in 0..MaxTime
    BY <1>6, <2>1 DEF Valid, Core, TypeOK, Present
  <2>3. /\ c \in Records /\ c.uses = tok[t].uses /\ c.limit = tok[t].limit
        /\ c.renewable = tok[t].renewable /\ SameToken(c, tok[t])
    BY <2>2, NewExpiryType DEF Records, SameToken
  <2> HIDE DEF c
  <2>4. /\ q \in RequestStates /\ q.pc = "put" /\ q.copy = c /\ q.op = req[r].op
        /\ q.by = req[r].by /\ q.target = t /\ q.stack = req[r].stack
    BY Zenon, <1>1, <2>1, <2>3 DEF RequestStates, Steps
  <2> HIDE DEF q
  <2>5. Only(r) /\ req'[r] = q BY <1>1, <1>6, <2>4 DEF Only
  <2>6. HoldsWhatItNeeds(r)'
    <3>1. /\ req[r].by \in ids /\ req[r].op \in Ops
          /\ \A i \in DOMAIN req[r].stack : req[r].stack[i].id \in ids /\ req[r].stack[i].kids \subseteq ids
      BY <1>1, <1>2 DEF HoldsWhatItNeeds
    <3>2. c.uses <= c.limit BY <2>2, <2>3
    <3>3. c.renewable BY <1>6, <2>3
    <3> QED BY <1>4, <2>1, <2>3, <2>4, <2>5, <3>1, <3>2, <3>3 DEF HoldsWhatItNeeds
  <2>7. \A u \in Tokens : Carries(r, u)' => u = t BY <2>4, <2>5 DEF Carries
  <2>8. CopiesAgree' BY <1>4, <2>1, <2>2, <2>3, <2>4, <2>5, <2>7, TakesCopy DEF Core
  <2> QED BY <1>3, <1>4, <2>5, <2>6, <2>8, RequestStep DEF Core
<1>7. Done(r) \/ (Valid(t) /\ tok[t].renewable /\ req' = [req EXCEPT ![r] = q])
  BY Zenon DEF RenewToken
<1> QED BY <1>5, <1>6, <1>7

\* RevokeTokenByAccessor purges the cubbyhole of the token it found.
LEMMA AccessorPurgeStep ==
  ASSUME Core, NEW r \in Requests, AccessorPurge(r)
  PROVE  Core'
<1>1. req \in [Requests -> RequestStates] /\ HoldsWhatItNeeds(r) BY DEF Core, TypeOK
<1>2. Goto(r, "unlist") /\ "unlist" \in Steps BY DEF AccessorPurge, Steps
<1>3. /\ Only(r) /\ req'[r].pc = "unlist" /\ req'[r].op = req[r].op /\ req'[r].by = req[r].by
      /\ req'[r].target = req[r].target /\ req'[r].stack = req[r].stack
  BY <1>1, <1>2, GotoStep
<1>4. UNCHANGED <<tok, acc, kids, ids, gc, clock, revoked>> /\ cub' \subseteq ids /\ req[r].pc = "accessor"
  BY Zenon DEF AccessorPurge, Core, TypeOK
<1>5. HoldsWhatItNeeds(r)' BY Zenon, <1>1, <1>3, <1>4 DEF HoldsWhatItNeeds
<1>6. \A t \in Tokens : ~WillSettle(r, t) /\ ~Carries(r, t)'
  BY <1>3, <1>4, NothingToSettle DEF Carries
<1> QED BY <1>3, <1>4, <1>5, <1>6, RequestStepNoCopy

\* A frame of the recursion lists children that were generated.
LEMMA FrameType ==
  ASSUME TypeOK, NEW t \in ids
  PROVE  Frame(t) \in Frames /\ Frame(t).id = t /\ Frame(t).kids \subseteq ids /\ Frame(t).pc = "kids"
BY Zenon DEF Frame, Frames, TypeOK

\* What the stack of a recursion in progress looks like.
LEMMA StackTop ==
  ASSUME Core, NEW r \in Requests, req[r].pc = "tree"
  PROVE  /\ req[r].stack \in Seq(Frames) /\ req[r].stack # << >>
         /\ Head(req[r].stack) = req[r].stack[1] /\ 1 \in DOMAIN req[r].stack
         /\ Head(req[r].stack) \in Frames /\ Head(req[r].stack).id \in ids
         /\ Head(req[r].stack).kids \subseteq ids
<1>1. req[r] \in RequestStates /\ HoldsWhatItNeeds(r) BY DEF Core, TypeOK
<1>2. req[r].stack \in Seq(Frames) /\ req[r].stack # << >>
  BY <1>1 DEF RequestStates, HoldsWhatItNeeds
<1>3. /\ Head(req[r].stack) = req[r].stack[1] /\ 1 \in DOMAIN req[r].stack
      /\ req[r].stack[1] \in Frames
  BY <1>2
<1> QED BY <1>1, <1>2, <1>3 DEF HoldsWhatItNeeds

\* Replacing the stack of a request, its step being "tree" before or after.
LEMMA StackStep ==
  ASSUME Core, NEW r \in Requests, NEW st \in Seq(Frames), st # << >>, ids' = ids,
         req[r].pc \in {"revoke", "tree"},
         req' = [req EXCEPT ![r] = [req[r] EXCEPT !.pc = "tree", !.stack = st]],
         \A i \in DOMAIN st : st[i].id \in ids /\ st[i].kids \subseteq ids
  PROVE  /\ Only(r) /\ req'[r].pc = "tree" /\ req'[r].stack = st /\ HoldsWhatItNeeds(r)'
         /\ \A t \in Tokens : ~Carries(r, t)'
<1> DEFINE q == [req[r] EXCEPT !.pc = "tree", !.stack = st]
<1>1. req[r] \in RequestStates /\ HoldsWhatItNeeds(r) /\ req \in [Requests -> RequestStates]
  BY DEF Core, TypeOK
<1>2. /\ q \in RequestStates /\ q.pc = "tree" /\ q.stack = st /\ q.op = req[r].op
      /\ q.by = req[r].by /\ q.target = req[r].target
  BY Zenon, <1>1 DEF RequestStates, Steps
<1> HIDE DEF q
<1>3. Only(r) /\ req'[r] = q BY <1>1, <1>2 DEF Only, q
<1>4. req[r].by \in ids /\ req[r].op \in Ops BY <1>1 DEF HoldsWhatItNeeds
<1>5. HoldsWhatItNeeds(r)' BY <1>1, <1>2, <1>3, <1>4 DEF HoldsWhatItNeeds
<1> QED BY <1>2, <1>3, <1>5 DEF Carries

\* The recursion starts at the target.
LEMMA RevokeTreeStep ==
  ASSUME Core, NEW r \in Requests, RevokeTree(r)
  PROVE  Core'
<1> DEFINE st == << Frame(req[r].target) >>
<1>1. req[r] \in RequestStates /\ HoldsWhatItNeeds(r) /\ TypeOK BY DEF Core, TypeOK
<1>2. req[r].pc = "revoke" /\ req[r].target \in ids BY <1>1 DEF RevokeTree, HoldsWhatItNeeds
<1>3. /\ Frame(req[r].target) \in Frames /\ Frame(req[r].target).id \in ids
      /\ Frame(req[r].target).kids \subseteq ids
  BY <1>1, <1>2, FrameType
<1>4. /\ st \in Seq(Frames) /\ st # << >>
      /\ \A i \in DOMAIN st : st[i].id \in ids /\ st[i].kids \subseteq ids
  BY <1>3
<1>5. req' = [req EXCEPT ![r] = [req[r] EXCEPT !.pc = "tree", !.stack = st]] BY Zenon DEF RevokeTree
<1>6. UNCHANGED <<tok, acc, kids, ids, gc, clock, revoked>> /\ cub' \subseteq ids
  BY DEF RevokeTree, store, Core, TypeOK
<1> HIDE DEF st
<1>7. Only(r) /\ HoldsWhatItNeeds(r)' /\ \A t \in Tokens : ~Carries(r, t)'
  BY Zenon, <1>2, <1>4, <1>5, <1>6, StackStep
<1> QED BY <1>2, <1>6, <1>7, NothingToSettle, RequestStepNoCopy

\* The recursion goes down to a child that the frame on top listed.
LEMMA TreeDescendStep ==
  ASSUME Core, NEW r \in Requests, NEW t \in Tokens, TreeDescend(r, t)
  PROVE  Core'
<1> DEFINE s == req[r].stack
           top == [Head(s) EXCEPT !.kids = @ \ {t}]
           st == << Frame(t), top >> \o Tail(s)
<1>1. req[r] \in RequestStates /\ HoldsWhatItNeeds(r) /\ TypeOK /\ req[r].pc = "tree"
  BY DEF Core, TypeOK, TreeDescend, AtFrame
<1>2. /\ s \in Seq(Frames) /\ s # << >> /\ Head(s) \in Frames
      /\ Head(s).id \in ids /\ Head(s).kids \subseteq ids
  BY <1>1, StackTop
<1>3. t \in ids BY <1>2 DEF TreeDescend
<1>4. Frame(t) \in Frames /\ Frame(t).id \in ids /\ Frame(t).kids \subseteq ids
  BY <1>1, <1>3, FrameType
<1>5. top \in Frames /\ top.id \in ids /\ top.kids \subseteq ids BY <1>2 DEF Frames
<1>6. \A i \in DOMAIN s : s[i].id \in ids /\ s[i].kids \subseteq ids BY <1>1 DEF HoldsWhatItNeeds
<1>7. req' = [req EXCEPT ![r].stack = st] BY DEF TreeDescend
<1>8. req' = [req EXCEPT ![r] = [req[r] EXCEPT !.pc = "tree", !.stack = st]]
  <2>1. [req[r] EXCEPT !.stack = st] = [req[r] EXCEPT !.pc = "tree", !.stack = st]
    BY Zenon, <1>1 DEF RequestStates
  <2> QED BY Zenon, <1>7, <2>1
<1>9. UNCHANGED <<tok, acc, kids, ids, gc, clock, revoked>> /\ cub' \subseteq ids
  BY DEF TreeDescend, store, Core, TypeOK
<1> HIDE DEF top, s
<1>10. /\ st \in Seq(Frames) /\ st # << >>
       /\ \A i \in DOMAIN st : st[i].id \in ids /\ st[i].kids \subseteq ids
  <2>1. Tail(s) \in Seq(Frames) /\ Len(Tail(s)) = Len(s) - 1 /\ \A i \in 1..Len(Tail(s)) : Tail(s)[i] = s[i + 1]
    BY <1>2
  <2>2. st \in Seq(Frames) /\ st # << >> /\ Len(st) = 1 + Len(s) BY <1>2, <1>4, <1>5, <2>1
  <2>3. st[1] = Frame(t) /\ st[2] = top /\ \A i \in 3..Len(st) : st[i] = s[i - 1]
    BY <1>2, <1>4, <1>5, <2>1, <2>2
  <2>4. ASSUME NEW i \in DOMAIN st PROVE st[i].id \in ids /\ st[i].kids \subseteq ids
    <3>1. i \in 1..Len(st) BY <2>2
    <3>2. CASE i = 1 BY <3>2, <2>3, <1>4
    <3>3. CASE i = 2 BY <3>3, <2>3, <1>5
    <3>4. CASE i \in 3..Len(st)
      <4>1. i - 1 \in DOMAIN s BY <3>4, <2>2, <1>2
      <4>2. st[i] = s[i - 1] BY <2>3, <3>4
      <4> QED BY <4>1, <4>2, <1>6
    <3> QED BY <3>1, <3>2, <3>3, <3>4, <2>2
  <2> QED BY <2>2, <2>4
<1> HIDE DEF st
<1>11. Only(r) /\ HoldsWhatItNeeds(r)' /\ \A u \in Tokens : ~Carries(r, u)'
  BY Zenon, <1>1, <1>8, <1>9, <1>10, StackStep
<1>12. \A u \in Tokens : ~WillSettle(r, u) BY Zenon, <1>1 DEF WillSettle, AtFrame, TreeDescend
<1> QED BY <1>9, <1>11, <1>12, RequestStepNoCopy

\* Moving the frame on top to its next step.
LEMMA FrameGotoStep ==
  ASSUME Core, NEW r \in Requests, NEW pc \in {"unindex", "drop"}, req[r].pc = "tree",
         FrameGoto(r, pc), ids' = ids
  PROVE  /\ Only(r) /\ req'[r].pc = "tree" /\ HoldsWhatItNeeds(r)' /\ \A u \in Tokens : ~Carries(r, u)'
         /\ Head(req'[r].stack).pc = pc /\ Head(req'[r].stack).id = Head(req[r].stack).id
<1> DEFINE s == req[r].stack
           top == [s[1] EXCEPT !.pc = pc]
           st == [s EXCEPT ![1] = top]
<1>1. req[r] \in RequestStates /\ HoldsWhatItNeeds(r) BY DEF Core, TypeOK
<1>2. /\ s \in Seq(Frames) /\ s # << >> /\ Head(s) = s[1] /\ 1 \in DOMAIN s /\ s[1] \in Frames
      /\ s[1].id \in ids /\ s[1].kids \subseteq ids
  BY StackTop
<1>3. top \in Frames /\ top.pc = pc /\ top.id = s[1].id /\ top.kids = s[1].kids BY <1>2 DEF Frames
<1>4. req' = [req EXCEPT ![r].stack = st] BY DEF FrameGoto
<1>5. req' = [req EXCEPT ![r] = [req[r] EXCEPT !.pc = "tree", !.stack = st]]
  <2>1. [req[r] EXCEPT !.stack = st] = [req[r] EXCEPT !.pc = "tree", !.stack = st]
    BY Zenon, <1>1 DEF RequestStates
  <2> QED BY Zenon, <1>4, <2>1
<1>6. \A i \in DOMAIN s : s[i].id \in ids /\ s[i].kids \subseteq ids BY <1>1 DEF HoldsWhatItNeeds
<1> HIDE DEF top, s
<1>7. /\ st \in Seq(Frames) /\ st # << >> /\ Head(st) = top
      /\ \A i \in DOMAIN st : i \in DOMAIN s /\ (i = 1 => st[i] = top) /\ (i # 1 => st[i] = s[i])
  BY <1>2, <1>3
<1>8. \A i \in DOMAIN st : st[i].id \in ids /\ st[i].kids \subseteq ids
  BY <1>2, <1>3, <1>6, <1>7
<1> HIDE DEF st
<1>9. /\ Only(r) /\ req'[r].pc = "tree" /\ req'[r].stack = st /\ HoldsWhatItNeeds(r)'
      /\ \A t \in Tokens : ~Carries(r, t)'
  BY Zenon, <1>5, <1>7, <1>8, StackStep
<1> QED BY <1>2, <1>3, <1>7, <1>9 DEF s

\* The recursion purges the cubbyhole of a token whose children are done.
LEMMA TreePurgeStep ==
  ASSUME Core, NEW r \in Requests, TreePurge(r)
  PROVE  Core'
<1>1. req[r].pc = "tree" /\ FrameGoto(r, "unindex") /\ ids' = ids BY DEF TreePurge, AtFrame
<1>2. Only(r) /\ HoldsWhatItNeeds(r)' /\ \A u \in Tokens : ~Carries(r, u)'
  BY <1>1, FrameGotoStep
<1>3. \A u \in Tokens : ~WillSettle(r, u) BY <1>1 DEF WillSettle, AtFrame, TreePurge
<1>4. UNCHANGED <<tok, acc, kids, ids, gc, clock, revoked>> /\ cub' \subseteq ids
  BY DEF TreePurge, Core, TypeOK
<1> QED BY <1>2, <1>3, <1>4, RequestStepNoCopy

-----------------------------------------------------------------------------
(* The steps that delete a record or its index entries.                    *)

\* What the other requests are about to settle does not change.
LEMMA WillsKept ==
  ASSUME NEW r \in Requests, NEW t \in Tokens, Only(r), WillSettle(r, t) => WillSettle(r, t)'
  PROVE  \A s \in Requests : WillSettle(s, t) => WillSettle(s, t)'
<1> SUFFICES ASSUME NEW s \in Requests, s # r, WillSettle(s, t) PROVE WillSettle(s, t)'
  OBVIOUS
<1>1. req'[s] = req[s] BY DEF Only
<1> QED BY <1>1, SameWill

\* Copies agree after a step that writes no record and leaves its request without one.
LEMMA CopiesDropped ==
  ASSUME CopiesAgree, NEW r \in Requests, Only(r), \A u \in Tokens : ~Carries(r, u)',
         \A t \in Tokens : Present(t)' => tok'[t] = tok[t]
  PROVE  CopiesAgree'
<1>1. ASSUME NEW s \in Requests, NEW t \in Tokens, Carries(s, t)'
      PROVE  Carries(s, t) /\ req'[s].copy = req[s].copy
  <2>1. s # r /\ req'[s] = req[s] BY <1>1 DEF Only
  <2> QED BY <1>1, <2>1, SameWill
<1> QED BY <1>1, NoNewCopies

\* A record is deleted by a request that had it to delete.
LEMMA DropStep ==
  ASSUME Core, NEW r \in Requests, NEW t \in ids, DropRecord(t), Only(r), HoldsWhatItNeeds(r)',
         \A u \in Tokens : ~Carries(r, u)' /\ (WillSettle(r, u) => u = t \/ WillSettle(r, u)'),
         UNCHANGED <<acc, kids, cub, ids, gc, clock>>, revoked' \subseteq ids
  PROVE  Core'
<1>1. t \in Tokens /\ tok \in [Tokens -> Records \cup {None}] BY DEF Core, TypeOK
<1>2. \A u \in Tokens : Present(u)' => u # t /\ tok'[u] = tok[u] BY <1>1 DEF DropRecord, Present
<1>3. TypeOK'
  <2>1. tok' \in [Tokens -> Records \cup {None}] BY <1>1 DEF DropRecord
  <2>2. \A u \in Tokens : Present(u)' => u \in ids' /\ tok'[u].uses <= tok'[u].limit
    BY <1>2 DEF Core, TypeOK, Present
  <2> QED BY <2>1, <2>2 DEF Core, TypeOK, Only
<1>4. \A s \in Requests : HoldsWhatItNeeds(s)' BY Zenon, OtherRequests DEF Core
<1>5. CopiesAgree' BY Zenon, <1>2, CopiesDropped DEF Core
<1>6. ASSUME NEW u \in Tokens, Present(u)' PROVE Framed(u)
  <2>1. u # t /\ tok'[u] = tok[u] BY <1>2, <1>6
  <2>2. \A s \in Requests : WillSettle(s, u) => WillSettle(s, u)' BY <2>1, WillsKept
  <2> QED BY <2>1, <2>2 DEF Framed
<1>7. IndexedOrPending' BY <1>6, SettleStep DEF Core
<1> QED BY <1>3, <1>4, <1>5, <1>7 DEF Core

\* DropIndexes removes index entries of one token, if its record is stored.
LEMMA DropIndexesEffect ==
  ASSUME TypeOK, NEW t \in ids, DropIndexes(t)
  PROVE  /\ acc' \subseteq ids /\ kids' \in [Tokens -> SUBSET ids]
         /\ ~Present(t) => acc' = acc /\ kids' = kids
         /\ \A u \in Tokens \ {t} : (u \in acc => u \in acc') /\ \A p \in Tokens : u \in kids[p] => u \in kids'[p]
<1>1. CASE ~Present(t) BY <1>1 DEF DropIndexes, TypeOK
<1>2. CASE Present(t)
  <2>1. tok[t] \in Records /\ acc \subseteq ids /\ kids \in [Tokens -> SUBSET ids] /\ t \in Tokens
    BY <1>2 DEF TypeOK, Present
  <2>2. acc' = acc \ {t} /\ kids' = IF tok[t].parent = None THEN kids
                                    ELSE [kids EXCEPT ![tok[t].parent] = @ \ {t}]
    BY <1>2 DEF DropIndexes
  <2> QED BY Zenon, <1>2, <2>1, <2>2
<1> QED BY <1>1, <1>2

\* The indexes of a token are emptied by a request that will delete its record.
LEMMA UnindexStep ==
  ASSUME Core, NEW r \in Requests, NEW t \in ids, DropIndexes(t), Only(r), HoldsWhatItNeeds(r)',
         WillSettle(r, t)', \A u \in Tokens : ~Carries(r, u)' /\ ~WillSettle(r, u),
         UNCHANGED <<tok, cub, ids, gc, clock, revoked>>
  PROVE  Core'
<1>1. TypeOK BY DEF Core
<1>2. /\ acc' \subseteq ids /\ kids' \in [Tokens -> SUBSET ids]
      /\ \A u \in Tokens \ {t} : (u \in acc => u \in acc') /\ \A p \in Tokens : u \in kids[p] => u \in kids'[p]
  BY <1>1, DropIndexesEffect
<1>3. TypeOK' BY <1>1, <1>2 DEF TypeOK, Only, Present
<1>4. \A s \in Requests : HoldsWhatItNeeds(s)' BY OtherRequests DEF Core
<1>5. CopiesAgree' BY Zenon, CopiesDropped DEF Core
<1>6. ASSUME NEW u \in Tokens \ {t} PROVE Framed(u)
  <2>1. \A s \in Requests : WillSettle(s, u) => WillSettle(s, u)' BY WillsKept
  <2> QED BY <1>2, <2>1 DEF Framed
<1>7. IndexedOrPending' BY <1>6, SettleStep DEF Core
<1> QED BY <1>3, <1>4, <1>5, <1>7 DEF Core

\* TrackUse: every path of it.
LEMMA TrackUseStep ==
  ASSUME Core, NEW r \in Requests, TrackUse(r)
  PROVE  Core'
<1> DEFINE t == req[r].by
<1>1. req \in [Requests -> RequestStates] /\ HoldsWhatItNeeds(r) /\ cub \subseteq ids /\ ids \subseteq Tokens
  BY DEF Core, TypeOK
<1>2. req[r].pc = "use" /\ UNCHANGED <<gc, clock>> BY DEF TrackUse
<1>3. t \in ids /\ t \in Tokens BY <1>1, <1>2 DEF HoldsWhatItNeeds
<1>4. \A u \in Tokens : ~WillSettle(r, u) BY <1>2, NothingToSettle
<1>5. CASE Refused(r)
  BY <1>1, <1>2, <1>4, <1>5, DoneRequest DEF Refused, store
<1>6. CASE Grant(r, t, FALSE) /\ UNCHANGED revoked /\ UNCHANGED store
  <2>1. UNCHANGED <<tok, acc, kids, ids, gc, clock, revoked>> /\ cub' \subseteq ids
    BY <1>1, <1>2, <1>6 DEF store
  <2>2. Only(r) /\ HoldsWhatItNeeds(r)' /\ \A u \in Tokens : ~Carries(r, u)'
    BY Zenon, <1>2, <1>3, <1>6, <2>1, GrantStep
  <2> QED BY <1>4, <2>1, <2>2, RequestStepNoCopy
<1>7. CASE /\ Present(t) /\ tok[t].limit # 0 /\ tok[t].uses < tok[t].limit
           /\ req' = [req EXCEPT ![r].pc = "save", ![r].copy = [tok[t] EXCEPT !.uses = @ + 1]]
           /\ UNCHANGED <<granted, revoked>> /\ UNCHANGED store
  BY Zenon, <1>2, <1>7, TrackUseCounts DEF store
<1>8. CASE /\ DropIndexes(t) /\ Goto(r, "exhausted")
           /\ UNCHANGED <<tok, cub, ids, granted, revoked>>
  <2>1. /\ Only(r) /\ req'[r].pc = "exhausted" /\ req'[r].op = req[r].op /\ req'[r].by = t
        /\ req'[r].target = req[r].target /\ req'[r].stack = req[r].stack
    BY <1>1, <1>8, GotoStep DEF Steps
  <2>2. HoldsWhatItNeeds(r)' BY Zenon, <1>1, <1>2, <1>8, <2>1 DEF HoldsWhatItNeeds
  <2>3. WillSettle(r, t)' BY <2>1 DEF WillSettle
  <2>4. \A u \in Tokens : ~Carries(r, u)' BY Zenon, <2>1 DEF Carries
  <2> QED BY Zenon, <1>2, <1>3, <1>4, <1>8, <2>1, <2>2, <2>3, <2>4, UnindexStep
<1> QED BY Zenon, <1>5, <1>6, <1>7, <1>8 DEF TrackUse

\* An exhausted token is deleted.
LEMMA ExhaustedStep ==
  ASSUME Core, NEW r \in Requests, Exhausted(r)
  PROVE  Core'
<1>1. req \in [Requests -> RequestStates] /\ HoldsWhatItNeeds(r) /\ revoked \subseteq ids BY Zenon DEF Core, TypeOK
<1>2. /\ req[r].pc = "exhausted" /\ DropRecord(req[r].by) /\ Done(r)
      /\ UNCHANGED <<acc, kids, cub, ids, gc, clock, revoked>>
  BY Zenon DEF Exhausted
<1>3. req[r].by \in ids BY <1>1, <1>2 DEF HoldsWhatItNeeds
<1>4. Only(r) /\ HoldsWhatItNeeds(r)' /\ req'[r].pc = "idle" BY <1>1, <1>2, DoneStep
<1>5. \A u \in Tokens : ~Carries(r, u)' /\ (WillSettle(r, u) => u = req[r].by)
  BY Zenon, <1>2, <1>4 DEF Carries, WillSettle, AtFrame
<1> QED BY <1>1, <1>2, <1>3, <1>4, <1>5, DropStep

\* A token revoked by accessor is deleted.
LEMMA AccessorForgetStep ==
  ASSUME Core, NEW r \in Requests, AccessorForget(r)
  PROVE  Core'
<1>1. req \in [Requests -> RequestStates] /\ HoldsWhatItNeeds(r) /\ revoked \subseteq ids BY DEF Core, TypeOK
<1>2. /\ req[r].pc = "forget" /\ DropRecord(req[r].target) /\ Done(r)
      /\ UNCHANGED <<acc, kids, cub, ids, gc, clock>> /\ revoked' = revoked \cup {req[r].target}
  BY DEF AccessorForget
<1>3. req[r].target \in ids BY Zenon, <1>1, <1>2 DEF HoldsWhatItNeeds
<1>4. Only(r) /\ HoldsWhatItNeeds(r)' /\ req'[r].pc = "idle" BY <1>1, <1>2, DoneStep
<1>5. \A u \in Tokens : ~Carries(r, u)' /\ (WillSettle(r, u) => u = req[r].target)
  BY <1>2, <1>4 DEF Carries, WillSettle, AtFrame
<1> QED BY <1>1, <1>2, <1>3, <1>4, <1>5, DropStep

\* The accessor entry of a token is removed by the request that will delete it.
LEMMA AccessorUnlistStep ==
  ASSUME Core, NEW r \in Requests, AccessorUnlist(r)
  PROVE  Core'
<1> DEFINE t == req[r].target
<1>1. req \in [Requests -> RequestStates] /\ HoldsWhatItNeeds(r) /\ TypeOK BY DEF Core, TypeOK
<1>2. /\ req[r].pc = "unlist" /\ acc' = acc \ {t}
      /\ UNCHANGED <<tok, kids, cub, ids, gc, clock, revoked>>
  BY DEF AccessorUnlist
<1>3. t \in ids /\ t \in Tokens BY Zenon, <1>1, <1>2 DEF HoldsWhatItNeeds, TypeOK
<1>4. \A u \in Tokens : ~WillSettle(r, u) BY <1>2, NothingToSettle
<1>5. CASE t \notin acc
  <2>1. Done(r) /\ acc' = acc /\ cub' \subseteq ids BY <1>1, <1>2, <1>5 DEF AccessorUnlist, TypeOK
  <2> QED BY <1>2, <1>4, <2>1, DoneRequest
<1>6. CASE t \in acc
  <2>1. /\ Only(r) /\ req'[r].pc = "forget" /\ req'[r].op = req[r].op /\ req'[r].by = req[r].by
        /\ req'[r].target = t /\ req'[r].stack = req[r].stack
    BY Zenon, <1>1, <1>6, GotoStep DEF Steps, AccessorUnlist
  <2>2. HoldsWhatItNeeds(r)' BY <1>1, <1>2, <2>1 DEF HoldsWhatItNeeds
  <2>3. \A u \in Tokens : u = t => WillSettle(r, u)' BY <2>1 DEF WillSettle
  <2>4. TypeOK' BY <1>1, <1>2, <2>1 DEF TypeOK, Only, Present
  <2>5. \A s \in Requests : HoldsWhatItNeeds(s)' BY <1>2, <2>1, <2>2, OtherRequests DEF Core
  <2>6. CopiesAgree'
    <3>1. \A u \in Tokens : ~Carries(r, u)' BY <2>1 DEF Carries
    <3> QED BY <1>2, <2>1, <3>1, CopiesDropped DEF Core
  <2>7. ASSUME NEW u \in Tokens \ {t} PROVE Framed(u)
    <3>1. \A s \in Requests : WillSettle(s, u) => WillSettle(s, u)' BY <1>4, <2>1, WillsKept
    <3> QED BY <1>2, <3>1 DEF Framed
  <2>8. IndexedOrPending' BY <2>3, <2>7, SettleStep DEF Core
  <2> QED BY <2>4, <2>5, <2>6, <2>8 DEF Core
<1> QED BY <1>5, <1>6

\* The recursion empties the indexes of the token on top.
LEMMA TreeUnindexStep ==
  ASSUME Core, NEW r \in Requests, TreeUnindex(r)
  PROVE  Core'
<1>1. /\ req[r].pc = "tree" /\ Head(req[r].stack).pc = "unindex" /\ FrameGoto(r, "drop")
      /\ DropIndexes(Head(req[r].stack).id) /\ UNCHANGED <<tok, cub, ids, gc, clock, revoked>>
  BY DEF TreeUnindex, AtFrame
<1>2. PICK t \in ids : t = Head(req[r].stack).id BY <1>1, StackTop
<1>3. /\ Only(r) /\ req'[r].pc = "tree" /\ HoldsWhatItNeeds(r)' /\ \A u \in Tokens : ~Carries(r, u)'
      /\ Head(req'[r].stack).pc = "drop" /\ Head(req'[r].stack).id = t
  BY <1>1, <1>2, FrameGotoStep
<1>4. WillSettle(r, t)' BY <1>3 DEF WillSettle, AtFrame
<1>5. \A u \in Tokens : ~WillSettle(r, u) BY <1>1 DEF WillSettle, AtFrame
<1> QED BY <1>1, <1>2, <1>3, <1>4, <1>5, UnindexStep

\* The recursion deletes the token on top and returns to its parent.
LEMMA TreeDropStep ==
  ASSUME Core, NEW r \in Requests, TreeDrop(r)
  PROVE  Core'
<1> DEFINE s == req[r].stack
<1>1. /\ req[r].pc = "tree" /\ Head(s).pc = "drop" /\ DropRecord(Head(s).id)
      /\ revoked' = revoked \cup {Head(s).id} /\ UNCHANGED <<acc, kids, cub, ids, gc, clock>>
  BY DEF TreeDrop, AtFrame
<1>2. /\ s \in Seq(Frames) /\ s # << >> /\ Head(s).id \in ids BY <1>1, StackTop
<1>3. PICK t \in ids : t = Head(s).id BY <1>2
<1>4. \A u \in Tokens : WillSettle(r, u) => u = t BY Zenon, <1>1, <1>3 DEF WillSettle
<1>5. revoked' \subseteq ids BY <1>1, <1>2 DEF Core, TypeOK
<1>6. /\ req \in [Requests -> RequestStates] /\ req[r] \in RequestStates /\ HoldsWhatItNeeds(r)
  BY Zenon DEF Core, TypeOK
<1>7. CASE Len(s) = 1
  <2>1. Only(r) /\ HoldsWhatItNeeds(r)' /\ req'[r].pc = "idle" BY <1>6, <1>7, DoneStep DEF TreeDrop
  <2>2. \A u \in Tokens : ~Carries(r, u)' BY <2>1 DEF Carries
  <2> QED BY <1>1, <1>3, <1>4, <1>5, <2>1, <2>2, DropStep
<1>8. CASE Len(s) # 1
  <2> DEFINE st == Tail(s)
  <2>1. req' = [req EXCEPT ![r] = [req[r] EXCEPT !.pc = "tree", !.stack = st]]
    <3>1. req' = [req EXCEPT ![r].stack = st] BY <1>8 DEF TreeDrop
    <3>2. [req[r] EXCEPT !.stack = st] = [req[r] EXCEPT !.pc = "tree", !.stack = st]
      BY ZenonT(40), <1>1, <1>6 DEF RequestStates
    <3> QED BY Zenon, <3>1, <3>2
  <2>2. \A i \in DOMAIN s : s[i].id \in ids /\ s[i].kids \subseteq ids BY <1>6 DEF HoldsWhatItNeeds
  <2> HIDE DEF s
  <2>3. /\ st \in Seq(Frames) /\ st # << >>
        /\ \A i \in DOMAIN st : i + 1 \in DOMAIN s /\ st[i] = s[i + 1]
    <3>1. Len(s) \in Nat /\ Len(s) > 1 /\ DOMAIN s = 1..Len(s)
      <4>1. Len(s) \in Nat /\ Len(s) # 0 /\ DOMAIN s = 1..Len(s) BY <1>2
      <4> QED BY <4>1, <1>8
    <3>2. /\ st \in Seq(Frames) /\ Len(st) = Len(s) - 1 /\ DOMAIN st = 1..Len(st)
          /\ \A i \in 1..Len(st) : st[i] = s[i + 1]
      BY <1>2, <3>1
    <3> HIDE DEF st
    <3>3. st # << >> BY <3>1, <3>2
    <3>4. \A i \in DOMAIN st : i + 1 \in DOMAIN s BY <3>1, <3>2
    <3> QED BY <3>2, <3>3, <3>4
  <2>4. \A i \in DOMAIN st : st[i].id \in ids /\ st[i].kids \subseteq ids BY <2>2, <2>3
  <2> HIDE DEF st
  <2>5. Only(r) /\ HoldsWhatItNeeds(r)' /\ \A u \in Tokens : ~Carries(r, u)'
    BY Zenon, <1>1, <2>1, <2>3, <2>4, StackStep
  <2> QED BY Zenon, <1>1, <1>3, <1>4, <1>5, <2>5, DropStep
<1> QED BY <1>7, <1>8

-----------------------------------------------------------------------------
(* The collector and the clock.                                            *)

\* Steps of the collector and of the clock leave the requests as they are.
LEMMA NoRequestStep ==
  ASSUME Core, req' = req, ids' = ids, \A t \in Tokens : Present(t)' => tok'[t] = tok[t]
  PROVE  /\ \A s \in Requests : HoldsWhatItNeeds(s)'
         /\ CopiesAgree'
         /\ \A s \in Requests, t \in Tokens : WillSettle(s, t) <=> WillSettle(s, t)'
<1>1. \A s \in Requests : HoldsWhatItNeeds(s)' BY DEF Core, HoldsWhatItNeeds
<1>2. \A s \in Requests, t \in Tokens : (WillSettle(s, t) <=> WillSettle(s, t)') /\ (Carries(s, t)' <=> Carries(s, t))
  BY SameWill
<1>3. CopiesAgree' BY <1>2, NoNewCopies DEF Core
<1> QED BY <1>1, <1>2, <1>3

\* Steps that change neither records nor indexes nor a request.
LEMMA BackgroundStep ==
  ASSUME Core, UNCHANGED <<tok, acc, kids, ids, req, revoked>>, cub' \subseteq ids,
         clock' \in 0..MaxTime,
         gc' \in [pc : {"idle", "next", "drop", "purge"}, todo : SUBSET ids, cur : ids \cup {None}],
         gc' = gc \/ gc.pc # "drop"
  PROVE  Core'
<1>1. TypeOK' BY DEF Core, TypeOK, Present
<1>2. /\ CopiesAgree' /\ \A s \in Requests : HoldsWhatItNeeds(s)'
      /\ \A s \in Requests, t \in Tokens : WillSettle(s, t) <=> WillSettle(s, t)'
  BY NoRequestStep
<1>3. \A t \in Tokens : Framed(t) BY <1>2 DEF Framed
<1>4. IndexedOrPending' BY <1>3, SettleStep DEF Core
<1> QED BY <1>1, <1>2, <1>4 DEF Core

\* The collector lists the expired tokens.
LEMMA GCListStep ==
  ASSUME Core, GCList
  PROVE  Core'
<1>1. /\ gc.pc = "idle" /\ UNCHANGED <<tok, acc, kids, ids, req, revoked, clock, cub>>
      /\ gc' = [gc EXCEPT !.pc = "next", !.todo = {t \in Tokens : Present(t) /\ Expired(t)}]
  BY DEF GCList, store
<1>2. {t \in Tokens : Present(t) /\ Expired(t)} \subseteq ids BY DEF Core, TypeOK
<1>3. gc' \in [pc : {"idle", "next", "drop", "purge"}, todo : SUBSET ids, cur : ids \cup {None}]
  BY Zenon, <1>1, <1>2 DEF Core, TypeOK
<1> QED BY Zenon, <1>1, <1>3, BackgroundStep DEF Core, TypeOK

\* The collector purges the cubbyhole of the token it deleted.
LEMMA GCPurgeStep ==
  ASSUME Core, GCPurge
  PROVE  Core'
<1>1. /\ gc.pc = "purge" /\ UNCHANGED <<tok, acc, kids, ids, req, revoked, clock>>
      /\ cub' = cub \ {gc.cur}
      /\ gc' = IF gc.todo = {} THEN GCIdle ELSE [gc EXCEPT !.pc = "next", !.cur = None]
  BY DEF GCPurge
<1>2. gc' \in [pc : {"idle", "next", "drop", "purge"}, todo : SUBSET ids, cur : ids \cup {None}]
  BY Zenon, <1>1 DEF Core, TypeOK, GCIdle
<1> QED BY <1>1, <1>2, BackgroundStep DEF Core, TypeOK

\* Time passes.
LEMMA TickStep ==
  ASSUME Core, Tick
  PROVE  Core'
<1>1. clock' \in 0..MaxTime BY TokensAssumption DEF Tick, Core, TypeOK
<1>2. UNCHANGED <<tok, acc, kids, cub, ids, req, gc, revoked>> BY DEF Tick, store
<1> QED BY <1>1, <1>2, BackgroundStep DEF Core, TypeOK

\* The collector empties the indexes of the token it is about to delete.
LEMMA GCUnindexStep ==
  ASSUME Core, NEW t \in Tokens, GCUnindex(t)
  PROVE  Core'
<1>1. /\ gc.pc = "next" /\ t \in gc.todo /\ DropIndexes(t)
      /\ gc' = [pc |-> "drop", todo |-> gc.todo \ {t}, cur |-> t]
      /\ UNCHANGED <<tok, cub, ids, req, clock, revoked>>
  BY DEF GCUnindex
<1>2. TypeOK /\ t \in ids BY <1>1 DEF Core, TypeOK
<1>3. /\ acc' \subseteq ids /\ kids' \in [Tokens -> SUBSET ids]
      /\ \A u \in Tokens \ {t} : (u \in acc => u \in acc') /\ \A p \in Tokens : u \in kids[p] => u \in kids'[p]
  BY <1>1, <1>2, DropIndexesEffect
<1>4. gc' \in [pc : {"idle", "next", "drop", "purge"}, todo : SUBSET ids, cur : ids \cup {None}]
  BY <1>1, <1>2 DEF TypeOK
<1>5. TypeOK' BY <1>1, <1>2, <1>3, <1>4 DEF TypeOK, Present
<1>6. /\ CopiesAgree' /\ \A s \in Requests : HoldsWhatItNeeds(s)'
      /\ \A s \in Requests, u \in Tokens : WillSettle(s, u) <=> WillSettle(s, u)'
  BY <1>1, NoRequestStep
<1>7. \A u \in Tokens \ {t} : Framed(u) BY <1>1, <1>3, <1>6 DEF Framed
<1>8. (gc.pc = "drop" /\ gc.cur = t)' BY <1>1
<1>9. IndexedOrPending' BY <1>7, <1>8, SettleStep DEF Core
<1> QED BY <1>5, <1>6, <1>9 DEF Core

\* The collector deletes the record.
LEMMA GCDropStep ==
  ASSUME Core, GCDrop
  PROVE  Core'
<1>1. /\ gc.pc = "drop" /\ DropRecord(gc.cur) /\ gc' = [gc EXCEPT !.pc = "purge"]
      /\ UNCHANGED <<acc, kids, cub, ids, req, clock, revoked>>
  BY DEF GCDrop
<1>2. TypeOK BY DEF Core
<1>3. \A u \in Tokens : Present(u)' => u # gc.cur /\ tok'[u] = tok[u]
  BY <1>1, <1>2 DEF TypeOK, DropRecord, Present
<1>4. tok' \in [Tokens -> Records \cup {None}] BY Zenon, <1>1, <1>2 DEF TypeOK, DropRecord
<1>5. gc' \in [pc : {"idle", "next", "drop", "purge"}, todo : SUBSET ids, cur : ids \cup {None}]
  BY <1>1, <1>2 DEF TypeOK
<1>6. TypeOK'
  <2>1. \A u \in Tokens : Present(u)' => u \in ids' /\ tok'[u].uses <= tok'[u].limit
    BY <1>1, <1>2, <1>3 DEF TypeOK, Present
  <2> QED BY <1>1, <1>2, <1>4, <1>5, <2>1 DEF TypeOK
<1>7. /\ CopiesAgree' /\ \A s \in Requests : HoldsWhatItNeeds(s)'
      /\ \A s \in Requests, u \in Tokens : WillSettle(s, u) <=> WillSettle(s, u)'
  BY <1>1, <1>3, NoRequestStep
<1>8. \A u \in Tokens : Present(u)' => Framed(u) BY <1>1, <1>3, <1>7 DEF Framed
<1>9. IndexedOrPending' BY <1>8, SettleStep DEF Core
<1> QED BY <1>6, <1>7, <1>9 DEF Core

-----------------------------------------------------------------------------
(* The steps that write index entries and records.                         *)

\* The copies that requests carry are of tokens that were generated.
LEMMA CarriesGenerated ==
  ASSUME Core, NEW s \in Requests, NEW t \in Tokens, Carries(s, t)
  PROVE  t \in ids /\ req[s].copy \in Records /\ req[s].copy.uses <= req[s].copy.limit
<1>1. HoldsWhatItNeeds(s) BY DEF Core
<1> QED BY <1>1 DEF HoldsWhatItNeeds, Carries

\* Writing the index entries of a copy indexes the stored record: it has the
\* same parent.
LEMMA IndexStep ==
  ASSUME Core, NEW r \in Requests, NEW t \in Tokens, Carries(r, t), PutIndexes(t, req[r].copy),
         Only(r), HoldsWhatItNeeds(r)',
         \A u \in Tokens : ~Carries(r, u)' /\ (WillSettle(r, u) => u = t),
         UNCHANGED <<tok, cub, ids, gc, clock, revoked>>
  PROVE  Core'
<1> DEFINE c == req[r].copy
<1>1. t \in ids /\ c \in Records /\ TypeOK BY CarriesGenerated DEF Core
<1>2. c.parent # None => c.parent \in Tokens BY <1>1 DEF Records
<1>3. /\ acc' = acc \cup {t}
      /\ kids' = IF c.parent = None THEN kids ELSE [kids EXCEPT ![c.parent] = @ \cup {t}]
  BY Zenon DEF PutIndexes
<1> HIDE DEF c
<1>4. acc' \subseteq ids /\ kids' \in [Tokens -> SUBSET ids] BY <1>1, <1>2, <1>3 DEF TypeOK
<1>5. TypeOK' BY <1>1, <1>4 DEF TypeOK, Only, Present
<1>6. \A s \in Requests : HoldsWhatItNeeds(s)' BY OtherRequests DEF Core
<1>7. CopiesAgree' BY CopiesDropped DEF Core
<1>8. ASSUME NEW u \in Tokens \ {t} PROVE Framed(u)
  <2>1. \A s \in Requests : WillSettle(s, u) => WillSettle(s, u)' BY Zenon, WillsKept
  <2>2. \A p \in Tokens : u \in kids[p] => u \in kids'[p] BY <1>1, <1>2, <1>3 DEF TypeOK
  <2> QED BY <1>3, <2>1, <2>2 DEF Framed
<1>9. ASSUME Present(t)' PROVE Indexed(t)'
  <2>1. Present(t) BY Zenon, <1>9 DEF Present
  <2>2. c.parent = tok[t].parent BY Zenon, <2>1 DEF Core, CopiesAgree, SameToken, c
  <2> QED BY <1>1, <1>2, <1>3, <2>2 DEF Indexed, TypeOK
<1>10. IndexedOrPending' BY <1>8, <1>9, SettleStep DEF Core
<1> QED BY <1>5, <1>6, <1>7, <1>10 DEF Core

\* TrackUse has stored the count, and goes on.
LEMMA SavedUseStep ==
  ASSUME Core, NEW r \in Requests, SavedUse(r)
  PROVE  Core'
<1>1. /\ req[r].pc = "saved" /\ PutIndexes(req[r].by, req[r].copy) /\ Grant(r, req[r].by, TRUE)
      /\ UNCHANGED <<tok, cub, ids, gc, clock, revoked>>
  BY Zenon DEF SavedUse
<1>2. HoldsWhatItNeeds(r) /\ ids \subseteq Tokens BY DEF Core, TypeOK
<1>3. PICK t \in Tokens : t = req[r].by BY <1>1, <1>2 DEF HoldsWhatItNeeds
<1>4. Carries(r, t) /\ \A u \in Tokens : WillSettle(r, u) => u = t
  BY Zenon, <1>1, <1>3 DEF Carries, WillSettle, AtFrame
<1>5. Only(r) /\ HoldsWhatItNeeds(r)' /\ \A u \in Tokens : ~Carries(r, u)'
  BY ZenonT(40), <1>1, <1>3, GrantStep
<1> QED BY <1>1, <1>3, <1>4, <1>5, IndexStep

\* A created or renewed token is indexed.
LEMMA PutDoneStep ==
  ASSUME Core, NEW r \in Requests, PutDone(r)
  PROVE  Core'
<1>1. /\ req[r].pc = "index" /\ PutIndexes(req[r].target, req[r].copy) /\ Done(r)
      /\ UNCHANGED <<tok, cub, ids, gc, clock, revoked>>
  BY DEF PutDone
<1>2. HoldsWhatItNeeds(r) /\ ids \subseteq Tokens /\ req \in [Requests -> RequestStates] BY SMTT(30) DEF Core, TypeOK
<1>3. PICK t \in Tokens : t = req[r].target BY Zenon, <1>1, <1>2 DEF HoldsWhatItNeeds
<1>4. Carries(r, t) /\ \A u \in Tokens : WillSettle(r, u) => u = t
  BY <1>1, <1>3 DEF Carries, WillSettle, AtFrame
<1>5. Only(r) /\ HoldsWhatItNeeds(r)' /\ req'[r].pc = "idle" BY <1>1, <1>2, DoneStep
<1>6. \A u \in Tokens : ~Carries(r, u)' BY <1>5 DEF Carries
<1> QED BY ZenonT(40), <1>1, <1>3, <1>4, <1>5, <1>6, IndexStep

\* A request writes the copy it carries, and will index it.
LEMMA WriteStep ==
  ASSUME Core, NEW r \in Requests, NEW t \in Tokens, PutRecord(t, req[r].copy), Only(r),
         HoldsWhatItNeeds(r)', req'[r].copy = req[r].copy, Carries(r, t), WillSettle(r, t)',
         \A u \in Tokens : (Carries(r, u)' => u = t) /\ ~WillSettle(r, u),
         UNCHANGED <<acc, kids, cub, ids, gc, clock, revoked>>
  PROVE  Core'
<1> DEFINE c == req[r].copy
<1>1. t \in ids /\ c \in Records /\ c.uses <= c.limit /\ TypeOK BY Zenon, CarriesGenerated DEF Core
<1>2. tok' = [tok EXCEPT ![t] = c] BY DEF PutRecord
<1>3. tok'[t] = c /\ \A u \in Tokens \ {t} : tok'[u] = tok[u] BY Zenon, <1>1, <1>2 DEF TypeOK
<1>4. TypeOK'
  <2>1. tok' \in [Tokens -> Records \cup {None}] BY Zenon, <1>1, <1>2 DEF TypeOK
  <2>2. ASSUME NEW u \in Tokens, Present(u)' PROVE u \in ids' /\ tok'[u].uses <= tok'[u].limit
    <3>1. CASE u = t BY Zenon, <3>1, <1>1, <1>3
    <3>2. CASE u # t BY <3>2, <2>2, <1>1, <1>3 DEF TypeOK, Present
    <3> QED BY <3>1, <3>2
  <2> QED BY ZenonT(40), <1>1, <2>1, <2>2 DEF TypeOK, Only
<1>5. \A s \in Requests : HoldsWhatItNeeds(s)' BY OtherRequests DEF Core
<1>6. ASSUME NEW s \in Requests, NEW u \in Tokens, Carries(s, u)'
      PROVE  Carries(s, u) /\ req'[s].copy = req[s].copy
  <2>1. CASE s = r BY Zenon, <2>1, <1>6
  <2>2. CASE s # r
    <3>1. req'[s] = req[s] BY Zenon, <2>2 DEF Only
    <3> QED BY <1>6, <3>1, SameWill
  <2> QED BY <2>1, <2>2
<1>7. CopiesAgree'
  <2> SUFFICES ASSUME NEW u \in Tokens, NEW s \in Requests, Carries(s, u)'
               PROVE  /\ Present(u)' => SameToken(req'[s].copy, tok'[u])
                      /\ \A v \in Requests : Carries(v, u)' => SameToken(req'[s].copy, req'[v].copy)
    BY Zenon DEF CopiesAgree, SameToken
  <2>1. Carries(s, u) /\ req'[s].copy = req[s].copy BY ZenonT(40), <1>6
  <2>2. ASSUME NEW v \in Requests, Carries(v, u)' PROVE SameToken(req'[s].copy, req'[v].copy)
    <3>1. Carries(v, u) /\ req'[v].copy = req[v].copy BY Zenon, <1>6, <2>2
    <3> QED BY ZenonT(40), <2>1, <3>1 DEF Core, CopiesAgree
  <2>3. CASE u = t
    <3>1. SameToken(req[s].copy, req[r].copy) BY ZenonT(40), <2>1, <2>3 DEF Core, CopiesAgree
    <3> QED BY Zenon, <1>3, <2>1, <2>2, <2>3, <3>1
  <2>4. CASE u # t
    <3>1. tok'[u] = tok[u] BY Zenon, <1>3, <2>4
    <3>2. Present(u)' => SameToken(req[s].copy, tok[u])
      BY Zenon, <2>1, <3>1 DEF Core, CopiesAgree, Present
    <3> QED BY <2>1, <2>2, <3>1, <3>2
  <2> QED BY <2>3, <2>4
<1>8. ASSUME NEW u \in Tokens \ {t} PROVE Framed(u)
  <2>1. \A s \in Requests : WillSettle(s, u) => WillSettle(s, u)' BY SMTT(30), WillsKept
  <2> QED BY ZenonT(40), <1>3, <2>1 DEF Framed
<1>9. IndexedOrPending' BY Zenon, <1>8, SettleStep DEF Core
<1> QED BY Zenon, <1>4, <1>5, <1>7, <1>9 DEF Core

\* TrackUse stores the new count.
LEMMA SaveUseStep ==
  ASSUME Core, NEW r \in Requests, SaveUse(r)
  PROVE  Core'
<1>1. /\ req[r].pc = "save" /\ PutRecord(req[r].by, req[r].copy) /\ Goto(r, "saved")
      /\ UNCHANGED <<acc, kids, cub, ids, gc, clock, revoked>>
  BY Zenon DEF SaveUse
<1>2. HoldsWhatItNeeds(r) /\ ids \subseteq Tokens /\ req \in [Requests -> RequestStates] BY DEF Core, TypeOK
<1>3. PICK t \in Tokens : t = req[r].by BY Zenon, <1>1, <1>2 DEF HoldsWhatItNeeds
<1>4. /\ Only(r) /\ req'[r].pc = "saved" /\ req'[r].op = req[r].op /\ req'[r].by = t
      /\ req'[r].target = req[r].target /\ req'[r].copy = req[r].copy /\ req'[r].stack = req[r].stack
  BY Zenon, <1>1, <1>2, <1>3, GotoStep DEF Steps
<1>5. HoldsWhatItNeeds(r)' BY Zenon, <1>1, <1>2, <1>3, <1>4 DEF HoldsWhatItNeeds
<1>6. Carries(r, t) /\ WillSettle(r, t)' BY Zenon, <1>1, <1>3, <1>4 DEF Carries, WillSettle
<1>7. \A u \in Tokens : (Carries(r, u)' => u = t) /\ ~WillSettle(r, u)
  BY Zenon, <1>1, <1>4, NothingToSettle DEF Carries
<1> QED BY ZenonT(40), <1>1, <1>3, <1>4, <1>5, <1>6, <1>7, WriteStep

\* RenewToken stores the record with its new expiry.
LEMMA RenewPutStep ==
  ASSUME Core, NEW r \in Requests, RenewPut(r)
  PROVE  Core'
<1>1. /\ req[r].pc = "put" /\ PutRecord(req[r].target, req[r].copy) /\ Goto(r, "index")
      /\ UNCHANGED <<acc, kids, cub, ids, gc, clock, revoked>>
  BY ZenonT(40) DEF RenewPut
<1>2. HoldsWhatItNeeds(r) /\ ids \subseteq Tokens /\ req \in [Requests -> RequestStates] BY DEF Core, TypeOK
<1>3. PICK t \in Tokens : t = req[r].target BY SMTT(30), <1>1, <1>2 DEF HoldsWhatItNeeds
<1>4. /\ Only(r) /\ req'[r].pc = "index" /\ req'[r].op = req[r].op /\ req'[r].by = req[r].by
      /\ req'[r].target = t /\ req'[r].copy = req[r].copy /\ req'[r].stack = req[r].stack
  BY Zenon, <1>1, <1>2, <1>3, GotoStep DEF Steps
<1>5. HoldsWhatItNeeds(r)' BY Zenon, <1>1, <1>2, <1>3, <1>4 DEF HoldsWhatItNeeds
<1>6. Carries(r, t) /\ WillSettle(r, t)' BY Zenon, <1>1, <1>3, <1>4 DEF Carries, WillSettle
<1>7. \A u \in Tokens : (Carries(r, u)' => u = t) /\ ~WillSettle(r, u)
  BY Zenon, <1>1, <1>4, NothingToSettle DEF Carries
<1> QED BY Zenon, <1>1, <1>3, <1>4, <1>5, <1>6, <1>7, WriteStep

\* A generated record is a record, with no use counted.
LEMMA GenerateType ==
  ASSUME NEW shape \in Shapes, NEW parent \in Tokens, clock \in 0..MaxTime
  PROVE  Generate(shape, parent) \in Records /\ Generate(shape, parent).uses <= Generate(shape, parent).limit
<1>1. shape \in [ttl : Nat, maxTTL : Nat, period : Nat, limit : Nat,
                 renewable : BOOLEAN, orphan : BOOLEAN] /\ MaxTime \in Nat
  BY TokensAssumption
<1>2. (shape.renewable \/ shape.period # 0) \in BOOLEAN BY <1>1
<1> QED BY <1>1, <1>2 DEF Generate, Records

\* A token is created: nobody has seen its ID before.
LEMMA CreateTokenStep ==
  ASSUME Core, NEW r \in Requests, NEW t \in Tokens, NEW shape \in Shapes, CreateToken(r, t, shape)
  PROVE  Core'
<1> DEFINE c == Generate(shape, req[r].by)
           q == [req[r] EXCEPT !.pc = "index", !.target = t, !.copy = c]
<1>1. /\ req[r].pc = "create" /\ t \notin ids /\ ids' = ids \cup {t} /\ tok' = [tok EXCEPT ![t] = c]
      /\ req' = [req EXCEPT ![r] = q] /\ UNCHANGED <<acc, kids, cub, gc, clock, revoked>>
  BY Zenon DEF CreateToken, PutRecord
<1>2. TypeOK /\ HoldsWhatItNeeds(r) /\ req[r] \in RequestStates /\ req \in [Requests -> RequestStates]
  BY DEF Core, TypeOK
<1>3. req[r].by \in Tokens /\ req[r].by \in ids /\ req[r].op \in Ops
  BY <1>1, <1>2 DEF HoldsWhatItNeeds, TypeOK
<1>4. c \in Records /\ c.uses <= c.limit BY <1>2, <1>3, GenerateType DEF TypeOK
<1> HIDE DEF c
<1>5. /\ q \in RequestStates /\ q.pc = "index" /\ q.op = req[r].op /\ q.by = req[r].by
      /\ q.target = t /\ q.copy = c /\ q.stack = req[r].stack
  BY Zenon, <1>2, <1>4 DEF RequestStates, Steps
<1> HIDE DEF q
<1>6. Only(r) /\ req'[r] = q BY SMTT(30), <1>1, <1>2, <1>5 DEF Only
<1>7. HoldsWhatItNeeds(r)' BY Zenon, <1>1, <1>2, <1>3, <1>4, <1>5, <1>6 DEF HoldsWhatItNeeds
<1>8. \A s \in Requests : HoldsWhatItNeeds(s)' BY <1>1, <1>6, <1>7, OtherRequests DEF Core
<1>9. tok'[t] = c /\ \A u \in Tokens \ {t} : tok'[u] = tok[u] BY <1>1, <1>2 DEF TypeOK
<1>10. TypeOK'
  <2>1. tok' \in [Tokens -> Records \cup {None}] BY <1>1, <1>2, <1>4 DEF TypeOK
  <2>2. ASSUME NEW u \in Tokens, Present(u)' PROVE u \in ids' /\ tok'[u].uses <= tok'[u].limit
    <3>1. CASE u = t BY <3>1, <1>1, <1>4, <1>9
    <3>2. CASE u # t BY <3>2, <2>2, <1>1, <1>2, <1>9 DEF TypeOK, Present
    <3> QED BY <3>1, <3>2
  <2>3. gc' \in [pc : {"idle", "next", "drop", "purge"}, todo : SUBSET ids', cur : ids' \cup {None}]
    BY <1>1, <1>2 DEF TypeOK
  <2>4. kids' \in [Tokens -> SUBSET ids'] BY <1>1, <1>2 DEF TypeOK
  <2> QED BY <1>1, <1>2, <1>6, <2>1, <2>2, <2>3, <2>4 DEF TypeOK, Only
<1>11. ASSUME NEW s \in Requests, NEW u \in Tokens, Carries(s, u)'
       PROVE  (s = r /\ u = t) \/ (s # r /\ u # t /\ Carries(s, u) /\ req'[s].copy = req[s].copy)
  <2>1. CASE s = r BY <2>1, <1>11, <1>5, <1>6 DEF Carries
  <2>2. CASE s # r
    <3>1. req'[s] = req[s] BY <2>2, <1>6 DEF Only
    <3>2. Carries(s, u) BY <1>11, <3>1, SameWill
    <3>3. u # t BY <3>2, <1>1, CarriesGenerated
    <3> QED BY <2>2, <3>1, <3>2, <3>3
  <2> QED BY <2>1, <2>2
<1>12. CopiesAgree'
  <2> SUFFICES ASSUME NEW u \in Tokens, NEW s \in Requests, Carries(s, u)'
               PROVE  /\ Present(u)' => SameToken(req'[s].copy, tok'[u])
                      /\ \A v \in Requests : Carries(v, u)' => SameToken(req'[s].copy, req'[v].copy)
    BY Zenon DEF CopiesAgree, SameToken
  <2>1. CASE u = t
    <3>1. s = r /\ \A v \in Requests : Carries(v, u)' => v = r BY Zenon, <1>11, <2>1
    <3> QED BY Zenon, <3>1, <2>1, <1>5, <1>6, <1>9 DEF SameToken
  <2>2. CASE u # t
    <3>1. Carries(s, u) /\ req'[s].copy = req[s].copy BY <1>11, <2>2
    <3>2. \A v \in Requests : Carries(v, u)' => Carries(v, u) /\ req'[v].copy = req[v].copy
      BY <1>11, <2>2
    <3>3. tok'[u] = tok[u] BY <1>9, <2>2
    <3>4. Present(u)' => SameToken(req[s].copy, tok[u])
      BY Zenon, <3>1, <3>3 DEF Core, CopiesAgree, Present
    <3>5. \A v \in Requests : Carries(v, u) => SameToken(req[s].copy, req[v].copy)
      BY <3>1 DEF Core, CopiesAgree
    <3> QED BY <3>1, <3>2, <3>3, <3>4, <3>5
  <2> QED BY <2>1, <2>2
<1>13. WillSettle(r, t)' BY Zenon, <1>5, <1>6 DEF WillSettle
<1>14. ASSUME NEW u \in Tokens \ {t} PROVE Framed(u)
  <2>1. ~WillSettle(r, u) BY <1>1, NothingToSettle
  <2>2. \A s \in Requests : WillSettle(s, u) => WillSettle(s, u)' BY <1>6, <2>1, WillsKept
  <2> QED BY <1>1, <1>9, <2>2 DEF Framed
<1>15. IndexedOrPending' BY <1>13, <1>14, SettleStep DEF Core
<1> QED BY <1>8, <1>10, <1>12, <1>15 DEF Core

-----------------------------------------------------------------------------
(* The theorems.                                                           *)

\* Every step keeps Core.
LEMMA CoreStep ==
  ASSUME Core, [Next]_vars
  PROVE  Core'
<1>1. CASE UNCHANGED vars
  <2>1. TypeOK' BY <1>1 DEF vars, Core, TypeOK, Present
  <2>2. gc' = gc /\ clock' \in 0..MaxTime /\ cub' \subseteq ids BY <1>1 DEF vars, Core, TypeOK
  <2> QED BY <1>1, <2>1, <2>2, BackgroundStep DEF vars, Core, TypeOK
<1>2. ASSUME NEW r \in Requests, Handle(r) PROVE Core'
  BY <1>2, TrackUseStep, SaveUseStep, SavedUseStep, ExhaustedStep, EnforceAccessStep,
     CubbyholePutStep, CreateTokenStep, RenewTokenStep, RenewPutStep, PutDoneStep,
     AccessorPurgeStep, AccessorUnlistStep, AccessorForgetStep, RevokeTreeStep,
     TreeDescendStep, TreePurgeStep, TreeUnindexStep, TreeDropStep DEF Handle
<1>3. CASE GCStep
  BY <1>3, GCListStep, GCUnindexStep, GCDropStep, GCPurgeStep DEF GCStep
<1> QED BY Zenon, <1>1, <1>2, <1>3, AuthenticateStep, TickStep DEF Next

\* The initial state satisfies Core.
LEMMA CoreInit ==
  ASSUME Init
  PROVE  Core
<1>1. RootRecord \in Records /\ RootRecord.uses <= RootRecord.limit /\ RootRecord.parent = None
  BY DEF RootRecord, Records
<1>2. tok = [t \in Tokens |-> IF t = RootToken THEN RootRecord ELSE None] /\ RootToken \in Tokens
  BY TokensAssumption DEF Init
<1>3. \A r \in Requests : req[r] = Idle BY Zenon DEF Init
<1>4. TypeOK
  <2>1. \A t \in Tokens : Present(t) => t = RootToken /\ tok[t] = RootRecord BY <1>2 DEF Present
  <2>2. tok \in [Tokens -> Records \cup {None}] BY <1>1, <1>2
  <2>3. req \in [Requests -> RequestStates] BY IdleType DEF Init
  <2>4. clock \in 0..MaxTime BY TokensAssumption DEF Init
  <2>5. gc \in [pc : {"idle", "next", "drop", "purge"}, todo : SUBSET ids, cur : ids \cup {None}]
    BY DEF Init, GCIdle
  <2> QED BY <1>1, <1>2, <2>1, <2>2, <2>3, <2>4, <2>5 DEF TypeOK, Init
<1>5. \A r \in Requests : HoldsWhatItNeeds(r) BY <1>3, IdleType DEF HoldsWhatItNeeds
<1>6. CopiesAgree BY <1>3, IdleType DEF CopiesAgree, Carries
<1>7. IndexedOrPending BY <1>1, <1>2 DEF IndexedOrPending, Indexed, Present, Init
<1> QED BY <1>4, <1>5, <1>6, <1>7 DEF Core

\* Once nothing is in flight nobody is left to settle a token.
LEMMA QuietIsIndexed ==
  ASSUME Core
  PROVE  TokenInv
<1>1. IndexedWhenQuiet
  <2> SUFFICES ASSUME Quiet, NEW t \in Tokens, Present(t) PROVE Indexed(t)
    BY DEF IndexedWhenQuiet, Indexed
  <2>1. \A r \in Requests : ~WillSettle(r, t) BY IdleType DEF Quiet, WillSettle, AtFrame
  <2>2. gc.pc # "drop" BY DEF Quiet, GCIdle
  <2> QED BY <2>1, <2>2 DEF Core, IndexedOrPending
<1> QED BY <1>1 DEF Core, TokenInv

\* Whatever requests and the collector do in between, records are well formed,
\* never count more uses than allowed, and a stored token whose indexes do not
\* lead to it is one that a request or the collector is about to index or delete:
\* when nothing is in flight every stored token can be revoked, both ways.
THEOREM TokensCorrect == Spec => []TokenInv
<1>1. Init => Core BY CoreInit
<1>2. Core /\ [Next]_vars => Core' BY CoreStep
<1>3. Core => TokenInv BY Zenon, QuietIsIndexed
<1> QED BY <1>1, <1>2, <1>3, PTL DEF Spec

\* Who writes records: a request that creates a token with a new ID, or one that
\* writes back a copy it carries.  A revocation is completed by a deletion.
LEMMA WhoWrites ==
  ASSUME Core, [Next]_vars
  PROVE  /\ \A t \in Tokens : tok'[t] # tok[t] /\ tok'[t] # None =>
              \/ t \notin ids /\ \E p \in Tokens, shape \in Shapes : tok'[t] = Generate(shape, p)
              \/ \E r \in Requests : /\ req[r].pc \in {"save", "put"} /\ Carries(r, t)
                                     /\ tok'[t] = req[r].copy
         /\ \A t \in revoked' : t \in revoked \/ tok'[t] = None
<1>1. tok \in [Tokens -> Records \cup {None}] /\ ids \subseteq Tokens BY DEF Core, TypeOK
<1>2. CASE tok' = tok /\ revoked' = revoked
  BY <1>2
<1>3. ASSUME NEW r \in Requests, NEW t \in Tokens, NEW shape \in Shapes, CreateToken(r, t, shape)
      PROVE  /\ revoked' = revoked /\ t \notin ids /\ \A u \in Tokens \ {t} : tok'[u] = tok[u]
             /\ \E p \in Tokens : tok'[t] = Generate(shape, p)
  <2>1. HoldsWhatItNeeds(r) BY DEF Core
  <2>2. req[r].by \in Tokens BY <1>1, <1>3, <2>1 DEF CreateToken, HoldsWhatItNeeds
  <2> QED BY <1>1, <1>3, <2>2 DEF CreateToken, PutRecord
<1>4. ASSUME NEW r \in Requests, SaveUse(r)
      PROVE  /\ revoked' = revoked /\ req[r].pc = "save"
             /\ \A u \in Tokens : tok'[u] # tok[u] => Carries(r, u) /\ tok'[u] = req[r].copy
  BY <1>1, <1>4 DEF SaveUse, PutRecord, Carries
<1>5. ASSUME NEW r \in Requests, RenewPut(r)
      PROVE  /\ revoked' = revoked /\ req[r].pc = "put"
             /\ \A u \in Tokens : tok'[u] # tok[u] => Carries(r, u) /\ tok'[u] = req[r].copy
  BY <1>1, <1>5 DEF RenewPut, PutRecord, Carries
<1>6. ASSUME NEW r \in Requests, Exhausted(r)
      PROVE  revoked' = revoked /\ \A u \in Tokens : tok'[u] # tok[u] => tok'[u] = None
  BY <1>1, <1>6 DEF Exhausted, DropRecord
<1>7. ASSUME NEW r \in Requests, AccessorForget(r)
      PROVE  /\ \A u \in Tokens : tok'[u] # tok[u] => tok'[u] = None
             /\ \A u \in revoked' : u \in revoked \/ tok'[u] = None
  <2>1. HoldsWhatItNeeds(r) BY Zenon DEF Core
  <2>2. req[r].target \in Tokens BY <1>1, <1>7, <2>1 DEF AccessorForget, HoldsWhatItNeeds
  <2> QED BY <1>1, <1>7, <2>2 DEF AccessorForget, DropRecord
<1>8. ASSUME NEW r \in Requests, TreeDrop(r)
      PROVE  /\ \A u \in Tokens : tok'[u] # tok[u] => tok'[u] = None
             /\ \A u \in revoked' : u \in revoked \/ tok'[u] = None
  <2>1. req[r].pc = "tree" BY <1>8 DEF TreeDrop, AtFrame
  <2>2. PICK t \in Tokens : t = Head(req[r].stack).id BY <1>1, <2>1, StackTop
  <2>3. tok' = [tok EXCEPT ![t] = None] /\ revoked' = revoked \cup {t}
    BY <1>8, <2>2 DEF TreeDrop, DropRecord
  <2> QED BY <1>1, <2>3
<1>9. CASE GCDrop
  <2>1. revoked' = revoked /\ \A u \in Tokens : tok'[u] # tok[u] => tok'[u] = None
    BY <1>1, <1>9 DEF GCDrop, DropRecord
  <2> QED BY <2>1
<1>10. ASSUME NEW r \in Requests, Handle(r)
       PROVE  \/ tok' = tok /\ revoked' = revoked
              \/ SaveUse(r) \/ RenewPut(r) \/ Exhausted(r) \/ AccessorForget(r) \/ TreeDrop(r)
              \/ \E t \in Tokens, shape \in Shapes : CreateToken(r, t, shape)
  BY Zenon, <1>10 DEF Handle, TrackUse, SavedUse, EnforceAccess, Refused, CubbyholePut, RenewToken,
     PutDone, AccessorPurge, AccessorUnlist, RevokeTree, TreeDescend, TreePurge, TreeUnindex, store
<1>11. ASSUME Next
       PROVE  \/ tok' = tok /\ revoked' = revoked
              \/ GCDrop \/ \E r \in Requests : Handle(r)
  BY Zenon, <1>11 DEF Next, GCStep, Authenticate, GCList, GCUnindex, GCPurge, Tick, store
<1>12. ASSUME NEW r \in Requests, Handle(r)
       PROVE  /\ \A t \in Tokens : tok'[t] # tok[t] /\ tok'[t] # None =>
                   \/ t \notin ids /\ \E p \in Tokens, shape \in Shapes : tok'[t] = Generate(shape, p)
                   \/ \E s \in Requests : /\ req[s].pc \in {"save", "put"} /\ Carries(s, t)
                                          /\ tok'[t] = req[s].copy
              /\ \A t \in revoked' : t \in revoked \/ tok'[t] = None
  BY ZenonT(40), <1>2, <1>3, <1>4, <1>5, <1>6, <1>7, <1>8, <1>10, <1>12
<1>13. CASE UNCHANGED vars BY <1>2, <1>13 DEF vars
<1> QED BY <1>2, <1>9, <1>11, <1>12, <1>13

\* Only a TrackUse or a RenewToken that had read a token before it was revoked
\* brings it back.
THEOREM RevivalNeedsAWriter == Spec => []OnlyWritersRevive
<1>1. Init => OnlyWritersRevive BY DEF Init, OnlyWritersRevive
<1>2. Init => Core BY CoreInit
<1>3. Core /\ [Next]_vars => Core' BY CoreStep
<1>4. ASSUME Core, OnlyWritersRevive, [Next]_vars PROVE OnlyWritersRevive'
  <2> SUFFICES ASSUME NEW t \in revoked', Present(t)'
               PROVE  tok'[t].limit # 0 \/ tok'[t].renewable
    BY DEF OnlyWritersRevive
  <2>1. t \in revoked /\ tok'[t] # None BY <1>4, WhoWrites DEF Present
  <2>2. t \in ids /\ t \in Tokens BY <1>4, <2>1 DEF Core, TypeOK
  <2>3. CASE tok'[t] = tok[t]
    BY <1>4, <2>1, <2>3 DEF OnlyWritersRevive, Present
  <2>4. CASE tok'[t] # tok[t]
    <3>1. PICK r \in Requests : req[r].pc \in {"save", "put"} /\ tok'[t] = req[r].copy
      BY Zenon, <1>4, <2>1, <2>2, <2>4, WhoWrites
    <3>2. HoldsWhatItNeeds(r) BY <1>4 DEF Core
    <3> QED BY <3>1, <3>2 DEF HoldsWhatItNeeds
  <2> QED BY <2>3, <2>4
<1> QED BY <1>1, <1>2, <1>3, <1>4, PTL DEF Spec

-----------------------------------------------------------------------------
(* The cap on renewals.                                                    *)

\* No token is created to live longer than it may be renewed.  createToken does
\* not check this: it is what its callers have to respect.
TTLWithinMax == \A shape \in Shapes : shape.maxTTL # 0 => shape.ttl <= shape.maxTTL

WithinCap(rec) == rec.cap # 0 /\ rec.period = 0 => rec.expires <= rec.cap

\* No stored record and no copy in flight expires after the cap.
AllWithinCap == /\ \A t \in Tokens : Present(t) => WithinCap(tok[t])
                /\ \A r \in Requests, t \in Tokens : Carries(r, t) => WithinCap(req[r].copy)

\* Where a request that carries a copy after a step has it from.
CopyFrom(s, t) ==
  \/ Carries(s, t) /\ req'[s].copy = req[s].copy
  \/ Present(t) /\ req'[s].copy \in { [tok[t] EXCEPT !.uses = @ + 1],
                                      [tok[t] EXCEPT !.expires = NewExpiry(tok[t])] }
  \/ \E p \in Tokens, shape \in Shapes : req'[s].copy = Generate(shape, p)

\* A request that is done, or moves on without a copy, carries none.
LEMMA NoCopyAfter ==
  ASSUME Core, NEW r \in Requests, \A s \in Requests \ {r} : req'[s] = req[s],
         req'[r].pc \notin {"save", "saved", "put", "index"}
  PROVE  \A s \in Requests, t \in Tokens : Carries(s, t)' => CopyFrom(s, t)
<1> SUFFICES ASSUME NEW s \in Requests, NEW t \in Tokens, Carries(s, t)' PROVE CopyFrom(s, t)
  OBVIOUS
<1>1. s # r BY DEF Carries
<1>2. req'[s] = req[s] BY <1>1
<1> QED BY <1>2, SameWill DEF CopyFrom

\* Done(r) is such a step.
LEMMA NoCopyWhenDone ==
  ASSUME Core, NEW r \in Requests, Done(r)
  PROVE  \A s \in Requests, t \in Tokens : Carries(s, t)' => CopyFrom(s, t)
<1>1. Only(r) /\ req'[r].pc = "idle" BY DoneStep DEF Core, TypeOK
<1> QED BY <1>1, NoCopyAfter DEF Only

\* So is Grant.
LEMMA NoCopyWhenGranted ==
  ASSUME Core, NEW r \in Requests, NEW t \in Tokens, NEW limited \in BOOLEAN,
         Grant(r, t, limited), req[r].pc \in {"use", "saved"}, ids' = ids
  PROVE  \A s \in Requests, u \in Tokens : Carries(s, u)' => CopyFrom(s, u)
<1>1. Only(r) /\ \A u \in Tokens : ~Carries(r, u)' BY GrantStep
<1> SUFFICES ASSUME NEW s \in Requests, NEW u \in Tokens, Carries(s, u)' PROVE CopyFrom(s, u)
  OBVIOUS
<1>2. s # r /\ req'[s] = req[s] BY <1>1 DEF Only
<1> QED BY <1>2, SameWill DEF CopyFrom

\* Every path of TrackUse.
LEMMA TrackUseCopies ==
  ASSUME Core, NEW r \in Requests, TrackUse(r)
  PROVE  \A s \in Requests, u \in Tokens : Carries(s, u)' => CopyFrom(s, u)
<1> DEFINE t == req[r].by
<1>1. /\ req \in [Requests -> RequestStates] /\ req[r] \in RequestStates /\ HoldsWhatItNeeds(r)
      /\ ids \subseteq Tokens /\ req[r].pc = "use"
  BY DEF Core, TypeOK, TrackUse
<1>2. t \in Tokens BY <1>1 DEF HoldsWhatItNeeds
<1>3. CASE Refused(r) BY <1>3, NoCopyWhenDone DEF Refused
<1>4. CASE Grant(r, t, FALSE) /\ UNCHANGED store
  <2>1. ids' = ids BY <1>4 DEF store
  <2> QED BY Zenon, <1>1, <1>2, <1>4, <2>1, NoCopyWhenGranted
<1>5. CASE Present(t) /\ req' = [req EXCEPT ![r].pc = "save", ![r].copy = [tok[t] EXCEPT !.uses = @ + 1]]
  <2> DEFINE c == [tok[t] EXCEPT !.uses = @ + 1]
  <2>1. req' = [req EXCEPT ![r] = [req[r] EXCEPT !.pc = "save", !.copy = c]] BY Zenon, <1>5
  <2> HIDE DEF c
  <2>2. /\ req'[r].pc = "save" /\ req'[r].by = t /\ req'[r].copy = c
        /\ \A s \in Requests \ {r} : req'[s] = req[s]
    BY <1>1, <2>1 DEF RequestStates
  <2> SUFFICES ASSUME NEW s \in Requests, NEW u \in Tokens, Carries(s, u)' PROVE CopyFrom(s, u)
    OBVIOUS
  <2>3. CASE s = r
    <3>1. u = t BY <2>2, <2>3 DEF Carries
    <3> QED BY Zenon, <1>5, <2>2, <2>3, <3>1 DEF CopyFrom, c
  <2>4. CASE s # r
    <3>1. req'[s] = req[s] BY <2>2, <2>4
    <3> QED BY <3>1, SameWill DEF CopyFrom
  <2> QED BY <2>3, <2>4
<1>6. CASE Goto(r, "exhausted")
  <2>1. Only(r) /\ req'[r].pc = "exhausted" BY <1>1, <1>6, GotoStep DEF Steps
  <2> QED BY <2>1, NoCopyAfter DEF Only
<1> QED BY Zenon, <1>3, <1>4, <1>5, <1>6 DEF TrackUse

\* RenewToken.
LEMMA RenewCopies ==
  ASSUME Core, NEW r \in Requests, RenewToken(r)
  PROVE  \A s \in Requests, u \in Tokens : Carries(s, u)' => CopyFrom(s, u)
<1> DEFINE t == IF req[r].pc = "self" THEN req[r].by ELSE req[r].target
           c == [tok[t] EXCEPT !.expires = NewExpiry(tok[t])]
<1>1. req \in [Requests -> RequestStates] /\ req[r] \in RequestStates BY DEF Core, TypeOK
<1>2. CASE Done(r) BY <1>2, NoCopyWhenDone
<1>3. CASE Valid(t) /\ req' = [req EXCEPT ![r] = [req[r] EXCEPT !.pc = "put", !.target = t, !.copy = c]]
  <2> HIDE DEF c, t
  <2>1. /\ req'[r].pc = "put" /\ req'[r].target = t /\ req'[r].copy = c
        /\ \A s \in Requests \ {r} : req'[s] = req[s]
    BY <1>1, <1>3 DEF RequestStates
  <2> SUFFICES ASSUME NEW s \in Requests, NEW u \in Tokens, Carries(s, u)' PROVE CopyFrom(s, u)
    OBVIOUS
  <2>2. CASE s = r
    <3>1. u = t BY <2>1, <2>2 DEF Carries
    <3> QED BY <1>3, <2>1, <2>2, <3>1 DEF CopyFrom, c, Valid
  <2>3. CASE s # r
    <3>1. req'[s] = req[s] BY <2>1, <2>3
    <3> QED BY <3>1, SameWill DEF CopyFrom
  <2> QED BY <2>2, <2>3
<1> QED BY Zenon, <1>2, <1>3 DEF RenewToken

\* A new token.
LEMMA CreateCopies ==
  ASSUME Core, NEW r \in Requests, NEW t \in Tokens, NEW shape \in Shapes, CreateToken(r, t, shape)
  PROVE  \A s \in Requests, u \in Tokens : Carries(s, u)' => CopyFrom(s, u)
<1> DEFINE c == Generate(shape, req[r].by)
<1>1. /\ req \in [Requests -> RequestStates] /\ req[r] \in RequestStates /\ HoldsWhatItNeeds(r)
      /\ ids \subseteq Tokens /\ req[r].pc = "create"
  BY DEF Core, TypeOK, CreateToken
<1>2. req[r].by \in Tokens BY Zenon, <1>1 DEF HoldsWhatItNeeds
<1>3. req' = [req EXCEPT ![r] = [req[r] EXCEPT !.pc = "index", !.target = t, !.copy = c]]
  BY Zenon DEF CreateToken
<1> HIDE DEF c
<1>4. req'[r].copy = c /\ \A s \in Requests \ {r} : req'[s] = req[s]
  BY <1>1, <1>3 DEF RequestStates
<1> SUFFICES ASSUME NEW s \in Requests, NEW u \in Tokens, Carries(s, u)' PROVE CopyFrom(s, u)
  OBVIOUS
<1>5. CASE s = r BY <1>2, <1>4, <1>5 DEF CopyFrom, c
<1>6. CASE s # r
  <2>1. req'[s] = req[s] BY <1>4, <1>6
  <2> QED BY <2>1, SameWill DEF CopyFrom
<1> QED BY <1>5, <1>6

\* Writing a record leaves the copies where they are.
LEMMA WriteCopies ==
  ASSUME Core, NEW r \in Requests, SaveUse(r) \/ RenewPut(r)
  PROVE  \A s \in Requests, u \in Tokens : Carries(s, u)' => CopyFrom(s, u)
<1>1. req \in [Requests -> RequestStates] BY DEF Core, TypeOK
<1>2. (req[r].pc = "save" /\ Goto(r, "saved")) \/ (req[r].pc = "put" /\ Goto(r, "index"))
  BY Zenon DEF SaveUse, RenewPut
<1>3. /\ Only(r) /\ req'[r].by = req[r].by /\ req'[r].target = req[r].target
      /\ req'[r].copy = req[r].copy
      /\ (req[r].pc = "save" /\ req'[r].pc = "saved") \/ (req[r].pc = "put" /\ req'[r].pc = "index")
  BY <1>1, <1>2, GotoStep DEF Steps
<1> SUFFICES ASSUME NEW s \in Requests, NEW u \in Tokens, Carries(s, u)' PROVE CopyFrom(s, u)
  OBVIOUS
<1>4. CASE s = r BY <1>3, <1>4 DEF CopyFrom, Carries
<1>5. CASE s # r
  <2>1. req'[s] = req[s] BY <1>3, <1>5 DEF Only
  <2> QED BY <2>1, SameWill DEF CopyFrom
<1> QED BY <1>4, <1>5

\* The steps of a recursion, and of the other handlers that only move on.
LEMMA OtherCopies ==
  ASSUME Core, NEW r \in Requests,
         \/ EnforceAccess(r) \/ AccessorPurge(r) \/ AccessorUnlist(r)
         \/ RevokeTree(r) \/ (\E t \in Tokens : TreeDescend(r, t))
         \/ TreePurge(r) \/ TreeUnindex(r) \/ TreeDrop(r)
  PROVE  \A s \in Requests, u \in Tokens : Carries(s, u)' => CopyFrom(s, u)
<1>1. req \in [Requests -> RequestStates] /\ req[r] \in RequestStates BY DEF Core, TypeOK
<1>2. CASE Done(r) BY Zenon, <1>2, NoCopyWhenDone
<1>3. ASSUME NEW pc \in {"unlist", "forget"}, Goto(r, pc)
      PROVE  \A s \in Requests, u \in Tokens : Carries(s, u)' => CopyFrom(s, u)
  <2>1. Only(r) /\ req'[r].pc = pc BY ZenonT(40), <1>1, <1>3, GotoStep DEF Steps
  <2> QED BY <2>1, NoCopyAfter DEF Only
<1>4. ASSUME NEW st, NEW pc \in {"revoke", "tree"}, req[r].pc = pc,
             req' = [req EXCEPT ![r] = [req[r] EXCEPT !.pc = "tree", !.stack = st]]
      PROVE  \A s \in Requests, u \in Tokens : Carries(s, u)' => CopyFrom(s, u)
  <2>1. req'[r].pc = "tree" /\ \A s \in Requests \ {r} : req'[s] = req[s]
    BY <1>1, <1>4 DEF RequestStates
  <2> QED BY <2>1, NoCopyAfter
<1>5. ASSUME NEW st, req[r].pc = "tree", req' = [req EXCEPT ![r].stack = st]
      PROVE  \A s \in Requests, u \in Tokens : Carries(s, u)' => CopyFrom(s, u)
  <2>1. req'[r].pc = "tree" /\ \A s \in Requests \ {r} : req'[s] = req[s]
    BY <1>1, <1>5 DEF RequestStates
  <2> QED BY Zenon, <2>1, NoCopyAfter
<1>6. CASE EnforceAccess(r)
  <2>1. CASE Refused(r) BY <2>1, <1>2 DEF Refused
  <2>2. CASE req' = [req EXCEPT ![r].allowed = TRUE]
    <3>1. req'[r].pc = req[r].pc /\ \A s \in Requests \ {r} : req'[s] = req[s]
      BY <1>1, <2>2 DEF RequestStates
    <3>2. req'[r].pc \notin {"save", "saved", "put", "index"} BY <1>6, <3>1 DEF EnforceAccess
    <3> QED BY <3>1, <3>2, NoCopyAfter
  <2> QED BY <1>6, <2>1, <2>2 DEF EnforceAccess
<1>7. CASE AccessorPurge(r) \/ AccessorUnlist(r)
  <2>1. Goto(r, "unlist") \/ Goto(r, "forget") \/ Done(r) BY Zenon, <1>7 DEF AccessorPurge, AccessorUnlist
  <2> QED BY <1>2, <1>3, <2>1
<1>8. CASE RevokeTree(r)
  <2>1. /\ req[r].pc = "revoke"
        /\ req' = [req EXCEPT ![r] = [req[r] EXCEPT !.pc = "tree", !.stack = << Frame(req[r].target) >>]]
    BY Zenon, <1>8 DEF RevokeTree
  <2> QED BY Zenon, <1>4, <2>1
<1>9. ASSUME NEW t \in Tokens, TreeDescend(r, t)
      PROVE  \A s \in Requests, u \in Tokens : Carries(s, u)' => CopyFrom(s, u)
  <2>1. AtFrame(r, "kids") /\ \E st : req' = [req EXCEPT ![r].stack = st]
    BY Zenon, <1>9 DEF TreeDescend
  <2>2. req[r].pc = "tree" BY Zenon, <2>1 DEF AtFrame
  <2> QED BY Zenon, <1>5, <2>1, <2>2
<1>10. CASE TreePurge(r) \/ TreeUnindex(r)
  <2>1. req[r].pc = "tree" /\ (FrameGoto(r, "unindex") \/ FrameGoto(r, "drop")) /\ ids' = ids
    BY Zenon, <1>10 DEF TreePurge, TreeUnindex, AtFrame
  <2>2. Only(r) /\ req'[r].pc = "tree" BY Zenon, <2>1, FrameGotoStep
  <2> QED BY <2>2, NoCopyAfter DEF Only
<1>11. CASE TreeDrop(r)
  <2>1. req[r].pc = "tree" /\ (Done(r) \/ req' = [req EXCEPT ![r].stack = Tail(req[r].stack)])
    BY <1>11 DEF TreeDrop, AtFrame
  <2> QED BY <1>2, <1>5, <2>1
<1> QED BY <1>6, <1>7, <1>8, <1>9, <1>10, <1>11

\* Copies in flight are old, or fresh from the store, or of a new token.
LEMMA WhoCopies ==
  ASSUME Core, [Next]_vars
  PROVE  \A s \in Requests, u \in Tokens : Carries(s, u)' => CopyFrom(s, u)
<1>1. CASE req' = req
  BY <1>1, SameWill DEF CopyFrom
<1>2. ASSUME NEW r \in Requests, NEW t \in Tokens, NEW op \in Ops, NEW target \in TargetsOf(op),
             Authenticate(r, t, op, target)
      PROVE  \A s \in Requests, u \in Tokens : Carries(s, u)' => CopyFrom(s, u)
  <2>1. req' = [req EXCEPT ![r] = [Idle EXCEPT !.pc = "use", !.op = op, !.by = t, !.target = target]]
    BY <1>2 DEF Authenticate
  <2>2. req'[r].pc = "use" /\ \A s \in Requests \ {r} : req'[s] = req[s]
    BY <2>1 DEF Core, TypeOK, Idle
  <2> QED BY <2>2, NoCopyAfter
<1>3. ASSUME NEW r \in Requests, SavedUse(r)
      PROVE  \A s \in Requests, u \in Tokens : Carries(s, u)' => CopyFrom(s, u)
  <2>1. req[r].pc = "saved" /\ Grant(r, req[r].by, TRUE) /\ ids' = ids BY Zenon, <1>3 DEF SavedUse
  <2>2. HoldsWhatItNeeds(r) /\ ids \subseteq Tokens BY DEF Core, TypeOK
  <2>3. req[r].by \in Tokens BY <2>1, <2>2 DEF HoldsWhatItNeeds
  <2> QED BY Zenon, <2>1, <2>3, NoCopyWhenGranted
<1>4. ASSUME NEW r \in Requests, Exhausted(r) \/ CubbyholePut(r) \/ PutDone(r) \/ AccessorForget(r)
      PROVE  \A s \in Requests, u \in Tokens : Carries(s, u)' => CopyFrom(s, u)
  BY Zenon, <1>4, NoCopyWhenDone DEF Exhausted, CubbyholePut, PutDone, AccessorForget
<1>5. ASSUME NEW r \in Requests, Handle(r)
      PROVE  \A s \in Requests, u \in Tokens : Carries(s, u)' => CopyFrom(s, u)
  BY <1>3, <1>4, <1>5, TrackUseCopies, RenewCopies, CreateCopies, WriteCopies, OtherCopies DEF Handle
<1>6. CASE GCStep \/ Tick \/ UNCHANGED vars
  BY <1>1, <1>6 DEF GCStep, GCList, GCUnindex, GCDrop, GCPurge, Tick, vars
<1> QED BY <1>2, <1>5, <1>6 DEF Next

\* What NewExpiry and Generate make of a record is within the cap.
LEMMA NewRecordsWithinCap ==
  ASSUME Core, TTLWithinMax
  PROVE  /\ \A rec \in Records : WithinCap([rec EXCEPT !.expires = NewExpiry(rec)])
         /\ \A rec \in Records : WithinCap(rec) => WithinCap([rec EXCEPT !.uses = @ + 1])
         /\ \A p \in Tokens, shape \in Shapes : WithinCap(Generate(shape, p))
<1>1. clock \in Nat BY TokensAssumption DEF Core, TypeOK
<1>2. ASSUME NEW rec \in Records PROVE WithinCap([rec EXCEPT !.expires = NewExpiry(rec)])
  <2>1. rec.cap \in Nat /\ rec.period \in Nat BY DEF Records
  <2>2. rec.cap # 0 /\ rec.period = 0 => NewExpiry(rec) <= rec.cap BY <1>1, <2>1 DEF NewExpiry
  <2> QED BY <2>2 DEF WithinCap, Records
<1>3. ASSUME NEW rec \in Records, WithinCap(rec) PROVE WithinCap([rec EXCEPT !.uses = @ + 1])
  BY <1>3 DEF WithinCap, Records
<1>4. ASSUME NEW p \in Tokens, NEW shape \in Shapes PROVE WithinCap(Generate(shape, p))
  <2>1. shape.ttl \in Nat /\ shape.maxTTL \in Nat BY TokensAssumption
  <2>2. shape.maxTTL # 0 => shape.ttl <= shape.maxTTL BY Zenon DEF TTLWithinMax
  <2> QED BY <1>1, <2>1, <2>2 DEF WithinCap, Generate
<1> QED BY <1>2, <1>3, <1>4

\* Every step keeps all records and copies within the cap.
LEMMA WithinCapStep ==
  ASSUME Core, AllWithinCap, TTLWithinMax, [Next]_vars
  PROVE  AllWithinCap'
<1>1. ASSUME NEW t \in Tokens, Present(t)' PROVE WithinCap(tok'[t])
  <2>1. CASE tok'[t] = tok[t] BY Zenon, <1>1, <2>1 DEF AllWithinCap, Present
  <2>2. CASE \E p \in Tokens, shape \in Shapes : tok'[t] = Generate(shape, p)
    BY <2>2, NewRecordsWithinCap
  <2>3. CASE \E r \in Requests : Carries(r, t) /\ tok'[t] = req[r].copy
    BY <2>3 DEF AllWithinCap
  <2> QED BY Zenon, <1>1, <2>1, <2>2, <2>3, WhoWrites DEF Present
<1>2. ASSUME NEW r \in Requests, NEW t \in Tokens, Carries(r, t)' PROVE WithinCap(req'[r].copy)
  <2>1. CopyFrom(r, t) BY <1>2, WhoCopies
  <2>2. CASE Carries(r, t) /\ req'[r].copy = req[r].copy BY <2>2 DEF AllWithinCap
  <2>3. CASE Present(t) /\ req'[r].copy \in { [tok[t] EXCEPT !.uses = @ + 1],
                                              [tok[t] EXCEPT !.expires = NewExpiry(tok[t])] }
    <3>1. tok[t] \in Records /\ WithinCap(tok[t]) BY <2>3 DEF Core, TypeOK, Present, AllWithinCap
    <3> QED BY <2>3, <3>1, NewRecordsWithinCap
  <2>4. CASE \E p \in Tokens, shape \in Shapes : req'[r].copy = Generate(shape, p)
    BY <2>4, NewRecordsWithinCap
  <2> QED BY <2>1, <2>2, <2>3, <2>4 DEF CopyFrom
<1>3. \A t \in Tokens : Present(t)' => WithinCap(tok'[t]) BY <1>1
<1>4. \A r \in Requests, t \in Tokens : Carries(r, t)' => WithinCap(req'[r].copy) BY <1>2
<1> QED BY Zenon, <1>3, <1>4 DEF AllWithinCap, WithinCap

\* Provided that no token is created past its cap: whichever of several
\* concurrent writers of a record comes last, none moves the expiry of a token
\* that is not periodic past CreatedAt + maxTTL.
THEOREM RenewalsAreCapped == ASSUME TTLWithinMax PROVE Spec => RenewalCapped
<1>1. Init => Core BY CoreInit
<1>2. Core /\ [Next]_vars => Core' BY CoreStep
<1>3. ASSUME Init PROVE AllWithinCap
  <2>1. \A t \in Tokens : Present(t) => tok[t] = RootRecord BY <1>3 DEF Init, Present
  <2>2. \A r \in Requests : req[r] = Idle BY <1>3 DEF Init
  <2>3. WithinCap(RootRecord) BY DEF WithinCap, RootRecord
  <2> QED BY <2>1, <2>2, <2>3, IdleType DEF AllWithinCap, Carries
<1>4. Core /\ AllWithinCap /\ [Next]_vars => AllWithinCap' BY WithinCapStep
<1>5. ASSUME Core, AllWithinCap, AllWithinCap', [Next]_vars, NEW t \in Tokens,
             Present(t), tok'[t] # None, tok[t].cap # 0, tok[t].period = 0,
             tok'[t].expires > tok[t].expires
      PROVE  tok'[t].expires <= tok[t].cap
  <2>1. WithinCap(tok'[t]) BY <1>5 DEF AllWithinCap, Present, WithinCap
  <2>2. t \in ids /\ tok'[t] # tok[t]
    <3>1. t \in ids /\ tok[t] \in Records BY <1>5 DEF Core, TypeOK, Present
    <3>2. tok[t].expires \in Nat BY <3>1 DEF Records
    <3> QED BY <1>5, <3>1, <3>2
  <2>3. PICK r \in Requests : Carries(r, t) /\ tok'[t] = req[r].copy BY Zenon, <1>5, <2>2, WhoWrites
  <2>4. SameToken(tok'[t], tok[t]) BY <1>5, <2>3 DEF Core, CopiesAgree
  <2> QED BY <1>5, <2>1, <2>4 DEF WithinCap, SameToken
<1>6. Core /\ AllWithinCap /\ AllWithinCap' /\ [Next]_vars =>
        [\A t \in Tokens : /\ Present(t) /\ tok'[t] # None
                           /\ tok[t].cap # 0 /\ tok[t].period = 0
                           /\ tok'[t].expires > tok[t].expires
                           => tok'[t].expires <= tok[t].cap]_vars
  BY <1>5
<1> QED BY <1>1, <1>2, <1>3, <1>4, <1>6, PTL DEF Spec, RenewalCapped
=============================================================================
