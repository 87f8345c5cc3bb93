--------------------------- MODULE WebSessionProofs ---------------------------
(***************************************************************************)
(* TLAPS proofs about WebSession, for any number of tabs, tokens and       *)
(* namespaces and any deployment.                                          *)
(***************************************************************************)
EXTENDS WebSession, TLAPS

Store == [token : Tokens \cup {None}, ns : NsOrRoot]

Deploy == [tabs : SUBSET Tabs, issued : SUBSET Tokens,
           ops : SUBSET {"ns", "page", "ldap", "sso"}, fails : Nat]

\* A tab whose page fits its session and the namespace ns.
Good(r, ns) == r \in Tab /\ PageFits(r) /\ NamespaceKept(r, ns)

\* A tab that keeps the stored token in use.
Holds(r) == r.auth \/ r.pc \in {"boot", "lookup", "cblookup", "door"}

\* The inductive invariant.
Core == SessionTypeOK /\ TokenHeld /\ \A w \in deploy.tabs : Good(tab[w], store.ns)

\* The server's side of the state.
ServerOK == /\ deploy \in Deploy
            /\ state \in [Tokens -> {"unborn", "live", "dead"}]
            /\ existing \subseteq Namespaces

-----------------------------------------------------------------------------
(* Requests and pages.                                                     *)

\* What the request interceptor sends.
LEMMA Sent ==
  ASSUME NEW s \in Store
  PROVE  /\ Send(s) \in Request /\ Send(s) # None
         /\ Send(s).tok = s.token /\ Send(s).ns = s.ns /\ Send(s).ans = "sent"
BY SessionConstants DEF Send, Store, Request

\* A tab of which one field changes is a tab.
LEMMA Updated ==
  ASSUME NEW r \in Tab
  PROVE  /\ \A v \in {"login", "callback", "status", "provider"} : [r EXCEPT !.path = v] \in Tab
         /\ \A v \in {"none", "code", "bad"} : [r EXCEPT !.url = v] \in Tab
         /\ \A v \in BOOLEAN : [r EXCEPT !.init = v] \in Tab
         /\ \A v \in BOOLEAN : [r EXCEPT !.auth = v] \in Tab
         /\ \A v \in {"idle", "busy", "ok", "fail"} : [r EXCEPT !.phase = v] \in Tab
         /\ \A v \in BOOLEAN : [r EXCEPT !.choices = v] \in Tab
         /\ \A v \in BOOLEAN : [r EXCEPT !.expired = v] \in Tab
         /\ \A v \in BOOLEAN : [r EXCEPT !.note = v] \in Tab
         /\ \A v \in {"none", "401", "logout"} : [r EXCEPT !.ended = v] \in Tab
         /\ \A v \in {"none", "boot", "login", "lookup", "authurl", "exchange", "cblookup", "door"} :
              [r EXCEPT !.pc = v] \in Tab
         /\ \A v \in Request \cup {None} : [r EXCEPT !.req = v] \in Tab
         /\ \A v \in Cached \cup {None} : [r EXCEPT !.self = v] \in Tab
         /\ \A v \in Request \cup {None} : [r EXCEPT !.selfReq = v] \in Tab
         /\ \A v \in Request \cup {None} : [r EXCEPT !.pageReq = v] \in Tab
         /\ \A v \in NsOrRoot : [r EXCEPT !.stored = v] \in Tab
         /\ \A v \in BOOLEAN : [r EXCEPT !.oidc = v] \in Tab
         /\ \A v \in BOOLEAN : [r EXCEPT !.foreign = v] \in Tab
<1>1. \A v \in {"login", "callback", "status", "provider"} :
        [r EXCEPT !.path = v] \in Tab
  BY DEF Tab
<1>2. \A v \in {"none", "code", "bad"} : [r EXCEPT !.url = v] \in Tab
  BY DEF Tab
<1>3. \A v \in BOOLEAN : [r EXCEPT !.init = v] \in Tab
  BY DEF Tab
<1>4. \A v \in BOOLEAN : [r EXCEPT !.auth = v] \in Tab
  BY DEF Tab
<1>5. \A v \in {"idle", "busy", "ok", "fail"} : [r EXCEPT !.phase = v] \in Tab
  BY DEF Tab
<1>6. \A v \in BOOLEAN : [r EXCEPT !.choices = v] \in Tab
  BY DEF Tab
<1>7. \A v \in BOOLEAN : [r EXCEPT !.expired = v] \in Tab
  BY DEF Tab
<1>8. \A v \in BOOLEAN : [r EXCEPT !.note = v] \in Tab
  BY DEF Tab
<1>9. \A v \in {"none", "401", "logout"} : [r EXCEPT !.ended = v] \in Tab
  BY DEF Tab
<1>10. \A v \in {"none", "boot", "login", "lookup", "authurl", "exchange", "cblookup", "door"} :
        [r EXCEPT !.pc = v] \in Tab
  BY DEF Tab
<1>11. \A v \in Request \cup {None} : [r EXCEPT !.req = v] \in Tab
  BY DEF Tab
<1>12. \A v \in Cached \cup {None} : [r EXCEPT !.self = v] \in Tab
  BY DEF Tab
<1>13. \A v \in Request \cup {None} : [r EXCEPT !.selfReq = v] \in Tab
  BY DEF Tab
<1>14. \A v \in Request \cup {None} : [r EXCEPT !.pageReq = v] \in Tab
  BY DEF Tab
<1>15. \A v \in NsOrRoot : [r EXCEPT !.stored = v] \in Tab
  BY DEF Tab
<1>16. \A v \in BOOLEAN : [r EXCEPT !.oidc = v] \in Tab
  BY DEF Tab
<1>17. \A v \in BOOLEAN : [r EXCEPT !.foreign = v] \in Tab
  BY DEF Tab
<1> QED BY Zenon, <1>1, <1>2, <1>3, <1>4, <1>5, <1>6, <1>7, <1>8, <1>9, <1>10, <1>11, <1>12, <1>13, <1>14, <1>15, <1>16, <1>17

\* The storage without its token.
LEMMA TokenRemoved ==
  ASSUME store \in Store
  PROVE  RemoveToken \in Store /\ RemoveToken.token = None /\ RemoveToken.ns = store.ns
BY DEF Store, RemoveToken

\* A tab between two pages: no procedure runs, and what is cached or asked for
\* is of the namespace ns.
Between(r, ns) ==
  /\ r \in Tab /\ r.init /\ r.pc = "none" /\ r.req = None
  /\ r.selfReq # None /\ r.selfReq.ans = "ok" => r.selfReq.tok # None
  /\ ~r.foreign => /\ r.self # None => r.self.ns = ns
                   /\ r.selfReq # None => r.selfReq.ns = ns

\* The login page.
LEMMA LoginMounted ==
  ASSUME NEW r, NEW ns, Between(r, ns), ~r.auth, r.note => r.ended = "401"
  PROVE  Good(MountLogin(r), ns) /\ MountLogin(r).auth = FALSE
<1> DEFINE x == MountLogin(r)
<1>1. r \in Tab BY DEF Between
<1>2. /\ x \in Tab /\ x.path = "login" /\ x.phase = "idle" /\ x.expired = r.note /\ x.note = FALSE
      /\ x.init = r.init /\ x.auth = r.auth /\ x.ended = r.ended /\ x.pc = r.pc /\ x.req = r.req
      /\ x.self = r.self /\ x.selfReq = r.selfReq /\ x.pageReq = r.pageReq /\ x.stored = r.stored
      /\ x.foreign = r.foreign
  BY Zenon, <1>1 DEF MountLogin, Tab
<1> HIDE DEF x
<1>3. PageFits(x) BY <1>2 DEF Between, PageFits
<1>4. NamespaceKept(x, ns) BY <1>2 DEF Between, NamespaceKept
<1>5. x.auth = FALSE BY <1>1, <1>2 DEF Tab
<1> QED BY <1>2, <1>3, <1>4, <1>5 DEF Good, x

\* The dashboard.
LEMMA DashboardMounted ==
  ASSUME NEW s \in Store, NEW r, Between(r, s.ns), r.auth, r.path = "status", r.phase = "idle",
         ~r.note, ~r.expired
  PROVE  Good(MountDashboard(r, s), s.ns) /\ MountDashboard(r, s).auth
<1> DEFINE q == IF r.selfReq # None \/ (r.self # None /\ r.self.fresh) THEN r.selfReq ELSE Send(s)
           x == [r EXCEPT !.stored = s.ns, !.selfReq = q]
<1>1. r \in Tab BY DEF Between
<1>2. MountDashboard(r, s) = x BY DEF MountDashboard
<1>3. q \in Request \cup {None} /\ s.ns \in NsOrRoot BY <1>1, Sent DEF Tab, Store
<1>4. q = r.selfReq \/ (q # None /\ q.ns = s.ns /\ q.ans = "sent") BY Sent
<1> HIDE DEF q
<1>5. /\ x \in Tab /\ x.path = r.path /\ x.phase = r.phase /\ x.expired = r.expired /\ x.note = r.note
      /\ x.init = r.init /\ x.auth = r.auth /\ x.ended = r.ended /\ x.pc = r.pc /\ x.req = r.req
      /\ x.self = r.self /\ x.selfReq = q /\ x.pageReq = r.pageReq /\ x.stored = s.ns
      /\ x.foreign = r.foreign
  BY Zenon, <1>1, <1>3 DEF Tab
<1> HIDE DEF x
<1>6. PageFits(x) BY <1>4, <1>5 DEF Between, PageFits
<1>7. NamespaceKept(x, s.ns) BY <1>4, <1>5 DEF Between, NamespaceKept
<1> QED BY <1>2, <1>5, <1>6, <1>7 DEF Good

\* The callback page.
LEMMA CallbackMounted ==
  ASSUME NEW s \in Store, NEW r, Between(r, s.ns), ~r.auth, r.path = "callback", ~r.note, ~r.expired
  PROVE  Good(MountCallback(r, s), s.ns)
<1>1. r \in Tab BY DEF Between
<1> DEFINE c == [r EXCEPT !.oidc = FALSE, !.url = "none"]
<1>2. /\ c \in Tab /\ c.path = r.path /\ c.phase = r.phase /\ c.expired = r.expired /\ c.note = r.note
      /\ c.init = r.init /\ c.auth = r.auth /\ c.ended = r.ended /\ c.pc = r.pc /\ c.req = r.req
      /\ c.self = r.self /\ c.selfReq = r.selfReq /\ c.pageReq = r.pageReq /\ c.stored = r.stored
      /\ c.foreign = r.foreign
  BY Zenon, <1>1 DEF Tab
<1> HIDE DEF c
<1>3. CASE r.url = "code" /\ r.oidc
  <2> DEFINE q == [Send(s) EXCEPT !.tok = None]
             x == [c EXCEPT !.phase = "busy", !.pc = "exchange", !.req = q]
  <2>1. MountCallback(r, s) = x BY <1>3 DEF MountCallback, c
  <2>2. q \in Request /\ q # None BY Sent, SessionConstants DEF Request
  <2> HIDE DEF q
  <2>3. /\ x \in Tab /\ x.path = c.path /\ x.phase = "busy" /\ x.expired = c.expired /\ x.note = c.note
        /\ x.init = c.init /\ x.auth = c.auth /\ x.ended = c.ended /\ x.pc = "exchange" /\ x.req = q
        /\ x.self = c.self /\ x.selfReq = c.selfReq /\ x.pageReq = c.pageReq /\ x.stored = c.stored
        /\ x.foreign = c.foreign
    BY Zenon, <1>2, <2>2 DEF Tab
  <2> HIDE DEF x
  <2>4. PageFits(x) BY <1>2, <2>2, <2>3 DEF Between, PageFits
  <2>5. NamespaceKept(x, s.ns) BY <1>2, <2>3 DEF Between, NamespaceKept
  <2> QED BY <2>1, <2>3, <2>4, <2>5 DEF Good
<1>4. CASE ~(r.url = "code" /\ r.oidc)
  <2> DEFINE x == [c EXCEPT !.phase = "fail"]
  <2>1. MountCallback(r, s) = x BY <1>4 DEF MountCallback, c
  <2>2. /\ x \in Tab /\ x.path = c.path /\ x.phase = "fail" /\ x.expired = c.expired /\ x.note = c.note
        /\ x.init = c.init /\ x.auth = c.auth /\ x.ended = c.ended /\ x.pc = c.pc /\ x.req = c.req
        /\ x.self = c.self /\ x.selfReq = c.selfReq /\ x.pageReq = c.pageReq /\ x.stored = c.stored
        /\ x.foreign = c.foreign
    BY <1>2 DEF Tab
  <2> HIDE DEF x
  <2>3. PageFits(x) BY <1>2, <2>2 DEF Between, PageFits
  <2>4. NamespaceKept(x, s.ns) BY <1>2, <2>2 DEF Between, NamespaceKept
  <2> QED BY <2>1, <2>2, <2>3, <2>4 DEF Good
<1> QED BY <1>3, <1>4

\* The first page after the bootstrap.
LEMMA FirstPageGood ==
  ASSUME NEW s \in Store, NEW r, Between(r, s.ns), r.phase = "idle", ~r.note, ~r.expired
  PROVE  Good(FirstPage(r, s), s.ns) /\ (r.auth => FirstPage(r, s).auth)
<1>1. r \in Tab BY DEF Between
<1>2. CASE r.auth
  <2> DEFINE x == [r EXCEPT !.path = "status", !.url = "none"]
  <2>1. FirstPage(r, s) = MountDashboard(x, s) BY <1>2 DEF FirstPage
  <2>2. /\ x \in Tab /\ x.path = "status" /\ x.phase = r.phase /\ x.expired = r.expired /\ x.note = r.note
        /\ x.init = r.init /\ x.auth = r.auth /\ x.pc = r.pc /\ x.req = r.req
        /\ x.self = r.self /\ x.selfReq = r.selfReq /\ x.foreign = r.foreign
    BY Zenon, <1>1 DEF Tab
  <2> HIDE DEF x
  <2>3. Between(x, s.ns) BY <2>2 DEF Between
  <2> QED BY Zenon, <1>2, <2>1, <2>2, <2>3, DashboardMounted
<1>3. CASE ~r.auth /\ r.path = "callback"
  BY <1>3, CallbackMounted DEF FirstPage
<1>4. CASE ~r.auth /\ r.path # "callback"
  <2>1. FirstPage(r, s) = MountLogin(r) BY <1>4 DEF FirstPage
  <2> QED BY Zenon, <1>4, <2>1, LoginMounted
<1> QED BY <1>2, <1>3, <1>4

\* A page load: with a stored token the tab validates it.
LEMMA LoadGood ==
  ASSUME NEW s \in Store, NEW r \in Tab, ~r.note, NEW p \in {"login", "callback", "status"},
         NEW u \in {"none", "code", "bad"}
  PROVE  Good(Load(r, s, p, u), s.ns) /\ (s.token # None => Holds(Load(r, s, p, u)))
<1> DEFINE a == [r EXCEPT !.path = p, !.url = u, !.auth = FALSE, !.phase = "idle",
                         !.choices = FALSE]
           b == [a EXCEPT !.expired = FALSE, !.ended = "none", !.self = None,
                          !.selfReq = None, !.pageReq = None, !.foreign = FALSE]
<1>0. a \in Tab /\ a.auth = FALSE /\ a.phase = "idle" /\ a.note = r.note /\ a.path = p
  <2>1. a \in Tab BY ZenonT(40), Updated
  <2>2. a.auth = FALSE /\ a.phase = "idle" /\ a.note = r.note /\ a.path = p BY DEF Tab
  <2> QED BY <2>1, <2>2
<1>1. /\ b \in Tab /\ b.auth = FALSE /\ b.phase = "idle" /\ b.expired = FALSE /\ b.ended = "none"
      /\ b.self = None /\ b.selfReq = None /\ b.pageReq = None /\ b.foreign = FALSE /\ b.note = r.note
      /\ b.path = p
  <2> HIDE DEF a
  <2>1. a \in Tab BY <1>0
  <2>2. b \in Tab BY Zenon, <2>1, Updated
  <2>3. /\ b.auth = a.auth /\ b.phase = a.phase /\ b.expired = FALSE /\ b.ended = "none"
        /\ b.self = None /\ b.selfReq = None /\ b.pageReq = None /\ b.foreign = FALSE /\ b.note = a.note
        /\ b.path = a.path
    BY <2>1 DEF Tab
  <2> QED BY <1>0, <2>2, <2>3
<1>2. Load(r, s, p, u) = IF s.token = None
                         THEN FirstPage([b EXCEPT !.init = TRUE, !.pc = "none", !.req = None], s)
                         ELSE [b EXCEPT !.init = FALSE, !.pc = "boot", !.req = Send(s)]
  BY DEF Load
<1> HIDE DEF a, b
<1>3. CASE s.token = None
  <2> DEFINE x == [b EXCEPT !.init = TRUE, !.pc = "none", !.req = None]
  <2>1. /\ x \in Tab /\ x.auth = FALSE /\ x.phase = "idle" /\ x.expired = FALSE
        /\ x.self = None /\ x.selfReq = None /\ x.note = r.note
        /\ x.init = TRUE /\ x.pc = "none" /\ x.req = None
    <3>0. b \in Tab BY Zenon, <1>1
    <3>1. x \in Tab BY Zenon, <3>0, Updated
    <3>2. /\ x.auth = b.auth /\ x.phase = b.phase /\ x.expired = b.expired
          /\ x.self = b.self /\ x.selfReq = b.selfReq /\ x.note = b.note
          /\ x.init = TRUE /\ x.pc = "none" /\ x.req = None
      BY <1>1 DEF Tab
    <3> QED BY <1>1, <3>1, <3>2
  <2>2. Load(r, s, p, u) = FirstPage(x, s) BY <1>2, <1>3
  <2> HIDE DEF x
  <2>3. Between(x, s.ns) BY <2>1 DEF Between
  <2> QED BY <1>3, <2>1, <2>2, <2>3, FirstPageGood
<1>4. CASE s.token # None
  <2> DEFINE x == [b EXCEPT !.init = FALSE, !.pc = "boot", !.req = Send(s)]
  <2>1. /\ x \in Tab /\ x.auth = FALSE /\ x.phase = "idle" /\ x.expired = FALSE
        /\ x.self = None /\ x.selfReq = None /\ x.pageReq = None /\ x.note = r.note
        /\ x.init = FALSE /\ x.pc = "boot" /\ x.req = Send(s)
    <3>1. Send(s) \in Request /\ b \in Tab BY Zenon, <1>1, Sent
    <3>2. x \in Tab BY Zenon, <3>1, Updated
    <3>3. /\ x.auth = b.auth /\ x.phase = b.phase /\ x.expired = b.expired
          /\ x.self = b.self /\ x.selfReq = b.selfReq /\ x.pageReq = b.pageReq /\ x.note = b.note
          /\ x.init = FALSE /\ x.pc = "boot" /\ x.req = Send(s)
      BY <3>1 DEF Tab
    <3> QED BY <1>1, <3>2, <3>3
  <2>2. Load(r, s, p, u) = x BY <1>2, <1>4
  <2> HIDE DEF x
  <2>3. PageFits(x) BY <2>1, Sent DEF PageFits
  <2>4. NamespaceKept(x, s.ns) BY <2>1 DEF NamespaceKept
  <2> QED BY <2>1, <2>2, <2>3, <2>4 DEF Good, Holds
<1> QED BY <1>3, <1>4

\* A loaded tab that is told of a 401: the guard takes a dashboard to the login
\* page, and nothing else moves.
LEMMA LogoutEmitted ==
  ASSUME NEW r, NEW ns, Good(r, ns), r.init, NEW s
  PROVE  Good(Route(EmitLogout(r), s), ns)
<1>1. r \in Tab /\ PageFits(r) /\ NamespaceKept(r, ns) BY DEF Good
<1> DEFINE e == EmitLogout(r)
<1>2. CASE r.auth
  <2>1. /\ e \in Tab /\ e.auth = FALSE /\ e.note = TRUE /\ e.ended = "401" /\ e.path = r.path
        /\ e.init = r.init /\ e.pc = r.pc /\ e.req = r.req /\ e.self = r.self
        /\ e.selfReq = r.selfReq /\ e.foreign = r.foreign
    <3>1. e = [r EXCEPT !.auth = FALSE, !.note = TRUE, !.ended = "401"] BY Zenon, <1>1, <1>2 DEF EmitLogout, Tab
    <3> HIDE DEF e
    <3> QED BY Zenon, <1>1, <3>1 DEF Tab
  <2> HIDE DEF e
  <2>2. Between(e, ns) BY <1>1, <1>2, <2>1 DEF Between, PageFits, NamespaceKept
  <2>3. Route(e, s) = MountLogin(e) BY <1>1, <1>2, <2>1 DEF Route, PageFits
  <2> QED BY Zenon, <2>1, <2>2, <2>3, LoginMounted DEF e
<1>3. CASE ~r.auth
  <2>1. /\ e \in Tab /\ e.auth = FALSE /\ e.note = r.note /\ e.ended = r.ended /\ e.path = r.path
        /\ e.init = r.init /\ e.pc = r.pc /\ e.req = r.req /\ e.self = r.self
        /\ e.selfReq = r.selfReq /\ e.pageReq = r.pageReq /\ e.foreign = r.foreign
        /\ e.phase = r.phase /\ e.expired = r.expired
    <3>1. e = [r EXCEPT !.auth = FALSE, !.note = r.note, !.ended = r.ended]
      BY Zenon, <1>1, <1>3 DEF EmitLogout, Tab
    <3> HIDE DEF e
    <3> QED BY ZenonT(40), <1>1, <3>1 DEF Tab
  <2> HIDE DEF e
  <2>2. Route(e, s) = e BY <1>1, <1>3, <2>1 DEF Route, PageFits
  <2>3. PageFits(e) BY <1>1, <1>3, <2>1 DEF PageFits
  <2>4. NamespaceKept(e, ns) BY <1>1, <2>1 DEF NamespaceKept
  <2> QED BY <2>1, <2>2, <2>3, <2>4 DEF Good, e
<1> QED BY <1>2, <1>3

-----------------------------------------------------------------------------
(* Steps.                                                                  *)

\* A step of one tab.
LEMMA OneTab ==
  ASSUME Core, NEW w \in deploy.tabs, NEW r, tab' = [tab EXCEPT ![w] = r], Good(r, store.ns),
         ServerOK', deploy'.tabs = deploy.tabs, store' \in Store, store'.ns = store.ns,
         \/ store'.token = None
         \/ Holds(r)
         \/ store'.token = store.token /\ ~Holds(tab[w])
  PROVE  Core'
<1>1. tab \in [deploy.tabs -> Tab] /\ r \in Tab BY DEF Core, SessionTypeOK, Good
<1>2. /\ tab' \in [deploy'.tabs -> Tab] /\ tab'[w] = r
      /\ \A v \in deploy.tabs : v # w => tab'[v] = tab[v]
  BY <1>1
<1>3. SessionTypeOK' BY <1>2 DEF SessionTypeOK, ServerOK, Deploy, Store
<1>4. \A v \in deploy'.tabs : Good(tab'[v], store'.ns) BY <1>2 DEF Core
<1>5. TokenHeld'
  <2>1. ASSUME store'.token # None PROVE \E v \in deploy'.tabs : Holds(tab'[v])
    <3>1. CASE Holds(r) BY <1>2, <3>1
    <3>2. CASE store'.token = store.token /\ ~Holds(tab[w])
      <4>1. PICK v \in deploy.tabs : Holds(tab[v]) BY <2>1, <3>2 DEF Core, TokenHeld, Holds
      <4> QED BY <1>2, <3>2, <4>1
    <3> QED BY <2>1, <3>1, <3>2
  <2> QED BY <2>1 DEF TokenHeld, Holds
<1> QED BY <1>3, <1>4, <1>5 DEF Core, Good, PageFits, NamespaceKept

\* The server's side stays as it is.
LEMMA ServerKept ==
  ASSUME Core
  PROVE  /\ ServerOK /\ store \in Store
         /\ (UNCHANGED <<deploy, state, existing>> => ServerOK' /\ deploy'.tabs = deploy.tabs)
BY DEF Core, SessionTypeOK, ServerOK, Store, Deploy

\* What is known of a tab.
LEMMA TabFacts ==
  ASSUME Core, NEW w \in deploy.tabs
  PROVE  /\ tab[w] \in Tab /\ PageFits(tab[w]) /\ NamespaceKept(tab[w], store.ns)
         /\ tab \in [deploy.tabs -> Tab]
BY DEF Core, Good, SessionTypeOK

\* A step of one tab that leaves the storage and the server alone.
LEMMA TabAlone ==
  ASSUME Core, NEW w \in deploy.tabs, NEW r, tab' = [tab EXCEPT ![w] = r], Good(r, store.ns),
         UNCHANGED <<deploy, state, existing, store>>, Holds(tab[w]) => Holds(r)
  PROVE  Core'
BY Zenon, ServerKept, OneTab

\* A step of one tab that removes the stored token.
LEMMA TabSignsOut ==
  ASSUME Core, NEW w \in deploy.tabs, NEW r, tab' = [tab EXCEPT ![w] = r], Good(r, store.ns),
         UNCHANGED <<deploy, state, existing>>, store' = RemoveToken
  PROVE  Core'
BY Zenon, ServerKept, OneTab, TokenRemoved

\* The bootstrap, from a tab that is loading.
LEMMA Booted ==
  ASSUME Core, NEW w \in deploy.tabs, tab[w].pc = "boot", NEW a \in BOOLEAN, NEW x,
         x = [tab[w] EXCEPT !.init = TRUE, !.auth = a, !.pc = "none", !.req = None]
  PROVE  Between(x, store.ns) /\ x.phase = "idle" /\ ~x.note /\ ~x.expired /\ x.auth = a
<1> DEFINE r == tab[w]
<1>1. r \in Tab /\ PageFits(r) /\ NamespaceKept(r, store.ns) /\ r.pc = "boot" BY TabFacts
<1>2. ~r.init BY <1>1 DEF PageFits, Tab
<1> HIDE DEF r
<1>3. x = [r EXCEPT !.init = TRUE, !.auth = a, !.pc = "none", !.req = None] BY DEF r
<1>4. x \in Tab
  <2> DEFINE y == [r EXCEPT !.init = TRUE, !.auth = a]
  <2>1. y \in Tab BY Zenon, <1>1, Updated
  <2>2. x = [y EXCEPT !.pc = "none", !.req = None] BY Zenon, <1>3
  <2> HIDE DEF y
  <2>3. [y EXCEPT !.pc = "none", !.req = None] \in Tab BY Zenon, <2>1, Updated
  <2> QED BY Zenon, <2>2, <2>3
<1>5. /\ x.phase = r.phase /\ x.expired = r.expired /\ x.note = r.note /\ x.init = TRUE /\ x.auth = a
      /\ x.pc = "none" /\ x.req = None /\ x.self = r.self /\ x.selfReq = r.selfReq
  BY Zenon, <1>1, <1>3 DEF Tab
<1> QED BY <1>1, <1>2, <1>4, <1>5 DEF Between, PageFits

\* BootAccepted and BootRefused.
LEMMA BootKeeps ==
  ASSUME Core, NEW w \in deploy.tabs, BootAccepted(w) \/ BootRefused(w)
  PROVE  Core'
<1>1. tab[w] \in Tab /\ PageFits(tab[w]) /\ tab[w].pc = "boot" /\ store \in Store
  BY TabFacts, ServerKept DEF BootAccepted, BootRefused, Proc
<1>2. CASE BootAccepted(w)
  <2>1. PICK x : x = [tab[w] EXCEPT !.init = TRUE, !.auth = TRUE, !.pc = "none", !.req = None] BY Zenon
  <2>2. Between(x, store.ns) /\ x.phase = "idle" /\ ~x.note /\ ~x.expired /\ x.auth BY Zenon, <1>1, <2>1, Booted
  <2>3. Good(FirstPage(x, store), store.ns) /\ FirstPage(x, store).auth BY <1>1, <2>2, FirstPageGood
  <2>4. tab' = [tab EXCEPT ![w] = FirstPage(x, store)] BY <1>2, <2>1 DEF BootAccepted
  <2> QED BY Zenon, <1>2, <2>3, <2>4, TabAlone DEF BootAccepted, Holds
<1>3. CASE BootRefused(w)
  <2>1. PICK x : x = [tab[w] EXCEPT !.init = TRUE, !.pc = "none", !.req = None] OBVIOUS
  <2>2. tab[w].auth = FALSE BY <1>1 DEF PageFits, Tab
  <2>3. x = [tab[w] EXCEPT !.init = TRUE, !.auth = FALSE, !.pc = "none", !.req = None]
    BY ZenonT(40), <1>1, <2>1, <2>2 DEF Tab
  <2>4. Between(x, store.ns) /\ x.phase = "idle" /\ ~x.note /\ ~x.expired BY Zenon, <1>1, <2>3, Booted
  <2>5. Good(FirstPage(x, RemoveToken), store.ns) BY <1>1, <2>4, TokenRemoved, FirstPageGood
  <2>6. tab' = [tab EXCEPT ![w] = FirstPage(x, RemoveToken)] BY Zenon, <1>3, <2>1 DEF BootRefused
  <2> QED BY Zenon, <1>3, <2>5, <2>6, TabSignsOut DEF BootRefused
<1> QED BY <1>2, <1>3

\* A form on screen that is not busy runs no procedure.
LEMMA ReadyForm ==
  ASSUME Core, NEW w \in deploy.tabs, FormReady(w)
  PROVE  /\ tab[w].pc = "none" /\ ~tab[w].auth /\ tab[w].init /\ tab[w].path = "login" /\ ~tab[w].expired
         /\ tab[w].phase \in {"idle", "fail"} /\ tab[w].req = None /\ ~Holds(tab[w])
BY TabFacts DEF FormReady, OnLogin, ExpiredScreen, PageFits, Tab, Holds

\* The steps of the login page that send nothing.
LEMMA FormKeeps ==
  ASSUME Core, NEW w \in deploy.tabs, DismissExpired(w) \/ EditForm(w)
  PROVE  Core'
<1> DEFINE r == tab[w]
<1>1. r \in Tab /\ PageFits(r) /\ NamespaceKept(r, store.ns) BY TabFacts
<1>2. CASE DismissExpired(w)
  <2> DEFINE x == [r EXCEPT !.expired = FALSE]
  <2>1. tab' = [tab EXCEPT ![w] = x] BY <1>2 DEF DismissExpired
  <2> HIDE DEF r
  <2>2. x \in Tab BY Zenon, <1>1, Updated
  <2>3. /\ x.path = r.path /\ x.phase = r.phase /\ x.expired = FALSE /\ x.note = r.note
        /\ x.init = r.init /\ x.auth = r.auth /\ x.ended = r.ended /\ x.pc = r.pc /\ x.req = r.req
        /\ x.self = r.self /\ x.selfReq = r.selfReq /\ x.pageReq = r.pageReq /\ x.stored = r.stored
        /\ x.foreign = r.foreign
    BY <1>1 DEF Tab
  <2> HIDE DEF x
  <2>4. Good(x, store.ns) BY <1>1, <2>2, <2>3 DEF Good, PageFits, NamespaceKept
  <2>5. Holds(r) => Holds(x) BY <2>3 DEF Holds
  <2> QED BY Zenon, <1>2, <2>1, <2>4, <2>5, TabAlone DEF DismissExpired, r
<1>3. CASE EditForm(w)
  <2>1. FormReady(w) BY <1>3 DEF EditForm
  <2>2. r.pc = "none" /\ ~r.auth /\ r.init /\ ~Holds(r) BY <2>1, ReadyForm
  <2>3. PICK p \in {"idle", "fail"}, c \in BOOLEAN : tab' = [tab EXCEPT ![w] = [r EXCEPT !.phase = p, !.choices = c]]
    <3>1. [r EXCEPT !.phase = "fail"] = [r EXCEPT !.phase = "fail", !.choices = r.choices]
          /\ [r EXCEPT !.phase = "idle"] = [r EXCEPT !.phase = "idle", !.choices = r.choices]
          /\ r.choices \in BOOLEAN
      BY ZenonT(40), <1>1 DEF Tab
    <3>2. w \in DOMAIN tab BY TabFacts
    <3>3. CASE tab' = [tab EXCEPT ![w].phase = "fail"] BY Zenon, <3>1, <3>3
    <3>4. CASE tab' = [tab EXCEPT ![w].phase = "idle"] BY ZenonT(40), <3>1, <3>4
    <3>5. CASE tab' = [tab EXCEPT ![w].phase = "idle", ![w].choices = FALSE] BY ZenonT(40), <3>2, <3>5
    <3> QED BY Zenon, <1>3, <3>3, <3>4, <3>5 DEF EditForm
  <2> DEFINE x == [r EXCEPT !.phase = p, !.choices = c]
  <2> HIDE DEF r
  <2>4. x \in Tab BY Zenon, <1>1, Updated
  <2>5. /\ x.path = r.path /\ x.phase = p /\ x.expired = r.expired /\ x.note = r.note
        /\ x.init = r.init /\ x.auth = r.auth /\ x.ended = r.ended /\ x.pc = r.pc /\ x.req = r.req
        /\ x.self = r.self /\ x.selfReq = r.selfReq /\ x.pageReq = r.pageReq /\ x.stored = r.stored
        /\ x.foreign = r.foreign
    BY <1>1 DEF Tab
  <2>6. tab' = [tab EXCEPT ![w] = x] BY <2>3
  <2> HIDE DEF x
  <2>7. Good(x, store.ns) BY <1>1, <2>2, <2>4, <2>5 DEF Good, PageFits, NamespaceKept
  <2> QED BY Zenon, <1>3, <2>2, <2>6, <2>7, TabAlone DEF EditForm, r
<1> QED BY <1>2, <1>3

\* A tab whose form is in phase p, with a choice of namespaces or not, and whose
\* procedure is at c, waiting for q.
Run(r, p, ch, c, q) == [r EXCEPT !.phase = p, !.choices = ch, !.pc = c, !.req = q]

\* A step of a procedure.
LEMMA RunGood ==
  ASSUME NEW r, NEW ns, Good(r, ns), r.init, ~r.auth,
         NEW p \in {"idle", "busy", "ok", "fail"}, NEW ch \in BOOLEAN,
         NEW c \in {"none", "login", "lookup", "authurl", "exchange", "cblookup", "door"},
         NEW q \in Request \cup {None},
         q = None <=> c \in {"none", "door"}, p = "busy" <=> c \notin {"none", "door"},
         p = "ok" <=> c = "door"
  PROVE  Good(Run(r, p, ch, c, q), ns) /\ Run(r, p, ch, c, q).pc = c
<1>1. r \in Tab /\ PageFits(r) /\ NamespaceKept(r, ns) BY Zenon DEF Good
<1> DEFINE x == [r EXCEPT !.phase = p, !.choices = ch, !.pc = c, !.req = q]
<1>2. x \in Tab BY Zenon, <1>1, Updated
<1>3. /\ x.path = r.path /\ x.phase = p /\ x.expired = r.expired /\ x.note = r.note
      /\ x.init = r.init /\ x.auth = r.auth /\ x.ended = r.ended /\ x.pc = c /\ x.req = q
      /\ x.self = r.self /\ x.selfReq = r.selfReq /\ x.pageReq = r.pageReq /\ x.stored = r.stored
      /\ x.foreign = r.foreign
  BY Zenon, <1>1 DEF Tab
<1>4. Run(r, p, ch, c, q) = x BY DEF Run
<1> HIDE DEF x
<1>5. PageFits(x) BY <1>1, <1>3 DEF PageFits
<1>6. NamespaceKept(x, ns) BY <1>1, <1>3 DEF NamespaceKept
<1> QED BY <1>2, <1>3, <1>4, <1>5, <1>6 DEF Good

\* The steps of the login page that start a procedure.
LEMMA SubmitKeeps ==
  ASSUME Core, NEW w \in deploy.tabs, SubmitLdap(w) \/ SubmitSso(w) \/ \E t \in Tokens : SubmitToken(w, t)
  PROVE  Core'
<1> DEFINE r == tab[w]
<1>1. r \in Tab /\ Good(r, store.ns) /\ store \in Store /\ w \in DOMAIN tab
      /\ r.choices \in BOOLEAN
  BY TabFacts, ServerKept DEF Good, Tab
<1>2. FormReady(w) BY DEF SubmitLdap, SubmitSso, SubmitToken
<1>3. r.init /\ ~r.auth /\ ~Holds(r) BY <1>2, ReadyForm
<1>4. ASSUME NEW c \in {"login", "lookup", "authurl"}, NEW s \in Store
      PROVE  Good(Run(r, "busy", r.choices, c, Send(s)), store.ns) /\ Run(r, "busy", r.choices, c, Send(s)).pc = c
  BY <1>1, <1>3, Sent, RunGood
<1>5. ASSUME NEW c, NEW q, tab' = [tab EXCEPT ![w].phase = "busy", ![w].pc = c, ![w].req = q]
      PROVE  tab' = [tab EXCEPT ![w] = Run(r, "busy", r.choices, c, q)]
  <2>1. tab' = [tab EXCEPT ![w] = [r EXCEPT !.phase = "busy", !.pc = c, !.req = q]] BY Zenon, <1>1, <1>5
  <2>2. [r EXCEPT !.phase = "busy", !.pc = c, !.req = q] = Run(r, "busy", r.choices, c, q)
    <3> HIDE DEF r
    <3> QED BY Zenon, <1>1 DEF Run, Tab
  <2> QED BY <2>1, <2>2, Zenon
<1>6. CASE SubmitLdap(w)
  <2>1. store' = RemoveToken /\ RemoveToken \in Store BY <1>1, <1>6, TokenRemoved DEF SubmitLdap
  <2>2. tab' = [tab EXCEPT ![w].phase = "busy", ![w].pc = "login", ![w].req = Send(RemoveToken)]
    BY <1>6, <2>1 DEF SubmitLdap
  <2> DEFINE x == Run(r, "busy", r.choices, "login", Send(RemoveToken))
  <2>3. tab' = [tab EXCEPT ![w] = x] BY Zenon, <1>5, <2>2
  <2>4. Good(x, store.ns) BY <1>4, <2>1
  <2> HIDE DEF x
  <2> QED BY Zenon, <1>6, <2>1, <2>3, <2>4, TabSignsOut DEF SubmitLdap
<1>7. CASE SubmitSso(w)
  <2>1. tab' = [tab EXCEPT ![w].phase = "busy", ![w].pc = "authurl", ![w].req = Send(store)]
    BY <1>7 DEF SubmitSso
  <2> DEFINE x == Run(r, "busy", r.choices, "authurl", Send(store))
  <2>2. tab' = [tab EXCEPT ![w] = x] BY Zenon, <1>5, <2>1
  <2>3. Good(x, store.ns) BY <1>1, <1>4
  <2> HIDE DEF x
  <2> QED BY Zenon, <1>3, <1>7, <2>2, <2>3, TabAlone DEF SubmitSso
<1>8. ASSUME NEW t \in Tokens, SubmitToken(w, t) PROVE Core'
  <2> DEFINE s == [store EXCEPT !.token = t]
  <2>1. s \in Store /\ s.ns = store.ns BY <1>1 DEF Store
  <2>2. store' = s BY <1>8 DEF SubmitToken
  <2>3. tab' = [tab EXCEPT ![w].phase = "busy", ![w].pc = "lookup", ![w].req = Send(s)]
    BY <1>8, <2>2 DEF SubmitToken
  <2> HIDE DEF s
  <2> DEFINE x == Run(r, "busy", r.choices, "lookup", Send(s))
  <2>4. tab' = [tab EXCEPT ![w] = x] BY Zenon, <1>5, <2>3
  <2>5. Good(x, store.ns) /\ x.pc = "lookup" BY <1>4, <2>1
  <2> HIDE DEF x
  <2>6. UNCHANGED <<deploy, state, existing>> BY <1>8 DEF SubmitToken
  <2>7. Holds(x) BY <2>5 DEF Holds
  <2> QED BY Zenon, <2>1, <2>2, <2>4, <2>5, <2>6, <2>7, ServerKept, OneTab
<1> QED BY <1>6, <1>7, <1>8

\* A procedure that waits for an answer belongs to a loaded tab without a session.
LEMMA InProcedure ==
  ASSUME Core, NEW w \in deploy.tabs, tab[w].pc \notin {"none", "boot"}
  PROVE  tab[w].init /\ ~tab[w].auth
BY Zenon, TabFacts DEF PageFits, Tab

\* A procedure goes on or ends, at c and in phase p.
LEMMA ProcedureStep ==
  ASSUME Core, NEW w \in deploy.tabs, tab[w].pc \notin {"none", "boot"},
         NEW p \in {"idle", "busy", "ok", "fail"}, NEW ch \in BOOLEAN,
         NEW c \in {"none", "login", "lookup", "authurl", "exchange", "cblookup", "door"},
         NEW q \in Request \cup {None},
         q = None <=> c \in {"none", "door"}, p = "busy" <=> c \notin {"none", "door"},
         p = "ok" <=> c = "door",
         tab' = [tab EXCEPT ![w] = Run(tab[w], p, ch, c, q)],
         UNCHANGED <<deploy, state, existing>>, store' \in Store, store'.ns = store.ns,
         \/ store'.token = None
         \/ c \in {"lookup", "cblookup", "door"}
         \/ store' = store /\ tab[w].pc \notin {"lookup", "cblookup", "door"}
  PROVE  Core'
<1> DEFINE x == Run(tab[w], p, ch, c, q)
<1>1. Good(tab[w], store.ns) /\ tab[w].init /\ ~tab[w].auth BY InProcedure, TabFacts DEF Good
<1>2. Good(x, store.ns) /\ x.pc = c BY <1>1, RunGood
<1> HIDE DEF x
<1>3. tab' = [tab EXCEPT ![w] = x] BY DEF x
<1>4. store'.token = None \/ Holds(x) \/ (store'.token = store.token /\ ~Holds(tab[w]))
  BY <1>1, <1>2 DEF Holds
<1> QED BY Zenon, <1>2, <1>3, <1>4, ServerKept, OneTab

\* The end of a procedure.
LEMMA Returned ==
  ASSUME Core, NEW w \in deploy.tabs, NEW p, NEW r, r = [tab[w] EXCEPT !.phase = p], Return(w, r)
  PROVE  tab' = [tab EXCEPT ![w] = Run(tab[w], p, tab[w].choices, "none", None)]
<1>1. [r EXCEPT !.pc = "none", !.req = None] = [tab[w] EXCEPT !.phase = p, !.pc = "none", !.req = None]
  OBVIOUS
<1>2. [r EXCEPT !.pc = "none", !.req = None] = Run(tab[w], p, tab[w].choices, "none", None)
  <2> DEFINE t == tab[w]
  <2>1. t \in Tab BY TabFacts
  <2> HIDE DEF t
  <2>2. [t EXCEPT !.phase = p, !.pc = "none", !.req = None] = Run(t, p, t.choices, "none", None)
    BY Zenon, <2>1 DEF Run, Tab
  <2> QED BY <1>1, <2>2 DEF t
<1> QED BY <1>2, Zenon DEF Return

\* The answers of the sign-in procedures.
LEMMA SignInKeeps ==
  ASSUME Core, NEW w \in deploy.tabs,
         \/ CredentialsAccepted(w) \/ AskNamespace(w) \/ SignInRefused(w) \/ SignInAccepted(w)
         \/ SsoRefused(w)
  PROVE  Core'
<1> DEFINE r == tab[w]
<1>1. r \in Tab /\ store \in Store /\ w \in DOMAIN tab /\ r.choices \in BOOLEAN /\ PageFits(r)
      /\ (r.req # None => r.req \in Request)
  BY TabFacts, ServerKept DEF Tab
<1>2. RemoveToken \in Store /\ RemoveToken.token = None /\ RemoveToken.ns = store.ns BY <1>1, TokenRemoved
<1>3. CASE CredentialsAccepted(w)
  <2> DEFINE s == [store EXCEPT !.token = r.req.tok]
             c == IF r.pc = "login" THEN "lookup" ELSE "cblookup"
  <2>1. r.pc \in {"login", "exchange"} /\ r.req \in Request BY <1>1, <1>3 DEF CredentialsAccepted, Proc
  <2>2. s \in Store /\ s.ns = store.ns BY <1>1, <2>1 DEF Store, Request
  <2>3. store' = s /\ UNCHANGED <<deploy, state, existing>> BY <1>3 DEF CredentialsAccepted
  <2>4. tab' = [tab EXCEPT ![w] = [r EXCEPT !.pc = c, !.req = Send(s)]]
    <3>1. tab' = [tab EXCEPT ![w].pc = IF @ = "login" THEN "lookup" ELSE "cblookup", ![w].req = Send(s)]
      BY <1>3, <2>3 DEF CredentialsAccepted
    <3> QED BY Zenon, <1>1, <3>1
  <2> HIDE DEF s
  <2>5. Send(s) \in Request /\ Send(s) # None BY <2>2, Sent
  <2>6. c \in {"lookup", "cblookup"} OBVIOUS
  <2>7. r.phase = "busy" BY <1>1, <2>1 DEF PageFits
  <2> HIDE DEF c
  <2>8. [r EXCEPT !.pc = c, !.req = Send(s)] = Run(r, "busy", r.choices, c, Send(s))
    BY Zenon, <1>1, <2>7 DEF Run, Tab
  <2>9. tab' = [tab EXCEPT ![w] = Run(r, "busy", r.choices, c, Send(s))] BY <2>4, <2>8, Zenon
  <2>10. store' \in Store /\ store'.ns = store.ns BY <2>2, <2>3
  <2>11. PICK q \in Request : q = Send(s) /\ q # None BY <2>5
  <2>12. /\ c \in {"none", "login", "lookup", "authurl", "exchange", "cblookup", "door"}
         /\ c \notin {"none", "door"} /\ c \in {"lookup", "cblookup", "door"}
    BY <2>6
  <2> QED BY ZenonT(40), <1>1, <2>1, <2>3, <2>9, <2>10, <2>11, <2>12, ProcedureStep
<1>4. CASE AskNamespace(w)
  <2>1. r.pc = "login" /\ store' = RemoveToken /\ UNCHANGED <<deploy, state, existing>>
    BY <1>4 DEF AskNamespace, Proc
  <2>2. tab' = [tab EXCEPT ![w] = Run(r, "idle", TRUE, "none", None)]
    BY <1>4 DEF AskNamespace, Return, Run
  <2> QED BY Zenon, <1>2, <2>1, <2>2, ProcedureStep
<1>5. CASE SignInRefused(w)
  <2>1. r.pc \in {"login", "lookup", "exchange", "cblookup"} /\ store' = RemoveToken
        /\ UNCHANGED <<deploy, state, existing>>
    BY <1>5 DEF SignInRefused, Refused
  <2>2. tab' = [tab EXCEPT ![w] = Run(r, "fail", r.choices, "none", None)]
    BY <1>5, Returned DEF SignInRefused
  <2> QED BY Zenon, <1>1, <1>2, <2>1, <2>2, ProcedureStep
<1>6. CASE SignInAccepted(w)
  <2>1. r.pc \in {"lookup", "cblookup"} /\ UNCHANGED <<deploy, state, existing, store>>
    BY <1>6 DEF SignInAccepted, Proc
  <2>2. tab' = [tab EXCEPT ![w] = [r EXCEPT !.phase = "ok", !.note = FALSE, !.pc = "door", !.req = None]]
    BY Zenon, <1>1, <1>6 DEF SignInAccepted
  <2>3. r.note = FALSE BY <1>1 DEF PageFits, Tab
  <2>4. [r EXCEPT !.phase = "ok", !.note = FALSE, !.pc = "door", !.req = None]
          = Run(r, "ok", r.choices, "door", None)
    BY Zenon, <1>1, <2>3 DEF Run, Tab
  <2>5. tab' = [tab EXCEPT ![w] = Run(r, "ok", r.choices, "door", None)] BY <2>2, <2>4, Zenon
  <2> QED BY Zenon, <1>1, <2>1, <2>5, ProcedureStep
<1>7. CASE SsoRefused(w)
  <2>1. r.pc = "authurl" /\ UNCHANGED <<deploy, state, existing, store>> BY <1>7 DEF SsoRefused, Proc
  <2>2. tab' = [tab EXCEPT ![w] = Run(r, "fail", r.choices, "none", None)]
    BY <1>7, Returned DEF SsoRefused
  <2> QED BY Zenon, <1>1, <2>1, <2>2, ProcedureStep
<1> QED BY <1>3, <1>4, <1>5, <1>6, <1>7

\* The door is shut behind the sign-in: the dashboard opens.
LEMMA DoorShutKeeps ==
  ASSUME Core, NEW w \in deploy.tabs, DoorShut(w)
  PROVE  Core'
<1> DEFINE r == tab[w]
           y == [r EXCEPT !.auth = TRUE, !.ended = "none"]
           z == [y EXCEPT !.path = "status", !.url = "none", !.phase = "idle",
                          !.choices = FALSE, !.expired = FALSE]
           v == [z EXCEPT !.pc = "none", !.req = None]
           q == IF r.selfReq # None \/ (r.self # None /\ r.self.fresh) THEN r.selfReq ELSE Send(store)
<1>1. r \in Tab /\ PageFits(r) /\ NamespaceKept(r, store.ns) /\ r.pc = "door" /\ store \in Store
  BY TabFacts, ServerKept DEF DoorShut
<1>2. r.init /\ ~r.auth /\ r.path # "status" /\ ~r.note BY <1>1 DEF PageFits
<1>3. UNCHANGED <<deploy, state, existing, store>> /\ Return(w, Route(y, store)) BY DEF DoorShut
<1> HIDE DEF r
<1>4. y \in Tab BY Zenon, <1>1, Updated
<1>5. /\ y.auth = TRUE /\ y.path = r.path /\ y.init = r.init /\ y.note = r.note /\ y.self = r.self
      /\ y.selfReq = r.selfReq /\ y.foreign = r.foreign
  BY <1>1 DEF Tab
<1> HIDE DEF y
<1>6. Route(y, store) = MountDashboard(z, store) BY Zenon, <1>2, <1>5 DEF Route
<1>7. z \in Tab BY Zenon, <1>4, Updated
<1>8. /\ z.auth = y.auth /\ z.init = y.init /\ z.note = y.note /\ z.self = y.self /\ z.path = "status"
      /\ z.phase = "idle" /\ z.expired = FALSE /\ z.selfReq = y.selfReq /\ z.foreign = y.foreign
  BY Zenon, <1>4 DEF Tab
<1> HIDE DEF z
<1>9. v \in Tab BY Zenon, <1>7, Updated
<1>10. /\ v.auth = z.auth /\ v.init = z.init /\ v.note = z.note /\ v.self = z.self /\ v.path = z.path
       /\ v.phase = z.phase /\ v.expired = z.expired /\ v.selfReq = z.selfReq /\ v.foreign = z.foreign
       /\ v.pc = "none" /\ v.req = None
  BY <1>7 DEF Tab
<1>11. [MountDashboard(z, store) EXCEPT !.pc = "none", !.req = None] = MountDashboard(v, store)
  <2>1. MountDashboard(z, store) = [z EXCEPT !.stored = store.ns, !.selfReq = q]
    BY <1>5, <1>8 DEF MountDashboard
  <2>2. MountDashboard(v, store) = [v EXCEPT !.stored = store.ns, !.selfReq = q]
    BY ZenonT(40), <1>5, <1>8, <1>10 DEF MountDashboard
  <2> HIDE DEF q
  <2>3. [[z EXCEPT !.stored = store.ns, !.selfReq = q] EXCEPT !.pc = "none", !.req = None]
          = [[z EXCEPT !.pc = "none", !.req = None] EXCEPT !.stored = store.ns, !.selfReq = q]
    BY Zenon, <1>7 DEF Tab
  <2> QED BY <2>1, <2>2, <2>3, Zenon
<1> HIDE DEF v
<1>12. Between(v, store.ns) BY <1>1, <1>2, <1>5, <1>8, <1>9, <1>10 DEF Between, PageFits, NamespaceKept
<1>13. Good(MountDashboard(v, store), store.ns) /\ MountDashboard(v, store).auth
  BY <1>1, <1>2, <1>5, <1>8, <1>10, <1>12, DashboardMounted
<1>14. tab' = [tab EXCEPT ![w] = MountDashboard(v, store)] BY Zenon, <1>3, <1>6, <1>11 DEF Return
<1> QED BY Zenon, <1>3, <1>13, <1>14, TabAlone DEF Holds

\* The tab leaves for the provider: it holds nothing any more.
LEMMA LeaveKeeps ==
  ASSUME Core, NEW w \in deploy.tabs, LeaveForProvider(w)
  PROVE  Core'
<1> DEFINE r == tab[w]
           y == [r EXCEPT !.oidc = TRUE, !.path = "provider", !.init = FALSE, !.phase = "idle",
                          !.expired = FALSE, !.ended = "none"]
           z == [y EXCEPT !.self = None, !.selfReq = None, !.pageReq = None]
           x == [z EXCEPT !.pc = "none", !.req = None]
<1>1. r \in Tab /\ PageFits(r) /\ r.pc = "authurl" BY TabFacts DEF LeaveForProvider, Proc
<1>2. r.auth = FALSE /\ r.note = FALSE /\ ~Holds(r) BY <1>1 DEF PageFits, Tab, Holds
<1>3. UNCHANGED <<deploy, state, existing, store>> /\ tab' = [tab EXCEPT ![w] = x]
  BY Zenon DEF LeaveForProvider, Return
<1> HIDE DEF r
<1>4. y \in Tab BY ZenonT(40), <1>1, Updated
<1>5. y.auth = r.auth /\ y.note = r.note /\ y.init = FALSE /\ y.phase = "idle" /\ y.expired = FALSE
  BY <1>1 DEF Tab
<1> HIDE DEF y
<1>6. z \in Tab BY ZenonT(40), <1>4, Updated
<1>7. /\ z.auth = y.auth /\ z.note = y.note /\ z.init = y.init /\ z.phase = y.phase /\ z.expired = y.expired
      /\ z.self = None /\ z.selfReq = None /\ z.pageReq = None
  BY <1>4 DEF Tab
<1> HIDE DEF z
<1>8. x \in Tab BY Zenon, <1>6, Updated
<1>9. /\ x.auth = z.auth /\ x.note = z.note /\ x.init = z.init /\ x.phase = z.phase /\ x.expired = z.expired
      /\ x.self = z.self /\ x.selfReq = z.selfReq /\ x.pageReq = z.pageReq /\ x.pc = "none" /\ x.req = None
  BY <1>6 DEF Tab
<1> HIDE DEF x
<1>10. Good(x, store.ns) BY <1>2, <1>5, <1>7, <1>8, <1>9 DEF Good, PageFits, NamespaceKept
<1> QED BY Zenon, <1>2, <1>3, <1>10, TabAlone DEF r

\* Page loads.
LEMMA LoadKeeps ==
  ASSUME Core, NEW w \in deploy.tabs, ReturnFromProvider(w) \/ Reload(w)
  PROVE  Core'
<1>1. tab[w] \in Tab /\ ~tab[w].note /\ store \in Store BY TabFacts, ServerKept DEF PageFits
<1>2. UNCHANGED <<deploy, state, existing, store>> BY DEF ReturnFromProvider, Reload
<1>3. PICK p \in {"login", "callback", "status"}, u \in {"none", "code", "bad"} :
        tab' = [tab EXCEPT ![w] = Load(tab[w], store, p, u)]
  <2>1. CASE ReturnFromProvider(w)
    <3>1. PICK back \in {<<"callback", "code">>, <<"callback", "bad">>, <<"login", "none">>} :
            tab' = [tab EXCEPT ![w] = Load(tab[w], store, back[1], back[2])]
      BY <2>1, Zenon DEF ReturnFromProvider
    <3>2. back[1] \in {"login", "callback", "status"} /\ back[2] \in {"none", "code", "bad"} OBVIOUS
    <3> QED BY <3>1, <3>2, Zenon
  <2>2. CASE Reload(w) BY Zenon, <1>1, <2>2 DEF Reload, Tab
  <2> QED BY <2>1, <2>2
<1>4. Good(Load(tab[w], store, p, u), store.ns) /\ (store.token # None => Holds(Load(tab[w], store, p, u)))
  BY <1>1, LoadGood
<1>5. store'.token = None \/ Holds(Load(tab[w], store, p, u)) BY <1>2, <1>4
<1> QED BY Zenon, <1>1, <1>2, <1>3, <1>4, <1>5, ServerKept, OneTab

\* The link under a failed callback, and the logout.
LEMMA ToLoginKeeps ==
  ASSUME Core, NEW w \in deploy.tabs, BackToLogin(w) \/ Logout(w)
  PROVE  Core'
<1> DEFINE r == tab[w]
<1>1. r \in Tab /\ PageFits(r) /\ NamespaceKept(r, store.ns) BY TabFacts
<1>2. CASE BackToLogin(w)
  <2>1. tab' = [tab EXCEPT ![w] = MountLogin(r)] /\ UNCHANGED <<deploy, state, existing, store>>
        /\ r.path = "callback" /\ r.init /\ r.phase = "fail"
    BY <1>2 DEF BackToLogin
  <2> HIDE DEF r
  <2>2. r.pc = "none" /\ r.req = None /\ ~r.auth /\ ~r.note /\ ~Holds(r) BY <1>1, <2>1 DEF PageFits, Tab, Holds
  <2>3. Between(r, store.ns) BY <1>1, <2>1, <2>2 DEF Between, PageFits, NamespaceKept
  <2>4. Good(MountLogin(r), store.ns) BY Zenon, <2>2, <2>3, LoginMounted
  <2> QED BY Zenon, <2>1, <2>2, <2>4, TabAlone DEF r
<1>3. CASE Logout(w)
  <2> DEFINE y == [r EXCEPT !.auth = FALSE, !.ended = "logout"]
  <2>1. store' = RemoveToken /\ UNCHANGED <<deploy, state, existing>> /\ r.init /\ r.auth /\ r.path = "status"
    BY <1>3 DEF Logout, OnDashboard
  <2>2. tab' = [tab EXCEPT ![w] = Route(y, RemoveToken)] BY <1>3, <2>1 DEF Logout
  <2> HIDE DEF r
  <2>3. y \in Tab BY Zenon, <1>1, Updated
  <2>4. /\ y.auth = FALSE /\ y.path = r.path /\ y.init = r.init /\ y.note = r.note /\ y.self = r.self
        /\ y.selfReq = r.selfReq /\ y.foreign = r.foreign /\ y.pc = r.pc /\ y.req = r.req
    BY <1>1 DEF Tab
  <2> HIDE DEF y
  <2>5. Between(y, store.ns) /\ ~y.note BY <1>1, <2>1, <2>3, <2>4 DEF Between, PageFits, NamespaceKept
  <2>6. Route(y, RemoveToken) = MountLogin(y) BY <2>1, <2>4 DEF Route
  <2>7. Good(Route(y, RemoveToken), store.ns) BY Zenon, <2>4, <2>5, <2>6, LoginMounted
  <2> QED BY Zenon, <2>1, <2>2, <2>7, TabSignsOut
<1> QED BY <1>2, <1>3

-----------------------------------------------------------------------------
(* The dashboard's queries.                                                *)

\* A tab whose cache and whose requests in flight change.
LEMMA QueriesChange ==
  ASSUME NEW r, NEW ns, Good(r, ns), NEW c \in Cached \cup {None}, NEW q \in Request \cup {None},
         NEW p \in Request \cup {None},
         ~r.init => c = None /\ q = None /\ p = None,
         q # None /\ q.ans = "ok" => q.tok # None,
         ~r.foreign => (c # None => c.ns = ns) /\ (q # None => q.ns = ns)
  PROVE  /\ Good([r EXCEPT !.self = c, !.selfReq = q, !.pageReq = p], ns)
         /\ [r EXCEPT !.self = c, !.selfReq = q, !.pageReq = p].init = r.init
         /\ Holds(r) => Holds([r EXCEPT !.self = c, !.selfReq = q, !.pageReq = p])
<1> DEFINE x == [r EXCEPT !.self = c, !.selfReq = q, !.pageReq = p]
<1>1. r \in Tab /\ PageFits(r) /\ NamespaceKept(r, ns) BY DEF Good
<1>2. x \in Tab BY Zenon, <1>1, Updated
<1>3. /\ x.path = r.path /\ x.phase = r.phase /\ x.expired = r.expired /\ x.note = r.note
      /\ x.init = r.init /\ x.auth = r.auth /\ x.ended = r.ended /\ x.pc = r.pc /\ x.req = r.req
      /\ x.self = c /\ x.selfReq = q /\ x.pageReq = p /\ x.stored = r.stored /\ x.foreign = r.foreign
  BY <1>1 DEF Tab
<1> HIDE DEF x
<1>4. PageFits(x) BY <1>1, <1>3 DEF PageFits
<1>5. NamespaceKept(x, ns) BY <1>1, <1>3 DEF NamespaceKept
<1>6. Holds(r) => Holds(x) BY <1>3 DEF Holds
<1> QED BY <1>2, <1>3, <1>4, <1>5, <1>6 DEF Good, x

\* The same for one of them at a time.
LEMMA OneQueryChanges ==
  ASSUME NEW r, NEW ns, Good(r, ns)
  PROVE  /\ \A c \in Cached \cup {None} :
              (c # None => r.init /\ (~r.foreign => c.ns = ns)) =>
                 Good([r EXCEPT !.self = c], ns) /\ (Holds(r) => Holds([r EXCEPT !.self = c]))
         /\ \A q \in Request \cup {None} :
              (q # None => r.init /\ (~r.foreign => q.ns = ns) /\ (q.ans = "ok" => q.tok # None)) =>
                 /\ Good([r EXCEPT !.selfReq = q], ns) /\ [r EXCEPT !.selfReq = q].init = r.init
                 /\ Holds(r) => Holds([r EXCEPT !.selfReq = q])
         /\ \A p \in Request \cup {None} :
              (p # None => r.init) =>
                 /\ Good([r EXCEPT !.pageReq = p], ns) /\ [r EXCEPT !.pageReq = p].init = r.init
                 /\ Holds(r) => Holds([r EXCEPT !.pageReq = p])
<1>1. r \in Tab /\ PageFits(r) /\ NamespaceKept(r, ns) BY DEF Good
<1>2. /\ r.self \in Cached \cup {None} /\ r.selfReq \in Request \cup {None} /\ r.pageReq \in Request \cup {None}
      /\ ~r.init => r.self = None /\ r.selfReq = None /\ r.pageReq = None
      /\ r.selfReq # None /\ r.selfReq.ans = "ok" => r.selfReq.tok # None
      /\ ~r.foreign => (r.self # None => r.self.ns = ns) /\ (r.selfReq # None => r.selfReq.ns = ns)
  <2>1. r.self \in Cached \cup {None} /\ r.selfReq \in Request \cup {None} /\ r.pageReq \in Request \cup {None}
    BY <1>1 DEF Tab
  <2> QED BY <1>1, <2>1 DEF PageFits, NamespaceKept
<1>3. ASSUME NEW c \in Cached \cup {None}, c # None => r.init /\ (~r.foreign => c.ns = ns)
      PROVE  Good([r EXCEPT !.self = c], ns) /\ (Holds(r) => Holds([r EXCEPT !.self = c]))
  <2>1. [r EXCEPT !.self = c] = [r EXCEPT !.self = c, !.selfReq = r.selfReq, !.pageReq = r.pageReq]
    BY Zenon, <1>1 DEF Tab
  <2>2. PICK q, p : q = r.selfReq /\ p = r.pageReq OBVIOUS
  <2>3. Good([r EXCEPT !.self = c, !.selfReq = q, !.pageReq = p], ns)
        /\ (Holds(r) => Holds([r EXCEPT !.self = c, !.selfReq = q, !.pageReq = p]))
    <3>1. c \in Cached \cup {None} /\ q \in Request \cup {None} /\ p \in Request \cup {None}
      BY <1>2, <2>2
    <3>2. /\ ~r.init => c = None /\ q = None /\ p = None
          /\ q # None /\ q.ans = "ok" => q.tok # None
      BY <1>2, <1>3, <2>2
    <3>3. ~r.foreign => (c # None => c.ns = ns) /\ (q # None => q.ns = ns)
      BY <1>2, <1>3, <2>2
    <3> QED BY Zenon, <3>1, <3>2, <3>3, QueriesChange
  <2> QED BY <2>1, <2>2, <2>3, Zenon
<1>4. ASSUME NEW q \in Request \cup {None},
             q # None => r.init /\ (~r.foreign => q.ns = ns) /\ (q.ans = "ok" => q.tok # None)
      PROVE  /\ Good([r EXCEPT !.selfReq = q], ns) /\ [r EXCEPT !.selfReq = q].init = r.init
             /\ Holds(r) => Holds([r EXCEPT !.selfReq = q])
  <2>1. [r EXCEPT !.selfReq = q] = [r EXCEPT !.self = r.self, !.selfReq = q, !.pageReq = r.pageReq]
    BY Zenon, <1>1 DEF Tab
  <2>2. PICK c, p : c = r.self /\ p = r.pageReq OBVIOUS
  <2>3. /\ Good([r EXCEPT !.self = c, !.selfReq = q, !.pageReq = p], ns)
        /\ [r EXCEPT !.self = c, !.selfReq = q, !.pageReq = p].init = r.init
        /\ Holds(r) => Holds([r EXCEPT !.self = c, !.selfReq = q, !.pageReq = p])
    <3>1. c \in Cached \cup {None} /\ q \in Request \cup {None} /\ p \in Request \cup {None}
      BY <1>2, <2>2
    <3>2. /\ ~r.init => c = None /\ q = None /\ p = None
          /\ q # None /\ q.ans = "ok" => q.tok # None
      BY <1>2, <1>4, <2>2
    <3>3. ~r.foreign => (c # None => c.ns = ns) /\ (q # None => q.ns = ns)
      BY <1>2, <1>4, <2>2
    <3> QED BY Zenon, <3>1, <3>2, <3>3, QueriesChange
  <2> QED BY <2>1, <2>2, <2>3, Zenon
<1>5. ASSUME NEW p \in Request \cup {None}, p # None => r.init
      PROVE  /\ Good([r EXCEPT !.pageReq = p], ns) /\ [r EXCEPT !.pageReq = p].init = r.init
             /\ Holds(r) => Holds([r EXCEPT !.pageReq = p])
  <2>1. [r EXCEPT !.pageReq = p] = [r EXCEPT !.self = r.self, !.selfReq = r.selfReq, !.pageReq = p]
    BY Zenon, <1>1 DEF Tab
  <2>2. PICK c, q : c = r.self /\ q = r.selfReq OBVIOUS
  <2>3. /\ Good([r EXCEPT !.self = c, !.selfReq = q, !.pageReq = p], ns)
        /\ [r EXCEPT !.self = c, !.selfReq = q, !.pageReq = p].init = r.init
        /\ Holds(r) => Holds([r EXCEPT !.self = c, !.selfReq = q, !.pageReq = p])
    <3>1. c \in Cached \cup {None} /\ q \in Request \cup {None} /\ p \in Request \cup {None}
      BY <1>2, <2>2
    <3>2. /\ ~r.init => c = None /\ q = None /\ p = None
          /\ q # None /\ q.ans = "ok" => q.tok # None
      BY <1>2, <1>5, <2>2
    <3>3. ~r.foreign => (c # None => c.ns = ns) /\ (q # None => q.ns = ns)
      BY <1>2, <1>5, <2>2
    <3> QED BY Zenon, <3>1, <3>2, <3>3, QueriesChange
  <2> QED BY <2>1, <2>2, <2>3, Zenon
<1> QED BY <1>3, <1>4, <1>5

\* PollSelf, PageQuery and AgeSelf.
LEMMA QueryKeeps ==
  ASSUME Core, NEW w \in deploy.tabs, PollSelf(w) \/ PageQuery(w) \/ AgeSelf(w)
  PROVE  Core'
<1>1. /\ tab[w] \in Tab /\ store \in Store /\ Good(tab[w], store.ns) /\ PageFits(tab[w])
      /\ NamespaceKept(tab[w], store.ns)
  BY TabFacts, ServerKept DEF Good
<1>2. UNCHANGED <<deploy, state, existing, store>> BY DEF PollSelf, PageQuery, AgeSelf
<1>3. CASE PollSelf(w)
  <2>1. tab' = [tab EXCEPT ![w] = [tab[w] EXCEPT !.selfReq = Send(store)]] /\ tab[w].init
    BY <1>3 DEF PollSelf, OnDashboard
  <2>2. /\ Good([tab[w] EXCEPT !.selfReq = Send(store)], store.ns)
        /\ Holds(tab[w]) => Holds([tab[w] EXCEPT !.selfReq = Send(store)])
    BY <1>1, <2>1, Sent, OneQueryChanges
  <2> QED BY Zenon, <1>2, <2>1, <2>2, TabAlone
<1>4. CASE PageQuery(w)
  <2>1. tab' = [tab EXCEPT ![w] = [tab[w] EXCEPT !.pageReq = Send(store)]] /\ tab[w].init
    BY <1>4 DEF PageQuery, OnDashboard
  <2>2. /\ Good([tab[w] EXCEPT !.pageReq = Send(store)], store.ns)
        /\ Holds(tab[w]) => Holds([tab[w] EXCEPT !.pageReq = Send(store)])
    BY <1>1, <2>1, Sent, OneQueryChanges
  <2> QED BY Zenon, <1>2, <2>1, <2>2, TabAlone
<1>5. CASE AgeSelf(w)
  <2>1. PICK c : c = tab[w].self OBVIOUS
  <2>2. c \in Cached /\ c # None /\ tab[w].init /\ (~tab[w].foreign => c.ns = store.ns)
    BY <1>1, <1>5, <2>1 DEF AgeSelf, Tab, PageFits, NamespaceKept
  <2>3. PICK d \in {None, [c EXCEPT !.fresh = FALSE]} : tab' = [tab EXCEPT ![w] = [tab[w] EXCEPT !.self = d]]
    BY <1>5, <2>1 DEF AgeSelf
  <2>4. d \in Cached \cup {None} /\ (d # None => d.ns = c.ns) BY Zenon, <2>2 DEF Cached
  <2>5. Good([tab[w] EXCEPT !.self = d], store.ns) /\ (Holds(tab[w]) => Holds([tab[w] EXCEPT !.self = d]))
    BY <1>1, <2>2, <2>4, OneQueryChanges
  <2> QED BY Zenon, <1>2, <2>3, <2>5, TabAlone
<1> QED BY <1>3, <1>4, <1>5

\* A 401 for a tab that is loaded.
LEMMA UnauthorizedKeeps ==
  ASSUME Core, NEW w \in deploy.tabs, NEW r, Good(r, store.ns), r.init, Unauthorized(w, r),
         UNCHANGED <<deploy, state, existing>>
  PROVE  Core'
BY Zenon, LogoutEmitted, TabSignsOut DEF Unauthorized

\* The answer to lookup-self.
LEMMA SelfAnsweredKeeps ==
  ASSUME Core, NEW w \in deploy.tabs, SelfAnswered(w)
  PROVE  Core'
<1>1. /\ tab[w] \in Tab /\ Good(tab[w], store.ns) /\ PageFits(tab[w]) /\ NamespaceKept(tab[w], store.ns)
  BY TabFacts DEF Good
<1>2. PICK q, r : q = tab[w].selfReq /\ r = [tab[w] EXCEPT !.selfReq = None] BY Zenon
<1>3. /\ Good(r, store.ns) /\ r.init = tab[w].init /\ (Holds(tab[w]) => Holds(r))
  BY <1>1, <1>2, OneQueryChanges
<1>4. /\ q # None /\ tab[w].init /\ q \in Request /\ (q.ans = "ok" => q.tok # None)
      /\ ~tab[w].foreign => q.ns = store.ns
  <2>1. q # None /\ q \in Request BY <1>1, <1>2 DEF SelfAnswered, Tab
  <2> QED BY <1>1, <1>2, <2>1 DEF PageFits, NamespaceKept
<1>5. UNCHANGED <<deploy, state, existing>> BY DEF SelfAnswered
<1>6. CASE q.ans = "401" /\ Unauthorized(w, r) BY Zenon, <1>3, <1>4, <1>5, <1>6, UnauthorizedKeeps
<1>7. CASE /\ q.ans = "ok" /\ UNCHANGED store
           /\ tab' = [tab EXCEPT ![w] = [r EXCEPT !.self = [tok |-> q.tok, ns |-> q.ns, fresh |-> TRUE]]]
  <2>1. PICK c : c = [tok |-> q.tok, ns |-> q.ns, fresh |-> TRUE] BY Zenon
  <2>2. c \in Cached /\ c.ns = q.ns BY <1>4, <1>7, <2>1 DEF Cached, Request
  <2>3. r.foreign = tab[w].foreign /\ r.init BY <1>1, <1>2, <1>3, <1>4 DEF Tab
  <2>4. Good([r EXCEPT !.self = c], store.ns) /\ (Holds(r) => Holds([r EXCEPT !.self = c]))
    BY <1>3, <1>4, <2>2, <2>3, OneQueryChanges
  <2>5. tab' = [tab EXCEPT ![w] = [r EXCEPT !.self = c]] BY <1>7, <2>1
  <2> QED BY Zenon, <1>3, <1>5, <1>7, <2>4, <2>5, TabAlone
<1>8. CASE q.ans = "err" /\ tab' = [tab EXCEPT ![w] = r] /\ UNCHANGED store
  BY Zenon, <1>3, <1>5, <1>8, TabAlone
<1> QED BY <1>2, <1>6, <1>7, <1>8, Zenon DEF SelfAnswered

\* The answer to a page's query.
LEMMA PageAnsweredKeeps ==
  ASSUME Core, NEW w \in deploy.tabs, PageAnswered(w)
  PROVE  Core'
<1>1. /\ tab[w] \in Tab /\ Good(tab[w], store.ns) /\ PageFits(tab[w])
  BY TabFacts DEF Good
<1>2. PICK q, r : q = tab[w].pageReq /\ r = [tab[w] EXCEPT !.pageReq = None] BY Zenon
<1>3. /\ Good(r, store.ns) /\ r.init = tab[w].init /\ (Holds(tab[w]) => Holds(r))
  BY <1>1, <1>2, OneQueryChanges
<1>4. tab[w].init BY <1>1 DEF PageAnswered, PageFits
<1>5. UNCHANGED <<deploy, state, existing>> BY DEF PageAnswered
<1>6. CASE q.ans = "401" /\ Unauthorized(w, r) BY Zenon, <1>3, <1>4, <1>5, <1>6, UnauthorizedKeeps
<1>7. CASE q.ans # "401" /\ tab' = [tab EXCEPT ![w] = r] /\ UNCHANGED store
  BY Zenon, <1>3, <1>5, <1>7, TabAlone
<1> QED BY <1>2, <1>6, <1>7, Zenon DEF PageAnswered

\* A switch: the tab that switches loads, and to every other tab it is foreign.
LEMMA SwitchKeeps ==
  ASSUME Core, NEW w \in deploy.tabs, NEW ns \in NsOrRoot, SwitchTo(w, ns)
  PROVE  Core'
<1>1. /\ deploy' = deploy /\ state' = state /\ existing' = existing /\ store' = [store EXCEPT !.ns = ns]
      /\ tab' = [v \in deploy.tabs |->
                   IF v = w THEN Load(tab[v], store', "status", "none") ELSE [tab[v] EXCEPT !.foreign = TRUE]]
  BY DEF SwitchTo
<1>2. store' \in Store /\ store'.ns = ns /\ store'.token = store.token BY <1>1, ServerKept DEF Store
<1>3. Good(tab'[w], store'.ns) /\ (store'.token # None => Holds(tab'[w]))
  <2>1. tab[w] \in Tab /\ ~tab[w].note BY TabFacts DEF PageFits
  <2>2. tab'[w] = Load(tab[w], store', "status", "none") BY <1>1
  <2>3. PICK s \in Store : s = store' BY <1>2
  <2>4. Good(Load(tab[w], s, "status", "none"), s.ns) /\ (s.token # None => Holds(Load(tab[w], s, "status", "none")))
    BY <2>1, LoadGood
  <2> QED BY Zenon, <2>2, <2>3, <2>4
<1>4. \A v \in deploy.tabs : v # w => Good(tab'[v], store'.ns)
  <2> SUFFICES ASSUME NEW v \in deploy.tabs, v # w PROVE Good(tab'[v], store'.ns) OBVIOUS
  <2>1. PICK r : r = tab[v] OBVIOUS
  <2>2. r \in Tab /\ PageFits(r) BY <2>1, TabFacts
  <2> DEFINE x == [r EXCEPT !.foreign = TRUE]
  <2>3. tab'[v] = x BY Zenon, <1>1, <2>1
  <2>4. x \in Tab BY Zenon, <2>2, Updated
  <2>5. /\ x.path = r.path /\ x.phase = r.phase /\ x.expired = r.expired /\ x.note = r.note
        /\ x.init = r.init /\ x.auth = r.auth /\ x.ended = r.ended /\ x.pc = r.pc /\ x.req = r.req
        /\ x.self = r.self /\ x.selfReq = r.selfReq /\ x.pageReq = r.pageReq /\ x.foreign
    BY <2>2 DEF Tab
  <2> HIDE DEF x
  <2>6. PageFits(x) BY <2>2, <2>5 DEF PageFits
  <2>7. NamespaceKept(x, store'.ns) BY <2>5 DEF NamespaceKept
  <2> QED BY <2>3, <2>4, <2>6, <2>7 DEF Good
<1>5. \A v \in deploy.tabs : Good(tab'[v], store'.ns) BY <1>3, <1>4
<1>6. tab' \in [deploy.tabs -> Tab]
  <2>1. \A v \in deploy.tabs : tab'[v] \in Tab BY <1>5 DEF Good
  <2>2. tab' = [v \in deploy.tabs |-> tab'[v]] BY <1>1
  <2> QED BY <2>1, <2>2
<1>7. SessionTypeOK' BY <1>1, <1>2, <1>6 DEF SessionTypeOK, Core, Store
<1>8. TokenHeld' BY <1>1, <1>3 DEF TokenHeld, Holds
<1> QED BY Zenon, <1>1, <1>5, <1>7, <1>8 DEF Core, Good, PageFits, NamespaceKept

-----------------------------------------------------------------------------
(* The server's steps.                                                     *)

\* An answer to a tab.
LEMMA TabAnswered ==
  ASSUME Core, NEW w \in deploy.tabs, NEW r, tab' = [tab EXCEPT ![w] = r], Good(r, store.ns),
         ServerOK', deploy'.tabs = deploy.tabs, UNCHANGED store, Holds(tab[w]) => Holds(r)
  PROVE  Core'
BY Zenon, ServerKept, OneTab

\* requireToken answers only a request with a token "ok".
LEMMA Answers ==
  ASSUME NEW t, NEW ns
  PROVE  Answer(t, ns) \in {"ok", "401", "err"} /\ (Answer(t, ns) = "ok" => t # None)
BY DEF Answer

\* An answer leaves the rest of the request alone.
LEMMA RequestAnswered ==
  ASSUME NEW q \in Request, NEW a \in {"ok", "401", "choices", "err"}
  PROVE  /\ [q EXCEPT !.ans = a] \in Request /\ [q EXCEPT !.ans = a] # None
         /\ [q EXCEPT !.ans = a].ans = a /\ [q EXCEPT !.ans = a].tok = q.tok
         /\ [q EXCEPT !.ans = a].ns = q.ns
<1>1. [q EXCEPT !.ans = a] \in Request BY DEF Request
<1>2. [q EXCEPT !.ans = a] # None BY <1>1, SessionConstants
<1> QED BY <1>1, <1>2 DEF Request

\* The request of a procedure is answered.
LEMMA ProcedureAnswered ==
  ASSUME NEW r, NEW ns, Good(r, ns), r.req # None, NEW q \in Request
  PROVE  /\ Good([r EXCEPT !.req = q], ns)
         /\ Holds(r) => Holds([r EXCEPT !.req = q])
<1> DEFINE x == [r EXCEPT !.req = q]
<1>1. r \in Tab /\ PageFits(r) /\ NamespaceKept(r, ns) /\ q # None BY SessionConstants DEF Good
<1>2. x \in Tab BY Zenon, <1>1, Updated
<1>3. /\ x.path = r.path /\ x.phase = r.phase /\ x.expired = r.expired /\ x.note = r.note
      /\ x.init = r.init /\ x.auth = r.auth /\ x.ended = r.ended /\ x.pc = r.pc /\ x.req = q
      /\ x.self = r.self /\ x.selfReq = r.selfReq /\ x.pageReq = r.pageReq /\ x.stored = r.stored
      /\ x.foreign = r.foreign
  BY <1>1 DEF Tab
<1> HIDE DEF x
<1>4. PageFits(x) BY <1>1, <1>3 DEF PageFits
<1>5. NamespaceKept(x, ns) BY <1>1, <1>3 DEF NamespaceKept
<1>6. Holds(r) => Holds(x) BY <1>3 DEF Holds
<1> QED BY <1>2, <1>4, <1>5, <1>6 DEF Good, x

\* requireToken and the handlers behind it.
LEMMA ServeKeeps ==
  ASSUME Core, NEW w \in deploy.tabs, NEW slot \in Slots, Serve(w, slot)
  PROVE  Core'
<1>1. /\ tab[w] \in Tab /\ Good(tab[w], store.ns) /\ PageFits(tab[w]) /\ NamespaceKept(tab[w], store.ns)
      /\ ServerOK
  BY TabFacts, ServerKept DEF Good
<1>0. PICK lost \in BOOLEAN :
        /\ tab[w][slot] # None /\ Outcome(lost)
        /\ LET q == tab[w][slot]
           IN tab' = [tab EXCEPT ![w] = [tab[w] EXCEPT ![slot] = [q EXCEPT !.ans =
                        IF lost THEN "err" ELSE Answer(q.tok, q.ns)]]]
  BY ZenonT(40) DEF Serve
<1>2. PICK q, a :
        /\ q = tab[w][slot] /\ q # None /\ Outcome(lost)
        /\ a = (IF lost THEN "err" ELSE Answer(q.tok, q.ns))
        /\ tab' = [tab EXCEPT ![w] = [tab[w] EXCEPT ![slot] = [q EXCEPT !.ans = a]]]
  BY Zenon, <1>0
<1>3. a \in {"ok", "401", "choices", "err"} /\ (a = "ok" => q.tok # None) BY <1>2, Answers
<1>4. ServerOK' /\ deploy'.tabs = deploy.tabs /\ UNCHANGED store
  <2>1. deploy' \in Deploy /\ deploy'.tabs = deploy.tabs BY <1>1, <1>2 DEF Outcome, ServerOK, Deploy
  <2> QED BY <1>1, <2>1 DEF Serve, ServerOK
<1>5. CASE slot = "req"
  <2>1. q = tab[w].req /\ tab' = [tab EXCEPT ![w] = [tab[w] EXCEPT !.req = [q EXCEPT !.ans = a]]]
    BY Zenon, <1>2, <1>5
  <2>2. q \in Request BY <1>1, <1>2, <2>1 DEF Tab
  <2>3. /\ Good([tab[w] EXCEPT !.req = [q EXCEPT !.ans = a]], store.ns)
        /\ Holds(tab[w]) => Holds([tab[w] EXCEPT !.req = [q EXCEPT !.ans = a]])
    BY Zenon, <1>1, <1>2, <1>3, <2>1, <2>2, RequestAnswered, ProcedureAnswered
  <2> QED BY Zenon, <1>4, <2>1, <2>3, TabAnswered
<1>6. CASE slot = "selfReq"
  <2>1. q = tab[w].selfReq /\ tab' = [tab EXCEPT ![w] = [tab[w] EXCEPT !.selfReq = [q EXCEPT !.ans = a]]]
    BY Zenon, <1>2, <1>6
  <2>2. q \in Request BY <1>1, <1>2, <2>1 DEF Tab
  <2>3. tab[w].init /\ (~tab[w].foreign => q.ns = store.ns)
    BY <1>1, <1>2, <2>1 DEF PageFits, NamespaceKept
  <2>4. PICK p : p = [q EXCEPT !.ans = a] BY Zenon
  <2>5. p \in Request /\ p.ns = q.ns /\ (p.ans = "ok" => p.tok # None) BY Zenon, <1>3, <2>2, <2>4, RequestAnswered
  <2>6. /\ Good([tab[w] EXCEPT !.selfReq = p], store.ns)
        /\ Holds(tab[w]) => Holds([tab[w] EXCEPT !.selfReq = p])
    BY <1>1, <2>3, <2>5, OneQueryChanges
  <2> QED BY Zenon, <1>4, <2>1, <2>4, <2>6, TabAnswered
<1>7. CASE slot = "pageReq"
  <2>1. q = tab[w].pageReq /\ tab' = [tab EXCEPT ![w] = [tab[w] EXCEPT !.pageReq = [q EXCEPT !.ans = a]]]
    BY Zenon, <1>2, <1>7
  <2>2. q \in Request /\ tab[w].init BY <1>1, <1>2, <2>1 DEF Tab, PageFits
  <2>3. PICK p : p = [q EXCEPT !.ans = a] BY Zenon
  <2>4. p \in Request BY Zenon, <1>3, <2>2, <2>3, RequestAnswered
  <2>5. /\ Good([tab[w] EXCEPT !.pageReq = p], store.ns)
        /\ Holds(tab[w]) => Holds([tab[w] EXCEPT !.pageReq = p])
    BY <1>1, <2>2, <2>4, OneQueryChanges
  <2> QED BY Zenon, <1>4, <2>1, <2>3, <2>5, TabAnswered
<1> QED BY <1>5, <1>6, <1>7 DEF Slots

\* The login endpoints and the provider's address.
LEMMA EndpointKeeps ==
  ASSUME Core, NEW w \in deploy.tabs, ServeLogin(w) \/ ServeAuthUrl(w)
  PROVE  Core'
<1>1. /\ tab[w] \in Tab /\ Good(tab[w], store.ns) /\ PageFits(tab[w]) /\ ServerOK
  BY TabFacts, ServerKept DEF Good
<1>2. PICK q : q = tab[w].req BY Zenon
<1>3. q # None /\ q \in Request BY Zenon, <1>1, <1>2 DEF ServeLogin, ServeAuthUrl, PageFits, Tab
<1>4. UNCHANGED <<deploy, existing, store>> BY DEF ServeLogin, ServeAuthUrl
<1>5. ASSUME NEW t \in Tokens, state[t] = "unborn", state' = [state EXCEPT ![t] = "live"],
             tab' = [tab EXCEPT ![w].req.ans = "ok", ![w].req.tok = t]
      PROVE  Core'
  <2> DEFINE p == [[q EXCEPT !.ans = "ok"] EXCEPT !.tok = t]
  <2>1. tab' = [tab EXCEPT ![w] = [tab[w] EXCEPT !.req = p]]
    <3>1. PICK r1 : r1 = [tab[w] EXCEPT !.req = [q EXCEPT !.ans = "ok"]] BY Zenon
    <3>2. r1.req = [q EXCEPT !.ans = "ok"] BY <1>1, <3>1 DEF Tab
    <3>3. tab' = [[tab EXCEPT ![w] = r1] EXCEPT ![w] = [r1 EXCEPT !.req = [r1.req EXCEPT !.tok = t]]]
      BY Zenon, <1>1, <1>2, <1>5, <3>1, TabFacts
    <3>4. [r1 EXCEPT !.req = p] = [tab[w] EXCEPT !.req = p] BY Zenon, <1>1, <3>1 DEF Tab
    <3> QED BY Zenon, <3>2, <3>3, <3>4, TabFacts
  <2>2. p \in Request BY Zenon, <1>3 DEF Request
  <2> HIDE DEF p
  <2>3. Good([tab[w] EXCEPT !.req = p], store.ns) /\ (Holds(tab[w]) => Holds([tab[w] EXCEPT !.req = p]))
    BY <1>1, <1>2, <1>3, <2>2, ProcedureAnswered
  <2>4. ServerOK' BY <1>1, <1>4, <1>5 DEF ServerOK
  <2> QED BY Zenon, <1>4, <2>1, <2>3, <2>4, TabAnswered
<1>6. ASSUME NEW a \in {"ok", "401", "choices", "err"}, tab' = [tab EXCEPT ![w].req.ans = a], UNCHANGED state
      PROVE  Core'
  <2>1. tab' = [tab EXCEPT ![w] = [tab[w] EXCEPT !.req = [q EXCEPT !.ans = a]]] BY <1>2, <1>6
  <2>2. /\ Good([tab[w] EXCEPT !.req = [q EXCEPT !.ans = a]], store.ns)
        /\ Holds(tab[w]) => Holds([tab[w] EXCEPT !.req = [q EXCEPT !.ans = a]])
    BY ZenonT(40), <1>1, <1>2, <1>3, RequestAnswered, ProcedureAnswered
  <2>3. ServerOK' BY <1>1, <1>4, <1>6 DEF ServerOK
  <2> QED BY Zenon, <1>4, <2>1, <2>2, <2>3, TabAnswered
<1>7. CASE ServeLogin(w)
  <2>1. CASE \E t \in Tokens : /\ state[t] = "unborn"
                               /\ state' = [state EXCEPT ![t] = "live"]
                               /\ tab' = [tab EXCEPT ![w].req.ans = "ok", ![w].req.tok = t]
    BY Zenon, <1>5, <2>1
  <2>2. CASE \E no \in {"401", "err", "choices"} : tab' = [tab EXCEPT ![w].req.ans = no] /\ UNCHANGED state
    BY Zenon, <1>6, <2>2
  <2> QED BY Zenon, <1>7, <2>1, <2>2 DEF ServeLogin
<1>8. CASE ServeAuthUrl(w) BY ZenonT(40), <1>6, <1>8 DEF ServeAuthUrl
<1> QED BY <1>7, <1>8

-----------------------------------------------------------------------------
(* The inductive invariant.                                                *)

\* Tabs that were just opened, for any deployment.
LEMMA CoreInit == SessionInit => Core
<1> SUFFICES ASSUME SessionInit PROVE Core OBVIOUS
<1>1. deploy \in Deploy BY SessionConstants DEF SessionInit, Deploy
<1>2. BlankTab \in Tab BY DEF BlankTab, Tab, NsOrRoot
<1>3. PageFits(BlankTab) /\ NamespaceKept(BlankTab, store.ns) BY Zenon DEF BlankTab, PageFits, NamespaceKept
<1>4. \A w \in deploy.tabs : tab[w] = BlankTab BY DEF SessionInit
<1>5. SessionTypeOK BY <1>1, <1>2 DEF SessionInit, SessionTypeOK, Deploy, NsOrRoot
<1>6. TokenHeld BY DEF SessionInit, TokenHeld
<1>7. \A w \in deploy.tabs : Good(tab[w], store.ns) BY <1>2, <1>3, <1>4 DEF Good
<1> QED BY <1>5, <1>6, <1>7 DEF Core

\* Every step keeps it.
LEMMA CoreStep == Core /\ [SessionNext]_sessionVars => Core'
<1> SUFFICES ASSUME Core, [SessionNext]_sessionVars PROVE Core' BY Zenon
<1>1. ASSUME NEW w \in deploy.tabs, Continue(w) PROVE Core'
  BY Zenon, <1>1, BootKeeps, SignInKeeps, DoorShutKeeps, LeaveKeeps, EndpointKeeps DEF Continue
<1>2. ASSUME NEW w \in deploy.tabs, UserStep(w) PROVE Core'
  <2>1. CASE \E t \in Tokens : SubmitToken(w, t) BY <2>1, SubmitKeeps
  <2>2. CASE \E ns \in NsOrRoot : SwitchTo(w, ns) BY <2>2, SwitchKeeps
  <2>3. CASE SubmitLdap(w) \/ SubmitSso(w) BY <2>3, SubmitKeeps
  <2> QED BY <1>2, <2>1, <2>2, <2>3, FormKeeps, LoadKeeps, ToLoginKeeps DEF UserStep
<1>3. ASSUME NEW w \in deploy.tabs,
             PollSelf(w) \/ PageQuery(w) \/ AgeSelf(w) \/ SelfAnswered(w) \/ PageAnswered(w)
      PROVE  Core'
  BY <1>3, QueryKeeps, SelfAnsweredKeeps, PageAnsweredKeeps
<1>4. ASSUME NEW w \in deploy.tabs, NEW slot \in Slots, Serve(w, slot) PROVE Core'
  BY Zenon, <1>4, ServeKeeps
<1>5. ASSUME NEW t \in Tokens, ExpireToken(t) PROVE Core'
  <2>1. UNCHANGED <<deploy, existing, store, tab>> /\ state' \in [Tokens -> {"unborn", "live", "dead"}]
    BY Zenon, <1>5 DEF ExpireToken, Core, SessionTypeOK
  <2> QED BY <2>1 DEF Core, SessionTypeOK, TokenHeld, Good, PageFits, NamespaceKept
<1>6. ASSUME NEW n \in Namespaces, DropNamespace(n) PROVE Core'
  <2>1. UNCHANGED <<deploy, state, store, tab>> /\ existing' \subseteq Namespaces
    BY Zenon, <1>6 DEF DropNamespace, Core, SessionTypeOK
  <2> QED BY <2>1 DEF Core, SessionTypeOK, TokenHeld, Good, PageFits, NamespaceKept
<1>7. CASE UNCHANGED sessionVars
  BY <1>7 DEF sessionVars, Core, SessionTypeOK, TokenHeld, Good, PageFits, NamespaceKept
<1>8. CASE SessionNext BY ZenonT(40), <1>1, <1>2, <1>3, <1>4, <1>5, <1>6, <1>8 DEF SessionNext
<1> QED BY <1>7, <1>8

\* It implies what the pages promise.
LEMMA CoreImplies == Core => SessionPagesTrue /\ SignedOutLeavesNoToken
<1> SUFFICES ASSUME Core PROVE SessionPagesTrue /\ SignedOutLeavesNoToken BY Zenon
<1>1. \A w \in deploy.tabs : tab[w] \in Tab /\ PageFits(tab[w]) /\ NamespaceKept(tab[w], store.ns)
  BY DEF Core, Good
<1>2. ExpiredNoticeTruthful BY <1>1 DEF ExpiredNoticeTruthful, ExpiredScreen, PageFits
<1>3. NamespaceCleanSlate BY <1>1 DEF NamespaceCleanSlate, OnDashboard, NamespaceKept
<1>4. SignedOutLeavesNoToken
  <2> SUFFICES ASSUME \A w \in deploy.tabs : SignedOut(w), store.token # None PROVE FALSE
    BY DEF SignedOutLeavesNoToken
  <2>1. PICK w \in deploy.tabs : tab[w].auth \/ tab[w].pc \in {"boot", "lookup", "cblookup", "door"}
    BY DEF Core, TokenHeld
  <2> QED BY <2>1 DEF SignedOut
<1> QED BY <1>1, <1>2, <1>3, <1>4 DEF SessionPagesTrue, Core

\* What a tab shows is true of its session, whatever the tabs of one browser do
\* and in whatever order requests are answered, fail or are refused: the page fits
\* the session, the expiry notice follows a 401 only, the cached lookup-self was
\* asked for under the namespace the dashboard names unless another tab switched,
\* and a stored token has a tab that uses or checks it (auth-provider.tsx,
\* login.page.tsx, oidc-callback.page.tsx, namespace-switcher.tsx).
THEOREM SessionPagesStayTrue == SessionSpec => []SessionPagesTrue
<1>1. SessionInit => Core BY CoreInit
<1>2. Core /\ [SessionNext]_sessionVars => Core' BY CoreStep
<1>3. Core => SessionPagesTrue BY CoreImplies
<1> QED BY <1>1, <1>2, <1>3, PTL DEF SessionSpec

\* When every tab is signed out and none is signing in, localStorage holds no
\* token (login.page.tsx, the catch of signIn; auth-provider.tsx, logoutUser).
THEOREM SignedOutIsClean == SessionSpec => []SignedOutLeavesNoToken
<1>1. SessionInit => Core BY CoreInit
<1>2. Core /\ [SessionNext]_sessionVars => Core' BY CoreStep
<1>3. Core => SignedOutLeavesNoToken BY Zenon, CoreImplies
<1> QED BY <1>1, <1>2, <1>3, PTL DEF SessionSpec
=============================================================================
