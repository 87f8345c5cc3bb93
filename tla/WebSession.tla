----------------------------- MODULE WebSession -----------------------------
(***************************************************************************)
(* The session of the web console: browser tabs that share localStorage    *)
(* (token and namespace), the AuthProvider's bootstrap, the login page     *)
(* (token, LDAP and SSO), the OIDC callback page, the axios interceptors,  *)
(* the route guard, the header (countdown, namespace switcher, logout) and *)
(* the query cache entry of lookup-self, which every dashboard page holds. *)
(*                                                                         *)
(* A request is sent with the token and the namespace that are stored when *)
(* it leaves, answered at a later step and handled at a later one still,   *)
(* so an answer may be delivered to another session than the one it was    *)
(* asked for.                                                              *)
(***************************************************************************)
EXTENDS Naturals, FiniteSets

CONSTANTS
  Tabs,         \* browser tabs
  Tokens,       \* token identifiers
  Namespaces,   \* namespaces other than the root
  Root,         \* the root namespace (the empty string)
  None,         \* no token, no request, nothing cached
  Parent,       \* [Namespaces -> Namespaces \cup {Root}]
  BoundTo,      \* [Tokens -> Namespaces \cup {Root}], the token's namespace
  Deployments   \* what an instance lets happen, drawn in SessionInit

NsOrRoot == Namespaces \cup {Root}

Request == [tok : Tokens \cup {None}, ns : NsOrRoot, ans : {"sent", "ok", "401", "choices", "err"}]

ASSUME SessionConstants ==
  /\ Root \notin Namespaces
  /\ None \notin Tokens \cup Namespaces \cup {Root} \cup Request
  /\ Parent \in [Namespaces -> Namespaces \cup {Root}]
  /\ BoundTo \in [Tokens -> Namespaces \cup {Root}]
  /\ Deployments \subseteq [tabs : SUBSET Tabs, issued : SUBSET Tokens,
                            ops : SUBSET {"ns", "page", "ldap", "sso"}, fails : Nat]

VARIABLES
  deploy,    \* the tabs, the tokens issued so far, the operations on offer, the
             \* number of requests that may still be lost
  state,     \* the server's tokens: unborn, live or dead
  existing,  \* the server's namespaces
  store,     \* localStorage, shared by the tabs: token and namespace
  tab        \* the state of each tab

sessionVars == <<deploy, state, existing, store, tab>>

(* A lookup-self answer in the query cache: whose, asked under which namespace. *)
Cached == [tok : Tokens, ns : NsOrRoot, fresh : BOOLEAN]

Tab ==
  [path : {"login", "callback", "status", "provider"}, url : {"none", "code", "bad"},
   init : BOOLEAN, auth : BOOLEAN, phase : {"idle", "busy", "ok", "fail"},
   choices : BOOLEAN, expired : BOOLEAN, note : BOOLEAN, ended : {"none", "401", "logout"},
   pc : {"none", "boot", "login", "lookup", "authurl", "exchange", "cblookup", "door"},
   req : Request \cup {None}, self : Cached \cup {None}, selfReq : Request \cup {None},
   pageReq : Request \cup {None}, stored : NsOrRoot, oidc : BOOLEAN, foreign : BOOLEAN]

(* Every tab, the storage the tabs share and the server are in one of their
   states. *)
SessionTypeOK ==
  /\ deploy \in [tabs : SUBSET Tabs, issued : SUBSET Tokens,
                 ops : SUBSET {"ns", "page", "ldap", "sso"}, fails : Nat]
  /\ state \in [Tokens -> {"unborn", "live", "dead"}]
  /\ existing \subseteq Namespaces
  /\ store \in [token : Tokens \cup {None}, ns : NsOrRoot]
  /\ tab \in [deploy.tabs -> Tab]

-----------------------------------------------------------------------------
(* The server as the console sees it. *)

(* What a request that passes requireToken is answered: 401 for a missing,
   unknown or expired token; 403 for a namespace the token is not bound to and
   404 for a namespace that is gone, both of which a caller only sees as a
   failure. *)
Answer(tok, ns) ==
  LET effective == IF BoundTo[tok] # Root THEN BoundTo[tok] ELSE ns IN
  IF tok = None \/ state[tok] # "live" THEN "401"
  ELSE IF BoundTo[tok] # Root /\ ns \notin {Root, BoundTo[tok]} THEN "err"
  ELSE IF effective # Root /\ effective \notin existing THEN "err"
  ELSE "ok"

(* The request interceptor: the headers are what localStorage holds when the
   request leaves. *)
Send(s) == [tok |-> s.token, ns |-> s.ns, ans |-> "sent"]

RemoveToken == [store EXCEPT !.token = None]

-----------------------------------------------------------------------------
(* Mounting. The second argument is the storage the page finds. *)

(* A dashboard that mounts reads the stored namespace into the switcher and
   asks for lookup-self unless the cached answer is fresh or a request for it
   is still in flight, in which case the two observers share it. *)
MountDashboard(r, s) ==
  [r EXCEPT !.stored = s.ns,
            !.selfReq = IF r.selfReq # None \/ (r.self # None /\ r.self.fresh) THEN @ ELSE Send(s)]

MountLoginKeepsNote(r) ==
  [r EXCEPT !.path = "login", !.phase = "idle", !.choices = FALSE, !.expired = r.note]

(* The login page peeks at the note a 401 left and clears it in an effect. *)
MountLogin(r) ==
  [r EXCEPT !.path = "login", !.phase = "idle", !.choices = FALSE,
            !.expired = r.note, !.note = FALSE]

(* The callback page reads and removes the OIDC state this browser stored and
   takes the parameters off the address bar. It exchanges the code only if
   there is one and the states agree. *)
MountCallback(r, s) ==
  LET cleared == [r EXCEPT !.oidc = FALSE, !.url = "none"] IN
  IF r.url = "code" /\ r.oidc
  THEN [cleared EXCEPT !.phase = "busy", !.pc = "exchange",
                       !.req = [Send(s) EXCEPT !.tok = None]]
  ELSE [cleared EXCEPT !.phase = "fail"]

(* AuthGuard, once the bootstrap is done: a session lives under the dashboard,
   everything else under /auth. *)
Route(r, s) ==
  CASE r.auth /\ r.path # "status" ->
         MountDashboard([r EXCEPT !.path = "status", !.url = "none", !.phase = "idle",
                                  !.choices = FALSE, !.expired = FALSE], s)
    [] ~r.auth /\ r.path = "status" -> MountLogin(r)
    [] OTHER -> r

(* The first page after the bootstrap, for the path the tab was loaded at. *)
FirstPage(r, s) ==
  CASE r.auth -> MountDashboard([r EXCEPT !.path = "status", !.url = "none"], s)
    [] ~r.auth /\ r.path = "callback" -> MountCallback(r, s)
    [] OTHER -> MountLogin(r)

(* A page load keeps sessionStorage only. The AuthProvider then validates the
   stored token, if there is one, behind a loading screen. *)
Load(r, s, path, url) ==
  LET blank == [r EXCEPT !.path = path, !.url = url, !.auth = FALSE, !.phase = "idle",
                         !.choices = FALSE, !.expired = FALSE, !.ended = "none",
                         !.self = None, !.selfReq = None, !.pageReq = None, !.foreign = FALSE]
  IN IF s.token = None
     THEN FirstPage([blank EXCEPT !.init = TRUE, !.pc = "none", !.req = None], s)
     ELSE [blank EXCEPT !.init = FALSE, !.pc = "boot", !.req = Send(s)]

(* The logout event a 401 raises. The AuthProvider drops the session; a mounted
   dashboard also leaves a note for the login page. *)
EmitLogout(r) ==
  LET dash == r.init /\ r.auth IN
  [r EXCEPT !.auth = FALSE, !.note = @ \/ dash, !.ended = IF dash THEN "401" ELSE @]

UnauthorizedIgnored(w, r) ==
  /\ tab' = [tab EXCEPT ![w] = r]
  /\ UNCHANGED store

(* A 401 for whatever request of a tab: the stored token is removed, and the
   guard takes a tab that had a session to the login page. *)
Unauthorized(w, r) ==
  /\ tab' = [tab EXCEPT ![w] = Route(EmitLogout(r), RemoveToken)]
  /\ store' = RemoveToken

-----------------------------------------------------------------------------
(* The bootstrap and the sign-in procedures, one step per await. *)

Proc(w, pc, ans) == tab[w].pc = pc /\ tab[w].req # None /\ tab[w].req.ans = ans

(* The end of a procedure that left tab w in the record r. *)
Return(w, r) == tab' = [tab EXCEPT ![w] = [r EXCEPT !.pc = "none", !.req = None]]

(* The bootstrap's lookup-self succeeded: the stored token is a session. *)
BootAccepted(w) ==
  /\ Proc(w, "boot", "ok")
  /\ tab' = [tab EXCEPT ![w] = FirstPage([@ EXCEPT !.init = TRUE, !.auth = TRUE, !.pc = "none", !.req = None], store)]
  /\ UNCHANGED <<deploy, state, existing, store>>

(* Any failure of it, a lost connection included, drops the stored token. *)
BootRefused(w) ==
  /\ Proc(w, "boot", "401") \/ Proc(w, "boot", "err")
  /\ store' = RemoveToken
  /\ tab' = [tab EXCEPT ![w] = FirstPage([@ EXCEPT !.init = TRUE, !.pc = "none", !.req = None], RemoveToken)]
  /\ UNCHANGED <<deploy, state, existing>>

OnLogin(w) == tab[w].init /\ ~tab[w].auth /\ tab[w].path = "login"

(* The "session expired" screen takes the place of the form. *)
ExpiredScreen(w) == OnLogin(w) /\ tab[w].expired

(* Its one button shows the form. *)
DismissExpired(w) ==
  /\ ExpiredScreen(w)
  /\ tab' = [tab EXCEPT ![w].expired = FALSE]
  /\ UNCHANGED <<deploy, state, existing, store>>

(* The login form, on screen and not busy. *)
FormReady(w) ==
  /\ OnLogin(w) /\ ~ExpiredScreen(w)
  /\ tab[w].phase \in {"idle", "fail"}

(* An empty submit and a refused clipboard show an error; typing takes it away,
   and so does switching the mode, which drops the choice of namespaces. *)
EditForm(w) ==
  /\ FormReady(w)
  /\ \/ tab' = [tab EXCEPT ![w].phase = "fail"]
     \/ tab' = [tab EXCEPT ![w].phase = "idle"]
     \/ tab' = [tab EXCEPT ![w].phase = "idle", ![w].choices = FALSE]
  /\ UNCHANGED <<deploy, state, existing, store>>

(* signIn with a token: store it, then ask the server about it. *)
SubmitToken(w, t) ==
  /\ FormReady(w) /\ ~tab[w].choices
  /\ state[t] # "unborn"
  /\ store' = [store EXCEPT !.token = t]
  /\ tab' = [tab EXCEPT ![w].phase = "busy", ![w].pc = "lookup", ![w].req = Send(store')]
  /\ UNCHANGED <<deploy, state, existing>>

(* signIn with LDAP, first or with the chosen namespace: the stored token is
   removed so that it does not ride along. *)
SubmitLdap(w) ==
  /\ FormReady(w) /\ "ldap" \in deploy.ops
  /\ store' = RemoveToken
  /\ tab' = [tab EXCEPT ![w].phase = "busy", ![w].pc = "login", ![w].req = Send(store')]
  /\ UNCHANGED <<deploy, state, existing>>

(* startSso asks for the provider's address. *)
SubmitSso(w) ==
  /\ FormReady(w) /\ ~tab[w].choices /\ "sso" \in deploy.ops
  /\ tab' = [tab EXCEPT ![w].phase = "busy", ![w].pc = "authurl", ![w].req = Send(store)]
  /\ UNCHANGED <<deploy, state, existing, store>>

CredentialsAcceptedWhole(w) ==
  /\ Proc(w, "login", "ok") \/ Proc(w, "exchange", "ok")
  /\ store' = [store EXCEPT !.token = tab[w].req]
  /\ tab' = [tab EXCEPT ![w].pc = IF @ = "login" THEN "lookup" ELSE "cblookup", ![w].req = Send(store')]
  /\ UNCHANGED <<deploy, state, existing>>

(* A login request brought a token: store it and look it up. *)
CredentialsAccepted(w) ==
  /\ Proc(w, "login", "ok") \/ Proc(w, "exchange", "ok")
  /\ store' = [store EXCEPT !.token = tab[w].req.tok]
  /\ tab' = [tab EXCEPT ![w].pc = IF @ = "login" THEN "lookup" ELSE "cblookup", ![w].req = Send(store')]
  /\ UNCHANGED <<deploy, state, existing>>

AskNamespaceStillBusy(w) ==
  /\ Proc(w, "login", "choices")
  /\ store' = RemoveToken
  /\ Return(w, [tab[w] EXCEPT !.choices = TRUE])
  /\ UNCHANGED <<deploy, state, existing>>

(* Roles in several namespaces: the form asks which one to enter. *)
AskNamespace(w) ==
  /\ Proc(w, "login", "choices")
  /\ store' = RemoveToken
  /\ Return(w, [tab[w] EXCEPT !.phase = "idle", !.choices = TRUE])
  /\ UNCHANGED <<deploy, state, existing>>

Refused(w) ==
  /\ tab[w].pc \in {"login", "lookup", "exchange", "cblookup"}
  /\ tab[w].req.ans \in {"401", "err"}

SignInRefusedKeepsToken(w) ==
  /\ Refused(w)
  /\ store' = IF tab[w].req.ans = "401" THEN RemoveToken ELSE store
  /\ Return(w, [tab[w] EXCEPT !.phase = "fail"])
  /\ UNCHANGED <<deploy, state, existing>>

(* The catch of signIn and of the callback: whatever is stored is removed and
   the page shows an error. A 401 has raised the logout event first, which
   changes nothing more in a tab without a session. *)
SignInRefused(w) ==
  /\ Refused(w)
  /\ store' = RemoveToken
  /\ Return(w, [tab[w] EXCEPT !.phase = "fail"])
  /\ UNCHANGED <<deploy, state, existing>>

(* The token is accepted: the note is cleared, the vault door begins to shut. *)
SignInAccepted(w) ==
  /\ Proc(w, "lookup", "ok") \/ Proc(w, "cblookup", "ok")
  /\ tab' = [tab EXCEPT ![w].phase = "ok", ![w].note = FALSE, ![w].pc = "door", ![w].req = None]
  /\ UNCHANGED <<deploy, state, existing, store>>

(* The door is shut: enter the dashboard behind it. *)
DoorShut(w) ==
  /\ tab[w].pc = "door"
  /\ Return(w, Route([tab[w] EXCEPT !.auth = TRUE, !.ended = "none"], store))
  /\ UNCHANGED <<deploy, state, existing, store>>

(* The provider's address arrived: remember the state and leave the page. *)
LeaveForProvider(w) ==
  /\ Proc(w, "authurl", "ok")
  /\ Return(w, [tab[w] EXCEPT !.oidc = TRUE, !.path = "provider", !.init = FALSE, !.phase = "idle",
                              !.expired = FALSE, !.ended = "none",
                              !.self = None, !.selfReq = None, !.pageReq = None])
  /\ UNCHANGED <<deploy, state, existing, store>>

SsoRefused(w) ==
  /\ Proc(w, "authurl", "err")
  /\ Return(w, [tab[w] EXCEPT !.phase = "fail"])
  /\ UNCHANGED <<deploy, state, existing, store>>

(* The provider sends the browser back with a code or an error, or the user
   opens the login page again. *)
ReturnFromProvider(w) ==
  /\ tab[w].path = "provider"
  /\ \E back \in {<<"callback", "code">>, <<"callback", "bad">>, <<"login", "none">>} :
       tab' = [tab EXCEPT ![w] = Load(@, store, back[1], back[2])]
  /\ UNCHANGED <<deploy, state, existing, store>>

(* The link under a failed callback. *)
BackToLogin(w) ==
  /\ tab[w].path = "callback" /\ tab[w].init /\ tab[w].phase = "fail"
  /\ tab' = [tab EXCEPT ![w] = MountLogin(@)]
  /\ UNCHANGED <<deploy, state, existing, store>>

(* The user reloads the page. *)
Reload(w) ==
  /\ tab[w].path # "provider"
  /\ tab' = [tab EXCEPT ![w] = Load(@, store, tab[w].path, tab[w].url)]
  /\ UNCHANGED <<deploy, state, existing, store>>

-----------------------------------------------------------------------------
(* The dashboard. *)

OnDashboard(w) == w \in deploy.tabs /\ tab[w].init /\ tab[w].auth /\ tab[w].path = "status"

PollSelfWhenEmpty(w) ==
  /\ OnDashboard(w) /\ tab[w].selfReq = None /\ tab[w].self = None
  /\ tab' = [tab EXCEPT ![w].selfReq = Send(store)]
  /\ UNCHANGED <<deploy, state, existing, store>>

(* The 60 s refetch of lookup-self. *)
PollSelf(w) ==
  /\ OnDashboard(w) /\ tab[w].selfReq = None
  /\ tab' = [tab EXCEPT ![w].selfReq = Send(store)]
  /\ UNCHANGED <<deploy, state, existing, store>>

(* Any other query of a dashboard page. *)
PageQuery(w) ==
  /\ OnDashboard(w) /\ tab[w].pageReq = None /\ "page" \in deploy.ops
  /\ tab' = [tab EXCEPT ![w].pageReq = Send(store)]
  /\ UNCHANGED <<deploy, state, existing, store>>

(* A cached answer is stale after 60 s and is collected 5 minutes after its
   last observer unmounted. *)
AgeSelf(w) ==
  /\ tab[w].self # None
  /\ \/ tab[w].self.fresh /\ tab' = [tab EXCEPT ![w].self.fresh = FALSE]
     \/ ~tab[w].self.fresh /\ ~OnDashboard(w) /\ tab' = [tab EXCEPT ![w].self = None]
  /\ UNCHANGED <<deploy, state, existing, store>>

(* The answer to lookup-self, with or without a dashboard on screen: it fills
   the cache, raises the logout event, or fails the query. *)
SelfAnswered(w) ==
  LET q == tab[w].selfReq
      r == [tab[w] EXCEPT !.selfReq = None] IN
  /\ q # None /\ q.ans # "sent"
  /\ \/ q.ans = "401" /\ Unauthorized(w, r)
     \/ /\ q.ans = "ok"
        /\ tab' = [tab EXCEPT ![w] = [r EXCEPT !.self = [tok |-> q.tok, ns |-> q.ns, fresh |-> TRUE]]]
        /\ UNCHANGED store
     \/ q.ans = "err" /\ tab' = [tab EXCEPT ![w] = r] /\ UNCHANGED store
  /\ UNCHANGED <<deploy, state, existing>>

(* The answer to a page's query: a 403, a 404 or a lost connection is the
   page's to show, only a 401 ends the session. *)
PageAnswered(w) ==
  LET q == tab[w].pageReq
      r == [tab[w] EXCEPT !.pageReq = None] IN
  /\ q # None /\ q.ans # "sent"
  /\ \/ q.ans = "401" /\ Unauthorized(w, r)
     \/ q.ans # "401" /\ tab' = [tab EXCEPT ![w] = r] /\ UNCHANGED store
  /\ UNCHANGED <<deploy, state, existing>>

(* Logout, once confirmed. The query cache and the stored namespace stay. *)
Logout(w) ==
  /\ OnDashboard(w)
  /\ store' = RemoveToken
  /\ tab' = [tab EXCEPT ![w] = Route([@ EXCEPT !.auth = FALSE, !.ended = "logout"], store')]
  /\ UNCHANGED <<deploy, state, existing>>

(* The namespace of the token, as far as the cached lookup-self tells. *)
SelfBound(w) == IF tab[w].self = None THEN Root ELSE BoundTo[tab[w].self.tok]

Current(w) == IF tab[w].stored # Root THEN tab[w].stored ELSE SelfBound(w)

(* The namespaces the switcher offers: a bound token its own and the ones
   below it, any other token the root and all there are. *)
Options(w) ==
  IF SelfBound(w) # Root
  THEN {SelfBound(w)} \cup {n \in existing : Parent[n] = SelfBound(w)}
  ELSE {Root} \cup existing

SwitchToInPlace(w, ns) ==
  /\ OnDashboard(w) /\ "ns" \in deploy.ops
  /\ ns \in Options(w) \ {Current(w)}
  /\ store' = [store EXCEPT !.ns = ns]
  /\ tab' = [v \in deploy.tabs |->
               IF v = w THEN [tab[v] EXCEPT !.stored = ns] ELSE [tab[v] EXCEPT !.foreign = TRUE]]
  /\ UNCHANGED <<deploy, state, existing>>

(* switchTo stores the namespace and reloads the page. *)
SwitchTo(w, ns) ==
  /\ OnDashboard(w) /\ "ns" \in deploy.ops
  /\ ns \in Options(w) \ {Current(w)}
  /\ store' = [store EXCEPT !.ns = ns]
  /\ tab' = [v \in deploy.tabs |->
               IF v = w THEN Load(tab[v], store', "status", "none") ELSE [tab[v] EXCEPT !.foreign = TRUE]]
  /\ UNCHANGED <<deploy, state, existing>>

-----------------------------------------------------------------------------
(* The server and the network answer. *)

(* A failing transport may answer any request; an instance bounds how often. *)
Outcome(lost) ==
  \/ ~lost /\ UNCHANGED deploy
  \/ lost /\ deploy.fails > 0 /\ deploy' = [deploy EXCEPT !.fails = @ - 1]

(* requireToken and the handler behind it, for each of a tab's requests. *)
Serve(w, slot) ==
  /\ \E lost \in BOOLEAN :
       LET q == tab[w][slot] IN
       /\ q # None /\ q.ans = "sent"
       /\ slot = "req" => tab[w].pc \in {"boot", "lookup", "cblookup"}
       /\ Outcome(lost)
       /\ tab' = [tab EXCEPT ![w][slot].ans = IF lost THEN "err" ELSE Answer(q.tok, q.ns)]
  /\ UNCHANGED <<state, existing, store>>

(* The login endpoints: they mint a token, refuse the credentials, or (LDAP)
   ask for a namespace. *)
ServeLogin(w) ==
  /\ tab[w].pc \in {"login", "exchange"} /\ tab[w].req.ans = "sent"
  /\ \/ \E t \in Tokens : /\ state[t] = "unborn"
                           /\ state' = [state EXCEPT ![t] = "live"]
                           /\ tab' = [tab EXCEPT ![w].req.ans = "ok", ![w].req.tok = t]
     \/ \E no \in {"401", "err"} \cup (IF tab[w].pc = "login" /\ ~tab[w].choices THEN {"choices"} ELSE {}) :
          tab' = [tab EXCEPT ![w].req.ans = no] /\ UNCHANGED state
  /\ UNCHANGED <<deploy, existing, store>>

ServeAuthUrl(w) ==
  /\ tab[w].pc = "authurl" /\ tab[w].req.ans = "sent"
  /\ \E a \in {"ok", "err"} : tab' = [tab EXCEPT ![w].req.ans = a]
  /\ UNCHANGED <<deploy, state, existing, store>>

(* A token expires or is revoked; a namespace is deleted by someone else. *)
ExpireToken(t) ==
  /\ state[t] = "live" /\ state' = [state EXCEPT ![t] = "dead"]
  /\ UNCHANGED <<deploy, existing, store, tab>>

DropNamespace(n) ==
  /\ n \in existing /\ "ns" \in deploy.ops /\ existing' = existing \ {n}
  /\ UNCHANGED <<deploy, state, store, tab>>

-----------------------------------------------------------------------------
BlankTab ==
  [path |-> "login", url |-> "none", init |-> TRUE, auth |-> FALSE, phase |-> "idle",
   choices |-> FALSE, expired |-> FALSE, note |-> FALSE, ended |-> "none", pc |-> "none",
   req |-> None, self |-> None, selfReq |-> None, pageReq |-> None, stored |-> Root,
   oidc |-> FALSE, foreign |-> FALSE]

(* Tabs that were just opened in a browser that stores nothing yet. *)
SessionInit ==
  /\ deploy \in Deployments
  /\ state = [t \in Tokens |-> IF t \in deploy.issued THEN "live" ELSE "unborn"]
  /\ existing = Namespaces
  /\ store = [token |-> None, ns |-> Root]
  /\ tab = [w \in deploy.tabs |-> BlankTab]

Slots == {"req", "selfReq", "pageReq"}

(* The procedure in progress goes on. *)
Continue(w) ==
  \/ BootAccepted(w) \/ BootRefused(w)
  \/ CredentialsAccepted(w) \/ AskNamespace(w) \/ SignInRefused(w) \/ SignInAccepted(w)
  \/ DoorShut(w) \/ LeaveForProvider(w) \/ SsoRefused(w)
  \/ ServeLogin(w) \/ ServeAuthUrl(w)

UserStep(w) ==
  \/ DismissExpired(w) \/ EditForm(w) \/ SubmitLdap(w) \/ SubmitSso(w) \/ \E t \in Tokens : SubmitToken(w, t)
  \/ ReturnFromProvider(w) \/ BackToLogin(w) \/ Reload(w) \/ Logout(w)
  \/ \E ns \in NsOrRoot : SwitchTo(w, ns)

SessionNext ==
  \/ \E w \in deploy.tabs :
       \/ Continue(w) \/ UserStep(w)
       \/ PollSelf(w) \/ PageQuery(w) \/ AgeSelf(w) \/ SelfAnswered(w) \/ PageAnswered(w)
       \/ \E slot \in Slots : Serve(w, slot)
  \/ \E t \in Tokens : ExpireToken(t)
  \/ \E n \in Namespaces : DropNamespace(n)

(* Requests are answered, answers are handled and the timers of the page fire;
   no user does anything. *)
SessionFairness ==
  \A w \in Tabs :
    /\ WF_sessionVars(w \in deploy.tabs /\ Continue(w))
    /\ WF_sessionVars(w \in deploy.tabs /\ (PollSelf(w) \/ SelfAnswered(w)))
    /\ \A slot \in Slots : WF_sessionVars(w \in deploy.tabs /\ Serve(w, slot))

SessionSpec == SessionInit /\ [][SessionNext]_sessionVars /\ SessionFairness

-----------------------------------------------------------------------------
SignedOut(w) == tab[w].init /\ ~tab[w].auth /\ tab[w].pc = "none"

Busy(w) == w \in deploy.tabs /\ tab[w].phase \in {"busy", "ok"}

(* A refused or abandoned sign-in leaves no token behind: when every tab is
   signed out and none is signing in, localStorage holds no token
   (login.page.tsx, the catch of signIn; auth-provider.tsx, logoutUser). *)
SignedOutLeavesNoToken ==
  (\A w \in deploy.tabs : SignedOut(w)) => store.token = None

(* The "session expired" screen is shown only for a session of this page that a
   401 ended: not after the user's own logout, not again after a reload, and not
   for an earlier session (session-expired.ts; login.page.tsx, the effect that
   consumes the flag). *)
ExpiredNoticeTruthful ==
  \A w \in deploy.tabs : ExpiredScreen(w) => tab[w].ended = "401"

(* "A reload guarantees a clean slate": unless another tab switched, the cached
   answer a dashboard shows was asked for under the namespace it names
   (namespace-switcher.tsx, switchTo). *)
NamespaceCleanSlate ==
  \A w \in deploy.tabs :
    OnDashboard(w) /\ tab[w].self # None /\ ~tab[w].foreign => tab[w].self.ns = tab[w].stored

(* A tab that loads has no session and nothing cached; one that is loaded shows
   the dashboard exactly if it has a session, and a form is busy exactly while its
   procedure runs. The note of a 401 is consumed at once, by the login page that
   the guard mounts, and outlives no page load. *)
PageFits(r) ==
  /\ ~r.note /\ (r.expired => r.ended = "401")
  /\ r.req = None <=> r.pc \in {"none", "door"}
  /\ ~r.init => /\ ~r.auth /\ ~r.expired /\ r.phase = "idle" /\ r.pc \in {"none", "boot"}
                /\ r.self = None /\ r.selfReq = None /\ r.pageReq = None
  /\ r.init => r.pc # "boot" /\ (r.auth <=> r.path = "status")
  /\ r.auth => r.pc = "none"
  /\ r.phase = "busy" <=> r.pc \notin {"none", "boot", "door"}
  /\ r.phase = "ok" <=> r.pc = "door"
  /\ r.selfReq # None /\ r.selfReq.ans = "ok" => r.selfReq.tok # None

(* Since its load, unless another tab switched, a tab has asked for lookup-self
   under the stored namespace only, and its dashboard names that one. *)
NamespaceKept(r, ns) ==
  ~r.foreign => /\ r.self # None => r.self.ns = ns
                /\ r.selfReq # None => r.selfReq.ns = ns
                /\ r.auth => r.stored = ns

(* A stored token belongs to a tab that has a session or is about to learn
   whether it has one. *)
TokenHeld ==
  store.token # None =>
    \E w \in deploy.tabs : tab[w].auth \/ tab[w].pc \in {"boot", "lookup", "cblookup", "door"}

(* What a tab shows is true of its session: a well-formed state, a page that fits
   it, the expiry notice and the namespace of the cached answer. *)
SessionPagesTrue ==
  /\ SessionTypeOK /\ ExpiredNoticeTruthful /\ NamespaceCleanSlate
  /\ \A w \in deploy.tabs : PageFits(tab[w]) /\ NamespaceKept(tab[w], store.ns)
  /\ TokenHeld

(* A dashboard without a live token does not stay: the poll of lookup-self is
   answered 401 and the session is dropped (axios.ts, response interceptor). *)
DeadSessionEnds ==
  \A w \in Tabs :
    (OnDashboard(w) /\ Answer(store.token, Root) = "401")
      ~> (~OnDashboard(w) \/ Answer(store.token, Root) # "401")

(* Whatever the cache held from an earlier session, the header ends up
   describing the token of this one (header-controls.tsx, SessionTtl). *)
HeaderCatchesUp ==
  \A w \in Tabs, t \in Tokens :
    (OnDashboard(w) /\ store.token = t)
      ~> (~OnDashboard(w) \/ store.token # t \/ Answer(t, store.ns) # "ok" \/ 
          (tab[w].self # None /\ tab[w].self.tok = t))

(* The login form never stays busy: every sign-in ends in the dashboard, in an
   error or in a question (login.page.tsx, signIn and startSso). *)
SignInConcludes ==
  \A w \in Tabs : Busy(w) ~> ~Busy(w)

(* "A 401 from any request means the token is gone" (layout.tsx:30): the answer
   that drops a session is about the token that is stored. *)
UnauthorizedMeansTokenGone ==
  [][\A w \in deploy.tabs :
       OnDashboard(w) /\ tab'[w].ended = "401" => Answer(store.token, Root) = "401"]_sessionVars

(* "A namespace-bound token may only act inside its own namespace (and children):
   the server answers 403 for any other X-Tuck-Namespace value"
   (namespace-switcher.tsx:24-25): what the switcher offers, the server accepts. *)
OfferedNamespacesAccepted ==
  \A w \in deploy.tabs :
    OnDashboard(w) /\ tab[w].self # None /\ tab[w].self.tok = store.token /\ state[store.token] = "live"
      => \A ns \in Options(w) \cap (existing \cup {Root}) : Answer(store.token, ns) = "ok"
=============================================================================
