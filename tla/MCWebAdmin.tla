----------------------------- MODULE MCWebAdmin -----------------------------
EXTENDS WebTokens, WebMounts, WebPolicies, WebNamespaces, WebTeams, WebAuth, WebK8s, WebTokenRoles, WebTuckSecrets

Tok(m, e, p, par) == [made |-> m, exp |-> e, renewable |-> TRUE, policy |-> p, parent |-> par]
MCToks == {"t1", "t2", "t3"}
Bare == [t \in {} |-> Tok(0, 0, "p", "none")]
One == [t \in {"t1"} |-> Tok(0, 2, "p", "none")]
Two == [t \in {"t1", "t2"} |-> IF t = "t1" THEN Tok(0, 2, "p", "none") ELSE Tok(0, 0, "q", "none")]
Kin == [t \in {"t1", "t2"} |-> Tok(0, 0, "p", IF t = "t1" THEN "none" ELSE "t1")]
TkScene(n, t, o, th, k, w, x, f) ==
  [name |-> n, toks |-> t, ops |-> o, theirs |-> th, ticks |-> k, own |-> w, others |-> x, faults |-> f]
MCTkScenes ==
  {TkScene("bulk", Kin, {"select", "revoke"}, {}, 0, 2, 0, 1),
   TkScene("prefix", Kin, {"prefix"}, {"revoke"}, 0, 1, 1, 1),
   TkScene("filter", Two, {"filter", "select"}, {}, 0, 3, 0, 0),
   TkScene("tkrenew", One, {"renew"}, {"renew", "sweep"}, 3, 1, 1, 0),
   TkScene("renewtwice", One, {"renew"}, {}, 3, 2, 0, 1),
   TkScene("renewrevoke", One, {"renew", "revoke"}, {}, 2, 2, 0, 1),
   TkScene("mint", Bare, {"create"}, {"mint"}, 0, 1, 1, 0),
   TkScene("mintfail", Bare, {"create"}, {}, 0, 1, 0, 1),
   TkScene("mints", Bare, {"create"}, {}, 0, 2, 0, 0),
   TkScene("own", One, {"self"}, {}, 0, 3, 0, 1)}

MtScene(n, m, o, w, x, f) == [name |-> n, mounts |-> m, ops |-> o, own |-> w, others |-> x, faults |-> f]
MCMtScenes ==
  {MtScene("remount", {"sys", "kv"}, {"browse", "unmount", "create"}, 5, 0, 0),
   MtScene("mount", {"sys"}, {"create", "filter"}, 2, 1, 1),
   MtScene("unmount", {"sys", "kv"}, {"unmount", "browse"}, 3, 0, 1),
   MtScene("tune", {"sys"}, {"tune", "browse"}, 3, 0, 1),
   MtScene("tunes", {"sys"}, {"tune"}, 2, 1, 0)}

MCPlNames == {"p", "q"}
MCPlOrder == <<"p", "q">>
Body(rules) == [rules |-> rules, inh |-> FALSE]
R(path, caps) == [path |-> path, caps |-> caps]
Strings(S, n) == UNION {[1 .. k -> S] : k \in 1 .. n}
OnlyP(b) == [n \in MCPlNames |-> IF n = "p" THEN b ELSE None]
ReadA == Body(<<R(<<"a">>, {"read"})>>)
BothPol == [n \in MCPlNames |-> ReadA]
MCPlPaths == {<<"b">>, <<>>, <<"a", "*">>}
MCPlTexts ==
  {<<Rule(<<"a">>, {"deny"})>>, <<Rule(<<"a">>, {"read"}), BadLine>>, <<Comment, Rule(<<"a">>, {"read"})>>}
MCPlProbes == Strings({"a", "/"}, 4)
Globs == {OnlyP(Body(<<R(g, {"read"})>>)) : g \in Strings({"a", "/", "*"}, 4)}
Pairs == {OnlyP(Body(<<R(<<"a", "*">>, c), R(<<"a">>, d)>>)) :
            c \in {{"read"}, {"deny"}}, d \in {{}, {"read", "write"}, {"deny", "list"}}}
PlScene(n, b, tk, o, w, x, f) ==
  [name |-> n, bodies |-> b, tokens |-> tk, ops |-> o, own |-> w, others |-> x, faults |-> f]
MCPlScenes ==
  {PlScene("glob", Globs, <<>>, {"probe"}, 1, 0, 0),
   PlScene("tester", Pairs, <<>>, {"probe", "matrix"}, 2, 0, 0),
   PlScene("matrix", {OnlyP(ReadA)}, <<>>, {"type", "matrix"}, 3, 0, 0),
   PlScene("plsave", {BothPol}, <<>>, {"type", "select", "reset"}, 4, 0, 0),
   PlScene("plcross", {BothPol}, <<>>, {"inherit", "select"}, 6, 0, 0),
   PlScene("plfault", {OnlyP(ReadA)}, <<>>, {"type", "inherit", "filter"}, 3, 1, 1),
   PlScene("plcreate", {OnlyP(ReadA)}, <<>>, {"create", "reset"}, 2, 1, 0),
   PlScene("pldelete", {BothPol}, <<{}, {"q"}>>, {"delete"}, 3, 1, 0),
   PlScene("plfails", {BothPol}, <<{}, {"q"}>>, {"delete"}, 2, 0, 1),
   PlScene("plgone", {BothPol}, <<{"p"}>>, {"delete", "type", "create"}, 3, 0, 0)}

A == <<"a">>
AB == <<"a", "b">>
MCNsNames == {A, AB, <<"a", "b", "a">>, <<"b", "a">>, <<"b">>, <<"root">>}
NsScene(n, s, c, o, w, x, f) ==
  [name |-> n, spaces |-> s, context |-> c, ops |-> o, own |-> w, others |-> x, faults |-> f]
MCNsScenes ==
  {NsScene("nstree", SUBSET (MCNsNames \ {<<"root">>}), Root, {"view", "filter"}, 4, 0, 0),
   NsScene("nscreate", {{A}}, Root, {"create"}, 3, 0, 1),
   NsScene("nstaken", {{A}}, Root, {"create"}, 2, 1, 0),
   NsScene("nsmeta", {{A}}, Root, {"create", "edit", "meta"}, 4, 0, 0),
   NsScene("nsedit", {{A, AB}}, Root, {"edit", "meta", "filter"}, 3, 1, 0),
   NsScene("nsdelete", {{A, AB}}, A, {"delete", "switch"}, 4, 1, 1),
   NsScene("nsagain", {{A, AB}}, Root, {"delete", "create"}, 6, 0, 0)}

Pol(s, v) == [t \in s |-> v]
TmScene(n, p, r, o, th, w, x, f) ==
  [name |-> n, pol |-> p, roles |-> r, ops |-> o, theirs |-> th, own |-> w, others |-> x, faults |-> f]
MCTmScenes ==
  {TmScene("team", Pol({"u"}, "now"), {}, {"form", "groups"}, {}, 6, 0, 1),
   TmScene("teamfaults", Pol({}, "now"), {}, {"form", "groups", "k8s"}, {}, 6, 0, 2),
   TmScene("teamrole", Pol({}, "now"), {}, {"form", "groups", "k8s"}, {"role"}, 6, 1, 1),
   TmScene("teamtwo", Pol({}, "now"), {}, {"form", "groups"}, {"onboard"}, 4, 1, 0),
   TmScene("sync", [t \in {"t", "u"} |-> IF t = "t" THEN "old" ELSE "custom"], {}, {"sync"}, {"policy"}, 4, 1, 1)}
MCTmTwo == {TmScene("two", Pol({}, "now"), {}, {"form", "groups"}, {"onboard"}, 5, 1, 0)}

Held(s) == [n \in s |-> "x"]
Conf(dn, s) == [text |-> "x", dn |-> dn, secret |-> s]
AuScene(n, m, r, c, o, th, w, x, f) ==
  [name |-> n, method |-> m, roles |-> r, conf |-> c, ops |-> o, theirs |-> th, own |-> w, others |-> x, faults |-> f]
MCAuScenes ==
  {AuScene("auedit", "approle", Held({"a"}), None, {"edit"}, {}, 4, 0, 0),
   AuScene("auraced", "approle", Held({"a"}), None, {"edit"}, {"put", "delete"}, 2, 1, 0),
   AuScene("aunew", "approle", Held({"a"}), None, {"new"}, {"put"}, 2, 1, 0),
   AuScene("aunewedit", "approle", Held({}), None, {"new", "edit"}, {}, 4, 0, 0),
   AuScene("aufail", "approle", Held({"a"}), None, {"edit"}, {}, 3, 0, 1),
   AuScene("audelete", "approle", Held({"a"}), None, {"delete", "new"}, {}, 4, 0, 0),
   AuScene("audelfail", "approle", Held({"a", "b"}), None, {"delete"}, {}, 3, 0, 1),
   AuScene("augen", "approle", Held({"a"}), None, {"gen", "remount"}, {}, 5, 0, 1),
   AuScene("augendel", "approle", Held({"a"}), None, {"gen", "delete"}, {}, 6, 0, 0),
   AuScene("aujwt", "jwt", Held({}), Conf("", "x"), {"conf"}, {"conf"}, 3, 1, 0),
   AuScene("aujwtnew", "jwt", Held({}), None, {"conf", "new", "remount"}, {}, 3, 0, 0),
   AuScene("auldap", "ldap", Held({}), Conf("x", "x"), {"conf", "remount"}, {"conf"}, 2, 1, 0),
   AuScene("auldaprole", "ldap", Held({"a"}), Conf("x", "x"), {"edit", "delete"}, {}, 4, 0, 1)}

BothK8 == [k \in {"k", "l"} |-> k]
NoK8 == [k \in {} |-> ""]
K8Scene(n, r, o, w, x, f) == [name |-> n, roles |-> r, ops |-> o, own |-> w, others |-> x, faults |-> f]
MCK8Scenes ==
  {K8Scene("k8look", BothK8, {"type", "lookup"}, 5, 0, 1),
   K8Scene("k8edit", BothK8, {"type", "lookup", "edit"}, 5, 1, 0),
   K8Scene("k8new", NoK8, {"type", "lookup", "new"}, 5, 0, 1),
   K8Scene("k8delete", BothK8, {"type", "lookup", "delete"}, 7, 0, 0),
   K8Scene("k8delfail", BothK8, {"type", "lookup", "delete"}, 4, 1, 1)}

MCTrNames == {<<"a">>, <<"b">>, <<"a", "-copy">>}
Role(b, t, m) == [body |-> b, ttl |-> t, max |-> m]
OneRole == [n \in {<<"a">>} |-> Role("x", 0, 0)]
TwoRoles == [n \in {<<"a">>, <<"b">>} |-> Role("x", 0, 0)]
Timed == {[n \in {<<"a">>} |-> Role("x", t, m)] : t \in {90, 5400}, m \in {0, 90000}}
TrScene(n, r, o, w, x, f) == [name |-> n, roles |-> r, ops |-> o, own |-> w, others |-> x, faults |-> f]
MCTrScenes ==
  {TrScene("tredit", Timed, {"edit", "times"}, 3, 0, 0),
   TrScene("trdup", {OneRole}, {"dup", "edit"}, 4, 0, 0),
   TrScene("trfail", {OneRole}, {"edit", "delete"}, 4, 0, 1),
   TrScene("trnew", {OneRole}, {"new"}, 3, 1, 0),
   TrScene("trtwice", {OneRole}, {"edit", "enter"}, 5, 0, 0),
   TrScene("trbulk", {TwoRoles}, {"select", "delete"}, 4, 0, 1),
   TrScene("trgone", {TwoRoles}, {"select", "delete"}, 2, 1, 0),
   TrScene("trfilter", {TwoRoles}, {"select", "filter"}, 3, 0, 0),
   TrScene("trmint", {OneRole}, {"mint", "edit"}, 3, 0, 0)}

MCTsWhere == [r \in {"r1", "r2", "r3"} |->
  [cluster |-> IF r = "r1" THEN "" ELSE "east", ns |-> IF r = "r3" THEN "shop" ELSE "web"]]
MCTsSources == {<<"", "east">>, <<"east">>, <<>>}
Done == [del |-> FALSE, err |-> FALSE, synced |-> TRUE]
TsScene(n, t, a, s, o, w, x, f) ==
  [name |-> n, want |-> t, res |-> [r \in {"r1", "r2", "r3"} |-> IF r \in a THEN Done ELSE None], srcs |-> s,
   ops |-> o, own |-> w, others |-> x, faults |-> f]
MCTsScenes ==
  {TsScene("tsdown", "", {"r1", "r2"}, <<"", "east">>, {}, 0, 0, 2),
   TsScene("tscut", "", {"r1", "r2", "r3"}, <<"", "east">>, {"open"}, 1, 0, 0),
   TsScene("tsother", "", {"r1"}, <<"", "east">>, {}, 0, 1, 1),
   TsScene("tsteam", "team", {"r1", "r2"}, <<"", "east">>, {}, 0, 1, 1),
   TsScene("tsfilter", "", {"r1", "r2"}, <<"", "east">>, {"filter"}, 2, 0, 0),
   TsScene("tsvanish", "", {"r1", "r2"}, <<"", "east">>, {"filter"}, 1, 1, 0)}

AdminInit == TkInit \/ MtInit \/ PlInit \/ NsInit \/ TmInit \/ AuInit \/ K8Init \/ TrInit \/ TsInit
AdminNext == (OnTokens /\ TkNext) \/ (OnMounts /\ MtNext) \/ (OnPolicies /\ PlNext) \/ (OnNamespaces /\ NsNext)
             \/ (OnTeams /\ TmNext) \/ (OnAuth /\ AuNext) \/ (OnK8s /\ K8Next) \/ (OnTokenRoles /\ TrNext)
             \/ (OnTuckSecrets /\ TsNext)
AdminSpec == AdminInit /\ [][AdminNext]_consoleVars /\ TkFairness /\ MtFairness /\ PlFairness /\ NsFairness
             /\ TmFairness /\ AuFairness /\ K8Fairness /\ TrFairness /\ TsFairness

(* Every row, tree node, selection and details panel of the administration pages
   stands for something the server had when the page read it: a faded token is
   dead, details are of the mount shown, a selection is listed, the namespace
   tree hides no namespace, the sync table tells the server's state, and the
   TuckSecrets a list lacks are explained on the page. *)
RowsAreReal ==
  /\ TkTypeOK /\ FadedIsDead
  /\ MtTypeOK /\ DetailsOfThisMount
  /\ PlTypeOK
  /\ NsTypeOK /\ TreeShowsAll
  /\ TmTypeOK /\ SyncTableTrue
  /\ AuTypeOK
  /\ K8TypeOK /\ RowIsTheRole
  /\ TrTypeOK /\ SelectionIsListed
  /\ TsTypeOK /\ MissingExplained

(* Once its reads are in, an administration page agrees with the server on what
   this user changed: lists, editors, panels, the plan and the result of a team,
   the session's namespace, and the minute a secret_id stays on screen. *)
AdminPagesTrue ==
  /\ ListFollows
  /\ PageIsTrue
  /\ ContextLives
  /\ PlanFits /\ DoneIsWhole
  /\ EditStartsCurrent /\ PanelIsTrue /\ SecretHasItsMinute
  /\ RolesAreTrue

(* The policy page's tester, samples, scopes and matrix agree with the matching
   the server does on the same text. *)
PolicyToolsAgree ==
  /\ TesterHonest /\ SampleCovered /\ ScopeHonest /\ MatrixFaithful

(* The answer to a change made from an administration page brings the change to
   the screen: a renewal, a new, tuned or unplugged mount, a namespace, the scan
   before a policy's deletion, and the drawer a save belongs to. *)
AdminChangesShown ==
  [][/\ RenewShown
     /\ FreshIsSeen /\ UnitLeaves /\ TunedShown
     /\ ScanIsFresh
     /\ NsChangeShown
     /\ SaveClosesItsDrawer]_consoleVars

(* A save changes what the user changed and keeps the rest: tuning values not
   touched, other drafts, a role's role_id, a stored secret, looked-up rows,
   durations and metadata as typed, and a renewal never shortens a token. *)
SavesKeepTheRest ==
  [][/\ RenewExtends
     /\ UntouchedKept
     /\ DraftsSurvive
     /\ MetaAsTyped
     /\ RoleIdKept /\ ConfSecretKept
     /\ RowsStay
     /\ TimesKept]_consoleVars

(* Every spinner of the administration pages, every fading row and every
   highlight comes to an end: the tokens, mounts, policies, namespaces, teams,
   login-method and token-role pages do not stay busy. The list of TuckSecrets
   catches up with the clusters. *)
AdminBusy == TkBusy \/ MtBusy \/ PlBusy \/ NsBusy \/ TmBusy \/ AuBusy \/ K8Busy \/ TrBusy \/ TsBusy
AdminResponsive == AdminBusy ~> ~AdminBusy
=============================================================================
