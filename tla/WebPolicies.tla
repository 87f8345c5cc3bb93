----------------------------- MODULE WebPolicies -----------------------------
(***************************************************************************)
(* The policies page of the web console: the list, the drafts kept beside  *)
(* the stored policies, the editor with its code view, capability matrix   *)
(* and access tester, and the dialogs that create and delete.              *)
(***************************************************************************)
EXTENDS WebConsole, PolicyText

CONSTANTS
  PlNames,   \* policy names; the server lists them in the order of PlOrder
  PlOrder,
  PlPaths,   \* paths typed into the matrix
  PlTexts,   \* texts typed into the code view
  PlProbes,  \* paths typed into the tester
  PlScenes   \* [name, bodies, tokens, ops, own, others, faults]; bodies is a set of initial policies

ASSUME PoliciesConstants == PlOrder \in Seq(PlNames) /\ \A n \in PlNames : \E i \in DOMAIN PlOrder : PlOrder[i] = n

NoName == "none"
PlKeys == {"list", "usage"} \cup PlNames
PlDoes(op) == op \in ui.ops
Templates == {Rule(<<"s", "/", "*">>, {"read", "list"}), Rule(<<"s", "/", "*", "*">>, {"read", "write", "delete", "list"})}

-----------------------------------------------------------------------------
(* The server: a body for each stored policy. Writes replace it; a delete
   succeeds whether or not there is one. Tokens carry policy names. *)

PutEffect(n, b) == {[server EXCEPT !.policies[n] = b, !.index = @ + 1]}
DropEffect(n) == {[server EXCEPT !.policies[n] = None, !.index = @ + 1]}
PlStored == {n \in PlNames : server.policies[n] # None}

(* The usage scan lists the tokens and looks up the first ScanLimit of them. *)
ScanLimit == 1
Bound(n) == {t \in 1 .. Len(server.tokens) : t <= ScanLimit /\ n \in server.tokens[t]}

PlAnswer(k) ==
  CASE k = "list" -> [names |-> PlStored, index |-> server.index]
    [] k = "usage" -> [bound |-> Bound(ui.deleting), at |-> server.clock]
    [] OTHER -> IF server.policies[k] = None THEN Failed ELSE server.policies[k]

-----------------------------------------------------------------------------
(* The page. *)

Foremost(N) == PlOrder[CHOOSE i \in DOMAIN PlOrder : PlOrder[i] \in N /\ \A j \in 1 .. i - 1 : PlOrder[j] \notin N]

PlListed(c) == IF c["list"].data = None THEN {} ELSE c["list"].data.names
NewNames(u) == {n \in PlNames : u.fresh[n] # None}
AllNames(c, u) == NewNames(u) \cup PlListed(c)

(* A new draft comes first, then the server's names in their order. *)
PlSelected(c, u) ==
  IF u.sel \in AllNames(c, u) THEN u.sel
  ELSE IF NewNames(u) # {} THEN Foremost(NewNames(u))
  ELSE IF PlListed(c) # {} THEN Foremost(PlListed(c)) ELSE NoName

Draft(text, inh) == [text |-> text, inh |-> inh]
OfServer(n) == Draft(rulesToText(cache[n].data.rules), cache[n].data.inh)
CurrentDraft(n) ==
  IF ui.fresh[n] # None THEN ui.fresh[n]
  ELSE IF ui.drafts[n] # None THEN ui.drafts[n]
  ELSE IF n \in PlListed(cache) /\ cache[n].data # None THEN OfServer(n) ELSE None

IsNew(n) == ui.fresh[n] # None
Dirty(n) ==
  /\ ~IsNew(n) /\ ui.drafts[n] # None /\ cache[n].data # None
  /\ canonical(parsePolicy(ui.drafts[n].text).rules, ui.drafts[n].inh)
       # canonical(cache[n].data.rules, cache[n].data.inh)

PlCovered == ui.creating \/ ui.deleting # NoName

(* The policy whose editor is on the page: a list or a body that cannot be
   read hides the editor, whatever draft there is. *)
Edited ==
  LET n == PlSelected(cache, ui) IN
  IF cache["list"].err \/ (cache["list"].data = None) \/ n = NoName THEN NoName
  ELSE IF ~IsNew(n) /\ (cache[n].err \/ cache[n].data = None) THEN NoName ELSE n

PlWatched(c, u) == {"list"} \cup PlListed(c) \cup (IF u.deleting = NoName THEN {} ELSE {"usage"})

PlShow(c, u) ==
  LET seen == IF PlSelected(c, u) = PlSelected(cache, ui) THEN u ELSE [u EXCEPT !.probe = None] IN
  /\ cache' = Observe(c, PlWatched(c, u) \ PlWatched(cache, ui))
  /\ ui' = seen
  /\ UNCHANGED server

PlRefetch(c, K) == Invalidate(c, K, PlWatched(cache, ui))

(* The rows of the list that pass its filter. *)
PlVisible ==
  {n \in AllNames(cache, ui) :
     CASE ui.filter = "all" -> TRUE
       [] ui.filter = "changed" -> Dirty(n) \/ IsNew(n)
       [] OTHER -> CurrentDraft(n) # None /\ parsePolicy(CurrentDraft(n).text).errors > 0}

Select(n) ==
  /\ PlDoes("select") /\ ~PlCovered /\ ~cache["list"].err /\ n \in PlVisible /\ ui.own > 0 /\ ui.sel # n
  /\ \E K \in {{}, {n}} : PlShow(Aged(cache, K), [ui EXCEPT !.sel = n, !.own = @ - 1])

PlFilter(f) ==
  /\ PlDoes("filter") /\ ~PlCovered /\ ~cache["list"].err /\ ui.own > 0 /\ ui.filter # f
  /\ PlShow(cache, [ui EXCEPT !.filter = f, !.own = @ - 1])

(* The list, or the body of the selected policy, is read again. *)
PlRetry ==
  LET n == PlSelected(cache, ui) IN
  /\ ~PlCovered /\ ui.own > 0
  /\ \/ cache["list"].err /\ PlShow(FetchNow(cache, "list"), [ui EXCEPT !.own = @ - 1])
     \/ ~cache["list"].err /\ n # NoName /\ ~IsNew(n) /\ cache[n].err
          /\ PlShow(PlRefetch(cache, {n}), [ui EXCEPT !.own = @ - 1])

-----------------------------------------------------------------------------
(* Editing. Every edit makes, or changes, the draft of the policy. *)

Patched(u, n, d) ==
  [(IF IsNew(n) THEN [u EXCEPT !.fresh[n] = d] ELSE [u EXCEPT !.drafts[n] = d])
     EXCEPT !.own = @ - 1, !.typed = @ \cup {n}]

EditText(t) ==
  LET n == Edited IN
  PlShow(cache, Patched(ui, n, [CurrentDraft(n) EXCEPT !.text = t]))

TypeText(t) ==
  /\ PlDoes("type") /\ ~PlCovered /\ Edited # NoName /\ ui.own > 0
  /\ t # CurrentDraft(Edited).text
  /\ EditText(t)

SetInheritable ==
  /\ PlDoes("inherit") /\ ~PlCovered /\ Edited # NoName /\ ui.own > 0
  /\ PlShow(cache, Patched(ui, Edited, [CurrentDraft(Edited) EXCEPT !.inh = ~@]))

InMatrix == PlDoes("matrix") /\ ~PlCovered /\ Edited # NoName /\ ui.own > 0
MatrixText == CurrentDraft(Edited).text
MatrixRules == parsePolicy(MatrixText).rules

Matrix ==
  /\ InMatrix
  /\ \E k \in DOMAIN MatrixRules :
       LET r == MatrixRules[k] IN
       \/ \E c \in CAPS : EditText(toggleCap(MatrixText, r, c))
       \/ \E p \in PlPaths \ {r.path} : EditText(setRulePath(MatrixText, r, p))
       \/ EditText(removeRule(MatrixText, r))

AddLine == InMatrix /\ Len(MatrixText) < 3 /\ \E l \in Templates : EditText(appendLine(MatrixText, l))

(* Until the user types a path the tester follows the first rule. *)
Sample(rules) ==
  LET k == First(rules, LAMBDA r : r.path # <<>> /\ Head(r.path) # "/") IN
  IF k = 0 THEN None ELSE [path |-> samplePath(rules[k].path), cap |-> IF rules[k].caps \subseteq {"deny"} THEN "read" ELSE CHOOSE c \in rules[k].caps : c # "deny"]
Probe == IF ui.probe # None THEN ui.probe ELSE Sample(parsePolicy(CurrentDraft(Edited).text).rules)

TypeProbe(p, c) ==
  /\ PlDoes("probe") /\ ~PlCovered /\ Edited # NoName /\ ui.own > 0
  /\ PlShow(cache, [ui EXCEPT !.probe = [path |-> p, cap |-> c], !.own = @ - 1])

(* Reset throws the draft away; for a new policy that is all there is. *)
Reset ==
  /\ PlDoes("reset") /\ ~PlCovered /\ Edited # NoName /\ (Dirty(Edited) \/ IsNew(Edited))
  /\ PlShow(cache, IF IsNew(Edited) THEN [ui EXCEPT !.fresh[Edited] = None] ELSE [ui EXCEPT !.drafts[Edited] = None])

-----------------------------------------------------------------------------
(* Saving. The button of a policy is busy while the last save is its own, so
   saves of one policy can overlap when another was saved in between. *)

Saving(n) == \E s \in ui.saves : s.id = ui.last /\ s.name = n

Save ==
  LET n == Edited IN
  /\ ~PlCovered /\ n # NoName /\ (Dirty(n) \/ IsNew(n)) /\ ~Saving(n) /\ ui.own > 0
  /\ LET p == parsePolicy(CurrentDraft(n).text) IN
     /\ p.errors = 0
     /\ PlShow(cache, [ui EXCEPT !.saves = @ \cup {[id |-> ui.own, name |-> n, st |-> "sent",
                                                    body |-> [rules |-> Stored(p.rules), inh |-> CurrentDraft(n).inh]]},
                                 !.last = ui.own, !.own = @ - 1, !.typed = @ \ {n}])

SaveServe(s) ==
  /\ s.st = "sent"
  /\ \/ /\ server' \in PutEffect(s.name, s.body)
        /\ ui' = [ui EXCEPT !.saves = (@ \ {s}) \cup {[s EXCEPT !.st = "ok"]}]
     \/ /\ ui.faults > 0
        /\ server' \in {server} \cup {[e EXCEPT !.theirs = TRUE] : e \in PutEffect(s.name, s.body)}
        /\ ui' = [ui EXCEPT !.saves = (@ \ {s}) \cup {[s EXCEPT !.st = "failed"]}, !.faults = @ - 1]
  /\ UNCHANGED cache

(* Another answer about the same policy is still on its way and may put an
   older body into the cache; ui.crossed remembers that, and that a request
   failed which the server may have carried out all the same. *)
Overtaken(s) == cache[s.name].fetch # "idle" \/ \E z \in ui.saves \ {s} : z.name = s.name

SaveBackDropsAll(s) ==
  /\ s.st \in {"ok", "failed"}
  /\ IF s.st = "failed" THEN PlShow(cache, [ui EXCEPT !.saves = @ \ {s}])
     ELSE PlShow(PlRefetch(SetData(cache, s.name, s.body), {"list"}),
                 [ui EXCEPT !.saves = @ \ {s}, !.fresh = [n \in PlNames |-> None], !.drafts = [n \in PlNames |-> None]])

SaveBackUnread(s) ==
  /\ s.st \in {"ok", "failed"}
  /\ IF s.st = "failed" THEN PlShow(cache, [ui EXCEPT !.saves = @ \ {s}])
     ELSE PlShow(SetData(cache, s.name, s.body), [ui EXCEPT !.saves = @ \ {s}, !.fresh[s.name] = None, !.drafts[s.name] = None])

SaveBack(s) ==
  /\ s.st \in {"ok", "failed"}
  /\ IF s.st = "failed" THEN PlShow(cache, [ui EXCEPT !.saves = @ \ {s}, !.crossed = TRUE])
     ELSE PlShow(PlRefetch(SetData(cache, s.name, s.body), {"list"}),
                 [ui EXCEPT !.saves = @ \ {s}, !.fresh[s.name] = None, !.drafts[s.name] = None,
                            !.crossed = @ \/ Overtaken(s)])

-----------------------------------------------------------------------------
(* Creating makes a draft and nothing else. One new draft at a time. *)

OpenNewPolicy ==
  /\ PlDoes("create") /\ ~PlCovered /\ NewNames(ui) = {} /\ ui.own > 0
  /\ PlShow(cache, [ui EXCEPT !.creating = TRUE, !.own = @ - 1])

CloseNew == ui.creating /\ PlShow(cache, [ui EXCEPT !.creating = FALSE])

CreatePolicy(n) ==
  /\ ui.creating /\ n \notin AllNames(cache, ui)
  /\ \E t \in {<<>>} \cup {<<l>> : l \in Templates}, inh \in BOOLEAN :
       PlShow(cache, [ui EXCEPT !.fresh[n] = Draft(t, inh), !.sel = n, !.creating = FALSE, !.typed = @ \cup {n}])

-----------------------------------------------------------------------------
(* Deleting. The dialog scans the tokens; unless the scan finds none that
   uses the policy its name must be typed. Nothing of a scan is kept. *)

OpenDelete ==
  /\ PlDoes("delete") /\ ~PlCovered /\ Edited # NoName /\ ~IsNew(Edited) /\ ui.own > 0
  /\ PlShow(cache, [ui EXCEPT !.deleting = Edited, !.named = FALSE, !.own = @ - 1, !.opened = server.clock])

CloseDeleteBusy ==
  /\ ui.deleting # NoName
  /\ PlShow([cache EXCEPT !["usage"] = Blank], [ui EXCEPT !.deleting = NoName])

CloseDeleteKeeps ==
  /\ ui.deleting # NoName /\ ui.op["delete"] = "idle"
  /\ PlShow(cache, [ui EXCEPT !.deleting = NoName])

CloseDelete ==
  /\ ui.deleting # NoName /\ ui.op["delete"] = "idle"
  /\ PlShow([cache EXCEPT !["usage"] = Blank], [ui EXCEPT !.deleting = NoName])

TypePolicyName ==
  /\ ui.deleting # NoName /\ ui.op["delete"] = "idle" /\ ~ui.named
  /\ PlShow(cache, [ui EXCEPT !.named = TRUE])

Unused == cache["usage"].data # None /\ cache["usage"].data.bound = {}

ConfirmPolicyDelete ==
  /\ ui.deleting # NoName /\ ui.op["delete"] = "idle" /\ (ui.named \/ Unused) /\ ui.own > 0
  /\ PlShow(cache, [Push(ui, "delete") EXCEPT !.own = @ - 1])

(* removeQueries empties the entry; the row that is still listed asks again. *)
DeleteBack ==
  LET n == ui.deleting
      c == [cache EXCEPT ![n] = IF n \in PlListed(cache) THEN Ask(Blank) ELSE Blank]
  IN
  /\ Returned("delete")
  /\ IF ui.op["delete"] = "failed" THEN PlShow(cache, [Settle(ui, "delete") EXCEPT !.crossed = TRUE])
     ELSE PlShow(PlRefetch(c, {"list"}), [ui EXCEPT !.op["delete"] = "wait", !.drafts[n] = None])

DeleteDone ==
  /\ ui.op["delete"] = "wait" /\ ~Waiting(cache, {"list"})
  /\ PlShow([cache EXCEPT !["usage"] = Blank], [Settle(ui, "delete") EXCEPT !.deleting = NoName])

-----------------------------------------------------------------------------
(* Somebody else writes or deletes a policy, or gives one to a token. *)

PlOther ==
  /\ ui.others > 0
  /\ \/ \E n \in PlNames, t \in PlTexts :
          /\ parsePolicy(t).errors = 0
          /\ server' \in {[e EXCEPT !.theirs = TRUE] : e \in
               PutEffect(n, [rules |-> Stored(parsePolicy(t).rules), inh |-> FALSE]) \cup DropEffect(n)}
     \/ \E i \in DOMAIN server.tokens, n \in PlNames :
          /\ n \notin server.tokens[i]
          /\ server' = [server EXCEPT !.tokens[i] = @ \cup {n}, !.clock = @ + 1]
  /\ ui' = [ui EXCEPT !.others = @ - 1]
  /\ UNCHANGED cache

PlDeliver(k) == cache[k].fetch = "back" /\ PlShow(Deliver(cache, k), ui)

PlInit ==
  \E sc \in PlScenes : \E b \in sc.bodies :
    /\ server = [policies |-> b, tokens |-> sc.tokens, theirs |-> FALSE, clock |-> 1, index |-> 1]
    /\ cache = Observe([k \in PlKeys |-> Blank], {"list"})
    /\ ui = [page |-> "policies", scene |-> sc.name, ops |-> sc.ops, own |-> sc.own, others |-> sc.others,
             faults |-> sc.faults, op |-> [c \in {"delete"} |-> "idle"], sel |-> NoName, filter |-> "all",
             fresh |-> [n \in PlNames |-> None], drafts |-> [n \in PlNames |-> None], typed |-> {}, probe |-> None,
             saves |-> {}, last |-> 0, crossed |-> FALSE, creating |-> FALSE, deleting |-> NoName, named |-> FALSE, opened |-> 0]

OnPolicies == ui.page = "policies"

PlServe == (\E s \in ui.saves : SaveServe(s)) \/ (ui.deleting # NoName /\ OpServe("delete", DropEffect(ui.deleting)))
PlBack == (\E s \in ui.saves : SaveBack(s)) \/ DeleteBack \/ DeleteDone
PlQuery == \E k \in PlKeys : QueryServe(k, PlAnswer(k)) \/ PlDeliver(k)

PlNext ==
  \/ \E n \in PlNames : Select(n) \/ CreatePolicy(n)
  \/ \E f \in {"all", "changed", "errors"} : PlFilter(f)
  \/ \E t \in PlTexts : TypeText(t)
  \/ \E p \in PlProbes, c \in {"read", "write"} : TypeProbe(p, c)
  \/ SetInheritable \/ Matrix \/ AddLine \/ Reset \/ Save \/ PlRetry
  \/ OpenNewPolicy \/ CloseNew \/ OpenDelete \/ CloseDelete \/ TypePolicyName \/ ConfirmPolicyDelete
  \/ PlOther \/ PlServe \/ PlBack \/ PlQuery

PlFairness ==
  /\ WF_consoleVars(OnPolicies /\ PlServe) /\ WF_consoleVars(OnPolicies /\ PlBack) /\ WF_consoleVars(OnPolicies /\ PlQuery)

-----------------------------------------------------------------------------

(* The policies page is in one of its states: at most one draft is of a policy
   that does not exist yet, and a deletion under way keeps its dialog. *)
PlTypeOK ==
  OnPolicies =>
    /\ ui.op \in [{"delete"} -> OpStates] /\ ui.deleting \in PlNames \cup {NoName}
    /\ Cardinality(NewNames(ui)) <= 1 /\ (ui.op["delete"] # "idle" => ui.deleting # NoName)

(* The verdict of the access tester on the text in the editor is the one the
   server reaches, by what patterns mean, once that text is saved. *)
TesterHonest ==
  OnPolicies /\ Edited # NoName /\ Probe # None =>
    LET rules == parsePolicy(CurrentDraft(Edited).text).rules IN
    evaluate(rules, Probe.path, Probe.cap).allow = Allowed(Stored(rules), Probe.path, Probe.cap)

(* The example path the tester offers for a rule is one the rule covers, when
   its double stars stand for whole segments. *)
WholeStars(path) ==
  \A i \in 1 .. Len(path) - 1 :
    path[i] = "*" /\ path[i + 1] = "*" => i + 1 = Len(path) \/ path[i + 2] = "/"
SampleCovered ==
  OnPolicies /\ Edited # NoName =>
    \A r \in {MatrixRules[k] : k \in DOMAIN MatrixRules} : WholeStars(r.path) => globMatch(r.path, samplePath(r.path))

(* A rule the matrix calls "exact" covers its own path only, and one it calls
   "one level" nothing deeper than itself. *)
ScopeHonest ==
  OnPolicies /\ Edited # NoName /\ Probe # None =>
    \A r \in {MatrixRules[k] : k \in DOMAIN MatrixRules} :
      Matches(r.path, Probe.path) =>
        CASE pathScope(r.path) = "exact" -> Probe.path = r.path
          [] pathScope(r.path) = "segment" -> Slashes(Probe.path) = Slashes(r.path)
          [] OTHER -> TRUE

(* Every edit of the matrix changes the rule of its row as asked and leaves
   the other rules, and the errors of the other lines, alone. *)
MatrixFaithful ==
  OnPolicies /\ Edited # NoName =>
    LET T == MatrixText
        R == Stored(MatrixRules)
        After(t) == Stored(parsePolicy(t).rules)
    IN \A k \in DOMAIN MatrixRules :
         LET r == MatrixRules[k] IN
         /\ \A c \in CAPS \ {"deny"} :
              After(toggleCap(T, r, c)) = [R EXCEPT ![k].caps = IF c \in @ THEN @ \ {c} ELSE @ \cup {c}]
         /\ \A p \in PlPaths : After(setRulePath(T, r, p)) = [R EXCEPT ![k].path = p]
         /\ After(removeRule(T, r)) = Cut(R, k)
         /\ parsePolicy(removeRule(T, r)).errors = parsePolicy(T).errors - LineErrors(T[r.line])

(* When nothing is on its way, the page lists the policies the server has and
   the text of one without a draft is what is stored, provided that every
   change was made here and answered, and no older answer overtook it. *)
PageIsTrue ==
  OnPolicies /\ ~server.theirs /\ ~ui.crossed /\ ui.saves = {} /\ ~Busy({"delete"}) /\ ~Waiting(cache, PlKeys)
    /\ ~cache["list"].err =>
    /\ PlListed(cache) = PlStored
    /\ \A n \in PlStored :
         ~cache[n].err /\ ~IsNew(n) /\ ui.drafts[n] = None =>
           [rules |-> Stored(parsePolicy(CurrentDraft(n).text).rules), inh |-> CurrentDraft(n).inh] = server.policies[n]

(* What was typed leaves the page only by the button that throws it away,
   with its policy, or because a save stored it: the answer of a save that was
   sent before the last keystroke is the exception. *)
DraftsSurvive ==
  OnPolicies => \A n \in PlNames :
    (ui.drafts[n] # None /\ ui'.drafts[n] = None) \/ (ui.fresh[n] # None /\ ui'.fresh[n] = None) =>
      \/ ui'.own = ui.own /\ n = Edited /\ cache' = cache   \* Reset
      \/ n = ui.deleting
      \/ \E s \in ui.saves \ ui'.saves : s.name = n /\ s.st = "ok"

(* A policy is deleted without its name being typed only on a scan of the
   tokens that was made for this dialog and found none that uses it. *)
ScanIsFresh ==
  OnPolicies /\ ui.op["delete"] = "idle" /\ ui'.op["delete"] = "sent" /\ ~ui.named =>
    cache["usage"].data.at >= ui.opened

PlBusy == OnPolicies /\ (ui.saves # {} \/ Busy({"delete"}))

(* What was typed and not saved yet stays on the page. *)
UnsavedKept ==
  [][OnPolicies => \A n \in PlNames :
       n \in ui.typed /\ CurrentDraft(n) # None /\ (\E s \in ui.saves \ ui'.saves : s.name = n) =>
         ui'.drafts[n] # None \/ ui'.fresh[n] # None]_consoleVars

=============================================================================
