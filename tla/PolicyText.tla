----------------------------- MODULE PolicyText -----------------------------
(***************************************************************************)
(* The policy text of the web console: the line per rule that the editor   *)
(* shows, its parser, the edits the capability matrix makes to it, and the *)
(* access tester, a port of the server's glob matcher and decision.        *)
(*                                                                         *)
(* A text is a sequence of lines. A line is a rule, a comment, or bad: one *)
(* that is not of the form path "..." { capabilities = [...] }. The words  *)
(* of its list are a set, and a path is a sequence of characters.          *)
(***************************************************************************)
EXTENDS Naturals, Sequences, FiniteSets

CAPS == {"read", "write", "delete", "list", "deny"}

Rule(path, words) == [kind |-> "rule", path |-> path, caps |-> words]
Comment == [kind |-> "comment", path |-> <<>>, caps |-> {}]
BadLine == [kind |-> "bad", path |-> <<>>, caps |-> {}]

fmtRule(path, caps) == Rule(path, caps \cap CAPS)

rulesToText(rules) == [i \in 1 .. Len(rules) |-> fmtRule(rules[i].path, rules[i].caps)]

TripleStar(path) == \E i \in 1 .. Len(path) - 2 : path[i] = "*" /\ path[i + 1] = "*" /\ path[i + 2] = "*"

LineErrors(l) ==
  CASE l.kind = "bad" -> 1
    [] l.kind = "comment" -> 0
    [] OTHER -> Cardinality(l.caps \ CAPS) + (IF l.path = <<>> \/ Head(l.path) = "/" THEN 1 ELSE 0)
                                           + (IF TripleStar(l.path) THEN 1 ELSE 0)

(* A word that is no capability keeps its line out of the rules. *)
IsRule(l) == l.kind = "rule" /\ l.caps \subseteq CAPS

RECURSIVE ErrorsFrom(_, _)
ErrorsFrom(text, i) == IF i > Len(text) THEN 0 ELSE LineErrors(text[i]) + ErrorsFrom(text, i + 1)

parsePolicy(text) ==
  LET at == SelectSeq([i \in 1 .. Len(text) |-> i], LAMBDA i : IsRule(text[i])) IN
  [rules  |-> [k \in 1 .. Len(at) |-> [path |-> text[at[k]].path, caps |-> text[at[k]].caps, line |-> at[k]]],
   errors |-> ErrorsFrom(text, 1)]

Stored(rules) == [k \in 1 .. Len(rules) |-> [path |-> rules[k].path, caps |-> rules[k].caps]]

canonical(rules, inh) == <<inh, [k \in 1 .. Len(rules) |-> <<rules[k].path, rules[k].caps \cap CAPS>>]>>

-----------------------------------------------------------------------------
(* The edits of the matrix: each rewrites the line of one rule. *)

toggleCap(text, r, c) ==
  LET caps == IF c \in r.caps THEN r.caps \ {c} ELSE IF c = "deny" THEN {"deny"} ELSE r.caps \cup {c} IN
  [text EXCEPT ![r.line] = fmtRule(r.path, caps)]

setRulePath(text, r, v) == [text EXCEPT ![r.line] = fmtRule(v, r.caps)]

Cut(text, i) == SubSeq(text, 1, i - 1) \o SubSeq(text, i + 1, Len(text))

(* The rule is taken for the line of the same number. *)
removeNth(text, r) ==
  LET rules == parsePolicy(text).rules IN
  Cut(text, CHOOSE k \in DOMAIN rules : rules[k] = r)

removeRule(text, r) == Cut(text, r.line)

appendLine(text, l) == Append(text, l)

-----------------------------------------------------------------------------
(* The access tester. *)

Starts(s, p) == Len(s) >= Len(p) /\ SubSeq(s, 1, Len(p)) = p
Drop(s, n) == SubSeq(s, n + 1, Len(s))

RECURSIVE globNoEmpty(_, _)
globNoEmpty(pat, s) ==
  IF pat = <<>> THEN s = <<>>
  ELSE IF pat = <<"*", "*">> THEN TRUE
  ELSE IF Starts(pat, <<"*", "*", "/">>)
       THEN \E i \in 1 .. Len(s) : s[i] = "/" /\ globNoEmpty(Drop(pat, 3), Drop(s, i))
  ELSE IF Head(pat) = "*"
       THEN \E k \in 0 .. Len(s) : (\A j \in 1 .. k : s[j] # "/") /\ globNoEmpty(Tail(pat), Drop(s, k))
  ELSE s # <<>> /\ Head(pat) = Head(s) /\ globNoEmpty(Tail(pat), Tail(s))

RECURSIVE globMatch(_, _)
globMatch(pat, s) ==
  IF pat = <<>> THEN s = <<>>
  ELSE IF pat = <<"*", "*">> THEN TRUE
  ELSE IF Starts(pat, <<"*", "*", "/">>)
       THEN \/ globMatch(Drop(pat, 3), s)
            \/ \E i \in 1 .. Len(s) : s[i] = "/" /\ globMatch(Drop(pat, 3), Drop(s, i))
  ELSE IF Head(pat) = "*"
       THEN \E k \in 0 .. Len(s) : (\A j \in 1 .. k : s[j] # "/") /\ globMatch(Tail(pat), Drop(s, k))
  ELSE s # <<>> /\ Head(pat) = Head(s) /\ globMatch(Tail(pat), Tail(s))

First(rules, Test(_)) ==
  IF \E k \in DOMAIN rules : Test(rules[k])
  THEN (CHOOSE k \in DOMAIN rules : Test(rules[k]) /\ \A j \in 1 .. k - 1 : ~Test(rules[j])) ELSE 0

evaluate(rules, path, cap) ==
  LET denies(r) == globMatch(r.path, path) /\ "deny" \in r.caps
      grants(r) == globMatch(r.path, path) /\ cap \in r.caps
  IN IF First(rules, denies) # 0 THEN [allow |-> FALSE, rule |-> First(rules, denies)]
     ELSE [allow |-> First(rules, grants) # 0, rule |-> First(rules, grants)]

(* A path for a rule: a star is a segment, two stars are two. *)
samplePathDeep(pattern) ==
  LET piece == [i \in 1 .. Len(pattern) |-> IF pattern[i] = "*" THEN <<"e", "/", "e">> ELSE <<pattern[i]>>]
      join[i \in 0 .. Len(pattern)] == IF i = 0 THEN <<>> ELSE join[i - 1] \o piece[i]
  IN join[Len(pattern)]

RECURSIVE samplePath(_)
samplePath(pattern) ==
  IF pattern = <<>> THEN <<>>
  ELSE IF Starts(pattern, <<"*", "*">>) THEN <<"e", "/", "e">> \o samplePath(Drop(pattern, 2))
  ELSE IF Head(pattern) = "*" THEN <<"e">> \o samplePath(Tail(pattern))
  ELSE <<Head(pattern)>> \o samplePath(Tail(pattern))

Stars(path, n) == \E i \in 1 .. Len(path) + 1 - n : \A j \in i .. i + n - 1 : path[j] = "*"

pathScopeEnd(path) ==
  IF Len(path) > 1 /\ path[Len(path)] = "*" /\ path[Len(path) - 1] = "*" THEN "recursive"
  ELSE IF Stars(path, 1) THEN "segment" ELSE "exact"

pathScope(path) == IF Stars(path, 2) THEN "recursive" ELSE IF Stars(path, 1) THEN "segment" ELSE "exact"

-----------------------------------------------------------------------------
(* What a pattern means, without the matcher: it is a sequence of tokens, and
   a path matches when it can be cut into one piece for each. *)

RECURSIVE Tokens(_)
Tokens(pat) ==
  IF pat = <<>> THEN <<>>
  ELSE IF pat = <<"*", "*">> THEN <<"any">>
  ELSE IF Starts(pat, <<"*", "*", "/">>) THEN <<"dirs">> \o Tokens(Drop(pat, 3))
  ELSE IF Head(pat) = "*" THEN <<"part">> \o Tokens(Tail(pat))
  ELSE <<Head(pat)>> \o Tokens(Tail(pat))

Piece(token, s) ==
  CASE token = "any" -> TRUE
    [] token = "dirs" -> s = <<>> \/ s[Len(s)] = "/"
    [] token = "part" -> \A i \in DOMAIN s : s[i] # "/"
    [] OTHER -> s = <<token>>

Matches(pat, s) ==
  LET T == Tokens(pat) IN
  \E cut \in [0 .. Len(T) -> 0 .. Len(s)] :
    /\ cut[0] = 0 /\ cut[Len(T)] = Len(s)
    /\ \A i \in 1 .. Len(T) : cut[i - 1] <= cut[i] /\ Piece(T[i], SubSeq(s, cut[i - 1] + 1, cut[i]))

(* What the server decides by a single policy: a matching deny, else a grant. *)
Allowed(rules, path, cap) ==
  LET hits == {k \in DOMAIN rules : Matches(rules[k].path, path)} IN
  (\A k \in hits : "deny" \notin rules[k].caps) /\ \E k \in hits : cap \in rules[k].caps

Slashes(s) == Cardinality({i \in DOMAIN s : s[i] = "/"})

=============================================================================
