---------------------------- MODULE MCWebSession ----------------------------
(* Instances of WebSession: one tab with each group of operations, and two tabs
   that share localStorage. rt is a token of the root namespace, bt one that is
   bound to the namespace n, and c is a namespace inside n. *)
EXTENDS WebSession, TLC

CONSTANTS t1, t2, rt, bt, n, c

MCParent == n :> Root @@ c :> n

MCBoundTo == rt :> Root @@ bt :> n

MCDeployments ==
  { [tabs |-> {t1}, issued |-> {rt, bt}, ops |-> {"ns"}, fails |-> 0],
    [tabs |-> {t1}, issued |-> {rt, bt}, ops |-> {"page"}, fails |-> 0],
    [tabs |-> {t1}, issued |-> {rt}, ops |-> {"ldap", "sso"}, fails |-> 1],
    [tabs |-> {t1, t2}, issued |-> {rt}, ops |-> {}, fails |-> 0] }
=============================================================================
