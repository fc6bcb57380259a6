----------------------------- MODULE MCWorkspace -----------------------------
\* Six paths: an ordinary file, the ignore rules, a directory's file and the
\* file that could take that directory's place, a root instruction file and a
\* tracked file in a directory the helper leaves out.
EXTENDS WorkspaceAudit, TLC

CONSTANTS plain, rules, dir, inner, doc, hidden, c1, c2

MCPath == {plain, rules, dir, inner, doc, hidden}
MCContent == {c1, c2}
MCInside == {<<inner, dir>>}
MCHides == (c1 :> {}) @@ (c2 :> {inner})
Tree(given) == [p \in MCPath |-> IF p \in DOMAIN given THEN given[p] ELSE NoFile]
MCStartTrees ==
    { Tree((plain :> c1) @@ (inner :> c1) @@ (hidden :> c1)),
      Tree((plain :> c1) @@ (rules :> c2) @@ (inner :> c1) @@ (doc :> c1)) }
MCStartRemotes == { Tree(doc :> Bootstrap) }
Forged(ours, added, changed, deleted) ==
    [kind |-> "delta", ours |-> ours, body |-> [p \in MCPath |-> c2],
     added |-> added, changed |-> changed, deleted |-> deleted]
MCForeign ==
    { Forged(FALSE, {}, {plain}, {}),          \* another run's
      Forged(TRUE, {}, {}, {hidden}) }         \* an excluded path
=============================================================================
