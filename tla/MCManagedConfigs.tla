--------------------------- MODULE MCManagedConfigs ---------------------------
(* Instances of ManagedConfigs: what users make of resources and nodes. *)
EXTENDS ManagedConfigs

CONSTANTS m1, s1, env, n1, n2, c1, c2, ghost, t1

\* m1 and s1 have the same name, env comes before them.
Names == (m1 :> 2) @@ (s1 :> 2) @@ (env :> 1)

Data(keys, rev) == [k \in keys |-> [from |-> rev, salt |-> None]]

Object(managed, scope, type, keys, rev) ==
    [managed |-> managed, scope |-> scope, type |-> type, data |-> Data(keys, rev), stamp |-> None]

\* Scoped here, moved to another cluster, unlabelled; base, logging, script, a typo.
Base1 == Object(TRUE, None, None, {"a"}, 1)
Base2 == Object(TRUE, {c1, c2}, "base", {"a"}, 2)
Moved == Object(TRUE, {c2}, "base", {"a"}, 1)
Unlabelled == Object(FALSE, None, None, {"a"}, 1)
Logging == Object(TRUE, {c1}, "logging", {"log"}, 1)
BadLogging == Object(TRUE, None, "logging", {"a"}, 1)
Script == Object(TRUE, None, "postCommitScript", {"a"}, 1)
Typo == Object(TRUE, {c1, ghost}, "bse", {"a"}, 1)

Replace(r, olds, news) == {<<r, o, n>> : o \in olds, n \in news}

ResourceEdits ==
    Replace(m1, {Base1}, {Moved, Unlabelled, Logging})
    \cup Replace(m1, {Moved}, {Base2})
    \cup Replace(s1, {Logging}, {None, BadLogging, Typo})
    \cup Replace(s1, {Typo}, {Script, Base1})

Orders == {<<m1, s1, env>>, <<m1, env, s1>>}

\* The admin becomes a runtime node, and hands over or comes back.
Handover == {<<n1, "runtime">>, <<n2, "admin">>, <<n1, "admin">>}

\* The published Secret loses its labels, one of them or an annotation, or has
\* them all again.
Labelings == {[managed |-> TRUE, scope |-> {c1}, type |-> "env", label |-> TRUE],
              [managed |-> FALSE, scope |-> {c1}, type |-> "env", label |-> FALSE],
              [managed |-> FALSE, scope |-> {c1}, type |-> "env", label |-> TRUE],
              [managed |-> TRUE, scope |-> {c1}, type |-> None, label |-> TRUE]}

\* A certificate is rotated and then broken, removed, put back.
Rotations == {<<"v1", "v2">>, <<"v1", "absent">>, <<"v2", "broken">>, <<"absent", "v2">>, <<"broken", "v1">>}

\* In the last one two variables collide.
NoItems == <<>>
TwoItems == <<[key |-> "A", cert |-> "C", src |-> t1], [key |-> "B", cert |-> None, src |-> t1]>>
Colliding == <<[key |-> "A", cert |-> "B", src |-> t1], [key |-> "B", cert |-> None, src |-> t1]>>
Lists == {NoItems, TwoItems, Colliding}
ListEdits == {<<TwoItems, NoItems>>, <<NoItems, TwoItems>>, <<Colliding, TwoItems>>}

OneAdmin == [n \in {n1, n2} |-> IF n = n1 THEN "admin" ELSE "runtime"]

World(m, s, pair, list) ==
    [objs |-> (m1 :> m) @@ (s1 :> s) @@ (env :> None), typ |-> OneAdmin,
     src |-> (t1 :> pair), items |-> list]

\* One is about resources, two are about keystores.
Worlds == {World(Base1, Logging, "absent", NoItems), World(None, None, "v1", TwoItems),
           World(None, None, "broken", Colliding)}

\* A new cluster with keystores.
NewCluster == {World(None, None, "v1", TwoItems)}
=============================================================================
