---------------------------- MODULE MCGenerators ---------------------------
(***************************************************************************)
(* Keys 1 and 2 are objective, 3 and 4 subjective; key 3's predicate has    *)
(* two values and key 4's only one.  Keys 1, 2 and 4 of the rows share a    *)
(* predicate, so that values can be borrowed, and key 3 has its own.        *)
(***************************************************************************)
EXTENDS Generators

CONSTANTS v1, v2, v3

MCPool == <<{v1, v2, v3}, {v1, v2, v3}, {v1, v2}, {v1}>>

Conf(a, oa, ob, r, m, c, n) ==
    [ancestor |-> a, orthogonal_a |-> oa, orthogonal_b |-> ob,
     resolvable |-> r, ambiguous |-> m, correlates |-> c, noise |-> n]

\* Every probability with one conflict of each kind; every loop at least once;
\* more conflicts than the ancestor has keys; more of everything than there is.
MCConfigs ==
    {Conf(1, 0, 0, 1, 0, c, n) : c \in Odds, n \in Odds}
        \cup {Conf(2, 0, 0, 1, 1, "always", "never"), Conf(1, 1, 1, 0, 1, "never", "never"),
              Conf(1, 0, 0, 2, 0, "always", "sometimes"), Conf(0, 1, 1, 1, 0, "never", "always"),
              Conf(9, 0, 0, 0, 1, "never", "never"), Conf(2, 2, 1, 0, 0, "never", "never")}

Text(k, stated, a, b) ==
    [ancestor_key |-> k, ancestor_value |-> stated, key |-> k,
     branch_a_value |-> a, branch_b_value |-> b]
MCTemplates == {Text(1, v1, v2, v3), Text(3, v3, v1, v2)}

MCPredicateOf == <<1, 1, 3, 1>>

MCCaps == {None, 1}

RowOf(ks, vs) == [i \in DOMAIN ks |-> [key |-> ks[i], value |-> vs[i]]]
RowKeys == {<<1>>, <<1, 1>>, <<3, 3>>, <<1, 2, 1>>, <<1, 1, 1>>, <<2, 1, 2, 1>>, <<1, 3, 1, 1>>}
MCRows == {<<>>} \cup UNION {{RowOf(ks, vs) : vs \in [DOMAIN ks -> Values]} : ks \in RowKeys}
=============================================================================
