---------------------------- MODULE TregDiscovery ----------------------------
(***************************************************************************)
(* How the Treg adapter finds tools for a request (adapters/treg.py): the  *)
(* catalog queries it derives from the objective, the narrower query it    *)
(* retries after a near miss, the endpoints it takes from the rows, and    *)
(* whether an endpoint's inputs can be filled from what the request knows. *)
(* Texts are sets of words, names of inputs and facts are model values; a  *)
(* verb is a word of its own in front of a text and further on in it.      *)
(***************************************************************************)
EXTENDS Integers, Sequences, SequencesExt

CONSTANTS Alias   \* name of an input -> the facts of a request that may fill it

Leading == {"find"}               \* a verb in front
Verbs == Leading \cup {"return"}   \* and one further on
Adjectives == {"verified", "professional"}
WorkEmail == {"work", "email"}

Unique(values) ==
    FoldLeft(LAMBDA list, v : IF v \in ToSet(list) THEN list ELSE Append(list, v), <<>>, values)

\* _clean_query: without the verb in front.
Clean(words) == words \ Leading

\* _normalize_discovery_language: one wording for a work email.
Normalized(words) ==
    IF "email" \in words /\ words \cap {"professional", "business"} # {}
    THEN (words \ {"professional", "business"}) \cup WorkEmail
    ELSE words

\* discovery_queries: the objective without the request's own values, then with fewer
\* words each; the empty query is left out.
DiscoveryQueries(request) ==
    LET base == Clean(Normalized(request.objective \ request.literals))
        email == IF WorkEmail \subseteq base THEN <<base \ Verbs, WorkEmail>> ELSE <<>> IN
    Unique(SelectSeq(<<base>> \o email \o <<base \ Adjectives>>, LAMBDA q : q # {}))

\* _near_miss_retry_query: the query without the words that each of the three nearest
\* rows lacks; the same query when there are none.
RetryQuery(query, near) ==
    LET missing == {near[i] : i \in 1..(IF Len(near) < 3 THEN Len(near) ELSE 3)} IN
    IF missing = {} THEN query
    ELSE Clean(query \ {word \in UNION missing : \A m \in missing : word \in m})

\* _candidate_endpoint_ids: the best routed row names a capability, and the endpoints are
\* the concrete rows with it and the routed row's children; else all concrete rows.
IsRouted(row) == row.kind = "routed" /\ row.capability # "none"
Anchor(routed) ==
    routed[CHOOSE i \in DOMAIN routed :
             \A j \in DOMAIN routed : \/ routed[j].score < routed[i].score
                                      \/ routed[j].score = routed[i].score /\ i <= j]
Ids(rows) == [i \in DOMAIN rows |-> rows[i].id]
FirstOf(values, limit) == SubSeq(values, 1, IF Len(values) < limit THEN Len(values) ELSE limit)
CandidateEndpointIds(rows, limit) ==
    LET routed == SelectSeq(rows, IsRouted)
        concrete == SelectSeq(rows, LAMBDA row : row.kind # "routed") IN
    IF routed # <<>>
    THEN LET anchor == Anchor(routed)
             same == SelectSeq(concrete, LAMBDA row : row.capability = anchor.capability) IN
         FirstOf(Unique(Ids(same) \o anchor.children), 3 * limit)
    ELSE FirstOf(Unique(Ids(concrete)), 2 * limit)

\* _resolve_param: a fact of the same name, an alias of it, or the only allowed value.
Resolvable(name, detail, facts) ==
    name \in detail.fixed \/ name \in facts \/ Alias[name] \cap facts # {}
\* _bind_param_group, _normalize_bound_alternatives: a full name replaces its parts.
Bound(detail, facts) ==
    LET bound == {n \in detail.required \cup detail.optional : Resolvable(n, detail, facts)} IN
    IF "full_name" \in bound THEN bound \ {"first_name", "last_name"} ELSE bound

\* _candidate_from_catalog_detail_with_reason. `supported`: method, schema and body type
\* are known ones; `unbindable`: a path parameter or a header is required.
Accepts(detail, facts) ==
    /\ ~detail.routed
    /\ detail.supported
    /\ ~detail.unbindable
    /\ \A n \in detail.required : Resolvable(n, detail, facts)
    /\ detail.required \cup detail.optional # {} => Bound(detail, facts) # {}
=============================================================================
