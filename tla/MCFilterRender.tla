---------------------------- MODULE MCFilterRender ----------------------------
(* The families of sets, rules, roots and places for FilterRender. *)
EXTENDS FilterRender

abs(segs) == [abs |-> TRUE, segs |-> segs, wild |-> FALSE]
all(segs) == [abs |-> TRUE, segs |-> segs, wild |-> TRUE]
rel(segs) == [abs |-> FALSE, segs |-> segs, wild |-> FALSE]
ruleOf(pos, action, pattern) == [pos |-> pos, action |-> action, pattern |-> pattern]
set(scope, name, rules) == [scope |-> scope, name |-> name, rules |-> rules]

MCSetsFamily == <<
    \* An organisation's excludes above, at and below the roots, an include
    \* below one of them, and another that the site takes back.
    <<set("org", 1, <<ruleOf(1, "exclude", abs(<<"a">>)), ruleOf(3, "exclude", abs(<<"a", "c">>)),
                      ruleOf(2, "include", abs(<<"a", "c", "b">>)),
                      ruleOf(4, "exclude", abs(<<"b">>)), ruleOf(5, "exclude", abs(<<"a", "b">>))>>),
      set("site", 1, <<ruleOf(1, "include", abs(<<"a", "b">>))>>)>>,
    \* Two sets of one scope whose names decide, and one the server keeps for
    \* a repo.
    <<set("repo", 1, <<ruleOf(1, "include", all(<<"a">>))>>),
      set("site", 2, <<ruleOf(1, "exclude", all(<<"a">>))>>),
      set("site", 1, <<ruleOf(2, "exclude", abs(<<"a", "b">>)),
                       ruleOf(1, "include", abs(<<"a", "b", "c">>))>>)>> >>

MCOwnFamily == <<
    <<ruleOf(2, "exclude", all(<<"a", "b">>)), ruleOf(1, "include", abs(<<"a", "b", "c">>))>>,
    <<ruleOf(1, "include", rel(<<"b">>)), ruleOf(1, "exclude", rel(<<"b">>))>> >>

MCRoots == {<<>>, <<"a">>, <<"a", "b">>}
MCPlaces == UNION {[1..n -> {"a", "b", "c"}] : n \in 1..3}
=============================================================================
