----------------------------- MODULE FilterRules -----------------------------
(***************************************************************************)
(* What a filters file means: the pure half of src/filters.go.  Rules are  *)
(* kept with absolute patterns, in sets of an organisation or a site and   *)
(* in one list per repo; the renderer writes them, anchored at the repo's  *)
(* root, into a list of which duplicacy obeys the first line that matches. *)
(* A path is the sequence of its names.  A pattern names the directory     *)
(* segs, or it and everything below it when it ends in a wildcard.         *)
(*                                                                         *)
(* A file is its sections, 0 for the repo's own rules and one for each     *)
(* set; a section is the sequence of its lines.                            *)
(***************************************************************************)
EXTENDS Integers, Sequences, FiniteSets, SequencesExt

\* What there is to write and to read; scopes other than these are not used.
Paths == Seq(STRING)
Patterns == [abs : BOOLEAN, segs : Paths, wild : BOOLEAN]
Rules == [pos : Int, action : {"include", "exclude"}, pattern : Patterns]
RuleSets == [scope : {"site", "org", "repo"}, name : Int, rules : Seq(Rules)]

\* The elements of s, whose indices come in the order `before`.
Sorted(s, before) ==
    LET At(n) == CHOOSE i \in DOMAIN s :
                    Cardinality({k \in DOMAIN s : <<k, i>> \in before}) = n - 1
    IN  [n \in DOMAIN s |-> s[At(n)]]

\* Mutant: the organisation's rules come first.
scopeOrder_orgFirst(scope) == CASE scope = "org" -> 0 [] scope = "site" -> 1 [] OTHER -> 2

\* Most specific first: duplicacy stops at the first line that matches.
scopeOrder(scope) == CASE scope = "site" -> 0 [] scope = "org" -> 1 [] OTHER -> 2

\* The orders of the two stable sorts: what is equal stays as it came.
ByPosition(rules) ==
    {x \in (DOMAIN rules) \X DOMAIN rules :
        \/ rules[x[1]].pos < rules[x[2]].pos
        \/ rules[x[1]].pos = rules[x[2]].pos /\ x[1] < x[2]}

ByScopeAndName(sets) ==
    LET scope(i) == scopeOrder(sets[i].scope)
    IN  {x \in (DOMAIN sets) \X DOMAIN sets :
            \/ scope(x[1]) < scope(x[2])
            \/ scope(x[1]) = scope(x[2]) /\ sets[x[1]].name < sets[x[2]].name
            \/ scope(x[1]) = scope(x[2]) /\ sets[x[1]].name = sets[x[2]].name /\ x[1] < x[2]}

\* The pattern relative to the root, and whether it can apply to the repo.
anchorPattern(p, root) ==
    IF ~p.abs THEN [ok |-> p.segs # <<>> \/ p.wild, segs |-> p.segs, wild |-> p.wild]
    ELSE [ok |-> root = <<>> \/ (IsPrefix(root, p.segs) /\ (p.segs # root \/ p.wild)),
          segs |-> SubSeq(p.segs, Len(root) + 1, Len(p.segs)),
          wild |-> p.wild]

\* The line of a rule; what does not apply is a comment.
Line(r, root) ==
    LET pattern == anchorPattern(r.pattern, root)
    IN  [kind |-> IF pattern.ok THEN r.action ELSE "comment", pattern |-> pattern]

writeRules(rules, root) ==
    [n \in DOMAIN rules |-> Line(Sorted(rules, ByPosition(rules))[n], root)]

\* The file rendered from sets and the repo's own rules.  Sets that the server
\* keeps for a repo are not written.
computeMerged(sets, own, root) ==
    LET sorted == Sorted(sets, ByScopeAndName(sets))
    IN  [n \in 0..Len(sets) |->
            IF n = 0 THEN writeRules(own, root)
            ELSE IF sorted[n].scope = "repo" THEN <<>>
            ELSE writeRules(sorted[n].rules, root)]

-----------------------------------------------------------------------------
(***************************************************************************)
(* External: duplicacy walks from the root of the repo, asks MatchPath for *)
(* every entry, and does not descend into a directory it leaves out.  An   *)
(* empty pattern matches everything.                                       *)
(***************************************************************************)
Matches(pattern, q) ==
    IF pattern.wild THEN IsPrefix(pattern.segs, q)
    ELSE pattern.segs = <<>> \/ pattern.segs = q

\* A place in the file is a section and a line of it.
LinesOf(file) ==
    {l \in UNION {{n} \X DOMAIN file[n] : n \in DOMAIN file} : file[l[1]][l[2]].kind # "comment"}

NotAfter(l, k) == l[1] < k[1] \/ (l[1] = k[1] /\ l[2] <= k[2])

MatchPath(file, q) ==
    LET line(l) == file[l[1]][l[2]]
        hits == {l \in LinesOf(file) : Matches(line(l).pattern, q)}
        first == CHOOSE l \in hits : \A k \in hits : NotAfter(l, k)
    IN  IF hits # {} THEN line(first).kind = "include"
        ELSE LinesOf(file) = {} \/ \E l \in LinesOf(file) : line(l).kind = "exclude"

BackedUp(file, q) == \A n \in 1..Len(q) : MatchPath(file, SubSeq(q, 1, n))

-----------------------------------------------------------------------------
\* Mutant: the includes are not looked at.
AbsoluteExcludePrefixes_all(sets) ==
    UNION {{r.pattern.segs : r \in
                {x \in ToSet(sets[i].rules) :
                    x.action = "exclude" /\ x.pattern.abs /\ ~x.pattern.wild}} :
            i \in DOMAIN sets}

\* The directories the size gatherer skips: literal absolute excludes, but
\* for those that have a literal absolute include at or below them.
AbsoluteExcludePrefixes(sets) ==
    LET rules == UNION {ToSet(sets[i].rules) : i \in DOMAIN sets}
        literal(what) == {r.pattern.segs : r \in
            {x \in rules : x.action = what /\ x.pattern.abs /\ ~x.pattern.wild}}
    IN  {e \in literal("exclude") : ~\E p \in literal("include") : IsPrefix(e, p)}

-----------------------------------------------------------------------------
(***************************************************************************)
(* The meaning of the rules without any file: of the rules of the repo,    *)
(* its site and its organisation, in this order of precedence, the sets of *)
(* one scope by name and a set's rules by position, and what is equal as   *)
(* it came, the first that names the absolute path decides.  A pattern     *)
(* counts if it names something inside the repo.  A rule is a pair of its  *)
(* set, 0 for the repo's own rules, and its place there.                   *)
(***************************************************************************)
RuleAt(sets, own, x) == IF x[1] = 0 THEN own[x[2]] ELSE sets[x[1]].rules[x[2]]

RulesFor(sets, own) ==
    {0} \X DOMAIN own
      \union UNION {{i} \X DOMAIN sets[i].rules : i \in {k \in DOMAIN sets : sets[k].scope # "repo"}}

SetPrecedes(s, t) ==
    \/ s.scope = "site" /\ t.scope = "org"
    \/ s.scope = t.scope /\ s.name < t.name

Precedes(sets, own, x, y) ==
    LET pos(z) == RuleAt(sets, own, z).pos
    IN  IF x[1] = y[1] THEN pos(x) < pos(y) \/ (pos(x) = pos(y) /\ x[2] < y[2])
        ELSE IF x[1] = 0 \/ y[1] = 0 THEN x[1] = 0
        ELSE \/ SetPrecedes(sets[x[1]], sets[y[1]])
             \/ ~SetPrecedes(sets[y[1]], sets[x[1]]) /\ x[1] < y[1]

Inside(p, root) ==
    LET from == IF p.abs THEN root ELSE <<>>
    IN  IsPrefix(from, p.segs) /\ (p.wild \/ p.segs # from)

Names(p, root, q) ==
    LET place == IF p.abs THEN root \o q ELSE q
    IN  IF p.wild THEN IsPrefix(p.segs, place) ELSE p.segs = place

\* What the rules say of one entry of the walk.
MeantAt(sets, own, root, q) ==
    LET rule(x) == RuleAt(sets, own, x)
        rules == {x \in RulesFor(sets, own) : Inside(rule(x).pattern, root)}
        named == {x \in rules : Names(rule(x).pattern, root, q)}
        wins(x) == \A y \in named : y = x \/ Precedes(sets, own, x, y)
    IN  IF named # {} THEN \E x \in named : wins(x) /\ rule(x).action = "include"
        ELSE rules = {} \/ \E x \in rules : rule(x).action = "exclude"

Meant(sets, own, root, q) == \A n \in 1..Len(q) : MeantAt(sets, own, root, SubSeq(q, 1, n))
=============================================================================
