---------------------------- MODULE Correlation ----------------------------
(***************************************************************************)
(* correlate() of backend/app/services/correlation.py: investigations, in  *)
(* the order they are listed, are grouped into incidents by shared entity  *)
(* or overlapping indicators.  Titles, tactics and the severity of the     *)
(* incident are left out.                                                  *)
(***************************************************************************)
EXTENDS Naturals, Sequences, FiniteSets, FiniteSetsExt

\* Two cases share a key.
Linked(c, d) == c.entity = d.entity \/ c.indicators \cap d.indicators # {}

\* A case has an id, an entity and the indicators of its enrichment and its
\* source addresses; a group its members' ids and its accumulated keys.
NewGroup(c) ==
  [members |-> {c.id}, entities |-> {c.entity}, indicators |-> c.indicators]

Join(g, c) ==
  [members |-> g.members \cup {c.id},
   entities |-> g.entities \cup {c.entity},
   indicators |-> g.indicators \cup c.indicators]

\* Mutant: the indicators are not compared.
MatchesByEntity(g, c) == c.entity \in g.entities

Matches(g, c) == c.entity \in g.entities \/ c.indicators \cap g.indicators # {}

\* Mutant: without a match the loop variable keeps the last group.
PlaceInLast(groups, c) ==
  LET hits == {i \in DOMAIN groups : Matches(groups[i], c)}
  IN IF groups = <<>>
     THEN Append(groups, NewGroup(c))
     ELSE [groups EXCEPT ![IF hits = {} THEN Len(groups) ELSE Min(hits)] = Join(@, c)]

\* A case joins the first group it matches, or founds one.
Place(groups, c) ==
  LET hits == {i \in DOMAIN groups : Matches(groups[i], c)}
  IN IF hits = {}
     THEN Append(groups, NewGroup(c))
     ELSE [groups EXCEPT ![Min(hits)] = Join(@, c)]

\* The incidents after each turn of the loop.
Grouped(items) ==
  LET after[n \in 0..Len(items)] ==
        IF n = 0 THEN <<>> ELSE Place(after[n - 1], items[n])
  IN after

Correlate(items) == Grouped(items)[Len(items)]
=============================================================================
