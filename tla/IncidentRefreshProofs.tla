------------------------ MODULE IncidentRefreshProofs ------------------------
(***************************************************************************)
(* Machine-checked facts about IncidentRefresh: for any number of runs and *)
(* cases and any page size, whichever runs overlap, fail or wait.          *)
(*                                                                         *)
(* correlate() is a loop over a list, and what it computes for a list of   *)
(* any length is shown by induction over the turns of the loop.  A set of  *)
(* numbers that holds 0 and, with a turn, the next one holds all of them:  *)
(* that needs only that a nonempty set of numbers has a least one.         *)
(***************************************************************************)
EXTENDS IncidentRefresh, FiniteSetTheorems, TLAPS

Group == [members : SUBSET Ids(Cases),
          entities : SUBSET {c.entity : c \in Cases},
          indicators : SUBSET (UNION {c.indicators : c \in Cases})]

\* No two places of a list hold the same case.
Distinct(list) ==
  \A m, n \in DOMAIN list : list[m].id = list[n].id => m = n

IdsUpTo(list, n) == {list[m].id : m \in 1..n}

\* Groups divide a set of ids: each is a member of exactly one.
Divide(gs, ids) ==
  /\ gs \in Seq(Group)
  /\ \A i \in DOMAIN gs : gs[i].members \subseteq ids
  /\ \A id \in ids : \E i \in DOMAIN gs : id \in gs[i].members
  /\ \A i, j \in DOMAIN gs : gs[i].members \cap gs[j].members # {} => i = j

-----------------------------------------------------------------------------
(* A nonempty set of numbers has a least one: the intervals below its      *)
(* members are well-founded by inclusion.                                  *)
LEMMA LeastNumber ==
  ASSUME NEW S \in SUBSET Nat, S # {}
  PROVE  \E n \in S : \A k \in S : n <= k
<1>. DEFINE T == {0..n : n \in S}
            R == StrictSubsetOrdering(Nat)
<1>1. IsWellFoundedOn(R, FiniteSubsetsOf(Nat))
  BY FS_StrictSubsetOrderingWellFounded
<1>2. T \subseteq FiniteSubsetsOf(Nat) /\ T # {}
  <2>1. ASSUME NEW n \in S PROVE 0..n \in FiniteSubsetsOf(Nat)
    <3>1. IsFiniteSet(0..n)
      BY FS_Interval
    <3>2. 0..n \in SUBSET Nat
      OBVIOUS
    <3>. QED BY <3>1, <3>2 DEF FiniteSubsetsOf
  <2>. QED BY <2>1
<1>3. \E x \in T : \A y \in T : ~(<<y, x>> \in R)
  <2>. HIDE DEF T, R
  <2>. QED BY <1>1, <1>2, WFMin
<1>4. PICK n \in S : \A k \in S : ~(<<0..k, 0..n>> \in StrictSubsetOrdering(Nat))
  BY <1>3
<1>5. ASSUME NEW k \in S, k < n PROVE FALSE
  <2>. DEFINE a == 0..k
              b == 0..n
  <2>1. n \in b /\ n \notin a
    BY <1>5
  <2>2. a \in SUBSET Nat /\ b \in SUBSET Nat /\ a \subseteq b /\ a # b
    BY <1>5, <2>1
  <2>. HIDE DEF a, b
  <2>3. <<a, b>> \in StrictSubsetOrdering(Nat)
    BY <2>2 DEF StrictSubsetOrdering
  <2>. QED BY <1>4, <2>3 DEF a, b
<1>. QED BY <1>4, <1>5

(* What holds before the first turn of a loop, and after a turn if it did  *)
(* before it, holds after the last: of the turns after which it does not,  *)
(* there would be a first.                                                 *)
LEMMA AllTurns ==
  ASSUME NEW last \in Nat, NEW S, 0 \in S,
         \A n \in 0..(last - 1) : n \in S => n + 1 \in S
  PROVE  \A n \in 0..last : n \in S
<1>. DEFINE Bad == (0..last) \ S
<1>. SUFFICES ASSUME Bad # {} PROVE FALSE
  OBVIOUS
<1>1. PICK n \in Bad : \A k \in Bad : n <= k
  <2>1. Bad \in SUBSET Nat
    OBVIOUS
  <2>. HIDE DEF Bad
  <2>. QED BY <2>1, LeastNumber
<1>2. n # 0 /\ n \in 0..last /\ n \notin S
  BY <1>1
<1>3. n - 1 \in 0..(last - 1) /\ n - 1 \in 0..last /\ (n - 1) + 1 = n
  BY <1>2
<1>4. n - 1 \notin S
  BY <1>2, <1>3
<1>5. n - 1 \in Bad
  BY <1>3, <1>4
<1>. QED BY <1>1, <1>3, <1>5

(* The first of the groups that match is one of them.                      *)
LEMMA MinIsMember ==
  ASSUME NEW S \in SUBSET Nat, S # {}
  PROVE  Min(S) \in S
BY LeastNumber DEF Min

-----------------------------------------------------------------------------
(* correlate(): the loop can be followed turn by turn.  Runs of the loop   *)
(* over a first part of the list exist, one turn after the other; the      *)
(* definition chooses the one over the whole list.                         *)
LEMMA GroupedUnfolds ==
  ASSUME NEW list \in Seq(Cases)
  PROVE  Grouped(list) = [n \in 0..Len(list) |->
           IF n = 0 THEN <<>> ELSE Place(Grouped(list)[n - 1], list[n])]
<1>. DEFINE last == Len(list)
            Turn(f, n) == IF n = 0 THEN <<>> ELSE Place(f[n - 1], list[n])
            Runnable == {k \in 0..last : \E f : f = [n \in 0..k |-> Turn(f, n)]}
<1>0. last \in Nat
  OBVIOUS
<1>1. 0 \in Runnable
  <2>. DEFINE f == [n \in 0..0 |-> <<>>]
  <2>1. f = [n \in 0..0 |-> Turn(f, n)]
    OBVIOUS
  <2>. HIDE DEF f
  <2>. QED BY <2>1
<1>2. ASSUME NEW k \in 0..(last - 1), k \in Runnable
      PROVE  k + 1 \in Runnable
  <2>1. PICK f : f = [n \in 0..k |-> Turn(f, n)]
    BY <1>2
  <2>2. \A n \in 0..k : f[n] = Turn(f, n)
    BY <2>1, Zenon
  <2>. DEFINE g == [n \in 0..(k + 1) |-> Turn(f, n)]
  <2>3. \A n \in 0..k : n \in 0..(k + 1) /\ g[n] = f[n]
    BY <2>2
  <2>4. \A n \in 0..(k + 1) : n # 0 => n - 1 \in 0..k
    OBVIOUS
  <2>5. \A n \in 0..(k + 1) : g[n] = Turn(f, n) /\ Turn(f, n) = Turn(g, n)
    BY <2>3, <2>4
  <2>6. g = [n \in 0..(k + 1) |-> Turn(g, n)]
    BY <2>5
  <2>7. k + 1 \in 0..last
    OBVIOUS
  <2>. HIDE DEF g
  <2>. QED BY <2>6, <2>7
<1>3. last \in Runnable
  <2>. HIDE DEF Runnable
  <2>1. \A n \in 0..last : n \in Runnable
    BY <1>1, <1>2, AllTurns
  <2>. QED BY <2>1
<1>4. \E f : f = [n \in 0..Len(list) |-> IF n = 0 THEN <<>> ELSE Place(f[n - 1], list[n])]
  BY <1>3
<1>. QED BY <1>4, Zenon DEF Grouped

(* One turn: the case founds a group because none matches, or it joins a   *)
(* group it matches.                                                       *)
LEMMA PlaceCases ==
  ASSUME NEW gs \in Seq(Group), NEW c \in Cases
  PROVE  \/ /\ \A i \in DOMAIN gs : ~Matches(gs[i], c)
            /\ Place(gs, c) = Append(gs, NewGroup(c))
         \/ \E i \in DOMAIN gs : /\ Matches(gs[i], c)
                                 /\ Place(gs, c) = [gs EXCEPT ![i] = Join(gs[i], c)]
<1>. DEFINE hits == {i \in DOMAIN gs : Matches(gs[i], c)}
<1>1. CASE hits = {}
  BY <1>1 DEF Place
<1>2. CASE hits # {}
  <2>1. Min(hits) \in hits
    <3>1. hits \in SUBSET Nat
      OBVIOUS
    <3>. HIDE DEF hits
    <3>. QED BY <1>2, <3>1, MinIsMember
  <2>2. Place(gs, c) = [gs EXCEPT ![Min(hits)] = Join(gs[Min(hits)], c)]
    BY <1>2 DEF Place
  <2>. QED BY <2>1, <2>2
<1>. QED BY <1>1, <1>2

(* Groups stay groups.                                                     *)
LEMMA PlaceType ==
  ASSUME NEW gs \in Seq(Group), NEW c \in Cases
  PROVE  Place(gs, c) \in Seq(Group)
<1>1. /\ c.id \in Ids(Cases) /\ c.entity \in {d.entity : d \in Cases}
      /\ c.indicators \subseteq UNION {d.indicators : d \in Cases}
  BY DEF Ids
<1>2. NewGroup(c) \in Group
  BY <1>1 DEF NewGroup, Group
<1>3. ASSUME NEW g \in Group PROVE Join(g, c) \in Group
  BY <1>1 DEF Join, Group
<1>4. ASSUME NEW i \in DOMAIN gs PROVE [gs EXCEPT ![i] = Join(gs[i], c)] \in Seq(Group)
  <2>1. Join(gs[i], c) \in Group
    BY <1>3
  <2>. QED BY <2>1
<1>. QED BY <1>2, <1>4, PlaceCases

(* A new id goes into one group, and the other groups stay as they are.    *)
LEMMA PlaceDivides ==
  ASSUME NEW gs, NEW ids, Divide(gs, ids), NEW c \in Cases, c.id \notin ids
  PROVE  Divide(Place(gs, c), ids \cup {c.id})
<1>1. gs \in Seq(Group)
  BY DEF Divide
<1>2. /\ c.id \in Ids(Cases) /\ c.entity \in {d.entity : d \in Cases}
      /\ c.indicators \subseteq UNION {d.indicators : d \in Cases}
  BY DEF Ids
<1>3. CASE Place(gs, c) = Append(gs, NewGroup(c))
  <2>1. NewGroup(c) \in Group /\ NewGroup(c).members = {c.id}
    BY <1>2 DEF NewGroup, Group
  <2>. DEFINE last == Len(gs) + 1
              placed == Append(gs, NewGroup(c))
  <2>2. /\ placed \in Seq(Group) /\ last \notin DOMAIN gs
        /\ DOMAIN placed = DOMAIN gs \cup {last}
        /\ placed[last] = NewGroup(c)
        /\ \A i \in DOMAIN gs : placed[i] = gs[i]
    BY <1>1, <2>1
  <2>. HIDE DEF last, placed
  <2>3. Divide(placed, ids \cup {c.id})
    BY <2>1, <2>2 DEF Divide
  <2>. QED BY <1>3, <2>3 DEF placed
<1>4. CASE \E i \in DOMAIN gs : Place(gs, c) = [gs EXCEPT ![i] = Join(gs[i], c)]
  <2>1. PICK i \in DOMAIN gs : Place(gs, c) = [gs EXCEPT ![i] = Join(gs[i], c)]
    BY <1>4
  <2>2. gs[i] \in Group
    BY <1>1
  <2>3. Join(gs[i], c) \in Group /\ Join(gs[i], c).members = gs[i].members \cup {c.id}
    BY <1>2, <2>2 DEF Join, Group
  <2>. DEFINE placed == [gs EXCEPT ![i] = Join(gs[i], c)]
  <2>4. /\ placed \in Seq(Group) /\ DOMAIN placed = DOMAIN gs
        /\ placed[i].members = gs[i].members \cup {c.id}
        /\ \A j \in DOMAIN gs : j # i => placed[j] = gs[j]
    BY <1>1, <2>3
  <2>. HIDE DEF placed
  <2>5. Divide(placed, ids \cup {c.id})
    BY <2>4 DEF Divide
  <2>. QED BY <2>1, <2>5 DEF placed
<1>. QED BY <1>1, <1>3, <1>4, PlaceCases

(* What correlate() computes, for lists of any length without repetition:  *)
(* every investigation is in exactly one incident.                         *)
LEMMA CorrelateDivides ==
  ASSUME NEW list \in Seq(Cases), Distinct(list)
  PROVE  Divide(Correlate(list), IdsUpTo(list, Len(list)))
<1>. DEFINE last == Len(list)
            Divided == {n \in 0..last : Divide(Grouped(list)[n], IdsUpTo(list, n))}
<1>1. last \in Nat /\ DOMAIN list = 1..last /\ \A n \in 1..last : list[n] \in Cases
  OBVIOUS
<1>. HIDE DEF last
<1>2. /\ 0 \in 0..last
      /\ \A n \in 0..(last - 1) : n + 1 \in 0..last /\ n + 1 \in 1..last /\ (n + 1) - 1 = n /\ n + 1 # 0
  BY <1>1
<1>3. \A n \in 0..last : Grouped(list)[n] =
        IF n = 0 THEN <<>> ELSE Place(Grouped(list)[n - 1], list[n])
  BY <1>1, GroupedUnfolds, Zenon DEF last
<1>4. 0 \in Divided
  <2>1. Grouped(list)[0] = <<>> /\ IdsUpTo(list, 0) = {}
    BY <1>2, <1>3 DEF IdsUpTo
  <2>2. Divide(<<>>, {})
    BY DEF Divide
  <2>. QED BY <1>2, <2>1, <2>2
<1>5. ASSUME NEW n \in 0..(last - 1), n \in Divided
      PROVE  n + 1 \in Divided
  <2>1. Grouped(list)[n + 1] = Place(Grouped(list)[n], list[n + 1])
    BY <1>2, <1>3
  <2>2. IdsUpTo(list, n + 1) = IdsUpTo(list, n) \cup {list[n + 1].id}
    <3>1. 1..(n + 1) = (1..n) \cup {n + 1}
      BY <1>1
    <3>. QED BY <3>1 DEF IdsUpTo
  <2>3. list[n + 1].id \notin IdsUpTo(list, n)
    <3>1. \A m \in 1..n : m \in 1..last /\ m # n + 1
      BY <1>1
    <3>. QED BY <1>1, <1>2, <3>1 DEF IdsUpTo, Distinct
  <2>4. Divide(Place(Grouped(list)[n], list[n + 1]), IdsUpTo(list, n) \cup {list[n + 1].id})
    BY <1>1, <1>2, <1>5, <2>3, PlaceDivides
  <2>. QED BY <1>2, <2>1, <2>2, <2>4
<1>6. last \in Divided
  <2>. HIDE DEF Divided
  <2>1. \A n \in 0..last : n \in Divided
    BY <1>1, <1>4, <1>5, AllTurns
  <2>. QED BY <1>1, <2>1
<1>. QED BY <1>6 DEF Correlate, last

-----------------------------------------------------------------------------
(* The incident rows of a list without repetition hold the listed ids, and *)
(* a listed id is in exactly one of them.                                  *)
LEMMA IncidentRows ==
  ASSUME NEW r \in Runs, NEW list \in Seq(Cases), Distinct(list)
  PROVE  /\ Incidents(r, list) \in SUBSET Rows
         /\ Covered(Incidents(r, list)) \subseteq IdsUpTo(list, Len(list))
         /\ \A id \in IdsUpTo(list, Len(list)) :
              \E row : {inc \in Incidents(r, list) : id \in inc.members} = {row}
<1>. DEFINE gs == Correlate(list)
            rows == {[run |-> r, members |-> gs[i].members] : i \in DOMAIN gs}
            ids == IdsUpTo(list, Len(list))
<1>1. Divide(gs, ids)
  BY CorrelateDivides
<1>2. Incidents(r, list) = rows
  BY DEF Incidents
<1>. HIDE DEF gs, ids
<1>3. rows \in SUBSET Rows
  <2>1. \A i \in DOMAIN gs : gs[i] \in Group
    BY <1>1 DEF Divide
  <2>2. \A i \in DOMAIN gs : gs[i].members \in SUBSET Ids(Cases)
    BY <2>1 DEF Group
  <2>. QED BY <2>2 DEF Rows
<1>4. Covered(rows) \subseteq ids
  BY <1>1 DEF Divide, Covered
<1>5. ASSUME NEW id \in ids
      PROVE  \E row : {inc \in rows : id \in inc.members} = {row}
  <2>1. PICK i \in DOMAIN gs : id \in gs[i].members
    BY <1>1 DEF Divide
  <2>2. \A j \in DOMAIN gs : id \in gs[j].members => j = i
    BY <1>1, <2>1 DEF Divide
  <2>. DEFINE row == [run |-> r, members |-> gs[i].members]
  <2>3. row \in rows /\ id \in row.members
    BY <2>1
  <2>4. \A inc \in rows : id \in inc.members => inc = row
    BY <2>2
  <2>5. {inc \in rows : id \in inc.members} = {row}
    BY <2>3, <2>4
  <2>. QED BY <2>5
<1>. QED BY <1>2, <1>3, <1>4, <1>5 DEF ids

-----------------------------------------------------------------------------
(* The page.  Ranks number a finite set of cases from 1 to its size, since *)
(* different cases have different ranks; so there is a case in each place. *)

Rank(S, c) == Cardinality({d \in S : d.id <= c.id})

(* A set of cases is finite, and the cases up to one of them are part.     *)
LEMMA RankType ==
  ASSUME NEW S \in SUBSET Cases, NEW c \in S
  PROVE  /\ IsFiniteSet({d \in S : d.id <= c.id})
         /\ Rank(S, c) \in 1..Cardinality(S)
<1>. DEFINE upTo == {d \in S : d.id <= c.id}
<1>1. IsFiniteSet(S) /\ Cardinality(S) \in Nat
  BY FiniteCases, FS_Subset, FS_CardinalityType
<1>2. IsFiniteSet(upTo) /\ Cardinality(upTo) \in Nat /\ Cardinality(upTo) <= Cardinality(S)
  BY <1>1, FS_Subset, FS_CardinalityType
<1>3. c \in upTo
  BY CaseIds
<1>4. Cardinality(upTo) # 0
  BY <1>2, <1>3, FS_EmptySet
<1>. QED BY <1>1, <1>2, <1>4 DEF Rank

(* Different cases have different ranks.                                   *)
LEMMA RanksDiffer ==
  ASSUME NEW S \in SUBSET Cases, NEW c \in S, NEW d \in S, Rank(S, c) = Rank(S, d)
  PROVE  c = d
<1>. SUFFICES ASSUME NEW a \in S, NEW b \in S, Rank(S, a) = Rank(S, b), a.id <= b.id
              PROVE  a = b
  BY CaseIds
<1>. DEFINE upToA == {e \in S : e.id <= a.id}
            upToB == {e \in S : e.id <= b.id}
<1>1. upToA \in SUBSET upToB
  BY CaseIds
<1>2. upToA = upToB
  BY <1>1, RankType, FS_Subset DEF Rank
<1>3. b.id <= a.id
  BY <1>2, CaseIds
<1>. QED BY <1>3, CaseIds

(* There is a case of every rank up to the size of the set.                *)
LEMMA RanksFill ==
  ASSUME NEW S \in SUBSET Cases, NEW i \in 1..Cardinality(S)
  PROVE  \E c \in S : Rank(S, c) = i
<1>. DEFINE places == 1..Cardinality(S)
            f == [c \in S |-> Rank(S, c)]
<1>1. IsFiniteSet(S) /\ Cardinality(S) \in Nat
  BY FiniteCases, FS_Subset, FS_CardinalityType
<1>2. IsFiniteSet(places) /\ Cardinality(places) = Cardinality(S)
  BY <1>1, FS_Interval
<1>3. f \in [S -> places]
  BY RankType
<1>4. f \in Injection(S, places)
  <2>1. \A c, d \in S : f[c] = f[d] => c = d
    BY RanksDiffer
  <2>. HIDE DEF f, places
  <2>. QED BY <1>3, <2>1 DEF Injection, IsInjective
<1>5. f \in Surjection(S, places)
  <2>. HIDE DEF f, places
  <2>. QED BY <1>2, <1>4, FS_Injection
<1>. QED BY <1>5 DEF Surjection

(* The page of a set of cases holds those whose rank is within the limit,  *)
(* each once.                                                              *)
LEMMA PageHolds ==
  ASSUME NEW S \in SUBSET Cases
  PROVE  /\ Page(S) \in Seq(Cases) /\ Distinct(Page(S))
         /\ IdsUpTo(Page(S), Len(Page(S))) \subseteq Ids(S)
         /\ \A c \in S :
              c.id \in IdsUpTo(Page(S), Len(Page(S))) <=> Rank(S, c) <= ListLimit
<1>. DEFINE size == IF Cardinality(S) < ListLimit THEN Cardinality(S) ELSE ListLimit
            page == [i \in 1..size |-> CHOOSE c \in S : Rank(S, c) = i]
<1>1. Page(S) = page
  BY DEF Page, Rank
<1>2. Cardinality(S) \in Nat /\ size \in Nat
  BY ListLimitIsNat, FiniteCases, FS_Subset, FS_CardinalityType
<1>3. \A i \in 1..size : i \in 1..Cardinality(S)
  BY <1>2, ListLimitIsNat
<1>4. \A i \in 1..size : page[i] \in S /\ Rank(S, page[i]) = i
  BY <1>3, RanksFill
<1>5. \A c \in S : Rank(S, c) <= ListLimit => Rank(S, c) \in 1..size
  <2>1. \A c \in S : Rank(S, c) \in 1..Cardinality(S)
    BY RankType
  <2>. QED BY <1>2, <2>1, ListLimitIsNat
<1>6. \A i \in 1..size : i <= ListLimit
  BY <1>2, ListLimitIsNat
<1>7. page \in Seq(Cases) /\ Len(page) = size /\ DOMAIN page = 1..size
  <2>1. page \in [1..size -> Cases]
    BY <1>4
  <2>. HIDE DEF size, page
  <2>. QED BY <1>2, <2>1
<1>. HIDE DEF size, page
<1>8. Distinct(page)
  BY <1>4, <1>7, CaseIds DEF Distinct
<1>9. IdsUpTo(page, Len(page)) \subseteq Ids(S)
  BY <1>4, <1>7 DEF IdsUpTo, Ids
<1>10. ASSUME NEW c \in S
       PROVE  c.id \in IdsUpTo(page, Len(page)) <=> Rank(S, c) <= ListLimit
  <2>1. ASSUME c.id \in IdsUpTo(page, Len(page)) PROVE Rank(S, c) <= ListLimit
    <3>1. PICK i \in 1..size : c.id = page[i].id
      BY <1>7, <2>1 DEF IdsUpTo
    <3>2. c = page[i]
      BY <1>4, <3>1, CaseIds
    <3>. QED BY <1>4, <1>6, <3>2
  <2>2. ASSUME Rank(S, c) <= ListLimit PROVE c.id \in IdsUpTo(page, Len(page))
    <3>1. Rank(S, c) \in 1..size
      BY <1>5, <2>2
    <3>2. page[Rank(S, c)] = c
      BY <1>4, <3>1, RanksDiffer
    <3>. QED BY <1>7, <3>1, <3>2 DEF IdsUpTo
  <2>. QED BY <2>1, <2>2
<1>. QED BY <1>1, <1>7, <1>8, <1>9, <1>10

-----------------------------------------------------------------------------
(* What a run holds.  From its list on it works on a page of cases that    *)
(* are committed or its own; what it is going to insert covers only such   *)
(* cases.  Both stay so because committed cases stay.                      *)

HasList == {"listed", "replacing", "replaced", "alerted"}

PageHeld ==
  \A r \in Runs : pc[r] \in HasList =>
    \E S \in SUBSET (cases \cup created[r]) : listed[r] = Page(S)

FreshCovered ==
  \A r \in Runs :
    /\ Covered(fresh[r]) \subseteq Ids(cases \cup created[r])
    /\ pc[r] \in {"new", "saved", "listed", "replacing"} => fresh[r] = {}

CoverInv == TypeOK /\ PageHeld /\ FreshCovered /\ MembersCommitted

(* Before any run there is nothing.                                        *)
LEMMA CoverInit == Init => CoverInv
BY DEF Init, CoverInv, TypeOK, PageHeld, HasList, FreshCovered, MembersCommitted, Covered, Ids

(* A run without a page, whose cases and rows are none.                    *)
LEMMA RunEnds ==
  ASSUME CoverInv, NEW r \in Runs, End(r), cases \subseteq cases', cases' \in SUBSET Cases,
         incidents' \in SUBSET Rows, Covered(incidents') \subseteq Ids(cases'),
         pc' \in {[pc EXCEPT ![r] = "committed"], [pc EXCEPT ![r] = "aborted"]}
  PROVE  CoverInv'
<1>1. TypeOK'
  <2>1. <<>> \in Seq(Cases) /\ {} \in SUBSET Rows /\ {} \in SUBSET Cases
    OBVIOUS
  <2>2. pc' \in [Runs -> {"new", "saved", "listed", "replacing", "replaced",
                         "alerted", "committed", "aborted"}]
    BY DEF CoverInv, TypeOK
  <2>3. alerts' \in SUBSET Rows /\ lost' \in SUBSET Rows /\ crowded' \in SUBSET Runs
    BY DEF CoverInv, TypeOK, End
  <2>4. /\ created' \in [Runs -> SUBSET Cases] /\ listed' \in [Runs -> Seq(Cases)]
        /\ seen' \in [Runs -> SUBSET Rows] /\ deleted' \in [Runs -> SUBSET Rows]
        /\ fresh' \in [Runs -> SUBSET Rows]
    BY <2>1 DEF CoverInv, TypeOK, End
  <2>. QED BY <2>2, <2>3, <2>4 DEF TypeOK
<1>2. PageHeld'
  <2>. SUFFICES ASSUME NEW q \in Runs, pc'[q] \in HasList
                PROVE  \E S \in SUBSET (cases' \cup created'[q]) : listed'[q] = Page(S)
    BY DEF PageHeld
  <2>1. q # r /\ pc[q] \in HasList /\ created'[q] = created[q] /\ listed'[q] = listed[q]
    BY DEF CoverInv, TypeOK, End, HasList
  <2>. QED BY <2>1 DEF CoverInv, PageHeld
<1>3. FreshCovered'
  <2>. SUFFICES ASSUME NEW q \in Runs
                PROVE  /\ Covered(fresh'[q]) \subseteq Ids(cases' \cup created'[q])
                       /\ pc'[q] \in {"new", "saved", "listed", "replacing"} => fresh'[q] = {}
    BY DEF FreshCovered, Covered, Ids
  <2>1. CASE q = r
    BY <2>1 DEF CoverInv, TypeOK, End, Covered
  <2>2. CASE q # r
    <3>1. fresh'[q] = fresh[q] /\ created'[q] = created[q] /\ pc'[q] = pc[q]
      BY <2>2 DEF CoverInv, TypeOK, End
    <3>. QED BY <3>1 DEF CoverInv, FreshCovered, Ids
  <2>. QED BY <2>1, <2>2
<1>. QED BY <1>1, <1>2, <1>3 DEF CoverInv, MembersCommitted, Covered, Ids

(* Every step keeps it.                                                    *)
LEMMA CoverNext == CoverInv /\ [Next]_vars => CoverInv'
<1>. SUFFICES ASSUME CoverInv, [Next]_vars PROVE CoverInv'
  OBVIOUS
<1>. USE DEF CoverInv
<1>1. ASSUME NEW r \in Runs, Save(r) PROVE CoverInv'
  <2>1. TypeOK'
    BY <1>1 DEF TypeOK, Save, UnderWay
  <2>2. PageHeld'
    BY <1>1 DEF TypeOK, Save, PageHeld, HasList
  <2>3. FreshCovered'
    <3>1. /\ fresh' = fresh /\ cases' = cases /\ fresh[r] = {} /\ pc[r] = "new"
          /\ \A q \in Runs : q # r => created'[q] = created[q] /\ pc'[q] = pc[q]
      BY <1>1 DEF TypeOK, Save, FreshCovered
    <3>. QED BY <3>1 DEF FreshCovered, Covered, Ids
  <2>. QED BY <1>1, <2>1, <2>2, <2>3 DEF Save, MembersCommitted, Covered, Ids
<1>2. ASSUME NEW r \in Runs, List(r) PROVE CoverInv'
  <2>1. cases \cup created[r] \in SUBSET Cases
    BY DEF TypeOK
  <2>2. Page(cases \cup created[r]) \in Seq(Cases)
    BY <2>1, PageHolds
  <2>3. TypeOK'
    BY <1>2, <2>2 DEF TypeOK, List
  <2>4. PageHeld'
    BY <1>2 DEF TypeOK, List, PageHeld, HasList
  <2>5. FreshCovered'
    BY <1>2 DEF TypeOK, List, FreshCovered, Covered, Ids
  <2>. QED BY <1>2, <2>3, <2>4, <2>5 DEF List, MembersCommitted, Covered, Ids
<1>3. ASSUME NEW r \in Runs, ReadIncidents(r) PROVE CoverInv'
  <2>1. TypeOK'
    BY <1>3 DEF TypeOK, ReadIncidents
  <2>2. PageHeld'
    BY <1>3 DEF TypeOK, ReadIncidents, PageHeld, HasList
  <2>3. FreshCovered'
    BY <1>3 DEF TypeOK, ReadIncidents, FreshCovered, Covered, Ids
  <2>. QED BY <1>3, <2>1, <2>2, <2>3 DEF ReadIncidents, MembersCommitted, Covered, Ids
<1>4. ASSUME NEW r \in Runs, Replace(r) PROVE CoverInv'
  <2>1. PICK S \in SUBSET (cases \cup created[r]) : listed[r] = Page(S)
    BY <1>4 DEF Replace, PageHeld, HasList
  <2>2. S \in SUBSET Cases
    BY <2>1 DEF TypeOK
  <2>. DEFINE page == listed[r]
              rows == Incidents(r, page)
  <2>3. page \in Seq(Cases) /\ Distinct(page) /\ IdsUpTo(page, Len(page)) \subseteq Ids(S)
    BY <2>1, <2>2, PageHolds
  <2>4. rows \in SUBSET Rows /\ Covered(rows) \subseteq IdsUpTo(page, Len(page))
    BY <2>3, IncidentRows
  <2>5. Covered(rows) \subseteq Ids(cases \cup created[r])
    BY <2>3, <2>4 DEF Ids
  <2>6. fresh' = [fresh EXCEPT ![r] = rows]
    BY <1>4 DEF Replace
  <2>. HIDE DEF rows
  <2>7. TypeOK'
    BY <1>4, <2>4, <2>6 DEF TypeOK, Replace
  <2>8. PageHeld'
    BY <1>4 DEF TypeOK, Replace, PageHeld, HasList
  <2>9. FreshCovered'
    BY <1>4, <2>5, <2>6 DEF TypeOK, Replace, FreshCovered
  <2>. QED BY <1>4, <2>7, <2>8, <2>9 DEF Replace, MembersCommitted, Covered, Ids
<1>5. ASSUME NEW r \in Runs, Alert(r) PROVE CoverInv'
  <2>1. TypeOK'
    BY <1>5 DEF TypeOK, Alert, Alerting
  <2>2. PageHeld'
    BY <1>5 DEF TypeOK, Alert, PageHeld, HasList
  <2>3. FreshCovered'
    BY <1>5 DEF TypeOK, Alert, FreshCovered, Covered, Ids
  <2>. QED BY <1>5, <2>1, <2>2, <2>3 DEF Alert, MembersCommitted, Covered, Ids
<1>6. ASSUME NEW r \in Runs, Commit(r) PROVE CoverInv'
  <2>1. cases \subseteq cases' /\ cases' \in SUBSET Cases /\ incidents' \in SUBSET Rows
    BY <1>6 DEF Commit, TypeOK
  <2>2. Covered(incidents') \subseteq Ids(cases')
    <3>1. Covered(incidents') \subseteq Covered(incidents) \cup Covered(fresh[r])
      BY <1>6 DEF Commit, Covered
    <3>. QED BY <1>6, <3>1 DEF Commit, MembersCommitted, FreshCovered, Ids
  <2>. QED BY <1>6, <2>1, <2>2, RunEnds DEF Commit
<1>7. ASSUME NEW r \in Runs, Abort(r) PROVE CoverInv'
  <2>1. /\ cases' = cases /\ incidents' = incidents /\ End(r)
        /\ pc' = [pc EXCEPT ![r] = "aborted"]
    BY <1>7 DEF Abort
  <2>2. /\ cases' \in SUBSET Cases /\ incidents' \in SUBSET Rows
        /\ Covered(incidents') \subseteq Ids(cases')
    BY <2>1 DEF TypeOK, MembersCommitted
  <2>. QED BY <2>1, <2>2, RunEnds
<1>8. ASSUME NEW r \in Runs, Delete(r) PROVE CoverInv'
  <2>1. TypeOK'
    BY <1>8 DEF TypeOK, Delete
  <2>2. PageHeld'
    BY <1>8 DEF Delete, PageHeld
  <2>3. FreshCovered'
    BY <1>8 DEF Delete, FreshCovered, Covered, Ids
  <2>. QED BY <1>8, <2>1, <2>2, <2>3 DEF Delete, MembersCommitted, Covered, Ids
<1>9. CASE UNCHANGED vars
  BY <1>9 DEF vars, TypeOK, PageHeld, FreshCovered, MembersCommitted, Covered, Ids
<1>. QED BY <1>1, <1>2, <1>3, <1>4, <1>5, <1>6, <1>7, <1>8, <1>9 DEF Next, Proceed, AllAnswered

(* It holds in every reachable state.                                      *)
LEMMA CoverHolds == Spec => []CoverInv
BY CoverInit, CoverNext, PTL DEF Spec

(* Every reachable state is well typed.                                    *)
THEOREM TypeCorrect == Spec => []TypeOK
<1>1. CoverInv => TypeOK
  BY DEF CoverInv
<1>. QED BY <1>1, CoverHolds, PTL

(* No committed incident shows an investigation that is not committed,     *)
(* whichever runs overlap, fail or roll back (run_investigations).         *)
THEOREM MembersAreCommitted == Spec => []MembersCommitted
<1>1. CoverInv => MembersCommitted
  BY DEF CoverInv
<1>. QED BY <1>1, CoverHolds, PTL

-----------------------------------------------------------------------------
(* Alerts.  A run that is past its alerts has tried those of all rows it   *)
(* is going to insert, and what was delivered or lost stays so.            *)

AlertInv ==
  /\ TypeOK
  /\ UnalertedWereLost
  /\ \A r \in Runs : pc[r] = "alerted" => Alerting(fresh[r]) \subseteq alerts \cup lost

(* There is nothing to alert of at first.                                  *)
LEMMA AlertInit == Init => AlertInv
BY CoverInit DEF CoverInv, Init, AlertInv, UnalertedWereLost, Alerting

(* Every step keeps it.                                                    *)
LEMMA AlertNext == AlertInv /\ TypeOK' /\ [Next]_vars => AlertInv'
<1>. SUFFICES ASSUME AlertInv, TypeOK', [Next]_vars PROVE AlertInv'
  OBVIOUS
<1>. USE DEF AlertInv, UnalertedWereLost
<1>1. ASSUME NEW r \in Runs, Save(r) \/ List(r) \/ ReadIncidents(r) \/ Delete(r) \/ Replace(r)
      PROVE  AlertInv'
  <2>1. \A q \in Runs : pc'[q] = "alerted" => pc[q] = "alerted" /\ fresh'[q] = fresh[q]
    BY <1>1 DEF TypeOK, Save, List, ReadIncidents, Delete, Replace
  <2>2. incidents' = incidents /\ alerts' = alerts /\ lost' = lost
    BY <1>1 DEF Save, List, ReadIncidents, Delete, Replace
  <2>. QED BY <2>1, <2>2 DEF Alerting
<1>2. ASSUME NEW r \in Runs, Alert(r) PROVE AlertInv'
  <2>1. PICK reached \in SUBSET Alerting(fresh[r]) :
          /\ alerts' = alerts \cup reached
          /\ lost' = lost \cup (Alerting(fresh[r]) \ reached)
    BY <1>2 DEF Alert
  <2>2. /\ alerts \cup lost \subseteq alerts' \cup lost'
        /\ Alerting(fresh[r]) \subseteq alerts' \cup lost'
    BY <2>1
  <2>3. incidents' = incidents /\ fresh' = fresh
    BY <1>2 DEF Alert
  <2>4. \A q \in Runs : pc'[q] = "alerted" => q = r \/ pc[q] = "alerted"
    BY <1>2 DEF TypeOK, Alert
  <2>. QED BY <2>2, <2>3, <2>4 DEF Alerting
<1>3. ASSUME NEW r \in Runs, Commit(r) \/ Abort(r) PROVE AlertInv'
  <2>1. \A q \in Runs : pc'[q] = "alerted" => pc[q] = "alerted" /\ fresh'[q] = fresh[q]
    BY <1>3 DEF TypeOK, Commit, Abort, End
  <2>2. Alerting(incidents') \subseteq alerts \cup lost /\ alerts' = alerts /\ lost' = lost
    BY <1>3 DEF Commit, Abort, End, Alerting
  <2>. QED BY <2>1, <2>2 DEF Alerting
<1>4. CASE UNCHANGED vars
  BY <1>4 DEF vars, Alerting
<1>. QED BY <1>1, <1>2, <1>3, <1>4 DEF Next, Proceed, AllAnswered

(* A high-risk incident an analyst sees was alerted unless its delivery    *)
(* failed, though alerts are sent before the commit and other runs replace *)
(* rows meanwhile (maybe_alert_high_risk).                                 *)
THEOREM UnalertedAreLost == Spec => []UnalertedWereLost
<1>1. AlertInv => UnalertedWereLost
  BY DEF AlertInv
<1>. QED BY <1>1, AlertInit, AlertNext, TypeCorrect, PTL DEF Spec

-----------------------------------------------------------------------------
(* A run that has the table for itself.  While it is not crowded no other  *)
(* run is under way, so neither the cases nor the incidents change between *)
(* its reading and its commit: what it inserts is what correlate() makes   *)
(* of the page of all cases, and what it deletes is all there is.          *)

AloneOnTable(r) ==
  /\ \A q \in Runs : r \in UnderWay /\ q \in UnderWay => q = r
  /\ pc[r] \in HasList => listed[r] = Page(cases \cup created[r])
  /\ pc[r] \in {"replacing", "replaced", "alerted"} => seen[r] = incidents
  /\ pc[r] \in {"replaced", "alerted"} => fresh[r] = Incidents(r, listed[r])

LoneInv == TypeOK /\ \A r \in Runs \ crowded : AloneOnTable(r)

(* No run is under way at first.                                           *)
LEMMA LoneInit == Init => LoneInv
BY CoverInit DEF CoverInv, Init, LoneInv, AloneOnTable, UnderWay, HasList

(* A step of another run leaves a run alone on the table, as long as it is *)
(* not crowded: the other run has not begun, or the run has not.           *)
LEMMA LoneFrame ==
  ASSUME LoneInv, TypeOK', [Next]_vars, NEW q \in Runs, NEW r \in Runs \ crowded', q # r,
         Save(q) \/ Proceed(q) \/ Abort(q)
  PROVE  AloneOnTable(r)'
<1>1. r \notin crowded /\ AloneOnTable(r)
  BY DEF LoneInv, Save, Proceed, Abort, List, ReadIncidents, Delete, Replace, Alert, Commit, End
<1>2. /\ pc'[r] = pc[r] /\ created'[r] = created[r] /\ listed'[r] = listed[r]
      /\ seen'[r] = seen[r] /\ fresh'[r] = fresh[r]
      /\ \A p \in Runs : p # q => pc'[p] = pc[p]
  BY DEF LoneInv, TypeOK, Save, Proceed, Abort, List, ReadIncidents, Delete, Replace,
         Alert, Commit, End
<1>3. CASE r \in UnderWay
  <2>1. q \notin UnderWay
    BY <1>1, <1>3 DEF AloneOnTable
  <2>2. Save(q)
    BY <2>1 DEF Proceed, Abort, List, ReadIncidents, Delete, Replace, Alert, Commit, UnderWay
  <2>3. r \in crowded'
    BY <1>3, <2>2 DEF Save
  <2>. QED BY <2>3
<1>4. CASE r \notin UnderWay
  BY <1>2, <1>4 DEF AloneOnTable, UnderWay, HasList
<1>. QED BY <1>3, <1>4

(* A run's own step.                                                       *)
LEMMA LoneStep ==
  ASSUME LoneInv, TypeOK', NEW r \in Runs \ crowded', Save(r) \/ Proceed(r) \/ Abort(r)
  PROVE  AloneOnTable(r)'
<1>. USE DEF AloneOnTable, UnderWay, HasList
<1>1. r \notin crowded /\ AloneOnTable(r)
  BY DEF LoneInv, Save, Proceed, Abort, List, ReadIncidents, Delete, Replace, Alert, Commit, End
<1>2. \A q \in Runs : q # r => pc'[q] = pc[q]
  BY DEF LoneInv, TypeOK, Save, Proceed, Abort, List, ReadIncidents, Delete, Replace,
         Alert, Commit
<1>3. CASE Save(r)
  <2>1. UnderWay = {}
    BY <1>3 DEF Save
  <2>2. pc'[r] = "saved"
    BY <1>3 DEF LoneInv, TypeOK, Save
  <2>. QED BY <1>2, <2>1, <2>2
<1>4. CASE List(r)
  <2>1. pc[r] = "saved" /\ pc'[r] = "listed"
        /\ listed'[r] = Page(cases \cup created[r]) /\ cases' = cases /\ created' = created
    BY <1>4 DEF LoneInv, TypeOK, List
  <2>. QED BY <1>1, <1>2, <2>1
<1>5. CASE ReadIncidents(r)
  <2>1. /\ pc[r] = "listed" /\ pc'[r] = "replacing" /\ seen'[r] = incidents
        /\ cases' = cases /\ created' = created /\ listed' = listed /\ incidents' = incidents
    BY <1>5 DEF LoneInv, TypeOK, ReadIncidents
  <2>. QED BY <1>1, <1>2, <2>1
<1>6. CASE Replace(r)
  <2>1. /\ pc[r] = "replacing" /\ pc'[r] = "replaced" /\ fresh'[r] = Incidents(r, listed[r])
        /\ cases' = cases /\ created' = created /\ listed' = listed /\ incidents' = incidents
        /\ seen' = seen
    BY <1>6 DEF LoneInv, TypeOK, Replace
  <2>. QED BY <1>1, <1>2, <2>1
<1>7. CASE Alert(r)
  <2>1. /\ pc[r] = "replaced" /\ pc'[r] = "alerted"
        /\ cases' = cases /\ created' = created /\ listed' = listed /\ incidents' = incidents
        /\ seen' = seen /\ fresh' = fresh
    BY <1>7 DEF LoneInv, TypeOK, Alert
  <2>. QED BY <1>1, <1>2, <2>1
<1>8. CASE Commit(r) \/ Abort(r)
  BY <1>8 DEF LoneInv, TypeOK, Commit, Abort
<1>9. CASE Delete(r)
  BY <1>1, <1>9 DEF Delete
<1>. QED BY <1>3, <1>4, <1>5, <1>6, <1>7, <1>8, <1>9 DEF Proceed

(* Every step keeps it.                                                    *)
LEMMA LoneNext == LoneInv /\ TypeOK' /\ [Next]_vars => LoneInv'
<1>. SUFFICES ASSUME LoneInv, TypeOK', [Next]_vars PROVE LoneInv'
  OBVIOUS
<1>1. ASSUME NEW q \in Runs, Save(q) \/ Proceed(q) \/ Abort(q) PROVE LoneInv'
  BY <1>1, LoneFrame, LoneStep DEF LoneInv
<1>2. CASE UNCHANGED vars
  BY <1>2 DEF vars, LoneInv, AloneOnTable, UnderWay, HasList
<1>. QED BY <1>1, <1>2 DEF Next, AllAnswered

(* The commit of a run that was alone: the rows are what correlate() makes *)
(* of the page, where a case of the page is in one row and no other case   *)
(* is in any.                                                              *)
LEMMA LoneCommit ==
  ASSUME LoneInv, NEW r \in Runs \ crowded, Commit(r), NEW c \in cases'
  PROVE  LET holding == {inc \in incidents' : c.id \in inc.members}
         IN /\ Cardinality(holding) <= 1
            /\ Cardinality({d \in cases' : d.id <= c.id}) <= ListLimit => holding # {}
<1>. DEFINE S == cases \cup created[r]
            page == Page(S)
            holding == {inc \in Incidents(r, page) : c.id \in inc.members}
<1>1. cases' = S /\ S \in SUBSET Cases /\ c \in S
  BY DEF Commit, LoneInv, TypeOK
<1>2. seen[r] = incidents /\ fresh[r] = Incidents(r, page)
  BY DEF Commit, LoneInv, AloneOnTable, HasList
<1>3. {inc \in incidents' : c.id \in inc.members} = holding
  BY <1>2 DEF Commit
<1>4. Cardinality({d \in cases' : d.id <= c.id}) = Rank(S, c)
  BY <1>1 DEF Rank
<1>. HIDE DEF S
<1>5. page \in Seq(Cases) /\ Distinct(page)
  BY <1>1, PageHolds
<1>6. Cardinality(holding) <= 1 /\ (Rank(S, c) <= ListLimit => holding # {})
  <2>1. CASE c.id \in IdsUpTo(page, Len(page))
    <3>1. PICK row : holding = {row}
      BY <1>5, <2>1, IncidentRows
    <3>. HIDE DEF holding
    <3>2. Cardinality(holding) = 1 /\ holding # {}
      BY <3>1, FS_Singleton
    <3>. QED BY <3>2
  <2>2. CASE c.id \notin IdsUpTo(page, Len(page))
    <3>1. ~(Rank(S, c) <= ListLimit)
      BY <1>1, <2>2, PageHolds
    <3>2. holding = {}
      BY <1>5, <2>2, IncidentRows DEF Covered
    <3>. HIDE DEF holding
    <3>3. Cardinality(holding) = 0
      BY <3>2, FS_EmptySet
    <3>. QED BY <3>1, <3>3
  <2>. QED BY <2>1, <2>2
<1>. HIDE DEF holding
<1>. QED BY <1>3, <1>4, <1>6

(* An overlap does no lasting damage: the moment a run commits that had    *)
(* the table for itself, no case is in two incidents and each case of the  *)
(* page is in one, however wrong they were before (replace_all).           *)
THEOREM LoneRunsRepair == Spec => LoneRunRepairs
<1>. DEFINE Repairs ==
       \A r \in Runs \ crowded : pc[r] = "alerted" /\ pc'[r] = "committed" =>
         \A c \in cases' :
           LET holding == {inc \in incidents' : c.id \in inc.members}
           IN /\ Cardinality(holding) <= 1
              /\ Cardinality({d \in cases' : d.id <= c.id}) <= ListLimit => holding # {}
<1>1. ASSUME LoneInv, [Next]_vars, NEW r \in Runs, pc[r] = "alerted", pc'[r] = "committed"
      PROVE  Commit(r)
  <2>1. ASSUME NEW q \in Runs, Save(q) \/ Proceed(q) \/ Abort(q) PROVE Commit(r)
    BY <1>1, <2>1 DEF LoneInv, TypeOK, Save, Proceed, Abort, List, ReadIncidents, Delete,
                      Replace, Alert, Commit
  <2>. QED BY <1>1, <2>1 DEF Next, AllAnswered, vars
<1>2. LoneInv /\ [Next]_vars => [Repairs]_vars
  BY <1>1, LoneCommit
<1>. QED BY <1>2, LoneInit, LoneNext, TypeCorrect, PTL DEF Spec, LoneRunRepairs

-----------------------------------------------------------------------------
(* What holds the members of a group together.  A group's keys are its     *)
(* members', so a case that matches the group shares a key with a member.  *)

MembersOf(g) == {c \in Cases : c.id \in g.members}

Connected(members) ==
  \A part \in (SUBSET members) \ {{}} : part # members =>
    \E c, d \in Cases : c.id \in part /\ d.id \in members \ part /\ Linked(c, d)

HangsTogether(g) ==
  /\ g.entities = {c.entity : c \in MembersOf(g)}
  /\ g.indicators = UNION {c.indicators : c \in MembersOf(g)}
  /\ Connected(g.members)

(* The group a case founds.                                                *)
LEMMA NewGroupHangs ==
  ASSUME NEW c \in Cases
  PROVE  HangsTogether(NewGroup(c))
<1>1. MembersOf(NewGroup(c)) = {c}
  BY CaseIds DEF MembersOf, NewGroup
<1>2. UNION {c.indicators} = c.indicators
  OBVIOUS
<1>3. Connected({c.id})
  BY DEF Connected
<1>. QED BY <1>1, <1>2, <1>3 DEF HangsTogether, NewGroup

(* The group a case joins: the case is linked to a member, from which      *)
(* every other member is reached.                                          *)
LEMMA JoinHangs ==
  ASSUME NEW g \in Group, HangsTogether(g), NEW c \in Cases, Matches(g, c)
  PROVE  HangsTogether(Join(g, c))
<1>. DEFINE joined == Join(g, c)
<1>1. /\ joined.members = g.members \cup {c.id}
      /\ joined.entities = g.entities \cup {c.entity}
      /\ joined.indicators = g.indicators \cup c.indicators
  BY DEF Join
<1>. HIDE DEF joined
<1>2. MembersOf(joined) = MembersOf(g) \cup {c}
  BY <1>1, CaseIds DEF MembersOf
<1>3. PICK k \in MembersOf(g) : Linked(k, c)
  <2>1. CASE c.entity \in g.entities
    BY <2>1 DEF HangsTogether, Linked
  <2>2. CASE c.indicators \cap g.indicators # {}
    BY <2>2 DEF HangsTogether, Linked
  <2>. QED BY <2>1, <2>2 DEF Matches
<1>4. Connected(joined.members)
  <2>. SUFFICES ASSUME NEW part \in (SUBSET joined.members) \ {{}}, part # joined.members
                PROVE  \E a, b \in Cases :
                         a.id \in part /\ b.id \in joined.members \ part /\ Linked(a, b)
    BY DEF Connected
  <2>1. k \in Cases /\ k.id \in g.members /\ Linked(c, k)
    BY <1>3 DEF MembersOf, Linked
  <2>2. CASE g.members \subseteq part
    <3>1. k.id \in part /\ c.id \in joined.members \ part
      BY <1>1, <2>1, <2>2
    <3>. QED BY <1>3, <2>1, <3>1
  <2>3. CASE part \cap g.members = {}
    <3>1. c.id \in part /\ k.id \in joined.members \ part
      BY <1>1, <2>1, <2>3
    <3>. QED BY <2>1, <3>1
  <2>4. CASE part \cap g.members # {} /\ ~(g.members \subseteq part)
    <3>. DEFINE old == part \cap g.members
    <3>1. old \in (SUBSET g.members) \ {{}} /\ old # g.members
      BY <2>4
    <3>2. PICK a, b \in Cases : a.id \in old /\ b.id \in g.members \ old /\ Linked(a, b)
      BY <3>1 DEF HangsTogether, Connected
    <3>. QED BY <1>1, <3>2
  <2>. QED BY <2>2, <2>3, <2>4
<1>5. /\ {d.entity : d \in MembersOf(g) \cup {c}} = {d.entity : d \in MembersOf(g)} \cup {c.entity}
      /\ UNION {d.indicators : d \in MembersOf(g) \cup {c}} =
           (UNION {d.indicators : d \in MembersOf(g)}) \cup c.indicators
  OBVIOUS
<1>. QED BY <1>1, <1>2, <1>4, <1>5 DEF HangsTogether, joined

(* One turn of the loop.                                                   *)
LEMMA PlaceHangs ==
  ASSUME NEW gs \in Seq(Group), \A i \in DOMAIN gs : HangsTogether(gs[i]), NEW c \in Cases
  PROVE  \A i \in DOMAIN Place(gs, c) : HangsTogether(Place(gs, c)[i])
<1>1. CASE Place(gs, c) = Append(gs, NewGroup(c))
  <2>. DEFINE last == Len(gs) + 1
              placed == Append(gs, NewGroup(c))
  <2>1. /\ DOMAIN placed = DOMAIN gs \cup {last}
        /\ placed[last] = NewGroup(c)
        /\ \A i \in DOMAIN gs : placed[i] = gs[i]
    OBVIOUS
  <2>. HIDE DEF last, placed
  <2>2. \A i \in DOMAIN placed : HangsTogether(placed[i])
    BY <2>1, NewGroupHangs
  <2>. QED BY <1>1, <2>2 DEF placed
<1>2. CASE \E i \in DOMAIN gs : /\ Matches(gs[i], c)
                                /\ Place(gs, c) = [gs EXCEPT ![i] = Join(gs[i], c)]
  <2>1. PICK i \in DOMAIN gs : /\ Matches(gs[i], c)
                               /\ Place(gs, c) = [gs EXCEPT ![i] = Join(gs[i], c)]
    BY <1>2
  <2>2. gs[i] \in Group
    OBVIOUS
  <2>3. HangsTogether(Join(gs[i], c))
    BY <2>1, <2>2, JoinHangs
  <2>. QED BY <2>1, <2>3
<1>. QED BY <1>1, <1>2, PlaceCases

(* What correlate() computes, for lists of any length without repetition:  *)
(* groups that hang together.                                              *)
LEMMA CorrelateHangs ==
  ASSUME NEW list \in Seq(Cases)
  PROVE  /\ Correlate(list) \in Seq(Group)
         /\ \A i \in DOMAIN Correlate(list) : HangsTogether(Correlate(list)[i])
<1>. DEFINE last == Len(list)
            Hangs(gs) == gs \in Seq(Group) /\ \A i \in DOMAIN gs : HangsTogether(gs[i])
            Hanging == {n \in 0..last : Hangs(Grouped(list)[n])}
<1>1. last \in Nat /\ \A n \in 1..last : list[n] \in Cases
  OBVIOUS
<1>2. \A n \in 0..last : Grouped(list)[n] =
        IF n = 0 THEN <<>> ELSE Place(Grouped(list)[n - 1], list[n])
  BY GroupedUnfolds, Zenon
<1>. HIDE DEF last
<1>3. 0 \in Hanging
  <2>1. 0 \in 0..last /\ Grouped(list)[0] = <<>>
    BY <1>1, <1>2
  <2>2. Hangs(<<>>)
    OBVIOUS
  <2>. QED BY <2>1, <2>2
<1>4. ASSUME NEW n \in 0..(last - 1), n \in Hanging
      PROVE  n + 1 \in Hanging
  <2>1. n + 1 \in 0..last /\ n + 1 \in 1..last /\ (n + 1) - 1 = n /\ n + 1 # 0
    BY <1>1
  <2>2. Grouped(list)[n + 1] = Place(Grouped(list)[n], list[n + 1])
    BY <1>2, <2>1
  <2>3. Hangs(Grouped(list)[n]) /\ list[n + 1] \in Cases
    BY <1>1, <1>4, <2>1
  <2>. HIDE DEF Hangs
  <2>4. Hangs(Place(Grouped(list)[n], list[n + 1]))
    BY <2>3, PlaceHangs, PlaceType DEF Hangs
  <2>. QED BY <2>1, <2>2, <2>4
<1>5. last \in Hanging
  <2>. HIDE DEF Hanging
  <2>1. \A n \in 0..last : n \in Hanging
    BY <1>1, <1>3, <1>4, AllTurns
  <2>. QED BY <1>1, <2>1
<1>. QED BY <1>5 DEF Correlate, last

-----------------------------------------------------------------------------
(* The rows of the table, and those that runs are going to insert, are     *)
(* incidents of some list.                                                 *)

ConnectedRows(rows) == \A inc \in rows : Connected(inc.members)

ConnectedInv ==
  /\ ConnectedRows(incidents)
  /\ \A r \in Runs : ConnectedRows(fresh[r])

(* There are no rows at first.                                             *)
LEMMA ConnectedInit == Init => ConnectedInv
BY DEF Init, ConnectedInv, ConnectedRows

(* Rows are only moved from a run to the table, or made by correlate().    *)
LEMMA ConnectedNext == CoverInv /\ ConnectedInv /\ [Next]_vars => ConnectedInv'
<1>. SUFFICES ASSUME CoverInv, ConnectedInv, [Next]_vars PROVE ConnectedInv'
  OBVIOUS
<1>. USE DEF CoverInv
<1>1. ASSUME NEW r \in Runs, Save(r) \/ List(r) \/ ReadIncidents(r) \/ Delete(r) \/ Alert(r)
      PROVE  ConnectedInv'
  BY <1>1 DEF Save, List, ReadIncidents, Delete, Alert, ConnectedInv, ConnectedRows
<1>2. ASSUME NEW r \in Runs, Replace(r) PROVE ConnectedInv'
  <2>. DEFINE gs == Correlate(listed[r])
              rows == Incidents(r, listed[r])
  <2>1. listed[r] \in Seq(Cases)
    BY DEF TypeOK
  <2>2. \A i \in DOMAIN gs : Connected(gs[i].members)
    BY <2>1, CorrelateHangs DEF HangsTogether
  <2>. HIDE DEF gs
  <2>3. rows = {[run |-> r, members |-> gs[i].members] : i \in DOMAIN gs}
    BY DEF Incidents, gs
  <2>4. ConnectedRows(rows)
    BY <2>2, <2>3 DEF ConnectedRows
  <2>. HIDE DEF rows
  <2>5. fresh' = [fresh EXCEPT ![r] = rows] /\ incidents' = incidents
    BY <1>2 DEF Replace, rows
  <2>. QED BY <2>4, <2>5 DEF TypeOK, ConnectedInv, ConnectedRows
<1>3. ASSUME NEW r \in Runs, Commit(r) \/ Abort(r) PROVE ConnectedInv'
  <2>1. \A inc \in incidents' : inc \in incidents \/ inc \in fresh[r]
    BY <1>3 DEF Commit, Abort
  <2>2. \A q \in Runs : fresh'[q] \subseteq fresh[q]
    BY <1>3 DEF Commit, Abort, End, TypeOK
  <2>. QED BY <2>1, <2>2 DEF ConnectedInv, ConnectedRows
<1>4. CASE UNCHANGED vars
  BY <1>4 DEF vars, ConnectedInv, ConnectedRows
<1>. QED BY <1>1, <1>2, <1>3, <1>4 DEF Next, Proceed, AllAnswered

(* The members of every incident that is shown are connected by shared     *)
(* keys, whichever runs replaced other rows of its list (correlate,        *)
(* replace_all).                                                           *)
THEOREM ShownAreConnected == Spec => []ShownIncidentsConnected
<1>1. CoverInv /\ ConnectedInv => ShownIncidentsConnected
  <2>. SUFFICES ASSUME CoverInv, ConnectedInv, NEW inc \in incidents,
                       NEW part \in (SUBSET inc.members) \ {{}}, part # inc.members
                PROVE  \E c, d \in cases :
                         c.id \in part /\ d.id \in inc.members \ part /\ Linked(c, d)
    BY DEF ShownIncidentsConnected
  <2>1. PICK c, d \in Cases : c.id \in part /\ d.id \in inc.members \ part /\ Linked(c, d)
    BY DEF ConnectedInv, ConnectedRows, Connected
  <2>2. inc.members \subseteq Ids(cases) /\ cases \subseteq Cases
    BY DEF CoverInv, MembersCommitted, Covered, TypeOK
  <2>3. c \in cases /\ d \in cases
    BY <2>1, <2>2, CaseIds DEF Ids
  <2>. QED BY <2>1, <2>3
<1>. QED BY <1>1, ConnectedInit, ConnectedNext, CoverHolds, PTL DEF Spec
-----------------------------------------------------------------------------
(* Founders.  After n turns every listed case so far is in a group that    *)
(* holds its keys, so a case that matches no group is linked to none.      *)

FounderIn(g, list, n) ==
  \E k \in 1..n : /\ list[k].id \in g.members
                  /\ \A m \in 1..(k - 1) : ~Linked(list[m], list[k])

Founded(gs, list, n) ==
  /\ gs \in Seq(Group)
  /\ \A m \in 1..n : \E i \in DOMAIN gs : /\ list[m].entity \in gs[i].entities
                                         /\ list[m].indicators \subseteq gs[i].indicators
  /\ \A i \in DOMAIN gs : FounderIn(gs[i], list, n)

(* One turn of the loop.                                                   *)
LEMMA PlaceFounds ==
  ASSUME NEW list \in Seq(Cases), NEW n \in Nat, n + 1 \in DOMAIN list,
         NEW gs, Founded(gs, list, n)
  PROVE  Founded(Place(gs, list[n + 1]), list, n + 1)
<1>. DEFINE c == list[n + 1]
<1>1. /\ c \in Cases /\ gs \in Seq(Group)
      /\ \A m \in 1..n : m \in DOMAIN list /\ list[m] \in Cases
  BY DEF Founded
<1>2. Place(gs, c) \in Seq(Group)
  BY <1>1, PlaceType
<1>3. /\ 1..(n + 1) = (1..n) \cup {n + 1} /\ n + 1 \in 1..(n + 1)
      /\ (n + 1) - 1 = n
  OBVIOUS
<1>. HIDE DEF c
<1>4. CASE /\ \A i \in DOMAIN gs : ~Matches(gs[i], c)
           /\ Place(gs, c) = Append(gs, NewGroup(c))
  <2>. DEFINE last == Len(gs) + 1
              placed == Append(gs, NewGroup(c))
  <2>1. /\ DOMAIN placed = DOMAIN gs \cup {last}
        /\ placed[last] = NewGroup(c)
        /\ \A i \in DOMAIN gs : placed[i] = gs[i]
    BY <1>1, <1>2, <1>4
  <2>. HIDE DEF last, placed
  <2>2. ASSUME NEW m \in 1..n PROVE ~Linked(list[m], c)
    <3>1. PICK i \in DOMAIN gs : /\ list[m].entity \in gs[i].entities
                                 /\ list[m].indicators \subseteq gs[i].indicators
      BY DEF Founded
    <3>. QED BY <1>4, <3>1 DEF Matches, Linked
  <2>3. FounderIn(placed[last], list, n + 1)
    BY <1>3, <2>1, <2>2 DEF FounderIn, NewGroup, c
  <2>4. \A i \in DOMAIN gs : FounderIn(placed[i], list, n + 1)
    BY <1>3, <2>1 DEF Founded, FounderIn
  <2>5. \A i \in DOMAIN placed : FounderIn(placed[i], list, n + 1)
    BY <2>1, <2>3, <2>4
  <2>6. \A m \in 1..(n + 1) : \E i \in DOMAIN placed :
          list[m].entity \in placed[i].entities /\ list[m].indicators \subseteq placed[i].indicators
    <3>1. c.entity \in placed[last].entities /\ c.indicators \subseteq placed[last].indicators
      BY <2>1 DEF NewGroup
    <3>. QED BY <1>3, <2>1, <3>1 DEF Founded, c
  <2>. QED BY <1>2, <1>4, <2>5, <2>6 DEF Founded, placed, c
<1>5. CASE \E i \in DOMAIN gs : /\ Matches(gs[i], c)
                                /\ Place(gs, c) = [gs EXCEPT ![i] = Join(gs[i], c)]
  <2>1. PICK j \in DOMAIN gs : Place(gs, c) = [gs EXCEPT ![j] = Join(gs[j], c)]
    BY <1>5
  <2>. DEFINE placed == [gs EXCEPT ![j] = Join(gs[j], c)]
  <2>2. /\ DOMAIN placed = DOMAIN gs /\ placed[j] = Join(gs[j], c)
        /\ \A i \in DOMAIN gs : i # j => placed[i] = gs[i]
    BY <1>1
  <2>. HIDE DEF placed
  <2>3. \A i \in DOMAIN gs : /\ gs[i].members \subseteq placed[i].members
                             /\ gs[i].entities \subseteq placed[i].entities
                             /\ gs[i].indicators \subseteq placed[i].indicators
    BY <2>2 DEF Join
  <2>4. \A i \in DOMAIN placed : FounderIn(placed[i], list, n + 1)
    BY <1>3, <2>2, <2>3 DEF Founded, FounderIn
  <2>5. c.entity \in placed[j].entities /\ c.indicators \subseteq placed[j].indicators
    BY <2>2 DEF Join
  <2>6. \A m \in 1..(n + 1) : \E i \in DOMAIN placed :
          list[m].entity \in placed[i].entities /\ list[m].indicators \subseteq placed[i].indicators
    <3>1. ASSUME NEW m \in 1..n
          PROVE  \E i \in DOMAIN placed : /\ list[m].entity \in placed[i].entities
                                          /\ list[m].indicators \subseteq placed[i].indicators
      <4>1. PICK i \in DOMAIN gs : /\ list[m].entity \in gs[i].entities
                                   /\ list[m].indicators \subseteq gs[i].indicators
        BY DEF Founded
      <4>. QED BY <2>2, <2>3, <4>1
    <3>. QED BY <1>3, <2>2, <2>5, <3>1 DEF c
  <2>. QED BY <1>2, <2>1, <2>4, <2>6 DEF Founded, placed, c
<1>. QED BY <1>1, <1>4, <1>5, PlaceCases DEF c

(* What correlate() computes, for lists of any length: groups with founders. *)
LEMMA CorrelateFounds ==
  ASSUME NEW list \in Seq(Cases)
  PROVE  Founded(Correlate(list), list, Len(list))
<1>. DEFINE last == Len(list)
            Turns == {n \in 0..last : Founded(Grouped(list)[n], list, n)}
<1>1. last \in Nat /\ DOMAIN list = 1..last
  OBVIOUS
<1>2. \A n \in 0..last : Grouped(list)[n] =
        IF n = 0 THEN <<>> ELSE Place(Grouped(list)[n - 1], list[n])
  BY GroupedUnfolds, Zenon
<1>. HIDE DEF last
<1>3. 0 \in Turns
  <2>1. 0 \in 0..last /\ Grouped(list)[0] = <<>>
    BY <1>1, <1>2
  <2>2. Founded(<<>>, list, 0)
    BY DEF Founded
  <2>. QED BY <2>1, <2>2
<1>4. ASSUME NEW n \in 0..(last - 1), n \in Turns PROVE n + 1 \in Turns
  <2>1. n \in Nat /\ n + 1 \in 0..last /\ n + 1 \in 1..last /\ (n + 1) - 1 = n /\ n + 1 # 0
    BY <1>1
  <2>2. Grouped(list)[n + 1] = Place(Grouped(list)[n], list[n + 1])
    BY <1>2, <2>1
  <2>. QED BY <1>1, <1>4, <2>1, <2>2, PlaceFounds
<1>5. last \in Turns
  <2>. HIDE DEF Turns
  <2>1. \A n \in 0..last : n \in Turns
    BY <1>1, <1>3, <1>4, AllTurns
  <2>. QED BY <1>1, <2>1
<1>. QED BY <1>5 DEF Correlate, last

(* The founders of a run's rows stay where they are on its page.           *)
LEMMA FoundersNext == CoverInv /\ FoundersAreNew /\ [Next]_vars => FoundersAreNew'
<1>. SUFFICES ASSUME CoverInv, FoundersAreNew, [Next]_vars PROVE FoundersAreNew'
  OBVIOUS
<1>. USE DEF CoverInv
<1>1. ASSUME NEW r \in Runs, List(r) PROVE FoundersAreNew'
  <2>1. fresh[r] = {} /\ fresh' = fresh /\ \A q \in Runs : q # r => listed'[q] = listed[q]
    BY <1>1 DEF List, FreshCovered, TypeOK
  <2>. QED BY <2>1 DEF FoundersAreNew
<1>2. ASSUME NEW r \in Runs, Replace(r) PROVE FoundersAreNew'
  <2>. DEFINE page == listed[r]
              gs == Correlate(page)
              rows == Incidents(r, page)
  <2>1. page \in Seq(Cases) /\ DOMAIN page = 1..Len(page)
    BY DEF TypeOK
  <2>2. Founded(gs, page, Len(page))
    BY <2>1, CorrelateFounds
  <2>. HIDE DEF gs
  <2>3. rows = {[run |-> r, members |-> gs[i].members] : i \in DOMAIN gs}
    BY DEF Incidents, gs
  <2>. HIDE DEF page
  <2>4. \A i \in DOMAIN gs : FounderIn(gs[i], page, Len(page))
    BY <2>2 DEF Founded
  <2>5. ASSUME NEW inc \in rows
        PROVE  \E n \in DOMAIN page : /\ page[n].id \in inc.members
                                      /\ \A m \in 1..(n - 1) : ~Linked(page[m], page[n])
    <3>1. PICK i \in DOMAIN gs : inc = [run |-> r, members |-> gs[i].members]
      BY <2>3
    <3>2. inc.members = gs[i].members
      BY <3>1
    <3>. QED BY <2>1, <2>4, <3>2 DEF FounderIn
  <2>. HIDE DEF rows
  <2>6. listed' = listed /\ fresh' = [fresh EXCEPT ![r] = rows]
    BY <1>2 DEF Replace, rows, page
  <2>. QED BY <2>5, <2>6 DEF FoundersAreNew, TypeOK, page
<1>3. ASSUME NEW r \in Runs, Commit(r) \/ Abort(r) PROVE FoundersAreNew'
  <2>1. fresh'[r] = {} /\ \A q \in Runs : q # r => fresh'[q] = fresh[q] /\ listed'[q] = listed[q]
    BY <1>3 DEF Commit, Abort, End, TypeOK
  <2>. QED BY <2>1 DEF FoundersAreNew
<1>4. ASSUME NEW r \in Runs, Save(r) \/ ReadIncidents(r) \/ Delete(r) \/ Alert(r)
      PROVE  FoundersAreNew'
  BY <1>4 DEF Save, ReadIncidents, Delete, Alert, FoundersAreNew
<1>5. CASE UNCHANGED vars
  BY <1>5 DEF vars, FoundersAreNew
<1>. QED BY <1>1, <1>2, <1>3, <1>4, <1>5 DEF Next, Proceed, AllAnswered

(* An incident is only opened for an investigation that shares no key with *)
(* any listed before it, for lists of any length, though correlate()       *)
(* compares a case with groups and joins it to the first that matches.     *)
THEOREM FoundersStayNew == Spec => []FoundersAreNew
<1>1. Init => FoundersAreNew
  BY DEF Init, FoundersAreNew
<1>. QED BY <1>1, FoundersNext, CoverHolds, PTL DEF Spec

-----------------------------------------------------------------------------
(* Row locks.  A run deletes its rows in the order of their keys.          *)

KeysGoUp ==
  \A r \in Runs : \A held \in deleted[r], left \in seen[r] \ deleted[r] :
    RowId(held) < RowId(left)

\* The run has to wait before its next row for the other to end.
WaitsFor(q, r) ==
  /\ q # r
  /\ \E row \in (seen[q] \ deleted[q]) \cap deleted[r] :
       \A other \in seen[q] \ deleted[q] : RowId(row) <= RowId(other)

(* Every step keeps the order.                                             *)
LEMMA KeysNext == TypeOK /\ KeysGoUp /\ (\A r \in Runs : pc[r] = "listed" => deleted[r] = {})
                    /\ [Next]_vars => KeysGoUp'
<1>. SUFFICES ASSUME TypeOK, KeysGoUp, [Next]_vars,
                     \A r \in Runs : pc[r] = "listed" => deleted[r] = {}
              PROVE  KeysGoUp'
  OBVIOUS
<1>1. ASSUME NEW r \in Runs, Delete(r) PROVE KeysGoUp'
  <2>1. PICK row \in seen[r] \ deleted[r] :
          /\ \A other \in seen[r] \ deleted[r] : RowId(row) <= RowId(other)
          /\ deleted' = [deleted EXCEPT ![r] = @ \cup {row}]
    BY <1>1 DEF Delete
  <2>2. seen' = seen /\ seen[r] \in SUBSET Rows
    BY <1>1 DEF Delete, TypeOK
  <2>3. \A left \in seen[r] \ deleted[r] : left # row => RowId(row) < RowId(left)
    BY <2>1, <2>2, RowIds
  <2>. QED BY <2>1, <2>2, <2>3 DEF KeysGoUp, TypeOK
<1>2. ASSUME NEW r \in Runs, ReadIncidents(r) PROVE KeysGoUp'
  <2>1. /\ deleted' = deleted /\ deleted[r] = {}
        /\ \A q \in Runs : q # r => seen'[q] = seen[q]
    BY <1>2 DEF ReadIncidents, TypeOK
  <2>. QED BY <2>1 DEF KeysGoUp
<1>3. ASSUME NEW r \in Runs, Commit(r) \/ Abort(r) PROVE KeysGoUp'
  <2>1. deleted'[r] = {} /\ \A q \in Runs : q # r => deleted'[q] = deleted[q] /\ seen'[q] = seen[q]
    BY <1>3 DEF Commit, Abort, End, TypeOK
  <2>. QED BY <2>1 DEF KeysGoUp
<1>4. ASSUME NEW r \in Runs, Save(r) \/ List(r) \/ Replace(r) \/ Alert(r) PROVE KeysGoUp'
  BY <1>4 DEF Save, List, Replace, Alert, KeysGoUp
<1>5. CASE UNCHANGED vars
  BY <1>5 DEF vars, KeysGoUp
<1>. QED BY <1>1, <1>2, <1>3, <1>4, <1>5 DEF Next, Proceed, AllAnswered

KeysInv ==
  /\ TypeOK
  /\ KeysGoUp
  /\ \A r \in Runs : pc[r] \in {"new", "saved", "listed"} => deleted[r] = {}

(* Every step keeps it.                                                    *)
LEMMA KeysInvNext == KeysInv /\ TypeOK' /\ [Next]_vars => KeysInv'
<1>. SUFFICES ASSUME KeysInv, TypeOK', [Next]_vars PROVE KeysInv'
  OBVIOUS
<1>1. KeysGoUp'
  BY KeysNext DEF KeysInv
<1>2. ASSUME NEW q \in Runs, Save(q) \/ Proceed(q) \/ Abort(q),
             NEW r \in Runs, pc'[r] \in {"new", "saved", "listed"}
      PROVE  deleted'[r] = {}
  <2>1. pc[r] \in {"new", "saved", "listed"} /\ deleted'[r] = deleted[r]
    BY <1>2 DEF KeysInv, TypeOK, Save, Proceed, Abort, List, ReadIncidents, Delete, Replace,
                Alert, Commit, End
  <2>. QED BY <2>1 DEF KeysInv
<1>3. CASE UNCHANGED vars
  BY <1>1, <1>3 DEF vars, KeysInv
<1>. QED BY <1>1, <1>2, <1>3 DEF KeysInv, Next, AllAnswered

\* What a run that is waited for still has to delete comes after the row it is
\* waited for, and so after the row it waits for itself.
WaitsGoUp ==
  \A q, r \in Runs : WaitsFor(q, r) =>
    \E row \in seen[q] \ deleted[q] : \A later \in seen[r] \ deleted[r] :
      RowId(row) < RowId(later)

(* A run only waits for runs whose own next row has a greater key, so of   *)
(* runs that wait, the one with the greatest next key waits for one that   *)
(* does not: the DELETEs of replace_all never wait in a circle, however    *)
(* many runs overlap.                                                      *)
THEOREM WaitsNeverCircle == Spec => []WaitsGoUp
<1>1. Init => KeysInv
  BY CoverInit DEF CoverInv, Init, KeysInv, KeysGoUp
<1>2. KeysInv => WaitsGoUp
  BY DEF KeysInv, KeysGoUp, WaitsGoUp, WaitsFor
<1>. QED BY <1>1, <1>2, KeysInvNext, TypeCorrect, PTL DEF Spec
=============================================================================
