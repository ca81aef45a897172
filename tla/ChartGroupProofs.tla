-------------------------- MODULE ChartGroupProofs --------------------------
(***************************************************************************)
(* Proofs about ChartGroup, for every set of charts, groups, ranges and    *)
(* cursor positions.                                                       *)
(***************************************************************************)
EXTENDS ChartGroup, TLAPS, SequenceTheorems

-----------------------------------------------------------------------------
(* Lemmas on the operators *)

\* vector::erase at an index.
LEMMA RemoveAtProperties ==
  ASSUME NEW S, NEW s \in Seq(S), NEW i \in 1 .. Len(s)
  PROVE  /\ RemoveAt(s, i) \in Seq(S)
         /\ Len(RemoveAt(s, i)) = Len(s) - 1
         /\ \A j \in 1 .. Len(s) - 1 :
                RemoveAt(s, i)[j] = IF j < i THEN s[j] ELSE s[j + 1]
<1> DEFINE a == SubSeq(s, 1, i - 1)
           b == SubSeq(s, i + 1, Len(s))
<1>1. Len(s) \in Nat /\ i \in Int /\ 1 <= i /\ i <= Len(s)
  BY LenProperties
<1>2. \A k \in 1 .. Len(s) : s[k] \in S
  BY ElementOfSeq
<1>3. /\ a \in Seq(S) /\ Len(a) = i - 1
      /\ \A k \in 1 .. i - 1 : a[k] = s[k]
  <2>1. /\ a \in Seq(S)
        /\ Len(a) = IF 1 <= i - 1 THEN (i - 1) - 1 + 1 ELSE 0
        /\ \A k \in 1 .. (i - 1) - 1 + 1 : a[k] = s[1 + k - 1]
    BY <1>1, <1>2, SubSeqProperties
  <2> QED BY <1>1, <2>1
<1>4. /\ b \in Seq(S) /\ Len(b) = Len(s) - i
      /\ \A k \in 1 .. Len(s) - i : b[k] = s[i + k]
  <2>1. /\ b \in Seq(S)
        /\ Len(b) = IF i + 1 <= Len(s) THEN Len(s) - (i + 1) + 1 ELSE 0
        /\ \A k \in 1 .. Len(s) - (i + 1) + 1 : b[k] = s[(i + 1) + k - 1]
    BY <1>1, <1>2, SubSeqProperties
  <2> QED BY <1>1, <2>1
<1> HIDE DEF a, b
<1>5. /\ a \o b \in Seq(S)
      /\ Len(a \o b) = Len(a) + Len(b)
      /\ \A k \in 1 .. Len(a) + Len(b) :
            (a \o b)[k] = IF k <= Len(a) THEN a[k] ELSE b[k - Len(a)]
  BY <1>3, <1>4, ConcatProperties
<1>6. RemoveAt(s, i) = a \o b
  BY DEF RemoveAt, a, b
<1>7. ASSUME NEW j \in 1 .. Len(s) - 1
      PROVE  (a \o b)[j] = IF j < i THEN s[j] ELSE s[j + 1]
  <2>1. CASE j < i
    BY <1>1, <1>3, <1>4, <1>5, <2>1
  <2>2. CASE ~(j < i)
    <3> DEFINE k == j - (i - 1)
    <3>1. (a \o b)[j] = b[k]
      BY <1>1, <1>3, <1>4, <1>5, <2>2
    <3>2. k \in 1 .. Len(s) - i /\ i + k = j + 1
      BY <1>1, <2>2
    <3> HIDE DEF k
    <3>3. b[k] = s[j + 1]
      BY <1>4, <3>2
    <3> QED BY <2>2, <3>1, <3>3
  <2> QED BY <2>1, <2>2
<1>8. Len(a \o b) = Len(s) - 1
  BY <1>1, <1>3, <1>4, <1>5
<1> QED
  <2>1. RemoveAt(s, i) \in Seq(S) /\ Len(RemoveAt(s, i)) = Len(s) - 1
    BY <1>5, <1>6, <1>8
  <2> QED BY <1>6, <1>7, <2>1

\* The operations of a chart keep its viewport well formed.
LEMMA ViewTypes ==
  /\ Blank \in Viewports
  /\ \A v \in Viewports :
        /\ Materialised(v) \in Viewports /\ Attached(v) \in Viewports
        /\ Disabled(v) \in Viewports /\ Settled(v) \in Viewports
        /\ ResetHome(v) \in Viewports
        /\ Shown(v) \in Ranges /\ Heading(v) \in Ranges
        /\ \A s \in BOOLEAN : EnabledAs(v, s) \in Viewports
        /\ \A r \in Ranges : /\ WithAxis(v, r) \in Viewports
                             /\ Placed(v, r) \in Viewports
                             /\ MovedTo(v, r) \in Viewports
<1>1. \A r \in Ranges : Without(r) \in Viewports
  BY ViewRangesAssumption DEF Without, Viewports
<1>2. ASSUME NEW v \in Viewports
      PROVE  /\ Materialised(v) \in Viewports /\ Attached(v) \in Viewports
             /\ Disabled(v) \in Viewports /\ Settled(v) \in Viewports
             /\ Shown(v) \in Ranges /\ Heading(v) \in Ranges
  BY <1>1, ViewRangesAssumption
     DEF Viewports, Materialised, Attached, Disabled, Settled, Shown, Heading
<1>3. ASSUME NEW v \in Viewports, NEW s \in BOOLEAN
      PROVE  EnabledAs(v, s) \in Viewports
  BY DEF Viewports, EnabledAs
<1>4. ASSUME NEW v \in Viewports, NEW r \in Ranges
      PROVE  /\ WithAxis(v, r) \in Viewports
             /\ Placed(v, r) \in Viewports
             /\ MovedTo(v, r) \in Viewports
  BY DEF Viewports, WithAxis, Placed, MovedTo
<1>5. \A v \in Viewports : v.home \in Ranges
  BY DEF Viewports
<1> QED BY <1>1, <1>2, <1>3, <1>4, <1>5, ViewRangesAssumption DEF Blank, ResetHome

-----------------------------------------------------------------------------
(* Types *)

\* The charts of a group are charts.
LEMMA MemberTypes ==
  ASSUME TypeOK
  PROVE  /\ \A g \in Groups : Members(g) \subseteq Charts
         /\ \A c \in Charts : Followers(c) \subseteq Charts
         /\ \A c \in Charts : Watchers(c) \subseteq Charts
<1>1. ASSUME NEW g \in Groups PROVE Members(g) \subseteq Charts
  <2>1. entries[g] \in Seq(Entries)
    BY DEF TypeOK
  <2>2. \A i \in DOMAIN entries[g] : entries[g][i] \in Entries
    BY <2>1, ElementOfSeq, LenProperties
  <2> QED BY <2>2 DEF Members, Entries
<1>2. \A c \in Charts : observer[c] \in Groups \cup {Nobody}
  BY DEF TypeOK
<1> QED BY <1>1, <1>2 DEF Followers, Hears, Others, Watchers

\* The history variable names charts.
LEMMA StrayTypes ==
  ASSUME TypeOK
  PROVE  /\ \A g \in Groups : \A S : Astray(g, S) \subseteq Charts
         /\ \A S : Wander(S) => strayed' \in [Groups -> SUBSET Charts]
<1>1. ASSUME NEW g \in Groups, NEW S PROVE Astray(g, S) \subseteq Charts
  <2>1. strayed[g] \subseteq Charts /\ Members(g) \subseteq Charts
    BY MemberTypes DEF TypeOK
  <2> QED BY <2>1 DEF Astray
<1> QED BY <1>1 DEF Wander

\* set_visible_range on some charts.
LEMMA PlaceTypes ==
  ASSUME TypeOK, NEW S, NEW x \in Ranges
  PROVE  PlaceAll(S, x) \in [Charts -> Viewports]
<1>1. \A c \in Charts : charts[c] \in Viewports /\ Placed(charts[c], x) \in Viewports
  BY ViewTypes DEF TypeOK
<1> QED BY <1>1 DEF PlaceAll

\* Reports, and moves without one.
LEMMA PropagationTypes ==
  ASSUME TypeOK
  PROVE  /\ \A c \in Charts, v \in Viewports : Silently(c, v) =>
                /\ charts' \in [Charts -> Viewports]
                /\ strayed' \in [Groups -> SUBSET Charts]
         /\ \A c \in Charts, v \in Viewports, x \in Ranges : Report(c, v, x) =>
                /\ charts' \in [Charts -> Viewports]
                /\ strayed' \in [Groups -> SUBSET Charts]
<1>2. ASSUME NEW c \in Charts, NEW v \in Viewports, Silently(c, v)
      PROVE  /\ charts' \in [Charts -> Viewports]
             /\ strayed' \in [Groups -> SUBSET Charts]
  BY <1>2, StrayTypes DEF Silently, TypeOK
<1>3. ASSUME NEW c \in Charts, NEW v \in Viewports, NEW x \in Ranges,
             Report(c, v, x)
      PROVE  /\ charts' \in [Charts -> Viewports]
             /\ strayed' \in [Groups -> SUBSET Charts]
  <2>1. charts' \in [Charts -> Viewports]
    BY <1>3, PlaceTypes DEF Report
  <2>2. \A g \in Groups : /\ Members(g) \subseteq Charts
                         /\ DeafIn(Others(g)) \subseteq Charts
                         /\ Astray(g, Followers(c) \cup {c}) \subseteq Charts
    BY MemberTypes, StrayTypes DEF DeafIn, Others
  <2>3. strayed' \in [Groups -> SUBSET Charts]
    BY <1>3, <2>2 DEF Report
  <2> QED BY <2>1, <2>3
<1> QED BY <1>2, <1>3

\* set_external_cursor_x on some charts.
LEMMA CursorTypes ==
  ASSUME TypeOK, NEW S, NEW x \in Positions \cup {NoCursor}, ShowCursor(S, x)
  PROVE  /\ charts' \in [Charts -> Viewports]
         /\ crosshair' \in [Charts -> Positions \cup {NoCursor}]
<1>1. \A c \in Charts :
          charts[c] \in Viewports /\ Materialised(charts[c]) \in Viewports
  BY ViewTypes DEF TypeOK
<1>2. crosshair \in [Charts -> Positions \cup {NoCursor}]
  BY DEF TypeOK
<1> QED BY <1>1, <1>2 DEF ShowCursor

\* index_of finds an entry of a member, and no other entry is of that chart.
LEMMA IndexProperties ==
  ASSUME NEW g \in Groups, NEW c \in Members(g)
  PROVE  /\ IndexOf(g, c) \in DOMAIN entries[g]
         /\ entries[g][IndexOf(g, c)].chart = c
BY DEF IndexOf, Members

\* Without an explicit primary among the entries left, the first leads.
LEMMA PromotedFirst ==
  ASSUME NEW es, \A i \in DOMAIN es : es[i].role # "primary"
  PROVE  Promoted(es) = IF es = <<>> THEN Nobody ELSE es[1].chart
BY DEF Promoted

-----------------------------------------------------------------------------
(* Membership *)

\* The entries are well formed and the charts report to groups they are in.
\* That primary_ is null or a chart follows, so the types come with it.
GroupInv == TypeOK /\ PrimaryLeads /\ NoDanglingObserver /\ CrosshairNeedsGroup

\* The charts of some entries.
Listed(es) == {es[i].chart : i \in DOMAIN es}

\* push_back of an accepted chart.
LEMMA AddLeads ==
  ASSUME NEW es \in Seq(Entries), NEW leader, Led(es, leader),
         NEW c \in Charts, NEW role \in Roles,
         \A i \in DOMAIN es : es[i].chart # c,
         role = "primary" => leader = Nobody
  PROVE  LET grown == Append(es, [chart |-> c, role |-> role])
         IN  /\ grown \in Seq(Entries)
             /\ Led(grown, IF role = "primary" \/ leader = Nobody THEN c ELSE leader)
             /\ Listed(grown) = Listed(es) \cup {c}
<1> DEFINE e == [chart |-> c, role |-> role]
           grown == Append(es, e)
<1>1. e \in Entries /\ e.chart = c /\ e.role = role
  BY DEF Entries
<1> HIDE DEF e
<1>2. /\ grown \in Seq(Entries) /\ grown # <<>>
      /\ Len(grown) = Len(es) + 1
      /\ \A i \in 1 .. Len(es) : grown[i] = es[i]
      /\ grown[Len(es) + 1] = e
  BY <1>1, AppendProperties
<1>3. /\ DOMAIN es = 1 .. Len(es) /\ Len(es) \in Nat
      /\ DOMAIN grown = 1 .. Len(es) + 1
  BY <1>2, LenProperties
<1> HIDE DEF grown
<1>4. \A i \in DOMAIN es : es[i].chart \in Charts
  <2>1. \A i \in DOMAIN es : es[i] \in Entries
    BY <1>3, ElementOfSeq
  <2> QED BY <2>1 DEF Entries
<1>5. leader = Nobody <=> es = <<>>
  BY <1>3, <1>4, EmptySeq, NullsAssumption DEF Led
<1>6. \A i, j \in DOMAIN grown : grown[i].chart = grown[j].chart => i = j
  BY <1>1, <1>2, <1>3 DEF Led
<1>7. CASE es = <<>>
  <2>1. Len(es) = 0 /\ grown[1] = e
    BY <1>2, <1>7, EmptySeq
  <2>2. Led(grown, c)
    BY <1>1, <1>2, <1>3, <1>6, <2>1 DEF Led
  <2>3. Listed(grown) = Listed(es) \cup {c}
    BY <1>1, <1>3, <2>1 DEF Listed
  <2> QED BY <1>2, <1>5, <1>7, <2>2, <2>3 DEF grown, e
<1>8. CASE es # <<>>
  <2>1. Len(es) >= 1 /\ grown[1] = es[1] /\ role # "primary"
    BY <1>2, <1>3, <1>5, <1>8, EmptySeq
  <2>2. Led(grown, leader)
    BY <1>1, <1>2, <1>3, <1>6, <1>8, <2>1 DEF Led
  <2>3. Listed(grown) = Listed(es) \cup {c}
    BY <1>1, <1>2, <1>3 DEF Listed
  <2> QED BY <1>2, <1>5, <1>8, <2>1, <2>2, <2>3 DEF grown, e
<1> QED BY <1>7, <1>8

\* erase of the entry of a member, with the promotion of the next primary.
LEMMA RemoveLeads ==
  ASSUME NEW es \in Seq(Entries), NEW leader, Led(es, leader), NEW k \in DOMAIN es
  PROVE  LET c == es[k].chart
             left == RemoveAt(es, k)
         IN  /\ left \in Seq(Entries)
             /\ Led(left, IF leader = c THEN Promoted(left) ELSE leader)
             /\ {left[i].chart : i \in DOMAIN left}
                    = {es[i].chart : i \in DOMAIN es} \ {c}
<1> DEFINE c == es[k].chart
           left == RemoveAt(es, k)
<1>1. /\ DOMAIN es = 1 .. Len(es) /\ Len(es) \in Nat /\ k \in 1 .. Len(es)
      /\ left \in Seq(Entries) /\ Len(left) = Len(es) - 1
      /\ \A j \in 1 .. Len(es) - 1 : left[j] = IF j < k THEN es[j] ELSE es[j + 1]
  BY LenProperties, RemoveAtProperties
<1>2. DOMAIN left = 1 .. Len(es) - 1
  BY <1>1, LenProperties
<1>3. left = <<>> <=> Len(es) = 1
  BY <1>1, EmptySeq
<1>4. es # <<>> /\ leader = es[1].chart
  BY <1>1, EmptySeq DEF Led
<1> HIDE DEF left
<1>5. \A i, j \in DOMAIN left : left[i].chart = left[j].chart => i = j
  <2> SUFFICES ASSUME NEW i \in DOMAIN left, NEW j \in DOMAIN left,
                      left[i].chart = left[j].chart
               PROVE  i = j
    OBVIOUS
  <2> DEFINE from(n) == IF n < k THEN n ELSE n + 1
  <2>1. left[i] = es[from(i)] /\ left[j] = es[from(j)]
    BY <1>1, <1>2
  <2>2. from(i) \in DOMAIN es /\ from(j) \in DOMAIN es
    BY <1>1, <1>2
  <2>3. from(i) = from(j)
    <3> HIDE DEF from
    <3> QED BY <2>1, <2>2 DEF Led
  <2> QED BY <1>1, <1>2, <2>3
<1>6. \A i \in DOMAIN left : left[i].role = "primary" =>
            left[i].chart = leader /\ k # 1
  <2> SUFFICES ASSUME NEW i \in DOMAIN left, left[i].role = "primary"
               PROVE  left[i].chart = leader /\ k # 1
    OBVIOUS
  <2> DEFINE m == IF i < k THEN i ELSE i + 1
  <2>1. left[i] = es[m] /\ m \in DOMAIN es /\ m # k
    BY <1>1, <1>2
  <2> HIDE DEF m
  <2>2. leader = es[m].chart /\ m = 1
    BY <1>1, <1>4, <2>1 DEF Led
  <2> QED BY <2>1, <2>2
<1>7. {left[i].chart : i \in DOMAIN left} = {es[i].chart : i \in DOMAIN es} \ {c}
  <2>1. ASSUME NEW i \in DOMAIN left
        PROVE  left[i].chart \in {es[n].chart : n \in DOMAIN es} \ {c}
    <3> DEFINE m == IF i < k THEN i ELSE i + 1
    <3>1. left[i] = es[m] /\ m \in DOMAIN es /\ m # k
      BY <1>1, <1>2
    <3> HIDE DEF m
    <3> QED BY <3>1 DEF Led
  <2>2. ASSUME NEW n \in DOMAIN es, es[n].chart # c
        PROVE  es[n].chart \in {left[i].chart : i \in DOMAIN left}
    <3> DEFINE m == IF n < k THEN n ELSE n - 1
    <3>1. n # k
      BY <2>2
    <3>2. m \in DOMAIN left /\ left[m] = es[n]
      BY <1>1, <1>2, <3>1
    <3> HIDE DEF m
    <3> QED BY <3>2
  <2> QED BY <2>1, <2>2
<1>8. CASE k = 1
  <2>1. leader = c
    BY <1>4, <1>8
  <2>2. Promoted(left) = IF left = <<>> THEN Nobody ELSE left[1].chart
    BY <1>6, <1>8, PromotedFirst
  <2>3. Led(left, Promoted(left))
    BY <1>5, <1>6, <1>8, <2>2 DEF Led
  <2> QED BY <1>1, <1>7, <2>1, <2>3 DEF left
<1>9. CASE k # 1
  <2>1. leader # c
    BY <1>1, <1>4, <1>9 DEF Led
  <2>2. left # <<>> /\ left[1] = es[1]
    BY <1>1, <1>3, <1>9
  <2>3. Led(left, leader)
    BY <1>4, <1>5, <1>6, <2>2 DEF Led
  <2> QED BY <1>1, <1>7, <2>1, <2>3 DEF left
<1> QED BY <1>8, <1>9

-----------------------------------------------------------------------------
(* The inductive step *)

\* Steps that only move views.
LEMMA ViewSteps ==
  ASSUME GroupInv,
         charts' \in [Charts -> Viewports], strayed' \in [Groups -> SUBSET Charts],
         panning' \in Charts \cup {Nobody}, linked' \in [Groups -> BOOLEAN],
         UNCHANGED <<cursorVars, entries, primary, synced, observer>>
  PROVE  GroupInv'
<1> USE DEF GroupInv, cursorVars
<1>1. TypeOK'
  BY DEF TypeOK
<1>2. \A g \in Groups : Members(g)' = Members(g)
  BY DEF Members
<1>3. PrimaryLeads' /\ NoDanglingObserver' /\ CrosshairNeedsGroup'
  BY <1>2 DEF PrimaryLeads, NoDanglingObserver, CrosshairNeedsGroup, TypeOK
<1> QED BY <1>1, <1>3

\* Steps that show or hide crosshairs: x appears only on members of a group
\* that synchronizes cursors.
LEMMA CursorSteps ==
  ASSUME GroupInv,
         NEW S, NEW x \in Positions \cup {NoCursor}, ShowCursor(S, x),
         x # NoCursor => \A c \in S \cap Charts :
                            \E g \in Groups : synced[g] /\ c \in Members(g),
         synced' \in [Groups -> BOOLEAN],
         \A g \in Groups : synced[g] => synced'[g] \/ (x = NoCursor /\ Members(g) \subseteq S),
         mouse' \in Charts \cup {Nobody},
         UNCHANGED <<panning, strayed, entries, primary, linked, observer>>
  PROVE  GroupInv'
<1> USE DEF GroupInv
<1>1. TypeOK'
  <2>1. /\ charts' \in [Charts -> Viewports]
        /\ crosshair' \in [Charts -> Positions \cup {NoCursor}]
    BY CursorTypes
  <2> QED BY <2>1 DEF TypeOK
<1>2. \A g \in Groups : Members(g)' = Members(g)
  BY DEF Members
<1>3. PrimaryLeads' /\ NoDanglingObserver'
  BY <1>2 DEF PrimaryLeads, NoDanglingObserver, TypeOK
<1>4. CrosshairNeedsGroup'
  <2> SUFFICES ASSUME NEW c \in Charts, crosshair'[c] # NoCursor
               PROVE  \E g \in Groups : synced'[g] /\ c \in Members(g)
    BY <1>2 DEF CrosshairNeedsGroup
  <2>1. crosshair'[c] = IF c \in S THEN x ELSE crosshair[c]
    BY DEF ShowCursor
  <2>2. \E g \in Groups : synced[g] /\ c \in Members(g)
    BY <2>1 DEF CrosshairNeedsGroup
  <2> QED BY <2>1, <2>2
<1> QED BY <1>1, <1>3, <1>4

\* A chart that is detached keeps neither observer nor crosshair.
LEMMA DetachTypes ==
  ASSUME TypeOK, NEW S, Detach(S)
  PROVE  /\ observer' \in [Charts -> Groups \cup {Nobody}]
         /\ crosshair' \in [Charts -> Positions \cup {NoCursor}]
         /\ \A c \in Charts : c \in S => observer'[c] = Nobody /\ crosshair'[c] = NoCursor
         /\ \A c \in Charts : c \notin S => observer'[c] = observer[c]
                                      /\ crosshair'[c] = crosshair[c]
BY DEF Detach, TypeOK

\* Steps in which one group loses charts, all of them detached, or none does.
LEMMA DetachSteps ==
  ASSUME GroupInv, NEW S, Detach(S),
         charts' \in [Charts -> Viewports], strayed' \in [Groups -> SUBSET Charts],
         panning' \in Charts \cup {Nobody},
         entries' \in [Groups -> Seq(Entries)], PrimaryLeads',
         primary' \in [Groups -> Charts \cup {Nobody}],
         \A g \in Groups : Members(g) \ S \subseteq Members(g)',
         UNCHANGED <<mouse, linked, synced>>
  PROVE  GroupInv'
<1> USE DEF GroupInv
<1>1. TypeOK'
  BY DetachTypes DEF TypeOK
<1>2. NoDanglingObserver'
  <2> SUFFICES ASSUME NEW c \in Charts, observer'[c] # Nobody
               PROVE  c \in Members(observer[c])'
    BY DEF NoDanglingObserver
  <2>1. c \notin S /\ observer'[c] = observer[c]
    BY DetachTypes
  <2>2. observer[c] \in Groups /\ c \in Members(observer[c])
    BY <2>1 DEF NoDanglingObserver, TypeOK
  <2>3. PICK g \in Groups : g = observer[c]
    BY <2>2
  <2>4. c \in Members(g)'
    BY <2>1, <2>2, <2>3
  <2> QED BY <2>1, <2>3, <2>4 DEF Members
<1>3. CrosshairNeedsGroup'
  <2> SUFFICES ASSUME NEW c \in Charts, crosshair'[c] # NoCursor
               PROVE  \E g \in Groups : synced'[g] /\ c \in Members(g)'
    BY DEF CrosshairNeedsGroup
  <2>1. c \notin S /\ crosshair'[c] = crosshair[c]
    BY DetachTypes
  <2> QED BY <2>1 DEF CrosshairNeedsGroup
<1> QED BY <1>1, <1>2, <1>3

\* Every step of a group keeps GroupInv.
LEMMA GroupCallStep ==
  ASSUME GroupInv, NEW g \in Groups, GroupCalls(g)
  PROVE  GroupInv'
<1>1. TypeOK /\ PrimaryLeads
  BY DEF GroupInv
<1>2. /\ \A h \in Groups : Members(h) \subseteq Charts
      /\ \A h \in Groups : entries[h] \in Seq(Entries) /\ Led(entries[h], primary[h])
  BY <1>1, MemberTypes DEF TypeOK, PrimaryLeads
<1>3. ASSUME NEW c \in Charts \cup {Nobody}, NEW role \in Roles, AddChart(g, c, role)
      PROVE  GroupInv'
  <2> DEFINE grown == Append(entries[g], [chart |-> c, role |-> role])
             leader == IF role = "primary" \/ primary[g] = Nobody THEN c ELSE primary[g]
  <2>1. c \in Charts /\ c \notin Members(g) /\ (role = "primary" => primary[g] = Nobody)
    BY <1>3 DEF AddChart, Accepts
  <2>2. \A i \in DOMAIN entries[g] : entries[g][i].chart # c
    BY <2>1 DEF Members
  <2>3. /\ grown \in Seq(Entries)
        /\ Led(grown, leader)
        /\ {grown[i].chart : i \in DOMAIN grown} = Members(g) \cup {c}
    <3>1. entries[g] \in Seq(Entries) /\ Led(entries[g], primary[g])
      BY <1>2
    <3>2. /\ grown \in Seq(Entries)
          /\ Led(grown, leader)
          /\ Listed(grown) = Listed(entries[g]) \cup {c}
      BY <2>1, <2>2, <3>1, AddLeads
    <3> QED BY <3>2 DEF Members, Listed
  <2>4. /\ entries' = [entries EXCEPT ![g] = grown]
        /\ primary' = [primary EXCEPT ![g] = leader]
        /\ observer' = [observer EXCEPT ![c] = g]
        /\ charts' = [charts EXCEPT ![c] = Attached(charts[c])]
        /\ strayed' = [strayed EXCEPT ![g] = strayed[g] \cup {c}]
        /\ UNCHANGED <<panning, cursorVars, linked, synced>>
    BY <1>3 DEF AddChart
  <2> HIDE DEF grown
  <2>5. leader \in Charts \cup {Nobody}
    BY <1>1, <2>1 DEF TypeOK
  <2> HIDE DEF leader
  <2>6. /\ \A h \in Groups : Members(h) \subseteq Members(h)'
        /\ c \in Members(g)'
    BY <1>1, <2>3, <2>4 DEF Members, TypeOK
  <2>7. TypeOK'
    <3>1. charts' \in [Charts -> Viewports]
      BY <1>1, <2>1, <2>4, ViewTypes DEF TypeOK
    <3> QED BY <1>1, <2>1, <2>3, <2>4, <2>5, <3>1 DEF TypeOK, cursorVars
  <2>8. PrimaryLeads'
    BY <1>1, <2>3, <2>4 DEF PrimaryLeads, TypeOK
  <2>9. NoDanglingObserver'
    <3> SUFFICES ASSUME NEW d \in Charts, observer'[d] # Nobody
                 PROVE  d \in Members(observer[d])'
      BY DEF NoDanglingObserver
    <3>1. CASE d = c
      <4>1. observer'[d] = g
        BY <1>1, <2>1, <2>4, <3>1 DEF TypeOK
      <4>2. Members(observer[d])' = Members(g)'
        BY <4>1 DEF Members
      <4> QED BY <2>6, <3>1, <4>2
    <3>2. CASE d # c
      <4>1. observer'[d] = observer[d]
        BY <1>1, <2>1, <2>4, <3>2 DEF TypeOK
      <4>2. PICK h \in Groups : h = observer[d] /\ d \in Members(h)
        BY <1>1, <4>1 DEF GroupInv, NoDanglingObserver, TypeOK
      <4>3. Members(observer[d])' = Members(h)'
        BY <4>1, <4>2 DEF Members
      <4> QED BY <2>6, <4>2, <4>3
    <3> QED BY <3>1, <3>2
  <2>10. CrosshairNeedsGroup'
    BY <2>4, <2>6 DEF CrosshairNeedsGroup, GroupInv, cursorVars
  <2> QED BY <2>7, <2>8, <2>9, <2>10 DEF GroupInv
<1>4. ASSUME NEW c \in Charts, RemoveChart(g, c) PROVE GroupInv'
  <2> DEFINE k == IndexOf(g, c)
             left == RemoveAt(entries[g], k)
             leader == IF primary[g] = c THEN Promoted(left) ELSE primary[g]
  <2>1. k \in DOMAIN entries[g] /\ entries[g][k].chart = c
    BY <1>4, IndexProperties DEF RemoveChart
  <2>2. /\ Detach({c})
        /\ entries' = [entries EXCEPT ![g] = left]
        /\ primary' = [primary EXCEPT ![g] = leader]
        /\ \E T \in SUBSET Charts : strayed' = [strayed EXCEPT ![g] = T]
        /\ UNCHANGED <<charts, panning, mouse, linked, synced>>
    <3>1. strayed[g] \ {c} \in SUBSET Charts /\ Members(g) \ {c} \in SUBSET Charts
      BY <1>1, <1>2 DEF TypeOK
    <3> QED BY <1>4, <3>1 DEF RemoveChart
  <2> HIDE DEF k
  <2>3. /\ left \in Seq(Entries)
        /\ Led(left, leader)
        /\ {left[i].chart : i \in DOMAIN left} = Members(g) \ {c}
    BY <1>2, <2>1, RemoveLeads DEF Members
  <2> HIDE DEF left, leader
  <2>4. leader \in Charts \cup {Nobody}
    <3>1. \A i \in DOMAIN left : left[i].chart \in Charts
      BY <1>2, <2>3
    <3> QED BY <2>3, <3>1, EmptySeq, LenProperties DEF Led
  <2>5. \A h \in Groups : Members(h) \ {c} \subseteq Members(h)'
    <3> SUFFICES ASSUME NEW h \in Groups PROVE Members(h) \ {c} \subseteq Members(h)'
      OBVIOUS
    <3>1. CASE h = g
      <4>1. entries'[g] = left
        BY <1>1, <2>2 DEF TypeOK
      <4>2. Members(g)' = {left[i].chart : i \in DOMAIN left}
        BY <4>1 DEF Members
      <4>3. Members(g) \ {c} \subseteq Members(g)'
        BY <2>3, <4>2
      <4> QED BY <3>1, <4>3
    <3>2. CASE h # g
      <4>1. entries'[h] = entries[h]
        BY <1>1, <2>2, <3>2 DEF TypeOK
      <4> QED BY <4>1 DEF Members
    <3> QED BY <3>1, <3>2
  <2>6. /\ entries' \in [Groups -> Seq(Entries)]
        /\ primary' \in [Groups -> Charts \cup {Nobody}]
        /\ strayed' \in [Groups -> SUBSET Charts]
        /\ charts' \in [Charts -> Viewports]
        /\ panning' \in Charts \cup {Nobody}
    BY <1>1, <2>2, <2>3, <2>4 DEF TypeOK
  <2>7. PrimaryLeads'
    BY <1>1, <2>2, <2>3 DEF PrimaryLeads, TypeOK
  <2> QED BY <2>2, <2>5, <2>6, <2>7, DetachSteps
<1>5. CASE Clear(g)
  <2>1. /\ Detach(Members(g))
        /\ entries' = [entries EXCEPT ![g] = <<>>]
        /\ primary' = [primary EXCEPT ![g] = Nobody]
        /\ strayed' = [strayed EXCEPT ![g] = {}]
        /\ UNCHANGED <<charts, panning, mouse, linked, synced>>
    BY <1>5 DEF Clear
  <2>2. \A h \in Groups : Members(h) \ Members(g) \subseteq Members(h)'
    BY <1>1, <2>1 DEF Members, TypeOK
  <2>3. <<>> \in Seq(Entries) /\ Led(<<>>, Nobody)
    <3>1. DOMAIN <<>> = {}
      BY EmptySeq, LenProperties
    <3> QED BY <3>1, EmptySeq DEF Led
  <2>4. /\ entries' \in [Groups -> Seq(Entries)]
        /\ primary' \in [Groups -> Charts \cup {Nobody}]
        /\ strayed' \in [Groups -> SUBSET Charts]
        /\ charts' \in [Charts -> Viewports]
        /\ panning' \in Charts \cup {Nobody}
    BY <1>1, <2>1, <2>3 DEF TypeOK
  <2>5. PrimaryLeads'
    BY <1>1, <2>1, <2>3 DEF PrimaryLeads, TypeOK
  <2> QED BY <2>1, <2>2, <2>4, <2>5, DetachSteps
<1>6. CASE LinkXAxis(g)
  <2>1. /\ linked' = [linked EXCEPT ![g] = TRUE]
        /\ UNCHANGED <<panning, cursorVars, entries, primary, synced, observer>>
    BY <1>6 DEF LinkXAxis
  <2>2. charts' \in [Charts -> Viewports] /\ strayed' \in [Groups -> SUBSET Charts]
    <3>1. CASE primary[g] = Nobody
      BY <1>1, <1>6, <3>1 DEF LinkXAxis, TypeOK
    <3>2. CASE primary[g] # Nobody
      <4>1. Shown(charts[primary[g]]) \in Ranges
        BY <1>1, <3>2, ViewTypes DEF TypeOK
      <4>2. \A h \in Groups : /\ Astray(h, Others(g)) \subseteq Charts
                             /\ DeafIn(Others(g)) \subseteq Charts
        BY <1>1, <1>2, StrayTypes DEF DeafIn, Others
      <4>3. charts' \in [Charts -> Viewports]
        <5>1. PlaceAll(Others(g), Shown(charts[primary[g]])) \in [Charts -> Viewports]
          BY <1>1, <4>1, PlaceTypes
        <5> QED BY <1>6, <3>2, <5>1 DEF LinkXAxis
      <4> QED BY <1>2, <1>6, <3>2, <4>2, <4>3 DEF LinkXAxis
    <3> QED BY <3>1, <3>2
  <2> QED BY <1>1, <2>1, <2>2, ViewSteps DEF TypeOK
<1>7. CASE UnlinkXAxis(g)
  BY <1>1, <1>7, ViewSteps DEF UnlinkXAxis, chartVars, TypeOK
<1>8. ASSUME NEW enabled \in BOOLEAN, SyncCursor(g, enabled) PROVE GroupInv'
  <2>1. /\ synced' = [synced EXCEPT ![g] = enabled]
        /\ UNCHANGED <<panning, strayed, mouse, entries, primary, linked, observer>>
    BY <1>8 DEF SyncCursor
  <2>2. CASE enabled = TRUE
    <3>1. UNCHANGED <<charts, crosshair>>
      BY <1>8, <2>2 DEF SyncCursor
    <3>2. \A h \in Groups : Members(h)' = Members(h) /\ (synced[h] => synced'[h])
      BY <1>1, <2>1, <2>2 DEF Members, TypeOK
    <3> QED BY <2>1, <3>1, <3>2 DEF GroupInv, TypeOK, PrimaryLeads,
               NoDanglingObserver, CrosshairNeedsGroup
  <2>3. CASE enabled = FALSE
    <3>1. ShowCursor(Members(g), NoCursor)
      BY <1>8, <2>3 DEF SyncCursor
    <3>2. \A h \in Groups : synced[h] =>
                synced'[h] \/ (NoCursor = NoCursor /\ Members(h) \subseteq Members(g))
      BY <1>1, <2>1 DEF TypeOK
    <3> QED BY <1>1, <2>1, <3>1, <3>2, CursorSteps DEF TypeOK
  <2> QED BY <2>2, <2>3
<1>9. ASSUME NEW r \in Ranges, SetPrimaryXAxis(g, r) PROVE GroupInv'
  <2>1. /\ charts' = PlaceAll(IF linked[g] THEN Members(g) ELSE {primary[g]}, r)
        /\ UNCHANGED <<panning, cursorVars, groupVars, observer>>
    BY <1>9 DEF SetPrimaryXAxis
  <2>2. strayed' \in [Groups -> SUBSET Charts]
    <3>1. \A h \in Groups : \A S : Astray(h, S) \subseteq Charts
      BY <1>1, StrayTypes
    <3>2. DeafIn(Others(g)) \subseteq Charts
      BY <1>2 DEF DeafIn, Others
    <3> QED BY <1>2, <1>9, <3>1, <3>2 DEF SetPrimaryXAxis
  <2>3. charts' \in [Charts -> Viewports]
    BY <1>1, <2>1, PlaceTypes
  <2>4. panning' \in Charts \cup {Nobody} /\ linked' \in [Groups -> BOOLEAN]
    BY <1>1, <2>1 DEF TypeOK, groupVars
  <2> QED BY <2>1, <2>2, <2>3, <2>4, ViewSteps DEF groupVars
<1> QED BY <1>3, <1>4, <1>5, <1>6, <1>7, <1>8, <1>9 DEF GroupCalls

\* Every call of the host on a chart keeps GroupInv.
LEMMA ChartCallStep ==
  ASSUME GroupInv, NEW c \in Charts, ChartCalls(c)
  PROVE  GroupInv'
<1>1. TypeOK /\ charts[c] \in Viewports /\ charts[c].home \in Ranges
  BY DEF GroupInv, TypeOK, Viewports
<1>2. ASSUME NEW v \in Viewports, Silently(c, v), ViewFrame PROVE GroupInv'
  <2>1. charts' \in [Charts -> Viewports] /\ strayed' \in [Groups -> SUBSET Charts]
    BY <1>1, <1>2, PropagationTypes
  <2> QED BY <1>1, <1>2, <2>1, ViewSteps DEF ViewFrame, groupVars, TypeOK
<1>3. ASSUME NEW v \in Viewports, NEW x \in Ranges, Report(c, v, x), ViewFrame
      PROVE  GroupInv'
  <2>1. charts' \in [Charts -> Viewports] /\ strayed' \in [Groups -> SUBSET Charts]
    BY <1>1, <1>3, PropagationTypes
  <2> QED BY <1>1, <1>3, <2>1, ViewSteps DEF ViewFrame, groupVars, TypeOK
<1>4. ASSUME NEW smooth \in SmoothInputs, EnableInteraction(c, smooth) PROVE GroupInv'
  <2>1. EnabledAs(charts[c], smooth) \in Viewports
    BY <1>1, ViewTypes, HostAssumption
  <2> QED BY <1>2, <1>4, <2>1 DEF EnableInteraction
<1>5. CASE DisableInteraction(c)
  <2>1. /\ Detach({c})
        /\ panning' \in Charts \cup {Nobody}
        /\ Silently(c, Disabled(charts[c]))
        /\ UNCHANGED <<mouse, groupVars>>
    BY <1>1, <1>5 DEF DisableInteraction, TypeOK
  <2>2. charts' \in [Charts -> Viewports] /\ strayed' \in [Groups -> SUBSET Charts]
    BY <1>1, <2>1, ViewTypes, PropagationTypes
  <2>3. \A h \in Groups : Members(h)' = Members(h)
    BY <2>1 DEF Members, groupVars
  <2>4. PrimaryLeads'
    BY <2>1 DEF GroupInv, PrimaryLeads, groupVars
  <2>5. /\ entries' \in [Groups -> Seq(Entries)]
        /\ primary' \in [Groups -> Charts \cup {Nobody}]
    BY <1>1, <2>1 DEF TypeOK, groupVars
  <2> QED BY <2>1, <2>2, <2>3, <2>4, <2>5, DetachSteps DEF groupVars
<1>6. ASSUME NEW r \in HostRanges, SetAxis(c, r) PROVE GroupInv'
  <2>1. WithAxis(charts[c], r) \in Viewports
    BY <1>1, ViewTypes, HostAssumption
  <2>2. CASE charts[c].live
    <3>1. charts' \in [Charts -> Viewports] /\ UNCHANGED strayed /\ ViewFrame
      BY <1>1, <1>6, <2>1, <2>2 DEF SetAxis, TypeOK
    <3> QED BY <1>1, <3>1, ViewSteps DEF ViewFrame, groupVars, TypeOK
  <2>3. CASE ~charts[c].live
    BY <1>2, <1>6, <2>1, <2>3 DEF SetAxis
  <2> QED BY <2>2, <2>3
<1>7. ASSUME NEW r \in HostRanges, SetVisibleRange(c, r) PROVE GroupInv'
  <2>1. Placed(charts[c], r) \in Viewports
    BY <1>1, ViewTypes, HostAssumption
  <2> QED BY <1>2, <1>7, <2>1 DEF SetVisibleRange
<1>8. CASE ResetView(c)
  <2>1. ResetHome(charts[c]) \in Viewports
    BY <1>1, ViewTypes
  <2> QED BY <1>1, <1>2, <1>3, <1>8, <2>1 DEF ResetView
<1> QED BY <1>4, <1>5, <1>6, <1>7, <1>8 DEF ChartCalls

\* The charts a cursor is shown to are members of a group that synchronizes.
LEMMA WatcherSteps ==
  ASSUME GroupInv, NEW c \in Charts, NEW x \in Positions \cup {NoCursor},
         ShowCursor(Watchers(c), x), mouse' \in Charts \cup {Nobody},
         UNCHANGED <<strayed, panning, groupVars, observer>>
  PROVE  GroupInv'
<1>1. TypeOK
  BY DEF GroupInv
<1>2. \A d \in Watchers(c) : \E g \in Groups : synced[g] /\ d \in Members(g)
  <2>1. observer[c] \in Groups \cup {Nobody}
    BY <1>1 DEF TypeOK
  <2> QED BY <2>1 DEF Watchers
<1>3. synced' \in [Groups -> BOOLEAN] /\ \A g \in Groups : synced[g] => synced'[g]
  BY <1>1 DEF TypeOK, groupVars
<1> QED BY <1>2, <1>3, CursorSteps DEF groupVars

\* Every input to a chart keeps GroupInv.
LEMMA ChartInputStep ==
  ASSUME GroupInv, NEW c \in Charts, ChartInput(c)
  PROVE  GroupInv'
<1>1. TypeOK /\ charts[c] \in Viewports
      /\ charts[c].view \in Ranges
  BY DEF GroupInv, TypeOK, Viewports
<1>2. ASSUME charts' \in [Charts -> Viewports], strayed' \in [Groups -> SUBSET Charts],
             panning' \in Charts \cup {Nobody},
             UNCHANGED <<cursorVars, groupVars, observer>>
      PROVE  GroupInv'
  BY <1>1, <1>2, ViewSteps DEF groupVars, TypeOK
<1>3. panning \in Charts \cup {Nobody} /\ strayed \in [Groups -> SUBSET Charts]
      /\ charts \in [Charts -> Viewports]
  BY <1>1 DEF TypeOK
<1>4. ASSUME NEW r \in Ranges, Zoom(c, r) PROVE GroupInv'
  <2>1. MovedTo(charts[c], r) \in Viewports
    BY <1>1, ViewTypes
  <2>2. charts' \in [Charts -> Viewports] /\ strayed' \in [Groups -> SUBSET Charts]
    BY <1>1, <1>4, <2>1, PropagationTypes DEF Zoom
  <2> QED BY <1>2, <1>3, <1>4, <2>2 DEF Zoom, ViewFrame
<1>5. ASSUME NEW r \in Ranges, MovePan(c, r) PROVE GroupInv'
  <2>1. Placed(charts[c], r) \in Viewports
    BY <1>1, ViewTypes
  <2>2. charts' \in [Charts -> Viewports] /\ strayed' \in [Groups -> SUBSET Charts]
    BY <1>1, <1>5, <2>1, PropagationTypes DEF MovePan
  <2> QED BY <1>2, <1>3, <1>5, <2>2 DEF MovePan, ViewFrame
<1>6. ASSUME NEW r \in Ranges, AnimationFrame(c, r) PROVE GroupInv'
  <2>1. Placed(charts[c], r) \in Viewports
    BY <1>1, ViewTypes
  <2> QED BY <1>2, <1>3, <1>6, <2>1 DEF AnimationFrame
<1>7. CASE AnimationSettles(c)
  <2>1. Settled(charts[c]) \in Viewports
    BY <1>1, ViewTypes
  <2> QED BY <1>2, <1>3, <1>7, <2>1 DEF AnimationSettles
<1>8. CASE BeginPan(c)
  BY <1>2, <1>3, <1>8 DEF BeginPan
<1>9. CASE EndPan(c)
  <2>1. charts' \in [Charts -> Viewports] /\ strayed' \in [Groups -> SUBSET Charts]
    BY <1>1, <1>9, PropagationTypes DEF EndPan
  <2> QED BY <1>2, <1>9, <2>1 DEF EndPan
<1>10. CASE DropPan(c)
  BY <1>2, <1>3, <1>10 DEF DropPan
<1>11. ASSUME NEW x \in Positions, CursorMoves(c, x) PROVE GroupInv'
  BY <1>11, WatcherSteps DEF CursorMoves
<1>12. CASE CursorInMargin(c)
  BY <1>12 DEF CursorInMargin, GroupInv, TypeOK, PrimaryLeads, NoDanglingObserver,
     CrosshairNeedsGroup, Members, chartVars, groupVars
<1>13. CASE CursorLeaves(c)
  <2>1. CASE charts[c].on
    BY <1>13, <2>1, WatcherSteps DEF CursorLeaves
  <2>2. CASE ~charts[c].on
    BY <1>13, <2>2 DEF CursorLeaves, GroupInv, TypeOK, PrimaryLeads, NoDanglingObserver,
       CrosshairNeedsGroup, Members, groupVars
  <2> QED BY <2>1, <2>2
<1> QED BY <1>4, <1>5, <1>6, <1>7, <1>8, <1>9, <1>10, <1>11, <1>12, <1>13 DEF ChartInput

-----------------------------------------------------------------------------
(* Invariance *)

\* No group has entries at first.
LEMMA GroupStarts == Init => GroupInv
<1> SUFFICES ASSUME Init PROVE GroupInv
  OBVIOUS
<1>1. TypeOK
  BY ViewTypes, EmptySeq DEF Init, TypeOK
<1>2. <<>> \in Seq(Entries) /\ DOMAIN <<>> = {}
  BY EmptySeq, LenProperties
<1>3. PrimaryLeads
  BY <1>2 DEF Init, PrimaryLeads, Led
<1> QED BY <1>1, <1>3 DEF GroupInv, Init, NoDanglingObserver, CrosshairNeedsGroup

\* Every step of the groups and of their charts keeps GroupInv.
LEMMA GroupSteps == GroupInv /\ [Next]_vars => GroupInv'
<1> SUFFICES ASSUME GroupInv, [Next]_vars PROVE GroupInv'
  OBVIOUS
<1>1. CASE UNCHANGED vars
  BY <1>1 DEF vars, chartVars, cursorVars, groupVars, GroupInv, TypeOK,
     PrimaryLeads, NoDanglingObserver, CrosshairNeedsGroup, Members
<1>2. CASE Next
  BY <1>2, GroupCallStep, ChartCallStep, ChartInputStep DEF Next
<1> QED BY <1>1, <1>2

\* GroupInv is an invariant of the groups and charts of ChartGroup.cpp, for
\* any number of either and whatever charts two groups share.
THEOREM GroupInvariance == Spec => []GroupInv
BY GroupStarts, GroupSteps, PTL DEF Spec

\* Every variable of the group model keeps a value of its C++ type.
THEOREM GroupTypeCorrect == Spec => []TypeOK
<1>1. GroupInv => TypeOK
  BY DEF GroupInv
<1> QED BY <1>1, GroupInvariance, PTL

\* add_chart, remove_chart and clear keep primary_ at the oldest entry, and
\* never pass over an explicit primary.
THEOREM PrimaryLeading == Spec => []PrimaryLeads
<1>1. GroupInv => PrimaryLeads
  BY DEF GroupInv
<1> QED BY <1>1, GroupInvariance, PTL

\* No observer that add_chart installs outlives the membership: the closure
\* over `this' cannot be called once the group has let the chart go.
THEOREM ObserversAttached == Spec => []NoDanglingObserver
<1>1. GroupInv => NoDanglingObserver
  BY DEF GroupInv
<1> QED BY <1>1, GroupInvariance, PTL

\* A foreign crosshair is painted only inside a group that synchronizes.
THEOREM CrosshairsOwned == Spec => []CrosshairNeedsGroup
<1>1. GroupInv => CrosshairNeedsGroup
  BY DEF GroupInv
<1> QED BY <1>1, GroupInvariance, PTL

\* Observers, primaries and crosshairs follow the membership.
THEOREM MembershipsConsistent == Spec => []MembersConsistent
<1>1. GroupInv => MembersConsistent
  BY DEF GroupInv, MembersConsistent
<1> QED BY <1>1, GroupInvariance, PTL

-----------------------------------------------------------------------------
(* Linked charts agree                                                     *)

\* A chart that is not astray is one whose controller is there, and so is the
\* controller of the primary: a cursor shown to a chart without controller
\* creates one, with which it shows another range.
Aligned(g) ==
    linked[g] => \A c \in Others(g) \ strayed[g] :
        /\ charts[c].live /\ charts[primary[g]].live
        /\ Heading(charts[c]) = Heading(charts[primary[g]])

\* A chart that reports to a group has a controller.
ReportersLive == \A c \in Charts : observer[c] # Nobody => charts[c].live

AgreeInv == GroupInv /\ ReportersLive /\ \A g \in Groups : Aligned(g)

\* No chart outside of S comes to rest elsewhere than before.
AtRestAsBefore(S) ==
    \A d \in Charts \ S : charts[d].live =>
        /\ charts'[d].live
        /\ Heading(charts'[d]) = Heading(charts[d])

\* What a group and its switch are is not changed.
SameGroup(g) ==
    /\ entries'[g] = entries[g] /\ primary'[g] = primary[g]
    /\ linked'[g] = linked[g]

\* Which of the operations move a chart, and where to.
LEMMA Headings ==
  ASSUME NEW v \in Viewports
  PROVE  /\ v.live => /\ Materialised(v).live
                      /\ Heading(Materialised(v)) = Heading(v)
         /\ Attached(v).live /\ (v.live => Attached(v) = v)
         /\ v.live /\ v.moving => /\ Settled(v).live
                                  /\ Heading(Settled(v)) = Heading(v)
         /\ \A r \in Ranges :
              /\ Placed(v, r).live = v.live
              /\ ~Deaf(v) => Heading(Placed(v, r)) = r
              /\ v.moving => Heading(Placed(v, r)) = Heading(v)
              /\ v.live => WithAxis(v, r).live /\ Heading(WithAxis(v, r)) = Heading(v)
              /\ MovedTo(v, r).live = v.live
              /\ v.live /\ ~(v.moving /\ MovedTo(v, r).goal = v.goal)
                   => Heading(MovedTo(v, r)) = r
<1>1. ASSUME NEW r \in Ranges
      PROVE  /\ Placed(v, r).live = v.live
             /\ ~Deaf(v) => Heading(Placed(v, r)) = r
             /\ v.moving => Heading(Placed(v, r)) = Heading(v)
  BY DEF Viewports, Placed, Deaf, Heading, Shown
<1>2. ASSUME NEW r \in Ranges, v.live
      PROVE  WithAxis(v, r).live /\ Heading(WithAxis(v, r)) = Heading(v)
  BY <1>2 DEF Viewports, WithAxis, Heading, Shown
<1>3. ASSUME NEW r \in Ranges
      PROVE  /\ MovedTo(v, r).live = v.live
             /\ v.live /\ ~(v.moving /\ MovedTo(v, r).goal = v.goal)
                  => Heading(MovedTo(v, r)) = r
  BY DEF Viewports, MovedTo, Heading, Shown
<1>4. /\ v.live => /\ Materialised(v).live
                   /\ Heading(Materialised(v)) = Heading(v)
      /\ Attached(v).live /\ (v.live => Attached(v) = v)
      /\ v.live /\ v.moving => /\ Settled(v).live
                               /\ Heading(Settled(v)) = Heading(v)
  BY DEF Viewports, Materialised, Attached, Settled, Heading, Shown
<1> QED BY <1>1, <1>2, <1>3, <1>4

\* A group with charts is led by one of them.
LEMMA LeaderIsMember ==
  ASSUME GroupInv, NEW g \in Groups, NEW c \in Members(g)
  PROVE  primary[g] \in Members(g) /\ primary[g] \in Charts
<1>1. entries[g] \in Seq(Entries) /\ Members(g) \subseteq Charts
  BY MemberTypes DEF GroupInv, TypeOK
<1>2. PICK i \in DOMAIN entries[g] : c = entries[g][i].chart
  BY DEF Members
<1>3. entries[g] # <<>> /\ 1 \in DOMAIN entries[g]
  BY <1>1, <1>2, EmptySeq, LenProperties
<1>4. primary[g] = entries[g][1].chart
  BY <1>3 DEF GroupInv, PrimaryLeads, Led
<1> QED BY <1>1, <1>3, <1>4 DEF Members

\* A group from which some charts went astray.
LEMMA StaysAligned ==
  ASSUME GroupInv, NEW g \in Groups, Aligned(g), NEW S, AtRestAsBefore(S),
         SameGroup(g), strayed'[g] = Astray(g, S)
  PROVE  Aligned(g)'
<1>1. Members(g)' = Members(g) /\ Others(g)' = Others(g)
  BY DEF SameGroup, Members, Others
<1> SUFFICES ASSUME linked'[g], NEW c \in Others(g)', c \notin strayed'[g]
             PROVE  /\ charts'[c].live /\ charts'[primary'[g]].live
                    /\ Heading(charts'[c]) = Heading(charts'[primary'[g]])
  BY DEF Aligned
<1>2. c \in Others(g) /\ c \in Members(g) /\ c \in Charts
  BY <1>1, MemberTypes DEF Others, GroupInv
<1>3. primary[g] \in Charts /\ primary[g] \notin S
  BY <1>2, LeaderIsMember DEF Astray
<1>4. c \notin S /\ c \notin strayed[g]
  BY <1>2, <1>3 DEF Astray
<1>5. /\ charts[c].live /\ charts[primary[g]].live
      /\ Heading(charts[c]) = Heading(charts[primary[g]])
  BY <1>2, <1>4 DEF Aligned, SameGroup
<1> QED BY <1>2, <1>3, <1>4, <1>5 DEF AtRestAsBefore, SameGroup

\* A group none of whose charts moved.
LEMMA UnmovedAligned ==
  ASSUME GroupInv, NEW g \in Groups, Aligned(g), AtRestAsBefore({}),
         SameGroup(g), strayed'[g] = strayed[g]
  PROVE  Aligned(g)'
BY StaysAligned DEF Astray

\* A group that was brought to x.
LEMMA BroughtIntoLine ==
  ASSUME GroupInv, NEW g \in Groups,
         entries'[g] = entries[g], primary'[g] = primary[g],
         NEW x \in Ranges,
         \A d \in Others(g) : charts'[d] = Placed(charts[d], x),
         charts'[primary[g]].live, Heading(charts'[primary[g]]) = x,
         strayed'[g] = DeafIn(Others(g))
  PROVE  Aligned(g)'
<1>1. Others(g)' = Others(g)
  BY DEF Members, Others
<1> SUFFICES ASSUME NEW c \in Others(g)', c \notin strayed'[g]
             PROVE  /\ charts'[c].live /\ charts'[primary'[g]].live
                    /\ Heading(charts'[c]) = Heading(charts'[primary'[g]])
  BY DEF Aligned
<1>2. c \in Others(g) /\ charts[c] \in Viewports /\ ~Deaf(charts[c])
  BY <1>1, MemberTypes DEF Others, GroupInv, TypeOK, DeafIn
<1> QED BY <1>2, Headings DEF Deaf

\* A group all of whose charts are astray.
LEMMA AllAstray ==
  ASSUME NEW g \in Groups, entries'[g] = entries[g], strayed'[g] = Members(g)
  PROVE  Aligned(g)'
BY DEF Aligned, Others, Members

\* set_visible_range on the charts in S.
LEMMA PlacedAtRest ==
  ASSUME TypeOK, NEW S, NEW x \in Ranges, charts' = PlaceAll(S, x)
  PROVE  /\ AtRestAsBefore(S)
         /\ \A c \in Charts : charts'[c].live = charts[c].live
         /\ \A c \in S \cap Charts : charts'[c] = Placed(charts[c], x)
         /\ \A c \in Charts \ S : charts'[c] = charts[c]
<1>1. \A c \in Charts : charts[c] \in Viewports /\ Placed(charts[c], x).live = charts[c].live
  BY Headings DEF TypeOK
<1> QED BY <1>1 DEF PlaceAll, AtRestAsBefore

\* A report brings the group into line that it reaches, unless the animation of
\* the reporting chart goes on; to any other group the charts are astray.
LEMMA ReportAligns ==
  ASSUME AgreeInv, NEW c \in Charts, NEW v \in Viewports, NEW x \in Ranges,
         Report(c, v, x), v.live = charts[c].live,
         v.live /\ ~RunsOn(c, v) => Heading(v) = x,
         UNCHANGED <<groupVars, observer>>
  PROVE  ReportersLive' /\ \A g \in Groups : Aligned(g)'
<1>1. GroupInv /\ TypeOK /\ ReportersLive /\ charts \in [Charts -> Viewports]
  BY DEF AgreeInv, GroupInv, TypeOK
<1>2. /\ charts' = [PlaceAll(Followers(c), x) EXCEPT ![c] = v]
      /\ PlaceAll(Followers(c), x) \in [Charts -> Viewports]
  BY <1>1, PlaceTypes DEF Report
<1>3. /\ charts'[c] = v
      /\ \A d \in Charts \ {c} :
            charts'[d] = IF d \in Followers(c) THEN Placed(charts[d], x) ELSE charts[d]
  BY <1>2 DEF PlaceAll
<1>4. \A d \in Charts : charts'[d].live = charts[d].live
  <2>1. \A d \in Charts : Placed(charts[d], x).live = charts[d].live
    BY <1>1, Headings
  <2> QED BY <1>3, <2>1
<1>5. ReportersLive'
  BY <1>1, <1>4 DEF ReportersLive
<1>6. ASSUME NEW g \in Groups PROVE Aligned(g)'
  <2>1. SameGroup(g) /\ Aligned(g)
    BY DEF SameGroup, groupVars, AgreeInv
  <2>2. CASE g = observer[c] /\ Hears(c)
    <3>1. primary[g] = c /\ v.live /\ Followers(c) = Others(g)
      BY <1>1, <2>2 DEF Hears, Followers, ReportersLive
    <3>2. strayed'[g] = IF RunsOn(c, v) THEN Members(g) ELSE DeafIn(Others(g))
      BY <2>2 DEF Report
    <3>3. CASE RunsOn(c, v)
      BY <2>1, <3>2, <3>3, AllAstray DEF SameGroup
    <3>4. CASE ~RunsOn(c, v)
      <4>1. \A d \in Others(g) : charts'[d] = Placed(charts[d], x)
        BY <1>1, <1>3, <3>1, MemberTypes DEF Others
      <4> QED BY <1>1, <1>3, <2>1, <3>1, <3>2, <3>4, <4>1, BroughtIntoLine
              DEF SameGroup
    <3> QED BY <3>3, <3>4
  <2>3. CASE ~(g = observer[c] /\ Hears(c))
    <3>1. strayed'[g] = Astray(g, Followers(c) \cup {c})
      BY <2>3 DEF Report
    <3>2. AtRestAsBefore(Followers(c) \cup {c})
      BY <1>3 DEF AtRestAsBefore
    <3> QED BY <1>1, <2>1, <3>1, <3>2, StaysAligned
  <2> QED BY <2>2, <2>3
<1> QED BY <1>5, <1>6

\* A move that is not reported.
LEMMA SilenceAligns ==
  ASSUME AgreeInv, NEW c \in Charts, NEW v, Silently(c, v), UNCHANGED groupVars
  PROVE  /\ \A g \in Groups : Aligned(g)'
         /\ charts'[c] = v /\ \A d \in Charts \ {c} : charts'[d] = charts[d]
<1>1. GroupInv /\ charts \in [Charts -> Viewports]
  BY DEF AgreeInv, GroupInv, TypeOK
<1>2. charts'[c] = v /\ \A d \in Charts \ {c} : charts'[d] = charts[d]
  BY <1>1 DEF Silently
<1>3. AtRestAsBefore({c})
  BY <1>2 DEF AtRestAsBefore
<1>4. ASSUME NEW g \in Groups PROVE Aligned(g)'
  <2>1. SameGroup(g) /\ Aligned(g) /\ strayed'[g] = Astray(g, {c})
    BY DEF SameGroup, groupVars, AgreeInv, Silently, Wander
  <2> QED BY <1>1, <1>3, <2>1, StaysAligned
<1> QED BY <1>2, <1>4

\* A step in which no chart with a controller comes to rest elsewhere.
LEMMA RestAligns ==
  ASSUME AgreeInv, AtRestAsBefore({}),
         UNCHANGED <<entries, primary, linked, strayed, observer>>
  PROVE  ReportersLive' /\ \A g \in Groups : Aligned(g)'
<1>1. \A d \in Charts : charts[d].live => charts'[d].live
  BY DEF AtRestAsBefore
<1>2. ReportersLive'
  BY <1>1 DEF ReportersLive, AgreeInv
<1>3. ASSUME NEW g \in Groups PROVE Aligned(g)'
  BY UnmovedAligned DEF AgreeInv, SameGroup
<1> QED BY <1>2, <1>3

\* A cursor moves no chart that has a controller.
LEMMA CursorRests ==
  ASSUME TypeOK, NEW S, NEW x, ShowCursor(S, x)
  PROVE  AtRestAsBefore({})
<1>1. \A d \in Charts : charts[d] \in Viewports
  BY DEF TypeOK
<1> QED BY <1>1, Headings DEF ShowCursor, AtRestAsBefore

\* Every operation of a group keeps linked charts together.
LEMMA GroupCallAligns ==
  ASSUME AgreeInv, NEW g \in Groups, GroupCalls(g)
  PROVE  ReportersLive' /\ \A h \in Groups : Aligned(h)'
<1>1. /\ GroupInv /\ TypeOK /\ ReportersLive
      /\ charts \in [Charts -> Viewports] /\ strayed \in [Groups -> SUBSET Charts]
      /\ entries \in [Groups -> Seq(Entries)]
      /\ primary \in [Groups -> Charts \cup {Nobody}]
      /\ linked \in [Groups -> BOOLEAN]
      /\ observer \in [Charts -> Groups \cup {Nobody}]
      /\ \A h \in Groups : Aligned(h)
  BY DEF AgreeInv, GroupInv, TypeOK
<1>2. Members(g) \subseteq Charts
  BY <1>1, MemberTypes
<1>3. ASSUME NEW c \in Charts, NEW role \in Roles, AddChart(g, c, role)
      PROVE  ReportersLive' /\ \A h \in Groups : Aligned(h)'
  <2>1. /\ charts' = [charts EXCEPT ![c] = Attached(@)]
        /\ observer' = [observer EXCEPT ![c] = g]
        /\ Accepts(g, c, role)
        /\ entries' = [entries EXCEPT ![g] = Append(@, [chart |-> c, role |-> role])]
        /\ primary' = [primary EXCEPT ![g] =
                        IF role = "primary" \/ @ = Nobody THEN c ELSE @]
        /\ strayed' = [strayed EXCEPT ![g] = @ \cup {c}]
        /\ linked' = linked
    BY <1>3 DEF AddChart
  <2>2. /\ charts'[c].live
        /\ \A d \in Charts : charts[d].live => charts'[d] = charts[d]
        /\ \A d \in Charts \ {c} : charts'[d] = charts[d]
    BY <1>1, <2>1, Headings
  <2>3. ReportersLive'
    BY <1>1, <2>1, <2>2 DEF ReportersLive
  <2>4. AtRestAsBefore({})
    BY <2>2 DEF AtRestAsBefore
  <2>5. ASSUME NEW h \in Groups, h # g PROVE Aligned(h)'
    <3>1. SameGroup(h) /\ strayed'[h] = strayed[h]
      BY <1>1, <2>1, <2>5 DEF SameGroup
    <3> QED BY <1>1, <2>4, <3>1, UnmovedAligned
  <2>6. Aligned(g)'
    <3>1. Members(g)' = Members(g) \cup {c}
      <4>1. /\ Led(entries[g], primary[g])
            /\ \A i \in DOMAIN entries[g] : entries[g][i].chart # c
            /\ role = "primary" => primary[g] = Nobody
        BY <1>1, <2>1 DEF GroupInv, PrimaryLeads, Accepts, Members
      <4>2. entries'[g] = Append(entries[g], [chart |-> c, role |-> role])
        BY <1>1, <2>1
      <4>3. ASSUME NEW es \in Seq(Entries), NEW leader, Led(es, leader),
                   \A i \in DOMAIN es : es[i].chart # c,
                   role = "primary" => leader = Nobody
            PROVE  Listed(Append(es, [chart |-> c, role |-> role]))
                       = Listed(es) \cup {c}
        BY <4>3, AddLeads
      <4>4. Listed(entries'[g]) = Listed(entries[g]) \cup {c}
        BY <1>1, <4>1, <4>2, <4>3
      <4> QED BY <4>4 DEF Listed, Members
    <3> SUFFICES ASSUME linked'[g], NEW d \in Others(g)', d \notin strayed'[g]
                 PROVE  /\ charts'[d].live /\ charts'[primary'[g]].live
                        /\ Heading(charts'[d]) = Heading(charts'[primary'[g]])
      BY DEF Aligned
    <3>2. d \in Members(g) /\ d \notin strayed[g] /\ d # primary'[g]
      BY <1>1, <2>1, <3>1 DEF Others
    <3>3. primary[g] \in Charts /\ primary'[g] = primary[g] /\ d \in Charts
      <4>1. primary[g] \in Charts
        BY <1>1, <3>2, LeaderIsMember
      <4>2. ~(role = "primary" \/ primary[g] = Nobody)
        BY <2>1, <4>1, NullsAssumption DEF Accepts
      <4> QED BY <1>1, <1>2, <2>1, <3>2, <4>1, <4>2
    <3>4. /\ charts[d].live /\ charts[primary[g]].live
          /\ Heading(charts[d]) = Heading(charts[primary[g]])
      BY <1>1, <2>1, <3>2, <3>3 DEF Aligned, Others
    <3> QED BY <2>2, <3>3, <3>4
  <2> QED BY <2>3, <2>5, <2>6
<1>4. ASSUME NEW c \in Charts, RemoveChart(g, c)
      PROVE  ReportersLive' /\ \A h \in Groups : Aligned(h)'
  <2> DEFINE k == IndexOf(g, c)
             left == RemoveAt(entries[g], k)
             leader == IF primary[g] = c THEN Promoted(left) ELSE primary[g]
  <2>1. /\ c \in Members(g) /\ Detach({c})
        /\ entries' = [entries EXCEPT ![g] = left]
        /\ primary' = [primary EXCEPT ![g] = leader]
        /\ strayed' = [strayed EXCEPT
                    ![g] = IF leader # primary[g] /\ leader \in @
                           THEN Members(g) \ {c} ELSE @ \ {c}]
        /\ UNCHANGED <<charts, linked>>
    BY <1>4 DEF RemoveChart
  <2>2. k \in DOMAIN entries[g] /\ entries[g][k].chart = c
    BY <2>1, IndexProperties
  <2> HIDE DEF k
  <2>3. /\ Led(left, leader) /\ left \in Seq(Entries)
        /\ {left[i].chart : i \in DOMAIN left} = Members(g) \ {c}
    BY <1>1, <2>2, RemoveLeads DEF GroupInv, PrimaryLeads, Members
  <2> HIDE DEF left
  <2>4. ReportersLive'
    BY <1>1, <2>1 DEF ReportersLive, Detach
  <2>5. AtRestAsBefore({})
    BY <2>1 DEF AtRestAsBefore
  <2>6. ASSUME NEW h \in Groups, h # g PROVE Aligned(h)'
    <3>1. SameGroup(h) /\ strayed'[h] = strayed[h]
      BY <1>1, <2>1, <2>6 DEF SameGroup
    <3> QED BY <1>1, <2>5, <3>1, UnmovedAligned
  <2>7. Aligned(g)'
    <3>1. /\ entries'[g] = left /\ primary'[g] = leader /\ linked' = linked
          /\ strayed'[g] = IF leader # primary[g] /\ leader \in strayed[g]
                           THEN Members(g) \ {c} ELSE strayed[g] \ {c}
      BY <1>1, <2>1
    <3>2. Members(g)' = Members(g) \ {c}
      BY <2>3, <3>1 DEF Members
    <3> SUFFICES ASSUME linked'[g], NEW d \in Others(g)', d \notin strayed'[g]
                 PROVE  /\ charts'[d].live /\ charts'[primary'[g]].live
                        /\ Heading(charts'[d]) = Heading(charts'[primary'[g]])
      BY DEF Aligned
    <3>3. d \in Members(g) /\ d # c /\ d # leader /\ d \notin strayed[g]
      BY <3>1, <3>2 DEF Others
    <3>4. leader \in Members(g) \ {c}
      <4>1. left # <<>>
        <5>1. DOMAIN left # {}
          BY <2>3, <3>3
        <5> QED BY <5>1, <2>3, EmptySeq, LenProperties
      <4>2. 1 \in DOMAIN left
        BY <2>3, <4>1, EmptySeq, LenProperties
      <4>3. leader = left[1].chart
        BY <2>3, <4>1 DEF Led
      <4> QED BY <2>3, <4>2, <4>3
    <3>5. CASE primary[g] # c
      <4>1. leader = primary[g]
        BY <3>5
      <4> QED BY <1>1, <2>1, <3>1, <3>3, <4>1 DEF Aligned, Others
    <3>6. CASE primary[g] = c
      <4>1. leader # primary[g] /\ leader \notin strayed[g]
        BY <3>1, <3>2, <3>3, <3>4, <3>6
      <4> HIDE DEF leader
      <4>2. d \in Others(g) \ strayed[g] /\ leader \in Others(g) \ strayed[g]
        BY <3>3, <3>4, <3>6, <4>1 DEF Others
      <4> QED BY <1>1, <2>1, <3>1, <4>2 DEF Aligned
    <3> QED BY <3>5, <3>6
  <2> QED BY <2>4, <2>6, <2>7
<1>5. CASE Clear(g)
  <2>1. /\ Detach(Members(g)) /\ UNCHANGED <<charts, linked>>
        /\ entries' = [entries EXCEPT ![g] = <<>>]
        /\ primary' = [primary EXCEPT ![g] = Nobody]
        /\ strayed' = [strayed EXCEPT ![g] = {}]
    BY <1>5 DEF Clear
  <2>2. ReportersLive'
    BY <1>1, <2>1 DEF ReportersLive, Detach
  <2>3. AtRestAsBefore({})
    BY <2>1 DEF AtRestAsBefore
  <2>4. ASSUME NEW h \in Groups, h # g PROVE Aligned(h)'
    <3>1. SameGroup(h) /\ strayed'[h] = strayed[h]
      BY <1>1, <2>1, <2>4 DEF SameGroup
    <3> QED BY <1>1, <2>3, <3>1, UnmovedAligned
  <2>5. Aligned(g)'
    <3>1. entries'[g] = <<>> /\ DOMAIN <<>> = {}
      BY <1>1, <2>1, EmptySeq, LenProperties
    <3>2. Others(g)' = {}
      BY <3>1 DEF Others, Members
    <3> QED BY <3>2 DEF Aligned
  <2> QED BY <2>2, <2>4, <2>5
<1>6. CASE LinkXAxis(g)
  <2>1. /\ linked' = [linked EXCEPT ![g] = TRUE]
        /\ UNCHANGED <<entries, primary, observer>>
    BY <1>6 DEF LinkXAxis
  <2>2. CASE primary[g] = Nobody
    <3>1. UNCHANGED <<charts, strayed>>
      BY <1>6, <2>2 DEF LinkXAxis
    <3>2. AtRestAsBefore({}) /\ ReportersLive'
      BY <1>1, <2>1, <3>1 DEF AtRestAsBefore, ReportersLive
    <3>3. Members(g) = {}
      BY <1>1, <2>2, LeaderIsMember, NullsAssumption
    <3>4. Aligned(g)'
      BY <2>1, <3>3 DEF Aligned, Others, Members
    <3>5. ASSUME NEW h \in Groups, h # g PROVE Aligned(h)'
      <4>1. SameGroup(h)
        BY <1>1, <2>1, <3>5 DEF SameGroup
      <4> QED BY <1>1, <3>1, <3>2, <4>1, UnmovedAligned
    <3> QED BY <3>2, <3>4, <3>5
  <2>3. CASE primary[g] # Nobody
    <3> DEFINE x == Shown(charts[primary[g]])
    <3>1. primary[g] \in Charts /\ charts[primary[g]] \in Viewports /\ x \in Ranges
      BY <1>1, <2>3, ViewTypes
    <3>2. /\ charts' = PlaceAll(Others(g), x)
          /\ \A h \in Groups : h # g => strayed'[h] = Astray(h, Others(g))
          /\ strayed'[g] = IF Deaf(charts[primary[g]]) THEN Members(g)
                           ELSE DeafIn(Others(g))
      BY <1>6, <2>3 DEF LinkXAxis
    <3> HIDE DEF x
    <3>3. /\ AtRestAsBefore(Others(g))
          /\ \A c \in Charts : charts'[c].live = charts[c].live
          /\ \A c \in Others(g) \cap Charts : charts'[c] = Placed(charts[c], x)
          /\ \A c \in Charts \ Others(g) : charts'[c] = charts[c]
      BY <1>1, <3>1, <3>2, PlacedAtRest
    <3>4. ReportersLive'
      BY <1>1, <2>1, <3>3 DEF ReportersLive
    <3>5. ASSUME NEW h \in Groups, h # g PROVE Aligned(h)'
      <4>1. SameGroup(h)
        BY <1>1, <2>1, <3>5 DEF SameGroup
      <4> QED BY <1>1, <3>2, <3>3, <3>5, <4>1, StaysAligned
    <3>6. Aligned(g)'
      <4>1. CASE Deaf(charts[primary[g]])
        BY <2>1, <3>2, <4>1, AllAstray
      <4>2. CASE ~Deaf(charts[primary[g]])
        <5>1. charts'[primary[g]] = charts[primary[g]]
          BY <3>1, <3>3 DEF Others
        <5>2. charts[primary[g]].live /\ Heading(charts[primary[g]]) = x
          BY <4>2 DEF Deaf, Heading, x
        <5>3. \A d \in Others(g) : charts'[d] = Placed(charts[d], x)
          BY <1>2, <3>3 DEF Others
        <5>4. strayed'[g] = DeafIn(Others(g))
          BY <3>2, <4>2
        <5>5. entries'[g] = entries[g] /\ primary'[g] = primary[g]
          BY <2>1
        <5> QED BY <1>1, <3>1, <5>1, <5>2, <5>3, <5>4, <5>5, BroughtIntoLine
      <4> QED BY <4>1, <4>2
    <3> QED BY <3>4, <3>5, <3>6
  <2> QED BY <2>2, <2>3
<1>7. CASE UnlinkXAxis(g)
  <2>1. /\ linked' = [linked EXCEPT ![g] = FALSE]
        /\ UNCHANGED <<charts, strayed, entries, primary, observer>>
    BY <1>7 DEF UnlinkXAxis, chartVars
  <2>2. ReportersLive'
    BY <1>1, <2>1 DEF ReportersLive
  <2>3. \A h \in Groups : linked'[h] => linked[h]
    BY <1>1, <2>1
  <2>4. \A h \in Groups : Others(h)' = Others(h)
    BY <2>1 DEF Others, Members
  <2>5. ASSUME NEW h \in Groups PROVE Aligned(h)'
    BY <1>1, <2>1, <2>3, <2>4 DEF Aligned
  <2> QED BY <2>2, <2>5
<1>8. ASSUME NEW enabled \in BOOLEAN, SyncCursor(g, enabled)
      PROVE  ReportersLive' /\ \A h \in Groups : Aligned(h)'
  <2>1. UNCHANGED <<strayed, entries, primary, linked, observer>>
    BY <1>8 DEF SyncCursor
  <2>2. AtRestAsBefore({})
    <3>1. CASE enabled
      BY <1>8, <3>1 DEF SyncCursor, AtRestAsBefore
    <3>2. CASE ~enabled
      BY <1>1, <1>8, <3>2, CursorRests DEF SyncCursor
    <3> QED BY <3>1, <3>2
  <2> QED BY <2>1, <2>2, RestAligns
<1>9. ASSUME NEW r \in Ranges, SetPrimaryXAxis(g, r)
      PROVE  ReportersLive' /\ \A h \in Groups : Aligned(h)'
  <2> DEFINE S == IF linked[g] THEN Members(g) ELSE {primary[g]}
  <2>1. /\ primary[g] # Nobody /\ charts' = PlaceAll(S, r)
        /\ \A h \in Groups : h # g => strayed'[h] = Astray(h, S)
        /\ strayed'[g] = IF linked[g] /\ ~Deaf(charts[primary[g]])
                         THEN DeafIn(Others(g)) ELSE Members(g)
        /\ UNCHANGED <<groupVars, observer>>
    BY <1>9 DEF SetPrimaryXAxis
  <2>2. primary[g] \in Charts /\ charts[primary[g]] \in Viewports
    BY <1>1, <2>1
  <2>3. linked[g] => S = Members(g)
    OBVIOUS
  <2> HIDE DEF S
  <2>4. /\ AtRestAsBefore(S)
        /\ \A c \in Charts : charts'[c].live = charts[c].live
        /\ \A c \in S \cap Charts : charts'[c] = Placed(charts[c], r)
    BY <1>1, <2>1, PlacedAtRest
  <2>5. ReportersLive'
    BY <1>1, <2>1, <2>4 DEF ReportersLive
  <2>6. \A h \in Groups : SameGroup(h)
    BY <2>1 DEF SameGroup, groupVars
  <2>7. ASSUME NEW h \in Groups, h # g PROVE Aligned(h)'
    BY <1>1, <2>1, <2>4, <2>6, <2>7, StaysAligned
  <2>8. Aligned(g)'
    <3>1. CASE ~(linked[g] /\ ~Deaf(charts[primary[g]]))
      BY <2>1, <2>6, <3>1, AllAstray DEF SameGroup
    <3>2. CASE linked[g] /\ ~Deaf(charts[primary[g]])
      <4>1. CASE Others(g) = {}
        BY <2>1, <4>1 DEF Aligned, Others, Members, groupVars
      <4>2. CASE Others(g) # {}
        <5>1. primary[g] \in S \cap Charts
          BY <1>1, <2>3, <3>2, <4>2, LeaderIsMember DEF Others
        <5>2. /\ charts'[primary[g]].live
              /\ Heading(charts'[primary[g]]) = r
          BY <2>2, <2>4, <3>2, <5>1, Headings DEF Deaf
        <5>3. \A d \in Others(g) : charts'[d] = Placed(charts[d], r)
          BY <1>2, <2>3, <2>4, <3>2 DEF Others
        <5>4. strayed'[g] = DeafIn(Others(g))
          BY <2>1, <3>2
        <5> QED BY <1>1, <2>6, <5>2, <5>3, <5>4, BroughtIntoLine DEF SameGroup
      <4> QED BY <4>1, <4>2
    <3> QED BY <3>1, <3>2
  <2> QED BY <2>5, <2>7, <2>8
<1>10. ~\E role \in Roles : AddChart(g, Nobody, role)
  BY DEF AddChart, Accepts
<1> QED BY <1>3, <1>4, <1>5, <1>6, <1>7, <1>8, <1>9, <1>10 DEF GroupCalls

\* Every call of the host on a chart keeps linked charts together.
LEMMA ChartCallAligns ==
  ASSUME AgreeInv, NEW c \in Charts, ChartCalls(c)
  PROVE  ReportersLive' /\ \A g \in Groups : Aligned(g)'
<1>1. /\ TypeOK /\ ReportersLive /\ charts \in [Charts -> Viewports]
      /\ charts[c] \in Viewports /\ charts[c].home \in Ranges
  BY DEF AgreeInv, GroupInv, TypeOK, Viewports
<1>2. ASSUME NEW v \in Viewports, Silently(c, v), ViewFrame, charts[c].live => v.live
      PROVE  ReportersLive' /\ \A g \in Groups : Aligned(g)'
  BY <1>1, <1>2, SilenceAligns DEF ViewFrame, ReportersLive
<1>3. ASSUME NEW smooth \in SmoothInputs, EnableInteraction(c, smooth)
      PROVE  ReportersLive' /\ \A g \in Groups : Aligned(g)'
  <2>1. /\ EnabledAs(charts[c], smooth) \in Viewports
        /\ EnabledAs(charts[c], smooth).live
    BY <1>1, ViewTypes, HostAssumption DEF EnabledAs
  <2> QED BY <1>2, <1>3, <2>1 DEF EnableInteraction
<1>4. CASE DisableInteraction(c)
  <2>1. Silently(c, Disabled(charts[c])) /\ Detach({c}) /\ UNCHANGED groupVars
    BY <1>4 DEF DisableInteraction
  <2>2. /\ \A g \in Groups : Aligned(g)'
        /\ \A d \in Charts \ {c} : charts'[d] = charts[d]
    BY <2>1, SilenceAligns
  <2>3. ReportersLive'
    BY <1>1, <2>1, <2>2 DEF ReportersLive, Detach
  <2> QED BY <2>2, <2>3
<1>5. ASSUME NEW r \in HostRanges, SetAxis(c, r)
      PROVE  ReportersLive' /\ \A g \in Groups : Aligned(g)'
  <2>1. r \in Ranges /\ WithAxis(charts[c], r) \in Viewports
    BY <1>1, ViewTypes, HostAssumption
  <2>2. CASE charts[c].live
    <3>1. /\ charts' = [charts EXCEPT ![c] = WithAxis(@, r)]
          /\ UNCHANGED strayed /\ ViewFrame
      BY <1>5, <2>2 DEF SetAxis
    <3>2. AtRestAsBefore({})
      BY <1>1, <2>1, <2>2, <3>1, Headings DEF AtRestAsBefore
    <3> QED BY <3>1, <3>2, RestAligns DEF ViewFrame, groupVars
  <2>3. CASE ~charts[c].live
    BY <1>2, <1>5, <2>1, <2>3 DEF SetAxis
  <2> QED BY <2>2, <2>3
<1>6. ASSUME NEW r \in HostRanges, SetVisibleRange(c, r)
      PROVE  ReportersLive' /\ \A g \in Groups : Aligned(g)'
  <2>1. Placed(charts[c], r) \in Viewports /\ Placed(charts[c], r).live = charts[c].live
    BY <1>1, ViewTypes, Headings, HostAssumption
  <2> QED BY <1>2, <1>6, <2>1 DEF SetVisibleRange
<1>7. CASE ResetView(c)
  <2>1. /\ ResetHome(charts[c]) \in Viewports
        /\ ResetHome(charts[c]).live = charts[c].live
        /\ charts[c].live /\ ~RunsOn(c, ResetHome(charts[c]))
             => Heading(ResetHome(charts[c])) = charts[c].home
    <3>1. ASSUME NEW r \in Ranges
          PROVE  /\ MovedTo(charts[c], r) \in Viewports
                 /\ MovedTo(charts[c], r).live = charts[c].live
                 /\ charts[c].live /\ ~RunsOn(c, MovedTo(charts[c], r))
                      => Heading(MovedTo(charts[c], r)) = r
      BY <1>1, ViewTypes, Headings DEF RunsOn
    <3> QED BY <1>1, <3>1 DEF ResetHome
  <2>2. CASE charts[c].smooth
    BY <1>2, <1>7, <2>1, <2>2 DEF ResetView
  <2>3. CASE ~charts[c].smooth
    <3>1. Report(c, ResetHome(charts[c]), charts[c].home) /\ UNCHANGED <<groupVars, observer>>
      BY <1>7, <2>3 DEF ResetView, ViewFrame
    <3> HIDE DEF AgreeInv
    <3> QED BY <1>1, <2>1, <3>1, ReportAligns
  <2> QED BY <2>2, <2>3
<1> QED BY <1>3, <1>4, <1>5, <1>6, <1>7 DEF ChartCalls

\* Every input to a chart keeps linked charts together.
LEMMA ChartInputAligns ==
  ASSUME AgreeInv, NEW c \in Charts, ChartInput(c)
  PROVE  ReportersLive' /\ \A g \in Groups : Aligned(g)'
<1>1. /\ TypeOK /\ ReportersLive /\ charts \in [Charts -> Viewports]
      /\ charts[c] \in Viewports /\ charts[c].view \in Ranges
  BY DEF AgreeInv, GroupInv, TypeOK, Viewports
<1>2. ASSUME AtRestAsBefore({}), UNCHANGED <<strayed, groupVars, observer>>
      PROVE  ReportersLive' /\ \A g \in Groups : Aligned(g)'
  BY <1>2, RestAligns DEF groupVars
<1>3. UNCHANGED charts => AtRestAsBefore({})
  BY DEF AtRestAsBefore
<1>4. ASSUME NEW r \in Ranges, Zoom(c, r)
      PROVE  ReportersLive' /\ \A g \in Groups : Aligned(g)'
  <2>1. /\ MovedTo(charts[c], r) \in Viewports
        /\ MovedTo(charts[c], r).live = charts[c].live
        /\ charts[c].live /\ ~RunsOn(c, MovedTo(charts[c], r))
             => Heading(MovedTo(charts[c], r)) = r
    BY <1>1, ViewTypes, Headings DEF RunsOn
  <2>2. Report(c, MovedTo(charts[c], r), r) /\ UNCHANGED <<groupVars, observer>>
    BY <1>4 DEF Zoom, ViewFrame
  <2> QED BY <2>1, <2>2, ReportAligns
<1>5. ASSUME NEW r \in Ranges, MovePan(c, r)
      PROVE  ReportersLive' /\ \A g \in Groups : Aligned(g)'
  <2>1. Placed(charts[c], r).live = charts[c].live
    BY <1>1, Headings
  <2> QED BY <1>1, <1>5, <2>1, SilenceAligns DEF MovePan, ViewFrame, ReportersLive
<1>6. ASSUME NEW r \in Ranges, AnimationFrame(c, r)
      PROVE  ReportersLive' /\ \A g \in Groups : Aligned(g)'
  <2>1. AtRestAsBefore({})
    BY <1>1, <1>6, Headings DEF AnimationFrame, AtRestAsBefore
  <2> QED BY <1>2, <1>6, <2>1 DEF AnimationFrame
<1>7. CASE AnimationSettles(c)
  <2>1. AtRestAsBefore({})
    BY <1>1, <1>7, Headings DEF AnimationSettles, AtRestAsBefore
  <2> QED BY <1>2, <1>7, <2>1 DEF AnimationSettles
<1>8. CASE BeginPan(c) \/ DropPan(c)
  BY <1>2, <1>3, <1>8 DEF BeginPan, DropPan
<1>9. CASE EndPan(c)
  <2>1. /\ Report(c, charts[c], charts[c].view)
        /\ UNCHANGED <<groupVars, observer>>
    BY <1>9 DEF EndPan
  <2>2. charts[c].live /\ ~RunsOn(c, charts[c]) => Heading(charts[c]) = charts[c].view
    BY DEF RunsOn, Heading, Shown
  <2> QED BY <1>1, <2>1, <2>2, ReportAligns
<1>10. ASSUME NEW x \in Positions, CursorMoves(c, x)
       PROVE  ReportersLive' /\ \A g \in Groups : Aligned(g)'
  <2>1. AtRestAsBefore({})
    BY <1>1, <1>10, CursorRests DEF CursorMoves
  <2> QED BY <1>2, <1>10, <2>1 DEF CursorMoves
<1>11. CASE CursorInMargin(c)
  BY <1>2, <1>3, <1>11 DEF CursorInMargin, chartVars
<1>12. CASE CursorLeaves(c)
  <2>1. AtRestAsBefore({})
    <3>1. CASE charts[c].on
      BY <1>1, <1>12, <3>1, CursorRests DEF CursorLeaves
    <3>2. CASE ~charts[c].on
      BY <1>3, <1>12, <3>2 DEF CursorLeaves
    <3> QED BY <3>1, <3>2
  <2> QED BY <1>2, <1>12, <2>1 DEF CursorLeaves
<1> QED BY <1>4, <1>5, <1>6, <1>7, <1>8, <1>9, <1>10, <1>11, <1>12 DEF ChartInput

\* Linked charts show one range, or are on their way to it, in any number of
\* groups that share charts: whatever is done to them, only the named causes
\* (a chart's own animation, a pan, a placement by the host, a controller that
\* is not there) set one apart from the primary of its group.
THEOREM LinkedAgreement == Spec => []LinkedChartsAgree
<1>1. Init => AgreeInv
  <2> SUFFICES ASSUME Init PROVE AgreeInv
    OBVIOUS
  <2>1. \A g \in Groups : Members(g) = {}
    <3>1. DOMAIN <<>> = {}
      BY EmptySeq, LenProperties
    <3> QED BY <3>1 DEF Init, Members
  <2>2. ReportersLive /\ \A g \in Groups : Aligned(g)
    BY <2>1 DEF Init, ReportersLive, Aligned, Others
  <2> QED BY <2>2, GroupStarts DEF AgreeInv
<1>2. AgreeInv /\ [Next]_vars => AgreeInv'
  <2> SUFFICES ASSUME AgreeInv, [Next]_vars PROVE AgreeInv'
    OBVIOUS
  <2>1. GroupInv'
    BY GroupSteps DEF AgreeInv
  <2>2. ReportersLive' /\ \A g \in Groups : Aligned(g)'
    <3>1. CASE UNCHANGED vars
      <4>1. AtRestAsBefore({})
        BY <3>1 DEF AtRestAsBefore, vars, chartVars
      <4> QED BY <3>1, <4>1, RestAligns DEF vars, chartVars, groupVars
    <3>2. CASE Next
      BY <3>2, GroupCallAligns, ChartCallAligns, ChartInputAligns DEF Next
    <3> QED BY <3>1, <3>2
  <2>3. (\A g \in Groups : Aligned(g))'
    BY <2>2
  <2> QED BY <2>1, <2>2, <2>3 DEF AgreeInv
<1>3. AgreeInv => LinkedChartsAgree
  BY DEF AgreeInv, Aligned, LinkedChartsAgree
<1> QED BY <1>1, <1>2, <1>3, PTL DEF Spec

-----------------------------------------------------------------------------
(* Every chart implements ChartViewport *)

\* A step of ChartViewport from v to w, over the operators of this module.
ViewStep(v, w) ==
    \/ ~v.live /\ w \in {Materialised(v), Attached(v)}
    \/ \E smooth \in BOOLEAN : w = EnabledAs(v, smooth)
    \/ v.live /\ w = Disabled(v)
    \/ \E r \in Ranges : w = WithAxis(v, r)
    \/ v.live /\ \E r \in Ranges : w = Placed(v, r)
    \/ v.live /\ w = ResetHome(v)
    \/ v.on /\ \E r \in Ranges : w = MovedTo(v, r)
    \/ v.on /\ v.moving /\ w = Settled(v)

\* Every chart makes a step of its own, or none.
EachSteps == \A c \in Charts : charts'[c] = charts[c] \/ ViewStep(charts[c], charts'[c])

\* A step of one chart of a group is a step of a chart that stands alone.
LEMMA ViewStepIsNext ==
  ASSUME NEW c \in Charts, ViewStep(charts[c], charts'[c])
  PROVE  View(c)!Next
<1> DEFINE v == charts[c]
<1>1. /\ View(c)!Materialised(v) = Materialised(v) /\ View(c)!Attached(v) = Attached(v)
      /\ View(c)!Disabled(v) = Disabled(v) /\ View(c)!ResetHome(v) = ResetHome(v)
      /\ View(c)!Settled(v) = Settled(v)
      /\ \A smooth : View(c)!EnabledAs(v, smooth) = EnabledAs(v, smooth)
      /\ \A r : /\ View(c)!WithAxis(v, r) = WithAxis(v, r)
                /\ View(c)!Placed(v, r) = Placed(v, r)
                /\ View(c)!MovedTo(v, r) = MovedTo(v, r)
  BY DEF View!Materialised, Materialised, View!Attached, Attached, View!Disabled,
         Disabled, View!Without, Without, View!ResetHome, ResetHome, View!MovedTo,
         MovedTo, View!Settled, Settled, View!EnabledAs, EnabledAs, View!WithAxis,
         WithAxis, View!Placed, Placed
<1> QED
  BY <1>1 DEF ViewStep, View!Next, View!Create, View!Enable, View!Disable,
              View!Configure, View!Place, View!Reset, View!Zoom, View!Settle

\* One chart steps and the others stay.
LEMMA OneSteps ==
  ASSUME TypeOK, NEW c \in Charts, NEW v, charts' = [charts EXCEPT ![c] = v],
         v = charts[c] \/ ViewStep(charts[c], v)
  PROVE  EachSteps
BY DEF TypeOK, EachSteps

\* Whoever is placed is live, or is not placed.
LEMMA PlacedSteps ==
  ASSUME NEW v, NEW r \in Ranges
  PROVE  Placed(v, r) = v \/ ViewStep(v, Placed(v, r))
BY DEF Placed, ViewStep

\* on_view_changed, link_x_axis and set_primary_x_axis.
LEMMA PlaceAllSteps ==
  ASSUME NEW S, NEW x \in Ranges, charts' = PlaceAll(S, x)
  PROVE  EachSteps
BY PlacedSteps DEF PlaceAll, EachSteps

\* A chart reports to the charts it leads.
LEMMA ReportSteps ==
  ASSUME NEW c \in Charts, NEW v, NEW x \in Ranges, Report(c, v, x),
         v = charts[c] \/ ViewStep(charts[c], v)
  PROVE  EachSteps
<1>1. charts' = [PlaceAll(Followers(c), x) EXCEPT ![c] = v]
  BY DEF Report
<1>2. ASSUME NEW d \in Charts
      PROVE  charts'[d] = IF d = c THEN v
                          ELSE IF d \in Followers(c) THEN Placed(charts[d], x) ELSE charts[d]
  BY <1>1 DEF PlaceAll
<1> QED BY <1>2, PlacedSteps DEF EachSteps

\* set_external_cursor_x only creates the controllers that are missing.
LEMMA ShowCursorSteps ==
  ASSUME TypeOK, NEW S, NEW x, ShowCursor(S, x)
  PROVE  EachSteps
<1>1. ASSUME NEW v \in Viewports
      PROVE  Materialised(v) = v \/ ViewStep(v, Materialised(v))
  <2>1. CASE v.live
    BY <2>1 DEF Viewports, Materialised
  <2>2. CASE ~v.live
    BY <2>2 DEF ViewStep
  <2> QED BY <2>1, <2>2
<1> QED BY <1>1 DEF TypeOK, ShowCursor, EachSteps

\* What the owner of a group asks of it is one such step of each chart, or none.
LEMMA GroupCallViews ==
  ASSUME TypeOK, NEW g \in Groups, GroupCalls(g)
  PROVE  EachSteps
<1>1. CASE UNCHANGED charts
  BY <1>1 DEF EachSteps
<1>2. ASSUME NEW c \in Charts \cup {Nobody}, NEW role \in Roles, AddChart(g, c, role)
      PROVE  EachSteps
  <2>1. c \in Charts /\ charts' = [charts EXCEPT ![c] = Attached(charts[c])]
    BY <1>2 DEF AddChart, Accepts
  <2>2. Attached(charts[c]) = charts[c] \/ ViewStep(charts[c], Attached(charts[c]))
    BY DEF Attached, ViewStep
  <2> QED BY <2>1, <2>2, OneSteps
<1>3. CASE LinkXAxis(g)
  <2>1. CASE primary[g] = Nobody
    BY <1>1, <1>3, <2>1 DEF LinkXAxis
  <2>2. CASE primary[g] # Nobody
    <3>1. Shown(charts[primary[g]]) \in Ranges
      BY <2>2, ViewTypes DEF TypeOK
    <3> QED BY <1>3, <2>2, <3>1, PlaceAllSteps DEF LinkXAxis
  <2> QED BY <2>1, <2>2
<1>4. ASSUME NEW enabled \in BOOLEAN, SyncCursor(g, enabled) PROVE EachSteps
  BY <1>1, <1>4, ShowCursorSteps DEF SyncCursor
<1>5. ASSUME NEW r \in Ranges, SetPrimaryXAxis(g, r) PROVE EachSteps
  BY <1>5, PlaceAllSteps DEF SetPrimaryXAxis
<1>6. CASE (\E c \in Charts : RemoveChart(g, c)) \/ Clear(g) \/ UnlinkXAxis(g)
  BY <1>1, <1>6 DEF RemoveChart, Clear, UnlinkXAxis, chartVars
<1> QED BY <1>2, <1>3, <1>4, <1>5, <1>6 DEF GroupCalls

\* So is what the owner of a chart asks of that chart.
LEMMA ChartCallViews ==
  ASSUME TypeOK, NEW c \in Charts, ChartCalls(c)
  PROVE  EachSteps
<1>1. charts[c] \in Viewports
  BY DEF TypeOK
<1>2. ASSUME NEW smooth \in SmoothInputs, EnableInteraction(c, smooth) PROVE EachSteps
  <2>1. ViewStep(charts[c], EnabledAs(charts[c], smooth))
    BY HostAssumption DEF ViewStep
  <2> QED BY <1>2, <2>1, OneSteps DEF EnableInteraction, Silently
<1>3. CASE DisableInteraction(c)
  <2>1. ViewStep(charts[c], Disabled(charts[c]))
    BY <1>3 DEF DisableInteraction, ViewStep
  <2> QED BY <1>3, <2>1, OneSteps DEF DisableInteraction, Silently
<1>4. ASSUME NEW r \in HostRanges, SetAxis(c, r) PROVE EachSteps
  <2>1. charts' = [charts EXCEPT ![c] = WithAxis(charts[c], r)]
    BY <1>4 DEF SetAxis, Silently
  <2>2. ViewStep(charts[c], WithAxis(charts[c], r))
    BY HostAssumption DEF ViewStep
  <2> QED BY <2>1, <2>2, OneSteps
<1>5. ASSUME NEW r \in HostRanges, SetVisibleRange(c, r) PROVE EachSteps
  BY <1>5, HostAssumption, PlacedSteps, OneSteps DEF SetVisibleRange, Silently
<1>6. CASE ResetView(c)
  <2>1. ViewStep(charts[c], ResetHome(charts[c])) /\ charts[c].home \in Ranges
    BY <1>1, <1>6 DEF ResetView, ViewStep, Viewports
  <2> QED BY <1>6, <2>1, OneSteps, ReportSteps DEF ResetView, Silently
<1> QED BY <1>2, <1>3, <1>4, <1>5, <1>6 DEF ChartCalls

\* And what the user does to it, which the group may pass on to the others.
LEMMA ChartInputViews ==
  ASSUME TypeOK, NEW c \in Charts, ChartInput(c)
  PROVE  EachSteps
<1>1. charts[c] \in Viewports
  BY DEF TypeOK
<1>2. CASE UNCHANGED charts
  BY <1>2 DEF EachSteps
<1>3. ASSUME NEW r \in Ranges, Zoom(c, r) PROVE EachSteps
  <2>1. ViewStep(charts[c], MovedTo(charts[c], r))
    BY <1>3 DEF Zoom, ViewStep
  <2> QED BY <1>3, <2>1, ReportSteps DEF Zoom
<1>4. ASSUME NEW r \in Ranges, MovePan(c, r) \/ AnimationFrame(c, r) PROVE EachSteps
  <2>1. charts' = [charts EXCEPT ![c] = Placed(charts[c], r)]
    BY <1>4 DEF MovePan, AnimationFrame, Silently
  <2> QED BY <2>1, PlacedSteps, OneSteps
<1>5. CASE AnimationSettles(c)
  <2>1. ViewStep(charts[c], Settled(charts[c]))
    BY <1>5 DEF AnimationSettles, ViewStep
  <2> QED BY <1>5, <2>1, OneSteps DEF AnimationSettles
<1>6. CASE EndPan(c)
  <2>1. charts[c].view \in Ranges
    BY <1>1 DEF Viewports
  <2> QED BY <1>6, <2>1, ReportSteps DEF EndPan
<1>7. ASSUME NEW x \in Positions, CursorMoves(c, x) PROVE EachSteps
  BY <1>7, ShowCursorSteps DEF CursorMoves
<1>8. CASE CursorLeaves(c)
  BY <1>2, <1>8, ShowCursorSteps DEF CursorLeaves
<1>9. CASE BeginPan(c) \/ DropPan(c) \/ CursorInMargin(c)
  BY <1>2, <1>9 DEF BeginPan, DropPan, CursorInMargin, chartVars
<1> QED BY <1>3, <1>4, <1>5, <1>6, <1>7, <1>8, <1>9 DEF ChartInput

\* Charts of any number of groups, linked and unlinked, joining and leaving:
\* the view of each obeys the specification of one chart on its own.
THEOREM ChartsKeepTheirPromise == Spec => ChartsImplementViewport
<1> DEFINE Obeyed == \A c \in Charts : UNCHANGED charts[c] \/ View(c)!Next
           Started == \A c \in Charts : View(c)!Init
<1>1. Init => Started
  BY DEF Init, View!Init, View!Blank, View!Without, Blank, Without
<1>2. TypeOK /\ [Next]_vars => [Obeyed]_charts
  <2> SUFFICES ASSUME TypeOK, [Next]_vars PROVE EachSteps
    BY ViewStepIsNext DEF EachSteps
  <2>1. CASE Next
    BY <2>1, GroupCallViews, ChartCallViews, ChartInputViews DEF Next
  <2>2. CASE UNCHANGED vars
    BY <2>2 DEF vars, chartVars, EachSteps
  <2> QED BY <2>1, <2>2
<1>3. ChartsImplementViewport <=> Started /\ [][Obeyed]_charts
  BY PTL DEF ChartsImplementViewport
<1> QED BY GroupTypeCorrect, <1>1, <1>2, <1>3, PTL DEF Spec
=============================================================================
