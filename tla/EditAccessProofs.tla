--------------------------- MODULE EditAccessProofs ---------------------------
(***************************************************************************)
(* Type correctness, the position of every version list and the count of   *)
(* changed observations, for every number of observations, requests and    *)
(* versions.  All three follow from one inductive invariant: whatever the  *)
(* user has edited, in place or swapped out for a save, is a Layer.        *)
(***************************************************************************)
EXTENDS EditAccess, SequenceTheorems, WellFoundedInduction, FiniteSetTheorems, TLAPS

-----------------------------------------------------------------------------
(* One version list: what the operations of EditVersions do to a list that *)
(* shows its last entry not younger than a given version.                  *)
(* An entry that is not what the backend holds. *)
IsEdit(e) == e.version > 0 /\ e.data \in Val

(* A version list when the EditAccess is at version n and redo can reach   *)
(* version high: PointerMatches for one list, with its type; below the     *)
(* first entry there are edits only.                                       *)
ListOK(ev, n, high) ==
  /\ ev \in VersionList
  /\ ev.current \in 1 .. Len(ev.versions)
  /\ ev.versions[1].version = 0
  /\ \A i, k \in 1 .. Len(ev.versions) :
       i < k => ev.versions[i].version <= ev.versions[k].version
  /\ \A i \in 1 .. Len(ev.versions) :
       ev.versions[i].version <= n <=> i <= ev.current
  /\ \A i \in 1 .. Len(ev.versions) : ev.versions[i].version <= high
  /\ \A i \in 1 .. Len(ev.versions) : i > 1 => IsEdit(ev.versions[i])

(* What the fields of a version list are. *)
LEMMA ListTypes ==
  ASSUME NEW ev, NEW n, NEW high, ListOK(ev, n, high)
  PROVE  /\ ev.versions \in Seq(Version) /\ Len(ev.versions) \in Nat
         /\ ev.current \in Nat
         /\ DOMAIN ev.versions = 1 .. Len(ev.versions)
         /\ \A i \in 1 .. Len(ev.versions) :
              /\ ev.versions[i] \in Version
              /\ ev.versions[i].version \in Nat /\ ev.versions[i].data \in Data
         /\ CurrentVersion(ev) \in Nat
         /\ ev = [versions |-> ev.versions, current |-> ev.current]
<1>1. ev.versions \in Seq(Version) /\ ev.current \in Nat
  BY DEF ListOK, VersionList
<1>2. Len(ev.versions) \in Nat /\ DOMAIN ev.versions = 1 .. Len(ev.versions)
  BY <1>1, LenProperties
<1>3. ASSUME NEW i \in 1 .. Len(ev.versions)
      PROVE  /\ ev.versions[i] \in Version
             /\ ev.versions[i].version \in Nat /\ ev.versions[i].data \in Data
  <2>1. ev.versions[i] \in Version
    BY <1>1, ElementOfSeq
  <2> QED  BY <2>1 DEF Version
<1>4. CurrentVersion(ev) \in Nat
  BY <1>3 DEF ListOK, CurrentVersion
<1>5. ev = [versions |-> ev.versions, current |-> ev.current]
  BY DEF ListOK, VersionList
<1> QED  BY <1>1, <1>2, <1>3, <1>4, <1>5

(* How a list is shown to be well formed. *)
LEMMA ListIntro ==
  ASSUME NEW vs \in Seq(Version), NEW c \in 1 .. Len(vs), NEW n, NEW high,
         vs[1].version = 0,
         \A i, k \in 1 .. Len(vs) : i < k => vs[i].version <= vs[k].version,
         \A i \in 1 .. Len(vs) : vs[i].version <= n <=> i <= c,
         \A i \in 1 .. Len(vs) : vs[i].version <= high,
         \A i \in 1 .. Len(vs) : i > 1 => IsEdit(vs[i])
  PROVE  /\ ListOK([versions |-> vs, current |-> c], n, high)
         /\ CurrentVersion([versions |-> vs, current |-> c]) = vs[c].version
<1> DEFINE r == [versions |-> vs, current |-> c]
<1>1. r.versions = vs /\ r.current = c
  OBVIOUS
<1>2. r \in VersionList
  <2>1. Len(vs) \in Nat
    BY LenProperties
  <2> QED  BY <2>1 DEF VersionList
<1> HIDE DEF r
<1>3. ListOK(r, n, high) /\ CurrentVersion(r) = vs[c].version
  BY <1>1, <1>2 DEF ListOK, CurrentVersion
<1> QED  BY <1>3 DEF r

(* A non-empty set of positions has a last one. *)
LEMMA LastPosition ==
  ASSUME NEW n \in Nat, NEW S, S \subseteq 1 .. n, S # {}
  PROVE  \E m \in S : \A k \in S : k <= m
<1> DEFINE T == {i \in Nat : n - i \in S}
           R == {ss \in Nat \X Nat : ss[1] < ss[2]}
<1>0. IsWellFoundedOn(R, Nat)
  <2>1. R = OpToRel(<, Nat)
    BY DEF OpToRel
  <2> QED  BY <2>1, NatLessThanWellFounded
<1>1. T \subseteq Nat
  OBVIOUS
<1>2. T # {}
  <2>1. PICK k \in S : TRUE
    OBVIOUS
  <2>2. n - k \in Nat /\ n - (n - k) = k
    OBVIOUS
  <2> QED  BY <2>1, <2>2
<1>3. PICK t \in T : \A u \in T : ~ (<< u, t >> \in R)
  <2> HIDE DEF T, R
  <2> QED  BY <1>0, <1>1, <1>2, WFMin
<1>4. \A u \in T : t <= u
  <2> SUFFICES ASSUME NEW u \in T PROVE ~ (u < t)
    OBVIOUS
  <2>1. << u, t >> \notin R /\ << u, t >> \in Nat \X Nat
    BY <1>3
  <2> QED  BY <2>1
<1>5. ASSUME NEW k \in S PROVE k <= n - t
  <2>1. n - k \in Nat /\ n - (n - k) = k
    OBVIOUS
  <2>2. n - k \in T
    BY <2>1
  <2> QED  BY <1>4, <2>1, <2>2
<1> QED  BY <1>5

(* The constructor makes a list that shows the first edit. *)
LEMMA NewVersionsOK ==
  ASSUME NEW b \in Data, NEW n \in Nat \ {0}, NEW d \in Val
  PROVE  /\ ListOK(NewVersions(b, n, d), n, n)
         /\ CurrentVersion(NewVersions(b, n, d)) = n
         /\ CurrentData(NewVersions(b, n, d)) = d
         /\ BackendData(NewVersions(b, n, d)) = b
<1> DEFINE vs == << [version |-> 0, data |-> b], [version |-> n, data |-> d] >>
<1>1. vs \in Seq(Version) /\ Len(vs) = 2
  BY DEF Version, Data
<1>2. NewVersions(b, n, d) = [versions |-> vs, current |-> 2]
  BY DEF NewVersions
<1>3. /\ vs[1].version = 0 /\ vs[1].data = b
      /\ vs[2].version = n /\ vs[2].data = d
  OBVIOUS
<1> HIDE DEF vs
<1>4. \A i \in 1 .. 2 : i = 1 \/ i = 2
  OBVIOUS
<1>5. \A i \in 1 .. 2 : vs[i].version <= n
  BY <1>3, <1>4
<1>6. \A i, k \in 1 .. 2 : i < k => vs[i].version <= vs[k].version
  BY <1>3, <1>4
<1>7. /\ ListOK([versions |-> vs, current |-> 2], n, n)
      /\ CurrentVersion([versions |-> vs, current |-> 2]) = vs[2].version
  <2>1. /\ 2 \in 1 .. Len(vs)
        /\ \A i \in 1 .. Len(vs) : vs[i].version <= n <=> i <= 2
        /\ \A i \in 1 .. Len(vs) : vs[i].version <= n
    BY <1>1, <1>5
  <2>2. \A i, k \in 1 .. Len(vs) : i < k => vs[i].version <= vs[k].version
    BY <1>1, <1>6
  <2>3. \A i \in 1 .. Len(vs) : i > 1 => IsEdit(vs[i])
    BY <1>1, <1>3, <1>4 DEF IsEdit
  <2> QED  BY <1>1, <1>3, <2>1, <2>2, <2>3, ListIntro
<1>8. d # NoData
  BY ValAssumption
<1> QED  BY <1>2, <1>3, <1>7, <1>8 DEF CurrentData, BackendData

(* addVersion on a list at version n forgets what redo could reach and     *)
(* shows the new entry.                                                    *)
LEMMA AddVersionOK ==
  ASSUME NEW n \in Nat \ {0}, NEW high, NEW ev, ListOK(ev, n, high), NEW d \in Val
  PROVE  LET added == AddVersion(ev, n, d)
         IN  /\ ListOK(added, n, n) /\ CurrentVersion(added) = n
             /\ CurrentData(added) = d /\ BackendData(added) = BackendData(ev)
             /\ Len(added.versions) = ev.current + 1
             /\ \A i \in 1 .. ev.current : added.versions[i] = ev.versions[i]
             /\ added.versions[ev.current + 1].version = n
             /\ added.versions[ev.current + 1].data = d
<1> DEFINE e == [version |-> n, data |-> d]
           c == ev.current
           kept == SubSeq(ev.versions, 1, c)
           vs == Append(kept, e)
<1>1. /\ c \in 1 .. Len(ev.versions) /\ Len(ev.versions) \in Nat
      /\ \A i \in 1 .. Len(ev.versions) : ev.versions[i] \in Version
  BY ListTypes DEF ListOK
<1>2. n >= CurrentVersion(ev)
  BY <1>1, ListTypes DEF ListOK, CurrentVersion
<1>3. AddVersion(ev, n, d) = [versions |-> vs, current |-> Len(kept) + 1]
  BY <1>2 DEF AddVersion
<1>4. /\ kept \in Seq(Version) /\ Len(kept) = c
      /\ \A i \in 1 .. c : kept[i] = ev.versions[i]
  BY <1>1, SubSeqProperties, \A i \in 1 .. c : ev.versions[i] \in Version
<1>5. /\ vs \in Seq(Version) /\ Len(vs) = c + 1
      /\ \A i \in 1 .. c : vs[i] = ev.versions[i]
      /\ vs[c + 1] = e
  <2>1. e \in Version
    BY DEF Version, Data
  <2> QED  BY <1>1, <1>4, <2>1, AppendProperties
<1> HIDE DEF vs, kept
<1>6. ASSUME NEW i \in 1 .. c
      PROVE  vs[i].version \in Nat /\ vs[i].version <= n
  <2>1. i \in 1 .. Len(ev.versions) /\ i <= ev.current
    BY <1>1
  <2>2. vs[i] = ev.versions[i]
    BY <1>5
  <2>3. ev.versions[i].version \in Nat
    BY <2>1, ListTypes
  <2>4. ev.versions[i].version <= n
    BY <2>1 DEF ListOK
  <2> QED  BY <2>2, <2>3, <2>4
<1>7. ASSUME NEW i \in 1 .. c, NEW k \in 1 .. c, i < k
      PROVE  vs[i].version <= vs[k].version
  <2>1. i \in 1 .. Len(ev.versions) /\ k \in 1 .. Len(ev.versions)
    BY <1>1
  <2>2. ev.versions[i].version <= ev.versions[k].version
    BY <1>7, <2>1 DEF ListOK
  <2> QED  BY <1>5, <2>2
<1>8. vs[1].version = 0 /\ vs[c + 1].version = n
  <2>1. 1 \in 1 .. c /\ ev.versions[1].version = 0
    BY <1>1 DEF ListOK
  <2>2. vs[1] = ev.versions[1] /\ vs[c + 1].version = n
    BY <1>5, <2>1
  <2> QED  BY <2>1, <2>2
<1>9. ASSUME NEW i \in 1 .. c + 1, NEW k \in 1 .. c + 1, i < k
      PROVE  vs[i].version <= vs[k].version
  <2>1. i \in 1 .. c
    BY <1>1, <1>9
  <2>2. CASE k \in 1 .. c
    BY <1>7, <1>9, <2>1, <2>2
  <2>3. CASE k = c + 1
    BY <1>6, <1>8, <2>1, <2>3
  <2> QED  BY <1>1, <2>2, <2>3
<1>10. \A i \in 1 .. c + 1 : vs[i].version <= n
  BY <1>1, <1>6, <1>8
<1>11. /\ ListOK([versions |-> vs, current |-> c + 1], n, n)
       /\ CurrentVersion([versions |-> vs, current |-> c + 1]) = vs[c + 1].version
  <2>1. /\ c + 1 \in 1 .. Len(vs)
        /\ \A i \in 1 .. Len(vs) : vs[i].version <= n <=> i <= c + 1
        /\ \A i \in 1 .. Len(vs) : vs[i].version <= n
    BY <1>1, <1>5, <1>10
  <2>2. \A i, k \in 1 .. Len(vs) : i < k => vs[i].version <= vs[k].version
    BY <1>5, <1>9
  <2>3. ASSUME NEW i \in 1 .. Len(vs), i > 1 PROVE IsEdit(vs[i])
    <3>1. CASE i = c + 1
      BY <1>5, <3>1 DEF IsEdit
    <3>2. CASE i # c + 1
      <4>1. i \in 1 .. c /\ i \in 1 .. Len(ev.versions)
        BY <1>1, <1>5, <3>2
      <4>2. IsEdit(ev.versions[i])
        BY <2>3, <4>1 DEF ListOK
      <4> QED  BY <1>5, <4>1, <4>2
    <3> QED  BY <3>1, <3>2
  <2> HIDE DEF c
  <2> QED  BY <1>5, <1>8, <2>1, <2>2, <2>3, ListIntro
<1>12. CurrentData([versions |-> vs, current |-> c + 1]) = d
  BY <1>5, ValAssumption DEF CurrentData
<1>13. BackendData([versions |-> vs, current |-> c + 1]) = BackendData(ev)
  BY <1>1, <1>5 DEF BackendData
<1> QED  BY <1>3, <1>4, <1>5, <1>8, <1>11, <1>12, <1>13

(* setVersion, to a version below or above the one of the list, shows the  *)
(* last entry that is not younger than the version.                        *)
LEMMA SetVersionOK ==
  ASSUME NEW n \in Nat, NEW m \in Nat, NEW high, NEW ev, ListOK(ev, n, high)
  PROVE  /\ ListOK(SetVersion(ev, m), m, high)
         /\ SetVersion(ev, m).versions = ev.versions
<1> DEFINE vs == ev.versions
           c == ev.current
           L == Len(ev.versions)
           r == SetVersion(ev, m).current
<1>1. /\ L \in Nat /\ c \in 1 .. L /\ vs \in Seq(Version)
      /\ \A i \in 1 .. L : vs[i].version \in Nat
      /\ vs[1].version = 0 /\ CurrentVersion(ev) = vs[c].version
  BY ListTypes DEF ListOK, CurrentVersion
<1>2. ASSUME NEW i \in 1 .. L, NEW k \in 1 .. L, i <= k
      PROVE  vs[i].version <= vs[k].version
  <2>1. CASE i = k
    BY <1>1, <2>1
  <2>2. CASE i < k
    BY <2>2 DEF ListOK
  <2> QED  BY <1>2, <2>1, <2>2
<1>3. SetVersion(ev, m) = [versions |-> vs, current |-> r]
  BY ListTypes DEF SetVersion
<1> HIDE DEF vs, c, L
<1>4. r \in 1 .. L /\ \A i \in 1 .. L : vs[i].version <= m <=> i <= r
  <2>1. CASE m < vs[c].version
    <3> DEFINE S == {i \in 1 .. c : vs[i].version <= m}
               OK(i) == /\ i = 1 \/ vs[i].version <= m
                        /\ \A k \in (i + 1) .. c : vs[k].version > m
    <3>1. r = CHOOSE i \in 1 .. c : OK(i)
      <4>1. r = StepBack(ev, m)
        BY <1>1, <2>1, ListTypes DEF SetVersion
      <4>2. StepBack(ev, m) = CHOOSE i \in 1 .. c : OK(i)
        BY DEF StepBack, vs, c
      <4> QED  BY <4>1, <4>2
    <3>2. 1 \in S
      BY <1>1
    <3>3. PICK p \in S : \A k \in S : k <= p
      <4>1. c \in Nat /\ S \subseteq 1 .. c /\ S # {}
        BY <1>1, <3>2
      <4> HIDE DEF S
      <4> QED  BY <4>1, LastPosition
    <3>4. p \in 1 .. c /\ OK(p)
      <4>1. ASSUME NEW k \in (p + 1) .. c PROVE vs[k].version > m
        <5>1. k \in 1 .. c /\ k \notin S
          BY <1>1, <3>3
        <5>2. vs[k].version \in Nat /\ ~ (vs[k].version <= m)
          BY <1>1, <5>1
        <5> QED  BY <5>2
      <4> QED  BY <3>3, <4>1
    <3>5. r \in 1 .. c /\ OK(r)
      <4> HIDE DEF OK, r
      <4> QED  BY <3>1, <3>4
    <3> HIDE DEF r
    <3>6. vs[r].version <= m
      BY <1>1, <3>5
    <3>7. ASSUME NEW i \in 1 .. L, i <= r PROVE vs[i].version <= m
      <4>1. r \in 1 .. L /\ vs[i].version \in Nat /\ vs[r].version \in Nat
        BY <1>1, <3>5
      <4>2. vs[i].version <= vs[r].version
        BY <1>2, <3>7, <4>1
      <4> QED  BY <3>6, <4>1, <4>2
    <3>8. ASSUME NEW i \in 1 .. L, r < i PROVE vs[i].version > m
      <4>1. CASE i <= c
        <5>1. i \in (r + 1) .. c
          BY <1>1, <3>5, <3>8, <4>1
        <5> QED  BY <3>5, <5>1
      <4>2. CASE c < i
        <5>1. vs[c].version <= vs[i].version
          BY <1>1, <1>2, <4>2
        <5> QED  BY <1>1, <2>1, <5>1
      <4> QED  BY <1>1, <4>1, <4>2
    <3> QED  BY <1>1, <3>5, <3>7, <3>8
  <2>2. CASE ~ (m < vs[c].version)
    <3> DEFINE S == {i \in 1 .. L : vs[i].version <= m}
               OK(i) == /\ i = L \/ vs[i + 1].version > m
                        /\ \A k \in (c + 1) .. i : vs[k].version <= m
    <3>1. r = CHOOSE i \in c .. L : OK(i)
      <4>1. r = StepForward(ev, m)
        BY <1>1, <2>2, ListTypes DEF SetVersion
      <4>2. StepForward(ev, m) = CHOOSE i \in c .. L : OK(i)
        BY DEF StepForward, vs, c, L
      <4> QED  BY <4>1, <4>2
    <3>2. c \in S
      BY <1>1, <2>2
    <3>3. PICK p \in S : \A k \in S : k <= p
      <4>1. S \subseteq 1 .. L /\ S # {}
        BY <3>2
      <4> HIDE DEF S
      <4> QED  BY <1>1, <4>1, LastPosition
    <3>4. p \in c .. L /\ OK(p)
      <4>1. ASSUME NEW k \in (c + 1) .. p PROVE vs[k].version <= m
        <5>1. k \in 1 .. L /\ k <= p /\ p \in 1 .. L /\ vs[p].version <= m
          BY <1>1, <3>3
        <5>2. vs[k].version <= vs[p].version
          BY <1>2, <5>1
        <5> QED  BY <1>1, <5>1, <5>2
      <4>2. CASE p # L
        <5>1. p + 1 \in 1 .. L /\ p + 1 \notin S
          BY <1>1, <3>3, <4>2
        <5>2. vs[p + 1].version > m
          BY <1>1, <5>1
        <5> QED  BY <1>1, <3>2, <3>3, <4>1, <5>2
      <4>3. CASE p = L
        BY <1>1, <3>2, <3>3, <4>1, <4>3
      <4> QED  BY <4>2, <4>3
    <3>5. r \in c .. L /\ OK(r)
      <4> HIDE DEF OK, r
      <4> QED  BY <3>1, <3>4
    <3> HIDE DEF r
    <3>6. ASSUME NEW i \in 1 .. L, i <= r PROVE vs[i].version <= m
      <4>1. CASE i <= c
        <5>1. vs[i].version <= vs[c].version
          BY <1>1, <1>2, <4>1
        <5> QED  BY <1>1, <2>2, <5>1
      <4>2. CASE c < i
        <5>1. i \in (c + 1) .. r
          BY <1>1, <3>5, <3>6, <4>2
        <5> QED  BY <3>5, <5>1
      <4> QED  BY <1>1, <4>1, <4>2
    <3>7. ASSUME NEW i \in 1 .. L, r < i PROVE vs[i].version > m
      <4>1. r + 1 \in 1 .. L /\ vs[r + 1].version > m /\ r + 1 <= i
        BY <1>1, <3>5, <3>7
      <4>2. vs[r + 1].version <= vs[i].version
        BY <1>2, <4>1
      <4> QED  BY <1>1, <4>1, <4>2
    <3> QED  BY <1>1, <3>5, <3>6, <3>7
  <2> QED  BY <2>1, <2>2
<1>5. \A i, k \in 1 .. L : i < k => vs[i].version <= vs[k].version
  BY <1>1, <1>2
<1>6. \A i \in 1 .. L : vs[i].version <= high /\ (i > 1 => IsEdit(vs[i]))
  BY DEF ListOK, vs, L
<1> HIDE DEF r
<1>7. ListOK([versions |-> vs, current |-> r], m, high)
  <2>1. L = Len(vs)
    BY DEF L, vs
  <2> QED  BY <1>1, <1>4, <1>5, <1>6, <2>1, ListIntro
<1> QED  BY <1>3, <1>7 DEF vs

(* dropVersionsFrom for the version after the one of the list cuts off     *)
(* exactly what redo could have reached.                                   *)
LEMMA DropVersionsFromOK ==
  ASSUME NEW n \in Nat, NEW high, NEW ev, ListOK(ev, n, high)
  PROVE  LET left == DropVersionsFrom(ev, n + 1)
         IN  /\ ListOK(left, n + 1, n + 1) /\ CurrentVersion(left) = CurrentVersion(ev)
             /\ CurrentData(left) = CurrentData(ev) /\ BackendData(left) = BackendData(ev)
             /\ Len(left.versions) = ev.current
             /\ \A i \in 1 .. ev.current : left.versions[i] = ev.versions[i]
<1> DEFINE c == ev.current
           L == Len(ev.versions)
           kept == SubSeq(ev.versions, 1, c)
           OK(p) == /\ p = L \/ ev.versions[p + 1].version >= n + 1
                    /\ \A k \in 1 .. p : ev.versions[k].version < n + 1
<1>1. /\ L \in Nat /\ c \in 1 .. L
      /\ \A i \in 1 .. L : /\ ev.versions[i].version \in Nat
                           /\ ev.versions[i] \in Version
                           /\ ev.versions[i].version <= n <=> i <= c
      /\ ev.versions[1].version = 0 /\ CurrentVersion(ev) = ev.versions[c].version
  BY ListTypes DEF ListOK, CurrentVersion
<1>2. KeptBelow(ev, n + 1) = c
  <2>1. KeptBelow(ev, n + 1) = CHOOSE p \in 0 .. L : OK(p)
    BY DEF KeptBelow
  <2>2. c \in 0 .. L /\ OK(c)
    <3>1. \A k \in 1 .. c : ev.versions[k].version < n + 1
      BY <1>1
    <3>2. CASE c # L
      <4>1. c + 1 \in 1 .. L
        BY <1>1, <3>2
      <4>2. ev.versions[c + 1].version \in Nat /\ ~ (ev.versions[c + 1].version <= n)
        BY <1>1, <4>1
      <4> QED  BY <1>1, <3>1, <4>2
    <3> QED  BY <1>1, <3>1, <3>2
  <2>3. ASSUME NEW p \in 0 .. L, OK(p) PROVE p = c
    <3>1. CASE p < c
      <4>1. p + 1 \in 1 .. L /\ p + 1 <= c /\ p # L
        BY <1>1, <3>1
      <4>2. ev.versions[p + 1].version <= n /\ ev.versions[p + 1].version >= n + 1
        BY <1>1, <2>3, <4>1
      <4> QED  BY <1>1, <4>1, <4>2
    <3>2. CASE c < p
      <4>1. c + 1 \in 1 .. p /\ c + 1 \in 1 .. L
        BY <1>1, <3>2
      <4>2. ev.versions[c + 1].version < n + 1 /\ ~ (ev.versions[c + 1].version <= n)
        BY <1>1, <2>3, <4>1
      <4> QED  BY <1>1, <4>1, <4>2
    <3> QED  BY <1>1, <3>1, <3>2
  <2> HIDE DEF OK
  <2> QED  BY <2>1, <2>2, <2>3
<1>3. DropVersionsFrom(ev, n + 1) = [versions |-> kept, current |-> c]
  BY <1>2 DEF DropVersionsFrom
<1>4. /\ kept \in Seq(Version) /\ Len(kept) = c
      /\ \A i \in 1 .. c : kept[i] = ev.versions[i]
  BY <1>1, SubSeqProperties, \A i \in 1 .. c : ev.versions[i] \in Version
<1> HIDE DEF kept
<1>5. /\ c \in 1 .. Len(kept) /\ kept[1].version = 0
      /\ kept[c].version = CurrentVersion(ev)
  BY <1>1, <1>4
<1>6. ASSUME NEW i \in 1 .. Len(kept)
      PROVE  (kept[i].version <= n + 1 <=> i <= c) /\ kept[i].version <= n + 1
  <2>1. i \in 1 .. c /\ i \in 1 .. L /\ i <= c
    BY <1>1, <1>4
  <2>2. kept[i].version \in Nat /\ kept[i].version <= n
    BY <1>1, <1>4, <2>1
  <2> QED  BY <2>1, <2>2
<1>7. ASSUME NEW i \in 1 .. Len(kept), NEW k \in 1 .. Len(kept), i < k
      PROVE  kept[i].version <= kept[k].version
  <2>1. i \in 1 .. L /\ k \in 1 .. L /\ i \in 1 .. c /\ k \in 1 .. c
    BY <1>1, <1>4
  <2>2. ev.versions[i].version <= ev.versions[k].version
    BY <1>7, <2>1 DEF ListOK
  <2> QED  BY <1>4, <2>1, <2>2
<1>8. ASSUME NEW i \in 1 .. Len(kept), i > 1 PROVE IsEdit(kept[i])
  <2>1. i \in 1 .. L /\ i \in 1 .. c
    BY <1>1, <1>4
  <2> QED  BY <1>4, <1>8, <2>1 DEF ListOK
<1>9. /\ CurrentData([versions |-> kept, current |-> c]) = CurrentData(ev)
      /\ BackendData([versions |-> kept, current |-> c]) = BackendData(ev)
  BY <1>1, <1>4 DEF CurrentData, BackendData
<1>10. ListOK([versions |-> kept, current |-> c], n + 1, n + 1)
       /\ CurrentVersion([versions |-> kept, current |-> c]) = kept[c].version
  <2> HIDE DEF c
  <2> QED  BY <1>4, <1>5, <1>6, <1>7, <1>8, ListIntro
<1> QED  BY <1>3, <1>4, <1>5, <1>9, <1>10

(* updateBackend changes what lies below the edits and nothing else. *)
LEMMA UpdateBackendOK ==
  ASSUME NEW n \in Nat, NEW high, NEW ev, ListOK(ev, n, high), NEW d \in Data
  PROVE  LET noted == UpdateBackend(ev, d)
         IN  /\ ListOK(noted, n, high) /\ CurrentVersion(noted) = CurrentVersion(ev)
             /\ BackendData(noted) = d /\ noted.current = ev.current
             /\ Len(noted.versions) = Len(ev.versions)
             /\ \A i \in 2 .. Len(ev.versions) : noted.versions[i] = ev.versions[i]
<1> DEFINE e == [ev.versions[1] EXCEPT !.data = d]
           c == ev.current
           L == Len(ev.versions)
           vs == [ev.versions EXCEPT ![1] = e]
<1>1. /\ L \in Nat /\ c \in 1 .. L /\ 1 \in 1 .. L /\ ev.versions \in Seq(Version)
      /\ ev.versions[1] \in Version
  <2>1. L \in Nat /\ c \in 1 .. L /\ ev.versions \in Seq(Version)
    BY ListTypes DEF ListOK
  <2>2. 1 \in 1 .. L
    BY <2>1
  <2> QED  BY <2>1, <2>2, ListTypes
<1>2. e \in Version /\ e.version = ev.versions[1].version /\ e.data = d
  BY <1>1 DEF Version
<1>3. UpdateBackend(ev, d) = [versions |-> vs, current |-> c]
  BY <1>1 DEF UpdateBackend
<1> HIDE DEF e
<1>4. /\ vs \in Seq(Version) /\ Len(vs) = L
      /\ \A i \in 1 .. L : vs[i] = IF i = 1 THEN e ELSE ev.versions[i]
  BY <1>1, <1>2, ExceptSeq
<1> HIDE DEF vs
<1>5. \A i \in 1 .. L : vs[i].version = ev.versions[i].version
  BY <1>2, <1>4
<1>6. /\ vs[1].version = 0
      /\ \A i, k \in 1 .. L : i < k => vs[i].version <= vs[k].version
      /\ \A i \in 1 .. L : vs[i].version <= n <=> i <= c
      /\ \A i \in 1 .. L : vs[i].version <= high
  BY <1>1, <1>5 DEF ListOK
<1>7. vs[c].version = CurrentVersion(ev) /\ vs[1].data = d
  BY <1>1, <1>2, <1>4, <1>5 DEF CurrentVersion
<1>8. \A i \in 1 .. L : i > 1 => vs[i] = ev.versions[i] /\ IsEdit(vs[i])
  BY <1>4 DEF ListOK
<1>9. /\ ListOK([versions |-> vs, current |-> c], n, high)
      /\ CurrentVersion([versions |-> vs, current |-> c]) = vs[c].version
  <2> HIDE DEF c, L
  <2> QED  BY <1>1, <1>4, <1>6, <1>8, ListIntro
<1> QED  BY <1>1, <1>3, <1>4, <1>7, <1>8, <1>9 DEF BackendData

(* A list shows an edit or, with its first entry, what the backend holds. *)
LEMMA ShownEntry ==
  ASSUME NEW n, NEW high, NEW ev, ListOK(ev, n, high)
  PROVE  /\ CurrentVersion(ev) = 0 <=> ev.current = 1
         /\ CurrentVersion(ev) > 0 => /\ CurrentData(ev) = ev.versions[ev.current].data
                                      /\ CurrentData(ev) \in Val
         /\ CurrentVersion(ev) = 0 =>
              CurrentData(ev) = IF HasBackendData(ev) THEN BackendData(ev) ELSE Missing
<1>1. ev.current \in 1 .. Len(ev.versions) /\ ev.versions[1].version = 0
  BY DEF ListOK
<1>2. CASE ev.current = 1
  BY <1>1, <1>2 DEF CurrentVersion, CurrentData, BackendData, HasBackendData
<1>3. CASE ev.current # 1
  <2>1. IsEdit(ev.versions[ev.current])
    BY <1>1, <1>3, ListTypes DEF ListOK
  <2> QED  BY <1>3, <2>1, ValAssumption, ListTypes
           DEF IsEdit, CurrentVersion, CurrentData
<1> QED  BY <1>2, <1>3

(* Two positions of one list with the same version are the same. *)
LEMMA SameVersion ==
  ASSUME NEW n \in Nat, NEW m \in Nat, NEW high, NEW ev, NEW moved,
         ListOK(ev, n, high), ListOK(moved, m, high), moved.versions = ev.versions,
         CurrentVersion(moved) = CurrentVersion(ev)
  PROVE  moved = ev
<1> DEFINE vs == ev.versions
<1>1. ev.current \in 1 .. Len(vs) /\ moved.current \in 1 .. Len(vs) /\ Len(vs) \in Nat
  BY ListTypes DEF ListOK
<1>2. vs[ev.current].version <= n /\ vs[moved.current].version <= m
  BY <1>1 DEF ListOK
<1>3. vs[moved.current].version <= n /\ vs[ev.current].version <= m
  BY <1>2 DEF CurrentVersion
<1>4. moved.current <= ev.current /\ ev.current <= moved.current
  BY <1>1, <1>3 DEF ListOK
<1>5. moved.current = ev.current
  BY <1>1, <1>4
<1> QED  BY <1>5, ListTypes

-----------------------------------------------------------------------------
(* All of them, and the count of changed observations. *)
Shown(m) == {o \in DOMAIN m : CurrentVersion(m[o]) > 0}

(* The edits m of an EditAccess at version n that counts u of them, when   *)
(* redo can reach version high.                                            *)
Layer(m, n, u, high) ==
  /\ DOMAIN m \subseteq Obs /\ m = [o \in DOMAIN m |-> m[o]]
  /\ n \in Nat /\ high \in Nat /\ n <= high
  /\ \A o \in DOMAIN m : ListOK(m[o], n, high)
  /\ u = Cardinality(Shown(m))

EditsInv ==
  IF old = << >>
    THEN Layer(mEdited, mCurrentVersion, mUpdated, highestVersion)
    ELSE /\ \E s : /\ old = << s >>
                   /\ Layer(s.edited, s.current, s.updated, highestVersion)
         /\ mEdited = NoObs /\ mCurrentVersion = 0 /\ mUpdated = 0

ClientsInv ==
  /\ backend \in [Obs -> Data]
  /\ requests \subseteq Req /\ answered \subseteq requests
  /\ view \in [Req -> [Obs -> Data]]
  /\ missed \subseteq Obs /\ faked \subseteq Obs

IInv == ClientsInv /\ EditsInv

-----------------------------------------------------------------------------
(* What is sent keeps the views well typed. *)
LEMMA SentType ==
  ASSUME NEW v \in [Req -> [Obs -> Data]], NEW to, NEW upd, NEW new, NEW gone,
         \A o \in DOMAIN upd : upd[o] \in Data,
         \A o \in DOMAIN new : new[o] \in Data
  PROVE  Sent(v, to, upd, new, gone) \in [Req -> [Obs -> Data]]
<1>1. NoData \in Data
  BY DEF Data
<1>2. ASSUME NEW r \in Req, NEW o \in Obs
      PROVE  (IF r \notin to \/ o \notin Covers[r] THEN v[r][o]
              ELSE IF o \in DOMAIN upd THEN upd[o]
              ELSE IF o \in DOMAIN new /\ new[o] \in Accepts[r] THEN new[o]
              ELSE IF o \in gone THEN NoData
              ELSE v[r][o]) \in Data
  BY <1>1
<1> QED  BY <1>2 DEF Sent

(* The data of a version list are data, and clients never see a null of it. *)
LEMMA ListData ==
  ASSUME NEW ev, NEW n, NEW high, ListOK(ev, n, high)
  PROVE  CurrentData(ev) \in Val /\ BackendData(ev) \in Data
<1>1. ev.current \in 1 .. Len(ev.versions) /\ 1 \in 1 .. Len(ev.versions)
  <2>1. ev.current \in 1 .. Len(ev.versions) /\ Len(ev.versions) \in Nat
    BY ListTypes DEF ListOK
  <2> QED  BY <2>1
<1>2. ev.versions[ev.current].data \in Data /\ ev.versions[1].data \in Data
  BY <1>1, ListTypes
<1>3. Missing \in Val
  BY ValAssumption
<1> QED  BY <1>2, <1>3 DEF CurrentData, BackendData, Data

(* The empty function.                                                     *)
LEMMA NoObsFacts == DOMAIN NoObs = {} /\ NoObs = [o \in DOMAIN NoObs |-> NoObs[o]]
BY DEF NoObs

(* No edits make a layer at version 0. *)
LEMMA LayerEmpty ==
  ASSUME NEW high \in Nat
  PROVE  Layer(NoObs, 0, 0, high)
<1>1. Shown(NoObs) = {}
  BY NoObsFacts DEF Shown
<1> QED  BY <1>1, NoObsFacts, FS_EmptySet DEF Layer

(* The shown observations of a layer are finitely many. *)
LEMMA ShownFinite ==
  ASSUME NEW m, DOMAIN m \subseteq Obs
  PROVE  IsFiniteSet(Shown(m)) /\ Cardinality(Shown(m)) \in Nat
<1>1. Shown(m) \in SUBSET Obs
  BY DEF Shown
<1> QED  BY <1>1, ObsAssumption, FS_Subset, FS_CardinalityType

(* What is added to the shown observations is counted once. *)
LEMMA AddedCount ==
  ASSUME NEW S, NEW T, S \subseteq Obs, T \subseteq Obs, S \cap T = {}
  PROVE  Cardinality(S \cup T) = Cardinality(S) + Cardinality(T)
<1>1. IsFiniteSet(S) /\ IsFiniteSet(T)
  BY ObsAssumption, FS_Subset
<1>2. Cardinality(S) \in Nat /\ Cardinality(T) \in Nat /\ Cardinality(S \cap T) = 0
  BY <1>1, FS_CardinalityType, FS_EmptySet
<1>3. Cardinality(S \cup T) = Cardinality(S) + Cardinality(T) - Cardinality(S \cap T)
  BY <1>1, FS_Union
<1> QED  BY <1>2, <1>3

(* Pointwise the same current versions: the same observations are shown. *)
LEMMA SameShown ==
  ASSUME NEW m, NEW p, DOMAIN p = DOMAIN m,
         \A o \in DOMAIN m : CurrentVersion(p[o]) = CurrentVersion(m[o])
  PROVE  Shown(p) = Shown(m)
BY DEF Shown

(* newVersion cuts off what redo could reach and shows the same edits. *)
LEMMA LayerDrop ==
  ASSUME NEW m, NEW n, NEW u, NEW high, Layer(m, n, u, high)
  PROVE  Layer([o \in DOMAIN m |-> DropVersionsFrom(m[o], n + 1)], n + 1, u, n + 1)
<1> DEFINE p == [o \in DOMAIN m |-> DropVersionsFrom(m[o], n + 1)]
<1>1. n \in Nat /\ n + 1 \in Nat /\ n + 1 <= n + 1
  BY DEF Layer
<1>2. \A o \in DOMAIN m : /\ ListOK(p[o], n + 1, n + 1)
                          /\ CurrentVersion(p[o]) = CurrentVersion(m[o])
  BY <1>1, DropVersionsFromOK DEF Layer
<1>3. DOMAIN p = DOMAIN m /\ p = [o \in DOMAIN p |-> p[o]]
  OBVIOUS
<1> HIDE DEF p
<1>4. Shown(p) = Shown(m)
  BY <1>2, <1>3, SameShown
<1>5. Layer(p, n + 1, u, n + 1)
  BY <1>1, <1>2, <1>3, <1>4 DEF Layer
<1> QED  BY <1>5 DEF p

(* An update below one of the edits shows the same edits. *)
LEMMA LayerNote ==
  ASSUME NEW m, NEW n, NEW u, NEW high, Layer(m, n, u, high),
         NEW x \in DOMAIN m, NEW d \in Data
  PROVE  Layer([m EXCEPT ![x] = UpdateBackend(@, d)], n, u, high)
<1> DEFINE p == [m EXCEPT ![x] = UpdateBackend(@, d)]
<1>1. n \in Nat
  BY DEF Layer
<1>2. DOMAIN p = DOMAIN m /\ p = [o \in DOMAIN p |-> p[o]]
  BY DEF Layer
<1>3. ASSUME NEW o \in DOMAIN m
      PROVE  ListOK(p[o], n, high) /\ CurrentVersion(p[o]) = CurrentVersion(m[o])
  <2>1. ListOK(m[o], n, high)
    BY DEF Layer
  <2>2. p[o] = IF o = x THEN UpdateBackend(m[o], d) ELSE m[o]
    BY DEF Layer
  <2> HIDE DEF p
  <2>3. CASE o = x
    BY <1>1, <2>1, <2>2, <2>3, UpdateBackendOK
  <2>4. CASE o # x
    BY <2>1, <2>2, <2>4
  <2> QED  BY <2>3, <2>4
<1> HIDE DEF p
<1>4. Shown(p) = Shown(m)
  BY <1>2, <1>3, SameShown
<1>5. Layer(p, n, u, high)
  BY <1>2, <1>3, <1>4 DEF Layer
<1> QED  BY <1>5 DEF p

(* In a list, the shown version follows the version of the EditAccess. *)
LEMMA ShownVersionMonotone ==
  ASSUME NEW n \in Nat, NEW k \in Nat, k <= n, NEW high, NEW ev, NEW back,
         ListOK(ev, n, high), ListOK(back, k, high), back.versions = ev.versions
  PROVE  CurrentVersion(back) <= CurrentVersion(ev)
<1> DEFINE vs == ev.versions
<1>1. /\ ev.current \in 1 .. Len(vs) /\ back.current \in 1 .. Len(vs)
      /\ Len(vs) \in Nat
  BY ListTypes DEF ListOK
<1>2. /\ vs[ev.current].version \in Nat /\ vs[back.current].version \in Nat
  BY <1>1, ListTypes
<1>3. back.current <= back.current
  BY <1>1
<1>4. vs[back.current].version <= k
  BY <1>1, <1>3 DEF ListOK
<1>5. vs[back.current].version <= n
  BY <1>2, <1>4
<1>6. back.current <= ev.current
  BY <1>1, <1>5 DEF ListOK
<1>7. CASE back.current = ev.current
  BY <1>2, <1>7 DEF CurrentVersion
<1>8. CASE back.current < ev.current
  <2>1. vs[back.current].version <= vs[ev.current].version
    BY <1>1, <1>8 DEF ListOK
  <2> QED  BY <2>1 DEF CurrentVersion
<1> QED  BY <1>1, <1>6, <1>7, <1>8

(* Lists moved to another version are well formed there. *)
LEMMA MovedLists ==
  ASSUME NEW m, NEW n, NEW u, NEW high, Layer(m, n, u, high), NEW k \in Nat
  PROVE  LET p == [o \in DOMAIN m |-> SetVersion(m[o], k)]
         IN  /\ DOMAIN p = DOMAIN m /\ p = [o \in DOMAIN p |-> p[o]]
             /\ \A o \in DOMAIN m :
                  /\ ListOK(p[o], k, high)
                  /\ p[o].versions = m[o].versions
                  /\ CurrentVersion(p[o]) \in Nat /\ CurrentVersion(m[o]) \in Nat
<1> DEFINE p == [o \in DOMAIN m |-> SetVersion(m[o], k)]
<1>1. DOMAIN p = DOMAIN m /\ p = [o \in DOMAIN p |-> p[o]]
  OBVIOUS
<1>2. ASSUME NEW o \in DOMAIN m
      PROVE  /\ ListOK(p[o], k, high) /\ p[o].versions = m[o].versions
             /\ CurrentVersion(p[o]) \in Nat /\ CurrentVersion(m[o]) \in Nat
  <2>1. n \in Nat /\ ListOK(m[o], n, high)
    BY DEF Layer
  <2>2. p[o] = SetVersion(m[o], k)
    OBVIOUS
  <2> HIDE DEF p
  <2>3. ListOK(p[o], k, high) /\ p[o].versions = m[o].versions
    BY <2>1, <2>2, SetVersionOK
  <2> QED  BY <2>1, <2>3, ListTypes
<1> QED  BY <1>1, <1>2

(* undoVersion takes from the count the observations that go back to what  *)
(* the backend holds. *)
LEMMA LayerUndo ==
  ASSUME NEW m, NEW n, NEW u, NEW high, Layer(m, n, u, high), n > 0
  PROVE  LET p    == [o \in DOMAIN m |-> SetVersion(m[o], n - 1)]
             base == {o \in DOMAIN m : /\ CurrentVersion(p[o]) # CurrentVersion(m[o])
                                       /\ CurrentVersion(p[o]) = 0}
         IN  Layer(p, n - 1, u - Cardinality(base), high)
<1> DEFINE p == [o \in DOMAIN m |-> SetVersion(m[o], n - 1)]
           base == {o \in DOMAIN m : /\ CurrentVersion(p[o]) # CurrentVersion(m[o])
                                     /\ CurrentVersion(p[o]) = 0}
<1>1. /\ n \in Nat /\ n - 1 \in Nat /\ n - 1 <= n /\ high \in Nat /\ n - 1 <= high
      /\ DOMAIN m \subseteq Obs /\ u = Cardinality(Shown(m))
  BY DEF Layer
<1>2. /\ DOMAIN p = DOMAIN m /\ p = [o \in DOMAIN p |-> p[o]]
      /\ \A o \in DOMAIN m :
           /\ ListOK(p[o], n - 1, high)
           /\ p[o].versions = m[o].versions
           /\ CurrentVersion(p[o]) \in Nat /\ CurrentVersion(m[o]) \in Nat
  BY <1>1, MovedLists
<1> HIDE DEF p
<1>3. \A o \in DOMAIN m : CurrentVersion(p[o]) <= CurrentVersion(m[o])
  BY <1>1, <1>2, ShownVersionMonotone DEF Layer
<1>4. base \in SUBSET Shown(m) /\ Shown(p) = Shown(m) \ base
  BY <1>2, <1>3 DEF Shown
<1> HIDE DEF base
<1>5. Cardinality(Shown(p)) = Cardinality(Shown(m)) - Cardinality(base)
  <2>1. IsFiniteSet(Shown(m)) /\ IsFiniteSet(base)
    BY <1>1, <1>4, ShownFinite, FS_Subset
  <2>2. Shown(m) \cap base = base
    BY <1>4
  <2>3. Cardinality(Shown(m) \ base) = Cardinality(Shown(m)) - Cardinality(Shown(m) \cap base)
    BY <2>1, FS_Difference
  <2> QED  BY <1>4, <2>2, <2>3
<1>6. Layer(p, n - 1, u - Cardinality(base), high)
  BY <1>1, <1>2, <1>5 DEF Layer
<1> QED  BY <1>6 DEF p, base

(* redoVersion adds to the count the observations that showed no edit. *)
LEMMA LayerRedo ==
  ASSUME NEW m, NEW n, NEW u, NEW high, Layer(m, n, u, high), n < high
  PROVE  LET p    == [o \in DOMAIN m |-> SetVersion(m[o], n + 1)]
             base == {o \in DOMAIN m : /\ CurrentVersion(p[o]) # CurrentVersion(m[o])
                                       /\ CurrentVersion(m[o]) = 0}
         IN  Layer(p, n + 1, u + Cardinality(base), high)
<1> DEFINE p == [o \in DOMAIN m |-> SetVersion(m[o], n + 1)]
           base == {o \in DOMAIN m : /\ CurrentVersion(p[o]) # CurrentVersion(m[o])
                                     /\ CurrentVersion(m[o]) = 0}
<1>1. /\ n \in Nat /\ n + 1 \in Nat /\ n <= n + 1 /\ high \in Nat /\ n + 1 <= high
      /\ DOMAIN m \subseteq Obs /\ u = Cardinality(Shown(m))
  BY DEF Layer
<1>2. /\ DOMAIN p = DOMAIN m /\ p = [o \in DOMAIN p |-> p[o]]
      /\ \A o \in DOMAIN m :
           /\ ListOK(p[o], n + 1, high)
           /\ p[o].versions = m[o].versions
           /\ CurrentVersion(p[o]) \in Nat /\ CurrentVersion(m[o]) \in Nat
  BY <1>1, MovedLists
<1> HIDE DEF p
<1>3. \A o \in DOMAIN m : CurrentVersion(m[o]) <= CurrentVersion(p[o])
  BY <1>1, <1>2, ShownVersionMonotone DEF Layer
<1>4. Shown(p) = Shown(m) \cup base /\ Shown(m) \cap base = {} /\ base \in SUBSET Obs
  BY <1>1, <1>2, <1>3 DEF Shown
<1> HIDE DEF base
<1>5. Cardinality(Shown(p)) = Cardinality(Shown(m)) + Cardinality(base)
  BY <1>1, <1>4, AddedCount DEF Shown
<1>6. Layer(p, n + 1, u + Cardinality(base), high)
  BY <1>1, <1>2, <1>5 DEF Layer
<1> QED  BY <1>6 DEF p, base

(* storeUpdates adds to the count the stored observations that showed no   *)
(* edit; it runs when nothing can be redone.                               *)
LEMMA LayerStore ==
  ASSUME NEW m, NEW n, NEW u, Layer(m, n, u, n), n > 0,
         NEW S, S \subseteq Obs, NEW d \in Val,
         NEW b, \A o \in S : b[o] \in Data
  PROVE  LET p == [o \in DOMAIN m \cup S |->
                     IF o \notin S THEN m[o]
                     ELSE IF o \in DOMAIN m THEN AddVersion(m[o], n, d)
                     ELSE NewVersions(b[o], n, d)]
             fresh == {o \in S : o \in DOMAIN m => CurrentVersion(m[o]) = 0}
         IN  Layer(p, n, u + Cardinality(fresh), n)
<1> DEFINE p == [o \in DOMAIN m \cup S |->
                   IF o \notin S THEN m[o]
                   ELSE IF o \in DOMAIN m THEN AddVersion(m[o], n, d)
                   ELSE NewVersions(b[o], n, d)]
           fresh == {o \in S : o \in DOMAIN m => CurrentVersion(m[o]) = 0}
<1>1. /\ n \in Nat /\ n \in Nat \ {0} /\ n <= n
      /\ DOMAIN m \subseteq Obs /\ u = Cardinality(Shown(m))
      /\ \A o \in DOMAIN m : ListOK(m[o], n, n)
  BY DEF Layer
<1>2. DOMAIN p = DOMAIN m \cup S /\ p = [o \in DOMAIN p |-> p[o]]
  OBVIOUS
<1>3. ASSUME NEW o \in S
      PROVE  ListOK(p[o], n, n) /\ CurrentVersion(p[o]) = n
  <2>1. CASE o \in DOMAIN m
    <3>1. p[o] = AddVersion(m[o], n, d)
      BY <2>1
    <3>2. ListOK(m[o], n, n) /\ n \in Nat \ {0} /\ d \in Val
      BY <1>1, <2>1
    <3> HIDE DEF p
    <3>3. ListOK(AddVersion(m[o], n, d), n, n) /\ CurrentVersion(AddVersion(m[o], n, d)) = n
      BY ONLY <3>2, AddVersionOK
    <3> QED  BY <3>1, <3>3
  <2>2. CASE o \notin DOMAIN m
    <3>1. p[o] = NewVersions(b[o], n, d)
      BY <2>2
    <3> HIDE DEF p
    <3> QED  BY <1>1, <3>1, NewVersionsOK
  <2> QED  BY <2>1, <2>2
<1>4. \A o \in DOMAIN m \ S : p[o] = m[o]
  OBVIOUS
<1> HIDE DEF p
<1>5. \A o \in DOMAIN m : CurrentVersion(m[o]) \in Nat
  BY <1>1, ListTypes
<1>6. Shown(p) = Shown(m) \cup fresh /\ Shown(m) \cap fresh = {} /\ fresh \in SUBSET Obs
  BY <1>1, <1>2, <1>3, <1>4, <1>5 DEF Shown
<1> HIDE DEF fresh
<1>7. Cardinality(Shown(p)) = Cardinality(Shown(m)) + Cardinality(fresh)
  BY <1>1, <1>6, AddedCount DEF Shown
<1>8. \A o \in DOMAIN p : ListOK(p[o], n, n)
  BY <1>1, <1>2, <1>3, <1>4
<1>9. Layer(p, n, u + Cardinality(fresh), n)
  BY <1>1, <1>2, <1>7, <1>8 DEF Layer
<1> QED  BY <1>9 DEF p, fresh

-----------------------------------------------------------------------------
(* What the parts of the invariant mean when nothing is being saved. *)
LEMMA Unsaved ==
  ASSUME IInv, old = << >>
  PROVE  /\ Layer(mEdited, mCurrentVersion, mUpdated, highestVersion)
         /\ edited \subseteq Obs /\ mEdited = [o \in edited |-> mEdited[o]]
         /\ mCurrentVersion \in Nat /\ highestVersion \in Nat
         /\ \A o \in edited : /\ CurrentData(mEdited[o]) \in Data
                              /\ BackendData(mEdited[o]) \in Data
<1>1. Layer(mEdited, mCurrentVersion, mUpdated, highestVersion)
  BY DEF IInv, EditsInv
<1> QED  BY <1>1, ListData DEF Layer, edited, Data

(* Before the first call nothing is edited. *)
LEMMA InitIInv == Init => IInv
<1> SUFFICES ASSUME Init PROVE IInv
  OBVIOUS
<1>1. ClientsInv
  <2>1. NoView \in [Obs -> Data]
    BY DEF NoView, Data
  <2>2. view \in [Req -> [Obs -> Data]]
    BY <2>1 DEF Init
  <2> QED  BY <2>2 DEF Init, ClientsInv
<1>2. EditsInv
  BY LayerEmpty DEF Init, EditsInv
<1> QED  BY <1>1, <1>2 DEF IInv

(* The actions that leave the edits alone. *)
LEMMA EditsUnchanged ==
  ASSUME EditsInv, UNCHANGED << mCurrentVersion, highestVersion, mEdited, mUpdated, old >>
  PROVE  EditsInv'
BY DEF EditsInv

(* What the backend reports goes below an edit, or nowhere. *)
LEMMA NoteKeeps ==
  ASSUME IInv, old = << >>, NEW o, NEW d \in Data, NoteBackend(o, d),
         UNCHANGED << mCurrentVersion, highestVersion, mUpdated, old >>
  PROVE  EditsInv'
<1>1. Layer(mEdited, mCurrentVersion, mUpdated, highestVersion)
  BY Unsaved
<1>2. Layer(mEdited', mCurrentVersion, mUpdated, highestVersion)
  <2>1. CASE o \in edited /\ Covered(o)
    <3>1. mEdited' = [mEdited EXCEPT ![o] = UpdateBackend(@, d)]
      BY <2>1 DEF NoteBackend
    <3> QED  BY <1>1, <2>1, <3>1, LayerNote DEF edited
  <2>2. CASE ~ (o \in edited /\ Covered(o))
    <3>1. mEdited' = mEdited
      BY <2>2 DEF NoteBackend
    <3> QED  BY <1>1, <3>1
  <2> QED  BY <2>1, <2>2
<1> QED  BY <1>2 DEF EditsInv

(* The history of missed changes stays a set of observations. *)
LEMMA MissedType ==
  ASSUME ClientsInv, NEW o \in Obs, NoteMissed(o)
  PROVE  missed' \subseteq Obs
BY DEF ClientsInv, NoteMissed

(* Storing keeps the count, the positions and the types. *)
LEMMA StoreKeeps ==
  ASSUME IInv, NEW r \in Req, NEW S \in SUBSET Obs, NEW d \in Val, StoreUpdates(r, S, d)
  PROVE  IInv'
<1> DEFINE updated == [o \in edited \cup S |->
             IF o \notin S THEN mEdited[o]
             ELSE IF o \in edited THEN AddVersion(mEdited[o], mCurrentVersion, d)
             ELSE NewVersions(view[r][o], mCurrentVersion, d)]
           created == {o \in S \ edited : view[r][o] = NoData}
           shown   == [o \in S |-> CurrentData(updated[o])]
<1>1. /\ old = << >> /\ old' = << >>
      /\ mCurrentVersion = highestVersion /\ mCurrentVersion > 0
      /\ mEdited' = updated
      /\ mUpdated' = mUpdated + Cardinality(Fresh(S))
      /\ view' = Sent(view, requests, [o \in S \ created |-> shown[o]],
                      [o \in created |-> shown[o]], {})
      /\ UNCHANGED << backend, requests, answered, mCurrentVersion, highestVersion,
                      lapses >>
  BY DEF StoreUpdates, saving
<1>2. \A o \in S : view[r][o] \in Data
  BY DEF IInv, ClientsInv
<1>3. Layer(updated, mCurrentVersion, mUpdated + Cardinality(Fresh(S)), mCurrentVersion)
  <2>1. Layer(mEdited, mCurrentVersion, mUpdated, mCurrentVersion)
    BY <1>1, Unsaved
  <2> DEFINE b == view[r]
  <2>2. \A o \in S : b[o] \in Data
    BY <1>2
  <2> HIDE DEF b
  <2>3. Layer([o \in DOMAIN mEdited \cup S |->
                 IF o \notin S THEN mEdited[o]
                 ELSE IF o \in DOMAIN mEdited
                        THEN AddVersion(mEdited[o], mCurrentVersion, d)
                        ELSE NewVersions(b[o], mCurrentVersion, d)],
              mCurrentVersion,
              mUpdated + Cardinality({o \in S : o \in DOMAIN mEdited =>
                                        CurrentVersion(mEdited[o]) = 0}),
              mCurrentVersion)
    BY <1>1, <2>1, <2>2, LayerStore
  <2> QED  BY <2>3 DEF b, edited, Fresh
<1> HIDE DEF updated
<1>4. EditsInv'
  BY <1>1, <1>3 DEF EditsInv
<1>5. \A o \in S : o \in DOMAIN updated /\ CurrentData(updated[o]) \in Data
  <2>1. \A o \in S : o \in DOMAIN updated
    BY DEF updated
  <2> QED  BY <1>3, <2>1, ListData DEF Layer, Data
<1>6. view' \in [Req -> [Obs -> Data]]
  BY <1>1, <1>5, SentType DEF IInv, ClientsInv
<1> QED  BY <1>1, <1>4, <1>6 DEF IInv, ClientsInv, lapses

(* So does undo, *)
LEMMA UndoKeeps ==
  ASSUME IInv, Undo
  PROVE  IInv'
<1> DEFINE p == MoveTo(mCurrentVersion - 1)
           moved == Moved(mCurrentVersion - 1)
           base == {o \in moved : CurrentVersion(mEdited'[o]) = 0}
           gone == {o \in base : ~HasBackendData(mEdited[o])}
<1>1. /\ old = << >> /\ old' = << >> /\ mCurrentVersion > 0
      /\ mCurrentVersion' = mCurrentVersion - 1
      /\ mEdited' = p
      /\ mUpdated' = mUpdated - Cardinality(base)
      /\ view' = Sent(view, requests, [o \in moved \ gone |-> CurrentData(mEdited'[o])],
                      NoObs, gone)
      /\ UNCHANGED << backend, requests, answered, highestVersion, lapses >>
  BY DEF Undo, saving
<1>2. base = {o \in DOMAIN mEdited : /\ CurrentVersion(p[o]) # CurrentVersion(mEdited[o])
                                     /\ CurrentVersion(p[o]) = 0}
  BY <1>1 DEF Moved, edited
<1>3. Layer(p, mCurrentVersion - 1, mUpdated - Cardinality(base), highestVersion)
  <2> HIDE DEF base
  <2> QED  BY <1>1, <1>2, Unsaved, LayerUndo DEF MoveTo, edited
<1>4. moved \subseteq DOMAIN p
  BY DEF Moved, MoveTo
<1> HIDE DEF p, moved, base
<1>5. EditsInv'
  BY <1>1, <1>3 DEF EditsInv
<1>6. \A o \in moved : CurrentData(mEdited'[o]) \in Data
  BY <1>1, <1>3, <1>4, ListData DEF Layer, Data
<1> HIDE DEF gone
<1>7. view' \in [Req -> [Obs -> Data]]
  BY <1>1, <1>6, NoObsFacts, SentType DEF IInv, ClientsInv
<1> QED  BY <1>1, <1>5, <1>7 DEF IInv, ClientsInv, lapses

(* and redo. *)
LEMMA RedoKeeps ==
  ASSUME IInv, Redo
  PROVE  IInv'
<1> DEFINE p == MoveTo(mCurrentVersion + 1)
           moved == Moved(mCurrentVersion + 1)
           base == {o \in moved : CurrentVersion(mEdited[o]) = 0}
           new == {o \in base : ~HasBackendData(mEdited[o])}
           shown == [o \in moved |-> CurrentData(mEdited'[o])]
<1>1. /\ old = << >> /\ old' = << >> /\ mCurrentVersion < highestVersion
      /\ mCurrentVersion' = mCurrentVersion + 1
      /\ mEdited' = p
      /\ mUpdated' = mUpdated + Cardinality(base)
      /\ view' = Sent(view, requests, [o \in moved \ new |-> shown[o]],
                      [o \in new |-> shown[o]], {})
      /\ UNCHANGED << backend, requests, answered, highestVersion, lapses >>
  BY DEF Redo, saving
<1>2. base = {o \in DOMAIN mEdited : /\ CurrentVersion(p[o]) # CurrentVersion(mEdited[o])
                                     /\ CurrentVersion(mEdited[o]) = 0}
  BY DEF Moved, edited
<1>3. Layer(p, mCurrentVersion + 1, mUpdated + Cardinality(base), highestVersion)
  <2> HIDE DEF base
  <2> QED  BY <1>1, <1>2, Unsaved, LayerRedo DEF MoveTo, edited
<1>4. moved \subseteq DOMAIN p /\ new \subseteq moved
  BY DEF Moved, MoveTo
<1> HIDE DEF p, moved, base, new
<1>5. EditsInv'
  BY <1>1, <1>3 DEF EditsInv
<1>6. \A o \in moved : CurrentData(mEdited'[o]) \in Data
  BY <1>1, <1>3, <1>4, ListData DEF Layer, Data
<1>7. view' \in [Req -> [Obs -> Data]]
  BY <1>1, <1>4, <1>6, SentType DEF IInv, ClientsInv
<1> QED  BY <1>1, <1>5, <1>7 DEF IInv, ClientsInv, lapses

-----------------------------------------------------------------------------
(* Every step preserves the invariant. *)
THEOREM Inductive == IInv /\ [Next]_vars => IInv'
<1> SUFFICES ASSUME IInv, [Next]_vars PROVE IInv'
  OBVIOUS
<1> USE DEF saving, lapses
<1>0. NoData \in Data /\ ClientsInv
  BY DEF IInv, Data
<1>1. CASE UNCHANGED vars
  BY <1>1 DEF vars, IInv, ClientsInv, EditsInv
<1>2. ASSUME NEW r \in Req, PostRequest(r) PROVE IInv'
  <2>1. EditsInv'
    BY <1>2, EditsUnchanged DEF PostRequest, IInv
  <2>2. view' \in [Req -> [Obs -> Data]]
    <3>1. old = << >>
      BY <1>2 DEF PostRequest
    <3> DEFINE shown == [o \in edited |-> CurrentData(mEdited[o])]
    <3>2. \A o \in DOMAIN shown : shown[o] \in Data
      BY <3>1, Unsaved
    <3>3. view' = Sent(view, {r}, NoObs, shown, {})
      BY <1>2 DEF PostRequest
    <3> HIDE DEF shown
    <3> QED  BY <1>0, <3>2, <3>3, NoObsFacts, SentType DEF ClientsInv
  <2>3. faked' \subseteq Obs
    BY <1>0, <1>2, RequestAssumption DEF PostRequest, Kept, ClientsInv
  <2> QED  BY <1>0, <1>2, <2>1, <2>2, <2>3 DEF PostRequest, IInv, ClientsInv
<1>3. ASSUME NEW r \in Req, Answer(r) PROVE IInv'
  <2>1. EditsInv'
    BY <1>3, EditsUnchanged DEF Answer, IInv
  <2>2. view' \in [Req -> [Obs -> Data]]
    <3> DEFINE found == {o \in Obs \ edited : backend[o] # NoData}
               new == [o \in found |-> backend[o]]
    <3>1. \A o \in DOMAIN new : new[o] \in Data
      BY <1>0 DEF ClientsInv
    <3>2. view' = Sent(view, {r}, NoObs, new, {})
      BY <1>3 DEF Answer
    <3> HIDE DEF new
    <3> QED  BY <1>0, <3>1, <3>2, NoObsFacts, SentType DEF ClientsInv
  <2> QED  BY <1>0, <1>3, <2>1, <2>2 DEF Answer, IInv, ClientsInv
<1>4. ASSUME NEW r \in Req, DropRequest(r) PROVE IInv'
  <2>1. EditsInv'
    BY <1>4, EditsUnchanged DEF DropRequest, IInv
  <2>2. NoView \in [Obs -> Data]
    BY <1>0 DEF NoView
  <2>3. view' \in [Req -> [Obs -> Data]]
    BY <1>0, <1>4, <2>2 DEF DropRequest, ClientsInv
  <2> QED  BY <1>0, <1>4, <2>1, <2>3 DEF DropRequest, IInv, ClientsInv
<1>5. ASSUME NEW o \in Changing, NEW d \in Val, BackendNew(o, d) PROVE IInv'
  <2>1. EditsInv'
    BY <1>5, EditsUnchanged DEF BackendNew, IInv
  <2>2. o \in Obs /\ d \in Data
    BY RequestAssumption DEF Data
  <2>3. view' \in [Req -> [Obs -> Data]]
    <3> DEFINE new == [x \in {o} |-> d]
    <3>1. \A x \in DOMAIN new : new[x] \in Data
      BY <2>2
    <3>2. view' = view \/ view' = Sent(view, requests, NoObs, new, {})
      BY <1>5 DEF BackendNew
    <3> HIDE DEF new
    <3> QED  BY <1>0, <3>1, <3>2, NoObsFacts, SentType DEF ClientsInv
  <2>4. backend' \in [Obs -> Data]
    BY <1>0, <1>5, <2>2 DEF BackendNew, ClientsInv
  <2>5. missed' \subseteq Obs
    BY <1>0, <1>5, <2>2, MissedType DEF BackendNew
  <2> QED  BY <1>0, <1>5, <2>1, <2>3, <2>4, <2>5 DEF BackendNew, IInv, ClientsInv
<1>6. ASSUME NEW o \in Changing, NEW d \in Val, BackendUpdate(o, d) PROVE IInv'
  <2>1. o \in Obs /\ d \in Data
    BY RequestAssumption DEF Data
  <2>2. EditsInv'
    BY <1>6, <2>1, NoteKeeps DEF BackendUpdate
  <2>3. view' \in [Req -> [Obs -> Data]]
    <3> DEFINE upd == [x \in {o} |-> d]
    <3>1. \A x \in DOMAIN upd : upd[x] \in Data
      BY <2>1
    <3>2. view' = view \/ view' = Sent(view, requests, upd, NoObs, {})
      BY <1>6 DEF BackendUpdate
    <3> HIDE DEF upd
    <3> QED  BY <1>0, <3>1, <3>2, NoObsFacts, SentType DEF ClientsInv
  <2>4. backend' \in [Obs -> Data]
    BY <1>0, <1>6, <2>1 DEF BackendUpdate, ClientsInv
  <2>5. missed' \subseteq Obs
    BY <1>0, <1>6, <2>1, MissedType DEF BackendUpdate
  <2> QED  BY <1>0, <1>6, <2>2, <2>3, <2>4, <2>5 DEF BackendUpdate, IInv, ClientsInv
<1>7. ASSUME NEW o \in Changing, BackendDrop(o) PROVE IInv'
  <2>1. o \in Obs
    BY RequestAssumption
  <2>2. EditsInv'
    BY <1>0, <1>7, NoteKeeps DEF BackendDrop
  <2>3. view' \in [Req -> [Obs -> Data]]
    <3>1. view' = view \/ view' = Sent(view, requests, NoObs, NoObs, {o})
      BY <1>7 DEF BackendDrop
    <3> QED  BY <1>0, <3>1, NoObsFacts, SentType DEF ClientsInv
  <2>4. backend' \in [Obs -> Data]
    BY <1>0, <1>7, <2>1 DEF BackendDrop, ClientsInv
  <2>5. missed' \subseteq Obs
    BY <1>0, <1>7, <2>1, MissedType DEF BackendDrop
  <2> QED  BY <1>0, <1>7, <2>2, <2>3, <2>4, <2>5 DEF BackendDrop, IInv, ClientsInv
<1>8. CASE NewVersion
  <2>1. EditsInv'
    <3>1. old = << >> /\ old' = << >>
      BY <1>8 DEF NewVersion
    <3>2. Layer(mEdited', mCurrentVersion', mUpdated', highestVersion')
      BY <1>8, <3>1, Unsaved, LayerDrop DEF NewVersion, edited
    <3> QED  BY <3>1, <3>2 DEF EditsInv
  <2> QED  BY <1>0, <1>8, <2>1 DEF NewVersion, IInv, ClientsInv
<1>9. CASE Reset
  <2>1. old = << >> /\ old' = << >>
    BY <1>9 DEF Reset
  <2>2. EditsInv'
    BY <1>9, <2>1, LayerEmpty DEF Reset, EditsInv
  <2>3. view' \in [Req -> [Obs -> Data]]
    <3> DEFINE known == {o \in edited : HasBackendData(mEdited[o])}
               upd == [o \in known |-> BackendData(mEdited[o])]
    <3>1. \A o \in DOMAIN upd : upd[o] \in Data
      BY <2>1, Unsaved
    <3>2. view' = Sent(view, requests, upd, NoObs, edited \ known)
      BY <1>9 DEF Reset
    <3> HIDE DEF upd, known
    <3> QED  BY <1>0, <3>1, <3>2, NoObsFacts, SentType DEF ClientsInv
  <2> QED  BY <1>0, <1>9, <2>2, <2>3 DEF Reset, IInv, ClientsInv
<1>10. CASE SaveBegin
  <2> DEFINE s == [edited |-> mEdited, current |-> mCurrentVersion, updated |-> mUpdated]
  <2>1. old = << >> /\ old' = << s >> /\ old' # << >>
    BY <1>10 DEF SaveBegin
  <2>2. Layer(s.edited, s.current, s.updated, highestVersion')
    BY <1>10, <2>1, Unsaved DEF SaveBegin
  <2>3. mEdited' = NoObs /\ mCurrentVersion' = 0 /\ mUpdated' = 0
    BY <1>10 DEF SaveBegin
  <2> HIDE DEF s
  <2>4. EditsInv'
    BY <2>1, <2>2, <2>3, NoObsFacts DEF EditsInv, NoObs
  <2> QED  BY <1>0, <1>10, <2>4 DEF SaveBegin, IInv, ClientsInv
<1>11. CASE SaveAccepted \/ SaveRefused
  <2>1. PICK s : old = << s >> /\ Layer(s.edited, s.current, s.updated, highestVersion)
    BY <1>11 DEF SaveAccepted, SaveRefused, IInv, EditsInv
  <2>2. old[1] = s /\ old' = << >> /\ mEdited = NoObs /\ mCurrentVersion = 0 /\ mUpdated = 0
    BY <1>11, <2>1 DEF SaveAccepted, SaveRefused, IInv, EditsInv
  <2>3. CASE SaveRefused
    <3>1. EditsInv'
      BY <2>1, <2>2, <2>3 DEF SaveRefused, EditsInv
    <3> QED  BY <1>0, <2>3, <3>1 DEF SaveRefused, IInv, ClientsInv
  <2>4. CASE SaveAccepted
    <3> DEFINE was   == old[1].edited
               upd   == {o \in DOMAIN was : HasBackendData(was[o])}
               store == ToStore(was)
               sent  == [o \in upd |-> store[o]]
               made  == [o \in DOMAIN was \ upd |-> store[o]]
    <3>1. /\ backend' = [o \in Obs |-> IF o \in DOMAIN was THEN store[o] ELSE backend[o]]
          /\ view' = Sent(view, requests, sent, made, {})
          /\ highestVersion' = 0
          /\ UNCHANGED << requests, answered, mCurrentVersion, mEdited, mUpdated, lapses >>
      BY <2>4 DEF SaveAccepted
    <3>2. EditsInv'
      BY <2>2, <3>1, LayerEmpty, NoObsFacts DEF EditsInv, NoObs
    <3>3. \A o \in DOMAIN was : store[o] \in Data
      BY <2>1, <2>2, ListData DEF Layer, ToStore, Data
    <3>4. backend' \in [Obs -> Data]
      BY <1>0, <3>1, <3>3 DEF ClientsInv
    <3>5. view' \in [Req -> [Obs -> Data]]
      <4>1. /\ \A o \in DOMAIN sent : sent[o] \in Data
            /\ \A o \in DOMAIN made : made[o] \in Data
        BY <3>3
      <4> HIDE DEF sent, made
      <4> QED  BY <1>0, <3>1, <4>1, SentType DEF ClientsInv
    <3> QED  BY <1>0, <3>1, <3>2, <3>4, <3>5 DEF IInv, ClientsInv
  <2> QED  BY <1>11, <2>3, <2>4
<1> QED
  BY <1>1, <1>2, <1>3, <1>4, <1>5, <1>6, <1>7, <1>8, <1>9, <1>10, <1>11,
     StoreKeeps, UndoKeeps, RedoKeeps DEF Next

(* What the invariant says of the state. *)
LEMMA LayerTypes ==
  ASSUME NEW m, NEW n, NEW u, NEW high, Layer(m, n, u, high)
  PROVE  /\ n \in Nat /\ u \in Nat /\ high \in Nat
         /\ DOMAIN m \subseteq Obs /\ m \in [DOMAIN m -> VersionList]
<1>1. \A o \in DOMAIN m : m[o] \in VersionList
  BY DEF Layer, ListOK
<1>2. m \in [DOMAIN m -> VersionList]
  BY <1>1 DEF Layer
<1> QED  BY <1>2, ShownFinite DEF Layer

(* What is claimed follows from the invariant: the types ...               *)
LEMMA TypesFollow == IInv => TypeOK
<1> SUFFICES ASSUME IInv PROVE TypeOK
  OBVIOUS
<1>1. CASE old = << >>
  BY <1>1, LayerTypes DEF IInv, ClientsInv, EditsInv, TypeOK, edited
<1>2. CASE old # << >>
  <2>1. PICK s : old = << s >> /\ Layer(s.edited, s.current, s.updated, highestVersion)
    BY <1>2 DEF IInv, EditsInv
  <2>2. DOMAIN old = {1} /\ old[1] = s
    BY <2>1
  <2>3. /\ mEdited = NoObs /\ mCurrentVersion = 0 /\ mUpdated = 0
    BY <1>2 DEF IInv, EditsInv
  <2>4. /\ highestVersion \in Nat /\ s.current \in Nat /\ s.updated \in Nat
        /\ DOMAIN s.edited \subseteq Obs
        /\ s.edited \in [DOMAIN s.edited -> VersionList]
    BY <2>1, LayerTypes
  <2>5. edited \subseteq Obs /\ mEdited \in [edited -> VersionList]
    BY <2>3, NoObsFacts DEF edited, NoObs
  <2> QED  BY <2>2, <2>3, <2>4, <2>5 DEF IInv, ClientsInv, TypeOK
<1> QED  BY <1>1, <1>2

(* ... the positions ...                                                   *)
LEMMA PointersFollow == IInv => PointerMatches
<1> SUFFICES ASSUME IInv, old = << >>, NEW o \in edited
             PROVE  LET vs == mEdited[o].versions
                        at == mEdited[o].current
                    IN  /\ at \in DOMAIN vs /\ vs[1].version = 0
                        /\ \A i, k \in DOMAIN vs : i < k => vs[i].version <= vs[k].version
                        /\ \A i \in DOMAIN vs : vs[i].version <= mCurrentVersion <=> i <= at
                        /\ \A i \in DOMAIN vs : vs[i].version <= highestVersion
  BY DEF PointerMatches, saving
<1>1. ListOK(mEdited[o], mCurrentVersion, highestVersion)
  BY Unsaved DEF Layer, edited
<1>2. DOMAIN mEdited[o].versions = 1 .. Len(mEdited[o].versions)
  BY <1>1, ListTypes
<1> QED  BY <1>1, <1>2 DEF ListOK

(* ... and the count.                                                      *)
LEMMA CountFollows == IInv => CountMatches
<1> SUFFICES ASSUME IInv, old = << >>
             PROVE  mUpdated = Cardinality({o \in edited : Hidden(o)})
  BY DEF CountMatches, saving
<1>1. mUpdated = Cardinality(Shown(mEdited))
  BY Unsaved DEF Layer
<1>2. Shown(mEdited) = {o \in edited : Hidden(o)}
  BY DEF Shown, edited, Hidden
<1> QED  BY <1>1, <1>2

(* In every reachable state the variables have their types: mUpdated, a    *)
(* size_t in the code, never wraps below 0.                                *)
THEOREM TypeCorrect == Spec => []TypeOK
<1> QED  BY InitIInv, Inductive, TypesFollow, PTL DEF Spec

(* In every reachable state outside a save, every version list shows its   *)
(* last entry that is not younger than the version of the EditAccess, and  *)
(* redo reaches every entry.                                               *)
THEOREM PointersCorrect == Spec => []PointerMatches
<1> QED  BY InitIInv, Inductive, PointersFollow, PTL DEF Spec

(* In every reachable state outside a save, countU reports the number of   *)
(* observations that show an edit.                                         *)
THEOREM CountCorrect == Spec => []CountMatches
<1> QED  BY InitIInv, Inductive, CountFollows, PTL DEF Spec

-----------------------------------------------------------------------------
(***************************************************************************)
(* What the clients of an EditAccess show, for every number of             *)
(* observations, requests, filters and versions.  ViewCoherent is not      *)
(* inductive: it says nothing of requests the backend has not answered, of *)
(* undone creations or of what an edit hides.  ViewsInv does.              *)
(***************************************************************************)
(* What o is worth when m are the edits and b is the backend. *)
Worth(m, b, o) ==
  IF o \in DOMAIN m /\ CurrentVersion(m[o]) > 0 THEN CurrentData(m[o]) ELSE b[o]

(* Its creation is undone: no edit is shown and nothing is below. *)
Undone(m, o) ==
  o \in DOMAIN m /\ CurrentVersion(m[o]) = 0 /\ ~HasBackendData(m[o])

(* What a request r that covers o may hold of it: x, done when r is        *)
(* answered.                                                               *)
Holds(r, x, done, m, b, o) ==
  IF Undone(m, o)
    THEN x = NoData \/ (x = Missing /\ Accepts[r] = Val)
    ELSE \/ x = Worth(m, b, o)
         \/ /\ x = NoData
            /\ Worth(m, b, o) \notin Accepts[r] \/ (~done /\ o \notin DOMAIN m)

(* Below an edit is what the backend holds. *)
BelowInv ==
  \A o \in DOMAIN theEdited : o \in InStep => BackendData(theEdited[o]) = backend[o]

(* Nothing is sent to who has not asked for it. *)
AskedInv ==
  \A r \in Req, o \in Obs : r \notin requests \/ o \notin Covers[r] => view[r][o] = NoData

HoldsInv ==
  \A r \in requests : \A o \in Covers[r] :
    o \in InStep => Holds(r, view[r][o], r \in answered, theEdited, backend, o)

ViewsInv == IInv /\ BelowInv /\ AskedInv /\ HoldsInv

-----------------------------------------------------------------------------
(* What one client holds of one observation after something was sent. *)
LEMMA SentAt ==
  ASSUME NEW v, NEW to, NEW upd, NEW new, NEW gone, NEW r \in Req, NEW o \in Obs
  PROVE  Sent(v, to, upd, new, gone)[r][o] =
           IF r \notin to \/ o \notin Covers[r] THEN v[r][o]
           ELSE IF o \in DOMAIN upd THEN upd[o]
           ELSE IF o \in DOMAIN new /\ new[o] \in Accepts[r] THEN new[o]
           ELSE IF o \in gone THEN NoData
           ELSE v[r][o]
BY DEF Sent

(* No filter accepts a null. *)
LEMMA FilterFacts ==
  /\ \A r \in Req : Covers[r] \subseteq Obs /\ Accepts[r] \subseteq Val
                    /\ NoData \notin Accepts[r]
  /\ NoData \notin Val /\ Missing \in Val /\ NoData \in Data
BY RequestAssumption, ValAssumption DEF Data

(* The edits are a layer, also while they are swapped out. *)
LEMMA TheLayer ==
  ASSUME IInv
  PROVE  /\ Layer(theEdited, theCurrent, theUpdated, highestVersion)
         /\ old = << >> => /\ theEdited = mEdited /\ theCurrent = mCurrentVersion
                           /\ theUpdated = mUpdated
<1>1. CASE old = << >>
  BY <1>1 DEF IInv, EditsInv, theEdited, theCurrent, theUpdated, saving
<1>2. CASE old # << >>
  <2>1. PICK s : old = << s >> /\ Layer(s.edited, s.current, s.updated, highestVersion)
    BY <1>2 DEF IInv, EditsInv
  <2>2. old[1] = s
    BY <2>1
  <2> QED  BY <1>2, <2>1, <2>2 DEF theEdited, theCurrent, theUpdated, saving
<1> QED  BY <1>1, <1>2

(* What a list of a layer shows. *)
LEMMA ListShows ==
  ASSUME NEW m, NEW n, NEW u, NEW high, Layer(m, n, u, high), NEW o \in DOMAIN m
  PROVE  /\ CurrentVersion(m[o]) \in Nat /\ o \in Obs /\ n \in Nat
         /\ ListOK(m[o], n, high)
         /\ CurrentData(m[o]) \in Val /\ BackendData(m[o]) \in Data
         /\ CurrentVersion(m[o]) = 0 =>
              CurrentData(m[o]) = IF BackendData(m[o]) # NoData THEN BackendData(m[o])
                                  ELSE Missing
<1>1. ListOK(m[o], n, high) /\ o \in Obs /\ n \in Nat
  BY DEF Layer
<1> QED  BY <1>1, ListTypes, ListData, ShownEntry DEF HasBackendData

-----------------------------------------------------------------------------
(* Before the first request nobody has asked for anything. *)
LEMMA InitViews == Init => ViewsInv
<1> SUFFICES ASSUME Init PROVE ViewsInv
  OBVIOUS
<1>1. theEdited = NoObs
  BY DEF Init, theEdited, saving
<1>2. BelowInv
  BY <1>1, NoObsFacts DEF BelowInv
<1>3. AskedInv
  BY DEF Init, AskedInv, NoView
<1> QED  BY <1>2, <1>3, InitIInv DEF ViewsInv, Init, HoldsInv

(* postRequest gives the client all edited data that its filter accepts. *)
LEMMA PostKeepsViews ==
  ASSUME ViewsInv, NEW r \in Req, PostRequest(r)
  PROVE  BelowInv' /\ AskedInv' /\ HoldsInv'
<1> DEFINE new == [o \in edited |-> CurrentData(mEdited[o])]
<1>1. /\ old = << >> /\ old' = << >> /\ r \notin requests
      /\ requests' = requests \cup {r} /\ r \notin answered /\ answered' = answered
      /\ view' = Sent(view, {r}, NoObs, new, {})
      /\ faked' = faked \cup Kept(r) /\ missed' = missed
      /\ backend' = backend /\ mEdited' = mEdited
  BY DEF PostRequest, saving, ViewsInv, IInv, ClientsInv
<1>2. theEdited = mEdited /\ theEdited' = mEdited
  BY <1>1 DEF theEdited, saving
<1>3. InStep' \subseteq InStep /\ InStep' \cap Kept(r) = {}
  BY <1>1 DEF InStep
<1>4. ASSUME NEW q \in Req, NEW o \in Obs
      PROVE  view'[q][o] = IF q = r /\ o \in Covers[q] /\ o \in edited
                                    /\ CurrentData(mEdited[o]) \in Accepts[q]
                             THEN CurrentData(mEdited[o]) ELSE view[q][o]
  BY <1>1, SentAt, NoObsFacts
<1>5. BelowInv'
  BY <1>1, <1>2, <1>3 DEF ViewsInv, BelowInv
<1>6. AskedInv'
  BY Zenon, <1>1, <1>4 DEF ViewsInv, AskedInv
<1>7. ASSUME NEW q \in requests', NEW o \in Covers[q], o \in InStep'
      PROVE  Holds(q, view'[q][o], q \in answered, mEdited, backend, o)
  <2>0. q \in Req /\ o \in Obs
    BY <1>1, FilterFacts DEF ViewsInv, IInv, ClientsInv
  <2>1. CASE q # r
    <3>1. q \in requests /\ o \in InStep /\ view'[q][o] = view[q][o]
      BY <1>1, <1>3, <1>4, <1>7, <2>0, <2>1
    <3> QED  BY <1>2, <3>1 DEF ViewsInv, HoldsInv
  <2>2. CASE q = r
    <3>1. view[q][o] = NoData
      BY <1>1, <2>0, <2>2 DEF ViewsInv, AskedInv
    <3>2. CASE o \notin edited
      BY <1>1, <1>4, <2>0, <2>2, <3>1, <3>2 DEF Holds, Undone, edited
    <3>3. CASE o \in edited
      <4>1. /\ CurrentVersion(mEdited[o]) \in Nat
            /\ CurrentVersion(mEdited[o]) = 0 =>
                 CurrentData(mEdited[o]) =
                   IF BackendData(mEdited[o]) # NoData THEN BackendData(mEdited[o])
                   ELSE Missing
        BY <1>2, <3>3, TheLayer, ListShows DEF ViewsInv, edited
      <4>2. BackendData(mEdited[o]) = backend[o]
        BY <1>2, <1>3, <1>7, <3>3 DEF ViewsInv, BelowInv, edited
      <4>3. o \notin Kept(r)
        BY <1>3, <1>7
      <4>4. CASE Undone(mEdited, o)
        <5>1. CurrentData(mEdited[o]) = Missing
          BY <4>1, <4>4 DEF Undone, HasBackendData
        <5>2. UndoneCreation(o)
          BY <3>3, <4>4 DEF Undone, UndoneCreation, Hidden
        <5>3. Missing \notin Accepts[r] \/ Accepts[r] = Val
          BY <2>2, <4>3, <5>2 DEF Kept
        <5> QED  BY <1>4, <2>0, <2>2, <3>1, <4>4, <5>1, <5>3 DEF Holds
      <4>5. CASE ~Undone(mEdited, o)
        <5>1. CurrentData(mEdited[o]) = Worth(mEdited, backend, o)
          BY <3>3, <4>1, <4>2, <4>5 DEF Worth, Undone, HasBackendData, edited
        <5> QED  BY <1>4, <2>0, <2>2, <3>1, <3>3, <4>5, <5>1 DEF Holds
      <4> QED  BY <4>4, <4>5
    <3> QED  BY <3>2, <3>3
  <2> QED  BY <2>1, <2>2
<1>8. HoldsInv'
  BY <1>1, <1>2, <1>7 DEF HoldsInv
<1> QED  BY <1>5, <1>6, <1>8

(* The answer adds what the backend holds and nobody has edited. *)
LEMMA AnswerKeepsViews ==
  ASSUME ViewsInv, NEW r \in Req, Answer(r)
  PROVE  BelowInv' /\ AskedInv' /\ HoldsInv'
<1> DEFINE found == {o \in Obs \ edited : backend[o] # NoData}
           new == [o \in found |-> backend[o]]
<1>1. /\ old = << >> /\ old' = << >> /\ r \in requests
      /\ requests' = requests /\ answered' = answered \cup {r}
      /\ view' = Sent(view, {r}, NoObs, new, {})
      /\ faked' = faked /\ missed' = missed
      /\ backend' = backend /\ mEdited' = mEdited
  BY DEF Answer, saving, lapses
<1>2. theEdited = mEdited /\ theEdited' = mEdited
  BY <1>1 DEF theEdited, saving
<1>3. InStep' = InStep
  BY <1>1 DEF InStep
<1>4. ASSUME NEW q \in Req, NEW o \in Obs
      PROVE  view'[q][o] = IF q = r /\ o \in Covers[q] /\ o \notin edited
                                    /\ backend[o] # NoData /\ backend[o] \in Accepts[q]
                             THEN backend[o] ELSE view[q][o]
  BY <1>1, SentAt, NoObsFacts
<1>5. BelowInv'
  BY <1>1, <1>2, <1>3 DEF ViewsInv, BelowInv
<1>6. AskedInv'
  BY Zenon, <1>1, <1>4 DEF ViewsInv, AskedInv
<1>7. ASSUME NEW q \in requests, NEW o \in Covers[q], o \in InStep
      PROVE  Holds(q, view'[q][o], q \in answered', mEdited, backend, o)
  <2>0. q \in Req /\ o \in Obs
    BY FilterFacts DEF ViewsInv, IInv, ClientsInv
  <2>1. Holds(q, view[q][o], q \in answered, mEdited, backend, o)
    BY <1>2, <1>7 DEF ViewsInv, HoldsInv
  <2>2. CASE q # r \/ o \in edited
    BY <1>1, <1>4, <2>0, <2>1, <2>2 DEF Holds, edited
  <2>3. CASE q = r /\ o \notin edited
    <3>1. ~Undone(mEdited, o) /\ Worth(mEdited, backend, o) = backend[o]
      BY <2>3 DEF Undone, Worth, edited
    <3> QED  BY <1>4, <2>0, <2>1, <2>3, <3>1 DEF Holds
  <2> QED  BY <2>2, <2>3
<1>8. HoldsInv'
  BY <1>1, <1>2, <1>3, <1>7 DEF HoldsInv
<1> QED  BY <1>5, <1>6, <1>8

(* A dropped request leaves an empty buffer. *)
LEMMA DropKeepsViews ==
  ASSUME ViewsInv, NEW r \in Req, DropRequest(r)
  PROVE  BelowInv' /\ AskedInv' /\ HoldsInv'
<1>1. /\ old = << >> /\ old' = << >>
      /\ requests' = requests \ {r} /\ answered' = answered \ {r}
      /\ view' = [view EXCEPT ![r] = NoView]
      /\ faked' = faked /\ missed' = missed
      /\ backend' = backend /\ mEdited' = mEdited
  BY DEF DropRequest, saving, lapses
<1>2. theEdited = mEdited /\ theEdited' = mEdited
  BY <1>1 DEF theEdited, saving
<1>3. InStep' = InStep
  BY <1>1 DEF InStep
<1>4. ASSUME NEW q \in Req, NEW o \in Obs
      PROVE  view'[q][o] = IF q = r THEN NoData ELSE view[q][o]
  BY <1>1 DEF ViewsInv, IInv, ClientsInv, NoView
<1>5. BelowInv'
  BY <1>1, <1>2, <1>3 DEF ViewsInv, BelowInv
<1>6. AskedInv'
  BY <1>1, <1>4 DEF ViewsInv, AskedInv
<1>7. ASSUME NEW q \in requests', NEW o \in Covers[q], o \in InStep
      PROVE  Holds(q, view'[q][o], q \in answered', mEdited, backend, o)
  <2>1. q \in requests /\ q # r /\ (q \in answered' <=> q \in answered) /\ o \in Obs
        /\ q \in Req
    BY <1>1, FilterFacts DEF ViewsInv, IInv, ClientsInv
  <2>2. Holds(q, view[q][o], q \in answered, mEdited, backend, o)
    BY <1>2, <1>7, <2>1 DEF ViewsInv, HoldsInv
  <2> QED  BY <1>4, <2>1, <2>2 DEF Holds
<1>8. HoldsInv'
  BY <1>1, <1>2, <1>3, <1>7 DEF HoldsInv
<1> QED  BY <1>5, <1>6, <1>8

(* New data of the backend: what is edited misses it. *)
LEMMA NewKeepsViews ==
  ASSUME ViewsInv, NEW x \in Changing, NEW d \in Val, BackendNew(x, d)
  PROVE  BelowInv' /\ AskedInv' /\ HoldsInv'
<1> DEFINE to == IF x \in edited THEN {} ELSE requests
           new == [y \in {x} |-> d]
<1>1. /\ old = << >> /\ old' = << >> /\ backend[x] = NoData
      /\ backend' = [backend EXCEPT ![x] = d] /\ mEdited' = mEdited
      /\ requests' = requests /\ answered' = answered
      /\ faked' = faked /\ NoteMissed(x)
      /\ view' = IF x \in edited THEN view ELSE Sent(view, requests, NoObs, new, {})
  BY DEF BackendNew, saving
<1>2. /\ x \in Obs /\ d # NoData /\ backend \in [Obs -> Data]
      /\ view \in [Req -> [Obs -> Data]] /\ requests \subseteq Req
  BY RequestAssumption, ValAssumption DEF ViewsInv, IInv, ClientsInv
<1>3. theEdited = mEdited /\ theEdited' = mEdited
  BY <1>1 DEF theEdited, saving
<1>4. InStep' \subseteq InStep
  BY <1>1 DEF InStep, NoteMissed
<1>5. \A y \in edited : y \in InStep => BackendData(mEdited[y]) = backend[y]
  BY <1>3 DEF ViewsInv, BelowInv, edited
<1>6. x \in edited => x \notin InStep'
  <2> SUFFICES ASSUME x \in edited, x \in InStep' PROVE FALSE
    OBVIOUS
  <2>1. BackendData(mEdited[x]) = NoData
    BY <1>1, <1>4, <1>5
  <2>2. backend'[x] = d
    BY <1>1, <1>2
  <2>3. x \in missed'
    BY <1>1, <1>2, <2>1, <2>2 DEF NoteMissed
  <2> QED  BY <2>3 DEF InStep
<1>7. \A y \in Obs : y # x => backend'[y] = backend[y]
  BY <1>1, <1>2
<1>8. backend'[x] = d
  BY <1>1, <1>2
<1>9. \A q \in Req, o \in Obs :
        view'[q][o] = IF /\ x \notin edited /\ q \in requests /\ o \in Covers[q]
                         /\ o = x /\ d \in Accepts[q]
                        THEN d ELSE view[q][o]
  BY <1>1, SentAt, NoObsFacts
<1>10. BelowInv'
  BY <1>1, <1>2, <1>3, <1>4, <1>5, <1>6, <1>7 DEF BelowInv, edited, InStep
<1>11. AskedInv'
  BY <1>1, <1>9 DEF ViewsInv, AskedInv
<1>12. ASSUME NEW q \in requests, NEW o \in Covers[q], o \in InStep'
       PROVE  Holds(q, view'[q][o], q \in answered, mEdited, backend', o)
  <2>0. q \in Req /\ o \in Obs
    BY <1>2, FilterFacts
  <2>1. Holds(q, view[q][o], q \in answered, mEdited, backend, o)
    BY <1>3, <1>4, <1>12 DEF ViewsInv, HoldsInv
  <2>2. CASE o # x
    <3>1. view'[q][o] = view[q][o] /\ backend'[o] = backend[o]
      BY <1>7, <1>9, <2>0, <2>2
    <3> QED  BY <2>1, <3>1 DEF Holds, Worth
  <2>3. CASE o = x
    <3>1. o \notin edited
      BY <1>6, <1>12, <2>3
    <3>2. /\ ~Undone(mEdited, o) /\ Worth(mEdited, backend, o) = NoData
          /\ Worth(mEdited, backend', o) = d
      BY <1>1, <1>8, <2>3, <3>1 DEF Undone, Worth, edited
    <3>3. view[q][o] = NoData
      BY <2>1, <3>2 DEF Holds
    <3> QED  BY <1>9, <2>0, <2>3, <3>1, <3>2, <3>3 DEF Holds
  <2> QED  BY <2>2, <2>3
<1>13. HoldsInv'
  BY <1>1, <1>3, <1>12 DEF HoldsInv
<1> QED  BY <1>10, <1>11, <1>13

(* What noteBackend does to the version lists. *)
LEMMA NoteBackendOK ==
  ASSUME IInv, old = << >>, NEW x, NEW d \in Data, NoteBackend(x, d)
  PROVE  /\ edited' = edited
         /\ \A o \in edited :
              /\ CurrentVersion(mEdited'[o]) = CurrentVersion(mEdited[o])
              /\ CurrentVersion(mEdited[o]) > 0 =>
                   CurrentData(mEdited'[o]) = CurrentData(mEdited[o])
              /\ BackendData(mEdited'[o]) =
                   IF o = x /\ Covered(x) THEN d ELSE BackendData(mEdited[o])
<1>0. mEdited = [o \in edited |-> mEdited[o]]
  BY Unsaved
<1>1. CASE ~(x \in edited /\ Covered(x))
  BY <1>1 DEF NoteBackend, edited
<1>2. CASE x \in edited /\ Covered(x)
  <2>1. mEdited' = [mEdited EXCEPT ![x] = UpdateBackend(@, d)]
    BY <1>2 DEF NoteBackend
  <2>2. DOMAIN mEdited' = DOMAIN mEdited
    BY <2>1
  <2>3. ASSUME NEW o \in edited
        PROVE  mEdited'[o] = IF o = x THEN UpdateBackend(mEdited[o], d) ELSE mEdited[o]
    BY <1>0, <2>1 DEF edited
  <2>4. /\ ListOK(mEdited[x], mCurrentVersion, highestVersion) /\ mCurrentVersion \in Nat
    BY <1>2, Unsaved DEF Layer, edited
  <2> DEFINE n == UpdateBackend(mEdited[x], d)
  <2>5. /\ ListOK(n, mCurrentVersion, highestVersion)
        /\ CurrentVersion(n) = CurrentVersion(mEdited[x])
        /\ BackendData(n) = d /\ n.current = mEdited[x].current
        /\ Len(n.versions) = Len(mEdited[x].versions)
        /\ \A i \in 2 .. Len(mEdited[x].versions) : n.versions[i] = mEdited[x].versions[i]
    BY <2>4, UpdateBackendOK
  <2> HIDE DEF n
  <2>6. CurrentVersion(mEdited[x]) > 0 => CurrentData(n) = CurrentData(mEdited[x])
    <3> SUFFICES ASSUME CurrentVersion(mEdited[x]) > 0
                 PROVE  CurrentData(n) = CurrentData(mEdited[x])
      OBVIOUS
    <3>1. mEdited[x].current # 1
      BY <2>4, ShownEntry
    <3>2. mEdited[x].current \in 1 .. Len(mEdited[x].versions)
          /\ Len(mEdited[x].versions) \in Nat
      BY <2>4, ListTypes DEF ListOK
    <3>3. mEdited[x].current \in 2 .. Len(mEdited[x].versions)
      BY <3>1, <3>2
    <3> QED  BY <2>5, <3>3 DEF CurrentData
  <2> QED  BY <1>2, <2>2, <2>3, <2>5, <2>6 DEF n, edited
<1> QED  BY <1>1, <1>2

(* A report is missed by an edited observation that no request covers. *)
LEMMA NotedUnlessUncovered ==
  ASSUME IInv, old = << >>, NEW x \in Obs, NEW d \in Data, NoteBackend(x, d),
         backend' = [backend EXCEPT ![x] = d], NoteMissed(x)
  PROVE  /\ \A o \in missed' \ missed : ~Covered(o)
         /\ missed \subseteq missed'
         /\ x \in edited => x \in missed' \/ BackendData(mEdited'[x]) = d
<1>1. backend'[x] = d
  BY DEF IInv, ClientsInv
<1>2. x \in edited => BackendData(mEdited'[x]) = IF Covered(x) THEN d ELSE BackendData(mEdited[x])
  BY NoteBackendOK
<1> QED  BY <1>1, <1>2 DEF NoteMissed

(* An update or a drop reaches who sees it and goes below what is edited. *)
LEMMA ReportKeepsViews ==
  ASSUME ViewsInv, NEW x \in Obs, NEW d \in Data,
         old = << >>, old' = << >>, backend' = [backend EXCEPT ![x] = d],
         NoteBackend(x, d), NoteMissed(x),
         UNCHANGED << requests, answered, faked >>,
         \A q \in Req, o \in Obs :
            view'[q][o] = IF ~Hidden(x) /\ q \in requests /\ o \in Covers[q] /\ o = x
                            THEN d ELSE view[q][o]
  PROVE  BelowInv' /\ AskedInv' /\ HoldsInv'
<1>1. backend \in [Obs -> Data] /\ requests \subseteq Req /\ IInv
  BY DEF ViewsInv, IInv, ClientsInv
<1>2. theEdited = mEdited /\ theEdited' = mEdited'
  BY DEF theEdited, saving
<1>3. /\ edited' = edited
      /\ \A o \in edited :
           /\ CurrentVersion(mEdited'[o]) = CurrentVersion(mEdited[o])
           /\ CurrentVersion(mEdited[o]) > 0 =>
                CurrentData(mEdited'[o]) = CurrentData(mEdited[o])
           /\ BackendData(mEdited'[o]) =
                IF o = x /\ Covered(x) THEN d ELSE BackendData(mEdited[o])
  BY <1>1, NoteBackendOK
<1>4. /\ missed \subseteq missed'
      /\ x \in edited => x \in missed' \/ BackendData(mEdited'[x]) = d
  BY <1>1, NotedUnlessUncovered
<1>5. InStep' \subseteq InStep
  BY <1>4 DEF InStep
<1>6. backend'[x] = d /\ \A o \in Obs : o # x => backend'[o] = backend[o]
  BY <1>1
<1>7. BelowInv'
  BY <1>2, <1>3, <1>4, <1>5, <1>6 DEF ViewsInv, BelowInv, edited, InStep
<1>8. AskedInv'
  BY DEF ViewsInv, AskedInv
<1>9. ASSUME NEW q \in requests, NEW o \in Covers[q], o \in InStep'
      PROVE  Holds(q, view'[q][o], q \in answered, mEdited', backend', o)
  <2>0. q \in Req /\ o \in Obs
    BY <1>1, FilterFacts
  <2>1. Holds(q, view[q][o], q \in answered, mEdited, backend, o)
    BY <1>2, <1>5, <1>9 DEF ViewsInv, HoldsInv
  <2>2. CASE o # x
    <3>1. view'[q][o] = view[q][o] /\ backend'[o] = backend[o]
      BY <1>6, <2>0, <2>2
    <3>2. Undone(mEdited', o) <=> Undone(mEdited, o)
      BY <1>3, <2>2 DEF Undone, HasBackendData, edited
    <3>3. Worth(mEdited', backend', o) = Worth(mEdited, backend, o)
      BY <1>3, <3>1 DEF Worth, edited
    <3>4. o \in DOMAIN mEdited' <=> o \in DOMAIN mEdited
      BY <1>3 DEF edited
    <3> QED  BY <2>1, <3>1, <3>2, <3>3, <3>4 DEF Holds
  <2>3. CASE o = x /\ Hidden(x)
    <3>1. view'[q][o] = view[q][o]
      BY <2>0, <2>3
    <3>2. o \in edited /\ CurrentVersion(mEdited[o]) > 0 /\ CurrentVersion(mEdited'[o]) > 0
      BY <1>3, <2>3 DEF Hidden
    <3>3. ~Undone(mEdited, o) /\ ~Undone(mEdited', o)
      BY <3>2 DEF Undone
    <3>4. Worth(mEdited', backend', o) = Worth(mEdited, backend, o)
      BY <1>3, <3>2 DEF Worth, edited
    <3> QED  BY <1>3, <2>1, <3>1, <3>2, <3>3, <3>4 DEF Holds, edited
  <2>4. CASE o = x /\ ~Hidden(x)
    <3>1. view'[q][o] = d /\ Covered(o)
      BY <1>9, <2>0, <2>4 DEF Covered
    <3>2. Worth(mEdited', backend', o) = d
      BY <1>3, <1>6, <2>4 DEF Worth, Hidden, edited
    <3>3. Undone(mEdited', o) => d = NoData
      BY <1>3, <2>4, <3>1 DEF Undone, HasBackendData, edited
    <3> QED  BY <3>1, <3>2, <3>3 DEF Holds
  <2> QED  BY <2>2, <2>3, <2>4
<1>10. HoldsInv'
  BY <1>2, <1>9 DEF HoldsInv
<1> QED  BY <1>7, <1>8, <1>10

(* A step of the edits: nothing is missed, nothing is sent to who has not  *)
(* asked, and each client that held what it may hold does so again.        *)
LEMMA StepKeepsViews ==
  ASSUME ViewsInv, UNCHANGED << requests, answered, lapses >>,
         \A q \in Req, o \in Obs :
           q \notin requests \/ o \notin Covers[q] => view'[q][o] = view[q][o],
         \A o \in DOMAIN theEdited' : o \in InStep =>
           BackendData(theEdited'[o]) = backend'[o],
         \A q \in requests : \A o \in Covers[q] :
           q \in Req /\ o \in Obs /\ o \in InStep
             /\ Holds(q, view[q][o], q \in answered, theEdited, backend, o)
           => Holds(q, view'[q][o], q \in answered, theEdited', backend', o)
  PROVE  BelowInv' /\ AskedInv' /\ HoldsInv'
<1>1. InStep' = InStep /\ requests' = requests /\ answered' = answered
  BY DEF InStep, lapses
<1>2. BelowInv'
  BY <1>1 DEF BelowInv
<1>3. AskedInv'
  BY <1>1 DEF ViewsInv, AskedInv
<1>4. HoldsInv'
  BY <1>1, FilterFacts DEF ViewsInv, HoldsInv, IInv, ClientsInv
<1> QED  BY <1>2, <1>3, <1>4

(* Cutting off what redo could reach changes nothing that is shown. *)
LEMMA NewVersionKeepsViews ==
  ASSUME ViewsInv, NewVersion
  PROVE  BelowInv' /\ AskedInv' /\ HoldsInv'
<1>1. /\ old = << >> /\ old' = << >> /\ view' = view /\ backend' = backend
      /\ mEdited' = [o \in edited |-> DropVersionsFrom(mEdited[o], mCurrentVersion + 1)]
      /\ UNCHANGED << requests, answered, lapses >>
  BY DEF NewVersion, saving
<1>2. /\ theEdited = mEdited /\ theEdited' = mEdited' /\ DOMAIN mEdited' = DOMAIN mEdited
      /\ Layer(mEdited, mCurrentVersion, mUpdated, highestVersion)
  BY <1>1, TheLayer DEF theEdited, saving, edited, ViewsInv
<1>3. ASSUME NEW o \in DOMAIN mEdited
      PROVE  /\ CurrentVersion(mEdited'[o]) = CurrentVersion(mEdited[o])
             /\ CurrentData(mEdited'[o]) = CurrentData(mEdited[o])
             /\ BackendData(mEdited'[o]) = BackendData(mEdited[o])
  <2> DEFINE left == DropVersionsFrom(mEdited[o], mCurrentVersion + 1)
  <2>1. mCurrentVersion \in Nat /\ ListOK(mEdited[o], mCurrentVersion, highestVersion)
    BY <1>2, ListShows
  <2>2. /\ CurrentVersion(left) = CurrentVersion(mEdited[o])
        /\ CurrentData(left) = CurrentData(mEdited[o])
        /\ BackendData(left) = BackendData(mEdited[o])
    BY <2>1, DropVersionsFromOK
  <2>3. mEdited'[o] = left
    BY <1>1 DEF edited
  <2> QED  BY <2>2, <2>3
<1>4. \A o \in DOMAIN mEdited : o \in InStep => BackendData(mEdited'[o]) = backend'[o]
  BY <1>1, <1>2, <1>3 DEF ViewsInv, BelowInv
<1>5. ASSUME NEW o
      PROVE  /\ Undone(mEdited', o) <=> Undone(mEdited, o)
             /\ Worth(mEdited', backend', o) = Worth(mEdited, backend, o)
  BY <1>1, <1>2, <1>3 DEF Undone, Worth, HasBackendData
<1>6. ASSUME NEW q, NEW o, NEW x, NEW done, Holds(q, x, done, mEdited, backend, o)
      PROVE  Holds(q, x, done, mEdited', backend', o)
  BY <1>2, <1>5, <1>6 DEF Holds
<1> QED  BY <1>1, <1>2, <1>4, <1>6, StepKeepsViews

(* storeUpdates: what is stored on top of an observation not edited yet    *)
(* covers what the backend holds, and every client is told of it.          *)
LEMMA StoreKeepsViews ==
  ASSUME ViewsInv, NEW r \in Req, NEW S \in SUBSET Obs, NEW d \in Val,
         StoreUpdates(r, S, d)
  PROVE  BelowInv' /\ AskedInv' /\ HoldsInv'
<1> DEFINE n == mCurrentVersion
           updated == [o \in edited \cup S |->
             IF o \notin S THEN mEdited[o]
             ELSE IF o \in edited THEN AddVersion(mEdited[o], n, d)
             ELSE NewVersions(view[r][o], n, d)]
           created == {o \in S \ edited : view[r][o] = NoData}
           shown   == [o \in S |-> CurrentData(updated[o])]
<1>1. /\ old = << >> /\ old' = << >> /\ r \in answered /\ r \in requests
      /\ n = highestVersion /\ n > 0 /\ S \subseteq Editable(r)
      /\ mEdited' = updated /\ backend' = backend
      /\ view' = Sent(view, requests, [o \in S \ created |-> shown[o]],
                      [o \in created |-> shown[o]], {})
      /\ UNCHANGED << requests, answered, lapses >>
  BY DEF StoreUpdates, saving, ViewsInv, IInv, ClientsInv
<1>2. /\ theEdited = mEdited /\ theEdited' = updated
      /\ Layer(mEdited, n, mUpdated, highestVersion) /\ n \in Nat \ {0}
  BY <1>1, TheLayer DEF theEdited, saving, ViewsInv, Layer
<1>3. /\ DOMAIN updated = edited \cup S
      /\ \A o \in edited \ S : updated[o] = mEdited[o]
  OBVIOUS
<1>4. ASSUME NEW o \in S
      PROVE  /\ CurrentVersion(updated[o]) = n /\ CurrentData(updated[o]) = d
             /\ BackendData(updated[o]) = IF o \in edited THEN BackendData(mEdited[o])
                                          ELSE view[r][o]
  <2>1. CASE o \in edited
    <3>1. updated[o] = AddVersion(mEdited[o], n, d) /\ ListOK(mEdited[o], n, highestVersion)
      BY <1>2, <2>1, ListShows DEF edited
    <3> DEFINE ev == mEdited[o]
               added == AddVersion(ev, n, d)
    <3> HIDE DEF updated, n, ev
    <3>2. n \in Nat \ {0} /\ ListOK(ev, n, highestVersion)
      BY <1>2, <3>1 DEF ev
    <3>3. /\ CurrentVersion(added) = n /\ CurrentData(added) = d
          /\ BackendData(added) = BackendData(ev)
      BY <3>2, AddVersionOK
    <3> QED  BY <2>1, <3>1, <3>3 DEF ev
  <2>2. CASE o \notin edited
    <3>1. updated[o] = NewVersions(view[r][o], n, d) /\ view[r][o] \in Data
      BY <2>2 DEF ViewsInv, IInv, ClientsInv
    <3> QED  BY <1>2, <2>2, <3>1, NewVersionsOK
  <2> QED  BY <2>1, <2>2
<1>5. ASSUME NEW q \in Req, NEW o \in Obs
      PROVE  view'[q][o] = IF /\ q \in requests /\ o \in Covers[q] /\ o \in S
                              /\ o \in created => d \in Accepts[q]
                             THEN d ELSE view[q][o]
  <2> HIDE DEF updated
  <2> QED  BY <1>1, <1>4, SentAt
<1> HIDE DEF updated
<1>6. ASSUME NEW o \in S \ edited, o \in InStep
      PROVE  view[r][o] = backend[o]
  <2>1. o \in Covers[r] /\ (view[r][o] = NoData => Accepts[r] = Val)
    BY <1>1 DEF Editable
  <2>2. Holds(r, view[r][o], r \in answered, mEdited, backend, o)
    BY <1>1, <1>2, <1>6, <2>1 DEF ViewsInv, HoldsInv
  <2>3. ~Undone(mEdited, o) /\ Worth(mEdited, backend, o) = backend[o]
    BY DEF Undone, Worth, edited
  <2>4. backend[o] \in Data
    BY DEF ViewsInv, IInv, ClientsInv
  <2> QED  BY <1>1, <2>1, <2>2, <2>3, <2>4 DEF Holds, Data
<1>7. ASSUME NEW o \in DOMAIN updated, o \in InStep
      PROVE  BackendData(updated[o]) = backend'[o]
  <2>1. o \in edited => BackendData(mEdited[o]) = backend[o]
    BY <1>2, <1>7 DEF ViewsInv, BelowInv, edited
  <2> QED  BY <1>1, <1>3, <1>4, <1>6, <1>7, <2>1
<1>8. ASSUME NEW q \in requests, NEW o \in Covers[q], q \in Req, o \in Obs, o \in InStep,
             Holds(q, view[q][o], q \in answered, mEdited, backend, o)
      PROVE  Holds(q, view'[q][o], q \in answered, updated, backend', o)
  <2>1. CASE o \notin S
    <3>1. /\ view'[q][o] = view[q][o] /\ (o \in DOMAIN updated <=> o \in DOMAIN mEdited)
          /\ o \in DOMAIN mEdited => updated[o] = mEdited[o]
      BY <1>3, <1>5, <1>8, <2>1 DEF edited
    <3>2. /\ Undone(updated, o) <=> Undone(mEdited, o)
          /\ Worth(updated, backend', o) = Worth(mEdited, backend, o)
      BY <1>1, <3>1 DEF Undone, Worth
    <3> QED  BY <1>8, <3>1, <3>2 DEF Holds
  <2>2. CASE o \in S
    <3>1. /\ ~Undone(updated, o) /\ Worth(updated, backend', o) = d
      BY <1>2, <1>3, <1>4, <2>2 DEF Undone, Worth
    <3>2. o \in created => view[q][o] = NoData
      <4> SUFFICES ASSUME o \in created PROVE view[q][o] = NoData
        OBVIOUS
      <4>1. o \notin edited /\ backend[o] = NoData
        BY <1>6, <1>8
      <4>2. ~Undone(mEdited, o) /\ Worth(mEdited, backend, o) = NoData
        BY <4>1 DEF Undone, Worth, edited
      <4> QED  BY <1>8, <4>2 DEF Holds
    <3> QED  BY <1>5, <1>8, <2>2, <3>1, <3>2 DEF Holds
  <2> QED  BY <2>1, <2>2
<1> QED  BY <1>1, <1>2, <1>5, <1>7, <1>8, StepKeepsViews

(* What undo and redo do to the lists of a layer that they move. *)
LEMMA MoveFacts ==
  ASSUME NEW m, NEW n, NEW u, NEW high, Layer(m, n, u, high), NEW k \in Nat,
         NEW p, p = [o \in DOMAIN m |-> SetVersion(m[o], k)]
  PROVE  /\ DOMAIN p = DOMAIN m
         /\ \A o \in DOMAIN m :
              /\ ListOK(p[o], k, high) /\ p[o].versions = m[o].versions
              /\ BackendData(p[o]) = BackendData(m[o])
              /\ CurrentVersion(p[o]) \in Nat /\ CurrentVersion(m[o]) \in Nat
              /\ CurrentVersion(p[o]) = CurrentVersion(m[o]) => p[o] = m[o]
              /\ k <= n => CurrentVersion(p[o]) <= CurrentVersion(m[o])
              /\ n <= k => CurrentVersion(m[o]) <= CurrentVersion(p[o])
              /\ CurrentVersion(p[o]) = 0 /\ BackendData(p[o]) # NoData =>
                   CurrentData(p[o]) = BackendData(p[o])
              /\ CurrentData(p[o]) \in Val
<1>1. n \in Nat /\ \A o \in DOMAIN m : ListOK(m[o], n, high)
  BY DEF Layer
<1>2. /\ DOMAIN p = DOMAIN m
      /\ \A o \in DOMAIN m :
           /\ ListOK(p[o], k, high) /\ p[o].versions = m[o].versions
           /\ CurrentVersion(p[o]) \in Nat /\ CurrentVersion(m[o]) \in Nat
  BY MovedLists
<1>3. ASSUME NEW o \in DOMAIN m
      PROVE  /\ BackendData(p[o]) = BackendData(m[o])
             /\ CurrentVersion(p[o]) = CurrentVersion(m[o]) => p[o] = m[o]
             /\ k <= n => CurrentVersion(p[o]) <= CurrentVersion(m[o])
             /\ n <= k => CurrentVersion(m[o]) <= CurrentVersion(p[o])
             /\ CurrentVersion(p[o]) = 0 /\ BackendData(p[o]) # NoData =>
                  CurrentData(p[o]) = BackendData(p[o])
             /\ CurrentData(p[o]) \in Val
  <2>1. BackendData(p[o]) = BackendData(m[o])
    BY <1>2 DEF BackendData
  <2>2. CurrentVersion(p[o]) = CurrentVersion(m[o]) => p[o] = m[o]
    BY <1>1, <1>2, SameVersion
  <2>3. /\ k <= n => CurrentVersion(p[o]) <= CurrentVersion(m[o])
        /\ n <= k => CurrentVersion(m[o]) <= CurrentVersion(p[o])
    BY <1>1, <1>2, ShownVersionMonotone
  <2>4. /\ CurrentVersion(p[o]) = 0 /\ BackendData(p[o]) # NoData =>
             CurrentData(p[o]) = BackendData(p[o])
        /\ CurrentData(p[o]) \in Val
    BY <1>2, ShownEntry, ListData DEF HasBackendData
  <2> QED  BY <2>1, <2>2, <2>3, <2>4
<1> QED  BY <1>2, <1>3

(* undoVersion: what goes back to the backend's data or to nothing is sent *)
(* as such; a client that saw nothing for its filter is told as well.      *)
LEMMA UndoKeepsViews ==
  ASSUME ViewsInv, Undo
  PROVE  BelowInv' /\ AskedInv' /\ HoldsInv'
<1> DEFINE n == mCurrentVersion
           p == MoveTo(n - 1)
           moved == Moved(n - 1)
           base == {o \in moved : CurrentVersion(mEdited'[o]) = 0}
           gone == {o \in base : ~HasBackendData(mEdited[o])}
           upd == [o \in moved \ gone |-> CurrentData(mEdited'[o])]
<1>1. /\ old = << >> /\ old' = << >> /\ n > 0
      /\ mEdited' = p /\ backend' = backend
      /\ view' = Sent(view, requests, upd, NoObs, gone)
      /\ UNCHANGED << requests, answered, lapses >>
  BY DEF Undo, saving
<1>2. /\ theEdited = mEdited /\ theEdited' = mEdited'
      /\ Layer(mEdited, n, mUpdated, highestVersion)
      /\ n \in Nat /\ n - 1 \in Nat /\ n - 1 <= n
  BY <1>1, TheLayer DEF theEdited, saving, ViewsInv, Layer
<1>3. mEdited' = [o \in DOMAIN mEdited |-> SetVersion(mEdited[o], n - 1)]
  BY <1>1 DEF MoveTo, edited
<1>4. moved = {o \in DOMAIN mEdited : CurrentVersion(mEdited'[o]) # CurrentVersion(mEdited[o])}
  BY <1>1 DEF Moved, edited
<1> HIDE DEF p, moved, n
<1>5. /\ DOMAIN mEdited' = DOMAIN mEdited
      /\ \A o \in DOMAIN mEdited :
           /\ BackendData(mEdited'[o]) = BackendData(mEdited[o])
           /\ CurrentVersion(mEdited'[o]) \in Nat /\ CurrentVersion(mEdited[o]) \in Nat
           /\ CurrentVersion(mEdited'[o]) = CurrentVersion(mEdited[o]) =>
                mEdited'[o] = mEdited[o]
           /\ CurrentVersion(mEdited'[o]) <= CurrentVersion(mEdited[o])
           /\ CurrentVersion(mEdited'[o]) = 0 /\ BackendData(mEdited'[o]) # NoData =>
                CurrentData(mEdited'[o]) = BackendData(mEdited'[o])
  BY <1>2, <1>3, MoveFacts
<1>6. \A q \in Req, o \in Obs :
        view'[q][o] = IF q \notin requests \/ o \notin Covers[q] \/ o \notin moved
                        THEN view[q][o]
                      ELSE IF o \in gone THEN NoData ELSE CurrentData(mEdited'[o])
  BY <1>1, SentAt, NoObsFacts
<1>7. \A o \in DOMAIN mEdited : o \in InStep => BackendData(mEdited'[o]) = backend'[o]
  BY <1>1, <1>2, <1>5 DEF ViewsInv, BelowInv
<1>8. ASSUME NEW q \in requests, NEW o \in Covers[q], q \in Req, o \in Obs, o \in InStep,
             Holds(q, view[q][o], q \in answered, mEdited, backend, o)
      PROVE  Holds(q, view'[q][o], q \in answered, mEdited', backend', o)
  <2>1. CASE o \notin moved
    <3>1. view'[q][o] = view[q][o] /\ (o \in DOMAIN mEdited => mEdited'[o] = mEdited[o])
      BY <1>4, <1>5, <1>6, <1>8, <2>1
    <3>2. /\ Undone(mEdited', o) <=> Undone(mEdited, o)
          /\ Worth(mEdited', backend', o) = Worth(mEdited, backend, o)
      BY <1>1, <1>5, <3>1 DEF Undone, Worth
    <3> QED  BY <1>5, <1>8, <3>1, <3>2 DEF Holds
  <2>2. CASE o \in gone
    <3>1. view'[q][o] = NoData /\ o \in DOMAIN mEdited'
      BY <1>4, <1>5, <1>6, <1>8, <2>2
    <3>2. Undone(mEdited', o)
      BY <1>4, <1>5, <2>2, <3>1 DEF Undone, HasBackendData
    <3> QED  BY <3>1, <3>2 DEF Holds
  <2>3. CASE o \in moved \ gone
    <3>1. view'[q][o] = CurrentData(mEdited'[o]) /\ o \in DOMAIN mEdited
      BY <1>4, <1>6, <1>8, <2>3
    <3>2. CASE CurrentVersion(mEdited'[o]) > 0
      BY <1>5, <3>1, <3>2 DEF Holds, Undone, Worth
    <3>3. CASE CurrentVersion(mEdited'[o]) = 0
      <4>1. BackendData(mEdited'[o]) # NoData
        BY <1>5, <2>3, <3>1, <3>3 DEF HasBackendData
      <4>2. view'[q][o] = backend'[o]
        BY <1>5, <1>7, <1>8, <3>1, <3>3, <4>1
      <4>3. ~Undone(mEdited', o) /\ Worth(mEdited', backend', o) = backend'[o]
        BY <3>3, <4>1 DEF Undone, Worth, HasBackendData
      <4> QED  BY <4>2, <4>3 DEF Holds
    <3>4. CurrentVersion(mEdited'[o]) > 0 \/ CurrentVersion(mEdited'[o]) = 0
      BY <1>5, <3>1
    <3> QED  BY <3>2, <3>3, <3>4
  <2> QED  BY <1>4, <2>1, <2>2, <2>3
<1>9. \A q \in Req, o \in Obs :
        q \notin requests \/ o \notin Covers[q] => view'[q][o] = view[q][o]
  BY <1>6
<1> QED  BY <1>1, <1>2, <1>5, <1>7, <1>8, <1>9, StepKeepsViews

(* redoVersion: a creation that is redone is new to the clients, which     *)
(* held nothing of it, or fake data that their filter had to accept.       *)
LEMMA RedoKeepsViews ==
  ASSUME ViewsInv, Redo
  PROVE  BelowInv' /\ AskedInv' /\ HoldsInv'
<1> DEFINE n == mCurrentVersion
           p == MoveTo(n + 1)
           moved == Moved(n + 1)
           base == {o \in moved : CurrentVersion(mEdited[o]) = 0}
           new == {o \in base : ~HasBackendData(mEdited[o])}
           shown == [o \in moved |-> CurrentData(mEdited'[o])]
<1>1. /\ old = << >> /\ old' = << >>
      /\ mEdited' = p /\ backend' = backend
      /\ view' = Sent(view, requests, [o \in moved \ new |-> shown[o]],
                      [o \in new |-> shown[o]], {})
      /\ UNCHANGED << requests, answered, lapses >>
  BY DEF Redo, saving
<1>2. /\ theEdited = mEdited /\ theEdited' = mEdited'
      /\ Layer(mEdited, n, mUpdated, highestVersion)
      /\ n \in Nat /\ n + 1 \in Nat /\ n <= n + 1
  BY <1>1, TheLayer DEF theEdited, saving, ViewsInv, Layer
<1>3. mEdited' = [o \in DOMAIN mEdited |-> SetVersion(mEdited[o], n + 1)]
  BY <1>1 DEF MoveTo, edited
<1>4. moved = {o \in DOMAIN mEdited : CurrentVersion(mEdited'[o]) # CurrentVersion(mEdited[o])}
  BY <1>1 DEF Moved, edited
<1> HIDE DEF p, moved, n
<1>5. /\ DOMAIN mEdited' = DOMAIN mEdited
      /\ \A o \in DOMAIN mEdited :
           /\ BackendData(mEdited'[o]) = BackendData(mEdited[o])
           /\ CurrentVersion(mEdited'[o]) \in Nat /\ CurrentVersion(mEdited[o]) \in Nat
           /\ CurrentVersion(mEdited'[o]) = CurrentVersion(mEdited[o]) =>
                mEdited'[o] = mEdited[o]
           /\ CurrentVersion(mEdited[o]) <= CurrentVersion(mEdited'[o])
           /\ CurrentData(mEdited'[o]) \in Val
  BY <1>2, <1>3, MoveFacts
<1>6. \A q \in Req, o \in Obs :
        view'[q][o] = IF q \notin requests \/ o \notin Covers[q] \/ o \notin moved
                           \/ (o \in new /\ CurrentData(mEdited'[o]) \notin Accepts[q])
                        THEN view[q][o] ELSE CurrentData(mEdited'[o])
  BY <1>1, SentAt
<1>7. \A o \in DOMAIN mEdited : o \in InStep => BackendData(mEdited'[o]) = backend'[o]
  BY <1>1, <1>2, <1>5 DEF ViewsInv, BelowInv
<1>8. ASSUME NEW q \in requests, NEW o \in Covers[q], q \in Req, o \in Obs, o \in InStep,
             Holds(q, view[q][o], q \in answered, mEdited, backend, o)
      PROVE  Holds(q, view'[q][o], q \in answered, mEdited', backend', o)
  <2>1. CASE o \notin moved
    <3>1. view'[q][o] = view[q][o] /\ (o \in DOMAIN mEdited => mEdited'[o] = mEdited[o])
      BY <1>4, <1>5, <1>6, <1>8, <2>1
    <3>2. /\ Undone(mEdited', o) <=> Undone(mEdited, o)
          /\ Worth(mEdited', backend', o) = Worth(mEdited, backend, o)
      BY <1>1, <1>5, <3>1 DEF Undone, Worth
    <3> QED  BY <1>5, <1>8, <3>1, <3>2 DEF Holds
  <2>2. CASE o \in moved
    <3>1. o \in DOMAIN mEdited /\ CurrentVersion(mEdited'[o]) > 0
      BY <1>4, <1>5, <2>2
    <3>2. /\ ~Undone(mEdited', o)
          /\ Worth(mEdited', backend', o) = CurrentData(mEdited'[o])
      BY <1>5, <3>1 DEF Undone, Worth
    <3>3. CASE o \in new /\ CurrentData(mEdited'[o]) \notin Accepts[q]
      <4>1. Undone(mEdited, o) /\ Accepts[q] # Val
        BY <1>5, <3>1, <3>3 DEF Undone
      <4>2. view'[q][o] = NoData
        BY <1>6, <1>8, <3>3, <4>1 DEF Holds
      <4> QED  BY <3>2, <3>3, <4>2 DEF Holds
    <3>4. CASE ~(o \in new /\ CurrentData(mEdited'[o]) \notin Accepts[q])
      <4>1. view'[q][o] = CurrentData(mEdited'[o])
        BY <1>6, <1>8, <2>2, <3>4
      <4> QED  BY <3>2, <4>1 DEF Holds
    <3> QED  BY <3>3, <3>4
  <2> QED  BY <2>1, <2>2
<1>9. \A q \in Req, o \in Obs :
        q \notin requests \/ o \notin Covers[q] => view'[q][o] = view[q][o]
  BY <1>6
<1> QED  BY <1>1, <1>2, <1>5, <1>7, <1>8, <1>9, StepKeepsViews

(* reset sends the backend's data of everything that was edited. *)
LEMMA ResetKeepsViews ==
  ASSUME ViewsInv, Reset
  PROVE  BelowInv' /\ AskedInv' /\ HoldsInv'
<1> DEFINE known == {o \in edited : HasBackendData(mEdited[o])}
           upd == [o \in known |-> BackendData(mEdited[o])]
<1>1. /\ old = << >> /\ old' = << >> /\ mEdited' = NoObs /\ backend' = backend
      /\ view' = Sent(view, requests, upd, NoObs, edited \ known)
      /\ UNCHANGED << requests, answered, lapses >>
  BY DEF Reset, saving
<1>2. theEdited = mEdited /\ theEdited' = NoObs /\ DOMAIN NoObs = {}
  BY <1>1, NoObsFacts DEF theEdited, saving
<1>3. \A q \in Req, o \in Obs :
        view'[q][o] = IF q \notin requests \/ o \notin Covers[q] \/ o \notin edited
                        THEN view[q][o]
                      ELSE IF o \in known THEN BackendData(mEdited[o]) ELSE NoData
  BY <1>1, SentAt, NoObsFacts
<1>4. ASSUME NEW q \in requests, NEW o \in Covers[q], q \in Req, o \in Obs, o \in InStep,
             Holds(q, view[q][o], q \in answered, mEdited, backend, o)
      PROVE  Holds(q, view'[q][o], q \in answered, NoObs, backend', o)
  <2>1. ~Undone(NoObs, o) /\ Worth(NoObs, backend', o) = backend[o]
    BY <1>1, <1>2 DEF Undone, Worth
  <2>2. CASE o \in edited
    <3>1. BackendData(mEdited[o]) = backend[o]
      BY <1>2, <1>4, <2>2 DEF ViewsInv, BelowInv, edited
    <3> QED  BY <1>3, <1>4, <2>1, <2>2, <3>1 DEF Holds, HasBackendData
  <2>3. CASE o \notin edited
    <3>1. view'[q][o] = view[q][o]
      BY <1>3, <1>4, <2>3
    <3>2. ~Undone(mEdited, o) /\ Worth(mEdited, backend, o) = backend[o]
      BY <2>3 DEF Undone, Worth, edited
    <3> QED  BY <1>2, <1>4, <2>1, <3>1, <3>2 DEF Holds
  <2> QED  BY <2>2, <2>3
<1>5. \A q \in Req, o \in Obs :
        q \notin requests \/ o \notin Covers[q] => view'[q][o] = view[q][o]
  BY <1>3
<1> QED  BY <1>1, <1>2, <1>4, <1>5, StepKeepsViews

(* Swapping the edits out and putting them back changes nothing of what    *)
(* the clients should hold.                                                *)
LEMMA SwapKeepsViews ==
  ASSUME ViewsInv, SaveBegin \/ SaveRefused
  PROVE  BelowInv' /\ AskedInv' /\ HoldsInv'
<1>1. /\ theEdited' = theEdited /\ view' = view /\ backend' = backend
      /\ UNCHANGED << requests, answered, lapses >>
  BY DEF SaveBegin, SaveRefused, saving, theEdited
<1>2. \A o \in DOMAIN theEdited' : o \in InStep => BackendData(theEdited'[o]) = backend'[o]
  BY <1>1 DEF ViewsInv, BelowInv
<1> QED  BY <1>1, <1>2, StepKeepsViews

(* What an accepted save sends, and to whom. *)
LEMMA SaveFacts ==
  ASSUME ViewsInv, SaveAccepted
  PROVE  /\ old # << >> /\ old' = << >> /\ theEdited = old[1].edited
         /\ theEdited' = NoObs
         /\ UNCHANGED << requests, answered, lapses >>
         /\ \A o \in Obs : backend'[o] = IF o \in DOMAIN theEdited
                                           THEN CurrentData(theEdited[o]) ELSE backend[o]
         /\ \A o \in DOMAIN theEdited :
              /\ CurrentVersion(theEdited[o]) \in Nat /\ o \in Obs
              /\ CurrentData(theEdited[o]) \in Val
              /\ CurrentVersion(theEdited[o]) = 0 /\ HasBackendData(theEdited[o]) =>
                   CurrentData(theEdited[o]) = BackendData(theEdited[o])
         /\ \A q \in Req, o \in Obs :
              view'[q][o] =
                IF /\ q \in requests /\ o \in Covers[q] /\ o \in DOMAIN theEdited
                   /\ \/ HasBackendData(theEdited[o])
                      \/ CurrentData(theEdited[o]) \in Accepts[q]
                  THEN CurrentData(theEdited[o]) ELSE view[q][o]
<1> DEFINE was   == old[1].edited
           upd   == {o \in DOMAIN was : HasBackendData(was[o])}
           store == ToStore(was)
<1>1. /\ old # << >> /\ old' = << >> /\ theEdited = was /\ mEdited = NoObs
      /\ theEdited' = mEdited
      /\ backend' = [o \in Obs |-> IF o \in DOMAIN was THEN store[o] ELSE backend[o]]
      /\ view' = Sent(view, requests, [o \in upd |-> store[o]],
                      [o \in DOMAIN was \ upd |-> store[o]], {})
      /\ UNCHANGED << requests, answered, lapses >>
  BY DEF SaveAccepted, saving, theEdited, ViewsInv, IInv, EditsInv
<1>2. \A o \in DOMAIN was : store[o] = CurrentData(was[o])
  BY DEF ToStore
<1> HIDE DEF was, store
<1>3. \A q \in Req, o \in Obs :
        view'[q][o] = IF /\ q \in requests /\ o \in Covers[q] /\ o \in DOMAIN was
                         /\ HasBackendData(was[o]) \/ store[o] \in Accepts[q]
                        THEN store[o] ELSE view[q][o]
  BY <1>1, SentAt
<1>4. \A o \in DOMAIN theEdited :
        /\ CurrentVersion(theEdited[o]) \in Nat /\ o \in Obs
        /\ CurrentData(theEdited[o]) \in Val
        /\ CurrentVersion(theEdited[o]) = 0 /\ HasBackendData(theEdited[o]) =>
             CurrentData(theEdited[o]) = BackendData(theEdited[o])
  BY TheLayer, ListShows DEF ViewsInv, HasBackendData
<1> QED  BY <1>1, <1>2, <1>3, <1>4 DEF was

(* An accepted save: what was an edit is now what the backend holds. *)
LEMMA SaveKeepsHolding ==
  ASSUME ViewsInv, SaveAccepted
  PROVE  BelowInv' /\ AskedInv' /\ HoldsInv'
<1> DEFINE m == theEdited
<1>1. /\ theEdited' = NoObs /\ DOMAIN NoObs = {}
      /\ UNCHANGED << requests, answered, lapses >>
      /\ \A o \in Obs : backend'[o] = IF o \in DOMAIN m THEN CurrentData(m[o])
                                      ELSE backend[o]
      /\ \A o \in DOMAIN m : CurrentVersion(m[o]) \in Nat /\ CurrentData(m[o]) \in Val
      /\ \A q \in Req, o \in Obs :
           view'[q][o] =
             IF /\ q \in requests /\ o \in Covers[q] /\ o \in DOMAIN m
                /\ HasBackendData(m[o]) \/ CurrentData(m[o]) \in Accepts[q]
               THEN CurrentData(m[o]) ELSE view[q][o]
  BY SaveFacts, NoObsFacts
<1> HIDE DEF m
<1>2. ASSUME NEW q \in requests, NEW o \in Covers[q], q \in Req, o \in Obs, o \in InStep,
             Holds(q, view[q][o], q \in answered, m, backend, o)
      PROVE  Holds(q, view'[q][o], q \in answered, NoObs, backend', o)
  <2>1. ~Undone(NoObs, o) /\ Worth(NoObs, backend', o) = backend'[o]
    BY <1>1 DEF Undone, Worth
  <2>2. CASE o \notin DOMAIN m
    BY <1>1, <1>2, <2>1, <2>2 DEF Holds, Undone, Worth
  <2>3. CASE o \in DOMAIN m /\ (HasBackendData(m[o]) \/ CurrentData(m[o]) \in Accepts[q])
    BY <1>1, <1>2, <2>1, <2>3 DEF Holds
  <2>4. CASE /\ o \in DOMAIN m /\ ~HasBackendData(m[o])
             /\ CurrentData(m[o]) \notin Accepts[q]
    <3>1. view'[q][o] = view[q][o] /\ backend'[o] = CurrentData(m[o]) /\ Accepts[q] # Val
      BY <1>1, <1>2, <2>4
    <3>2. CASE CurrentVersion(m[o]) = 0
      <4>1. Undone(m, o)
        BY <2>4, <3>2 DEF Undone
      <4> QED  BY <1>2, <2>1, <2>4, <3>1, <4>1 DEF Holds
    <3>3. CASE CurrentVersion(m[o]) > 0
      <4>1. ~Undone(m, o) /\ Worth(m, backend, o) = CurrentData(m[o])
        BY <2>4, <3>3 DEF Undone, Worth
      <4> QED  BY <1>2, <2>1, <2>4, <3>1, <4>1 DEF Holds
    <3> QED  BY <1>1, <2>4, <3>2, <3>3
  <2> QED  BY <2>2, <2>3, <2>4
<1>3. \A q \in Req, o \in Obs :
        q \notin requests \/ o \notin Covers[q] => view'[q][o] = view[q][o]
  BY <1>1
<1> QED  BY <1>1, <1>2, <1>3, StepKeepsViews DEF m

-----------------------------------------------------------------------------
(* Every step keeps what the clients hold. *)
THEOREM ViewsInductive == ViewsInv /\ [Next]_vars => ViewsInv'
<1> SUFFICES ASSUME ViewsInv, [Next]_vars PROVE ViewsInv'
  OBVIOUS
<1>1. IInv'
  BY Inductive DEF ViewsInv
<1> SUFFICES BelowInv' /\ AskedInv' /\ HoldsInv'
  BY <1>1 DEF ViewsInv
<1>2. CASE UNCHANGED vars
  <2>1. /\ theEdited' = theEdited /\ view' = view /\ backend' = backend
        /\ UNCHANGED << requests, answered, lapses >>
    BY <1>2 DEF vars, theEdited, saving
  <2>2. \A o \in DOMAIN theEdited' : o \in InStep => BackendData(theEdited'[o]) = backend'[o]
    BY <2>1 DEF ViewsInv, BelowInv
  <2> QED  BY <2>1, <2>2, StepKeepsViews
<1>3. ASSUME NEW x \in Changing, NEW d \in Val, BackendUpdate(x, d)
      PROVE  BelowInv' /\ AskedInv' /\ HoldsInv'
  <2> DEFINE upd == [y \in {x} |-> d]
  <2>1. x \in Obs /\ d \in Data
    BY RequestAssumption DEF Data
  <2>2. view' = IF Hidden(x) THEN view ELSE Sent(view, requests, upd, NoObs, {})
    BY <1>3 DEF BackendUpdate
  <2>3. \A q \in Req, o \in Obs :
          view'[q][o] = IF ~Hidden(x) /\ q \in requests /\ o \in Covers[q] /\ o = x
                          THEN d ELSE view[q][o]
    BY <2>2, SentAt, NoObsFacts
  <2> QED  BY <1>3, <2>1, <2>3, ReportKeepsViews DEF BackendUpdate, saving
<1>4. ASSUME NEW x \in Changing, BackendDrop(x)
      PROVE  BelowInv' /\ AskedInv' /\ HoldsInv'
  <2>1. x \in Obs /\ NoData \in Data
    BY RequestAssumption DEF Data
  <2>2. view' = IF Hidden(x) THEN view ELSE Sent(view, requests, NoObs, NoObs, {x})
    BY <1>4 DEF BackendDrop
  <2>3. \A q \in Req, o \in Obs :
          view'[q][o] = IF ~Hidden(x) /\ q \in requests /\ o \in Covers[q] /\ o = x
                          THEN NoData ELSE view[q][o]
    BY <2>2, SentAt, NoObsFacts
  <2> QED  BY <1>4, <2>1, <2>3, ReportKeepsViews DEF BackendDrop, saving
<1> QED
  BY <1>2, <1>3, <1>4, PostKeepsViews, AnswerKeepsViews, DropKeepsViews, NewKeepsViews,
     NewVersionKeepsViews, StoreKeepsViews, UndoKeepsViews, RedoKeepsViews,
     ResetKeepsViews, SwapKeepsViews, SaveKeepsHolding DEF Next

(* The property follows from the invariant.                                *)
LEMMA ViewsFollow == ViewsInv => ViewCoherent
<1> SUFFICES ASSUME ViewsInv, old = << >>, NEW r \in answered,
                    NEW o \in Covers[r], o \in InStep
             PROVE  \/ UndoneCreation(o)
                    \/ view[r][o] = Effective(o)
                    \/ view[r][o] = NoData /\ Effective(o) \notin Accepts[r]
  BY DEF ViewCoherent, saving
<1>1. theEdited = mEdited /\ r \in requests
  BY TheLayer DEF ViewsInv, IInv, ClientsInv
<1>2. Holds(r, view[r][o], r \in answered, mEdited, backend, o)
  BY <1>1 DEF ViewsInv, HoldsInv
<1>3. Undone(mEdited, o) => UndoneCreation(o)
  BY DEF Undone, UndoneCreation, Hidden, edited
<1>4. Worth(mEdited, backend, o) = Effective(o)
  BY DEF Worth, Effective, Hidden, edited
<1> QED  BY <1>2, <1>3, <1>4 DEF Holds

(* Outside a save, a client whose request is answered shows exactly what   *)
(* each observation is worth, or nothing where its filter rejects that,    *)
(* except what was missed, faked or is an undone creation: after any       *)
(* sequence of queries, reports, edits, undos, redos, resets and saves.    *)
THEOREM ViewsCorrect == Spec => []ViewCoherent
<1> QED  BY InitViews, ViewsInductive, ViewsFollow, PTL DEF Spec

(* A step that misses a change is of one of the two kinds.                 *)
LEMMA ChangeNotedStep ==
  ViewsInv /\ [Next]_vars =>
    [\A o \in missed' \ missed : ~Covered(o) \/ backend[o] = NoData]_vars
<1> SUFFICES ASSUME ViewsInv, Next
             PROVE  \A o \in missed' \ missed : ~Covered(o) \/ backend[o] = NoData
  BY Zenon
<1>1. IInv
  BY DEF ViewsInv
<1>2. ASSUME NEW x \in Changing, NEW d \in Val, BackendNew(x, d)
      PROVE  \A o \in missed' \ missed : backend[o] = NoData
  BY <1>2 DEF BackendNew, NoteMissed
<1>3. ASSUME NEW x \in Changing, NEW d \in Val, BackendUpdate(x, d)
      PROVE  \A o \in missed' \ missed : ~Covered(o)
  <2>1. x \in Obs /\ d \in Data
    BY RequestAssumption DEF Data
  <2> QED  BY <1>1, <1>3, <2>1, NotedUnlessUncovered DEF BackendUpdate, saving
<1>4. ASSUME NEW x \in Changing, BackendDrop(x)
      PROVE  \A o \in missed' \ missed : ~Covered(o)
  <2>1. x \in Obs /\ NoData \in Data
    BY RequestAssumption DEF Data
  <2> QED  BY <1>1, <1>4, <2>1, NotedUnlessUncovered DEF BackendDrop, saving
<1>5. CASE missed' = missed
  BY <1>5
<1>6. \/ \E x \in Changing : \/ \E d \in Val : BackendNew(x, d) \/ BackendUpdate(x, d)
                             \/ BackendDrop(x)
      \/ missed' = missed
  BY DEF Next, PostRequest, Answer, DropRequest, NewVersion, StoreUpdates, Undo, Redo,
         Reset, SaveBegin, SaveAccepted, SaveRefused, lapses
<1> QED  BY <1>2, <1>3, <1>4, <1>5, <1>6

(* An edited observation misses a change of the backend only when no       *)
(* request covers it or the change was reported as new data.               *)
THEOREM ChangesNoted == Spec => CoveredChangeNoted
<1> QED  BY InitViews, ViewsInductive, ChangeNotedStep, PTL DEF Spec, CoveredChangeNoted

(* Only SaveAccepted empties the edits and the history, and it shows them. *)
LEMMA SaveStep ==
  ViewsInv /\ [Next]_vars =>
    [saving /\ highestVersion' = 0 /\ old' = << >> /\ mEdited' = NoObs =>
       LET was == old[1].edited
       IN  \A o \in DOMAIN was :
             IF CurrentVersion(was[o]) > 0
               THEN /\ backend'[o] = CurrentData(was[o])
                    /\ \A r \in Req : view[r][o] # NoData /\ o \in InStep
                                    => view'[r][o] = view[r][o]
               ELSE \/ backend'[o] = backend[o] \/ o \notin InStep
                    \/ ~HasBackendData(was[o])]_vars
<1> SUFFICES ASSUME ViewsInv, Next, old # << >>, mEdited' = NoObs, old' = << >>,
                    NEW o \in DOMAIN old[1].edited
             PROVE  IF CurrentVersion(old[1].edited[o]) > 0
                      THEN /\ backend'[o] = CurrentData(old[1].edited[o])
                           /\ \A r \in Req : view[r][o] # NoData /\ o \in InStep
                                           => view'[r][o] = view[r][o]
                      ELSE \/ backend'[o] = backend[o] \/ o \notin InStep
                           \/ ~HasBackendData(old[1].edited[o])
  BY DEF saving
<1>1. SaveAccepted
  <2>1. ~SaveRefused
    BY NoObsFacts DEF SaveRefused
  <2> QED  BY <2>1 DEF Next, saving, PostRequest, Answer, DropRequest, BackendNew,
                       BackendUpdate, BackendDrop, NewVersion, StoreUpdates, Undo, Redo,
                       Reset, SaveBegin
<1> DEFINE m == theEdited
<1>2. /\ m = old[1].edited /\ o \in DOMAIN m /\ o \in Obs
      /\ backend'[o] = CurrentData(m[o]) /\ CurrentVersion(m[o]) \in Nat
      /\ CurrentVersion(m[o]) = 0 /\ HasBackendData(m[o]) =>
           CurrentData(m[o]) = BackendData(m[o])
      /\ \A q \in Req : view'[q][o] = CurrentData(m[o]) \/ view'[q][o] = view[q][o]
  BY <1>1, SaveFacts
<1> HIDE DEF m
<1>3. o \in InStep => BackendData(m[o]) = backend[o]
  BY <1>2 DEF ViewsInv, BelowInv, m
<1>4. CASE CurrentVersion(m[o]) > 0
  <2>1. ASSUME NEW r \in Req, view[r][o] # NoData, o \in InStep
        PROVE  view'[r][o] = view[r][o]
    <3>1. r \in requests /\ o \in Covers[r]
      BY <1>2, <2>1 DEF ViewsInv, AskedInv
    <3>2. Holds(r, view[r][o], r \in answered, m, backend, o)
      BY <2>1, <3>1 DEF ViewsInv, HoldsInv, m
    <3>3. view[r][o] = CurrentData(m[o])
      BY <1>2, <1>4, <2>1, <3>2 DEF Holds, Undone, Worth
    <3> QED  BY <1>2, <3>3
  <2> QED  BY <1>2, <1>4, <2>1
<1>5. CASE CurrentVersion(m[o]) = 0
  BY <1>2, <1>3, <1>5
<1> QED  BY <1>2, <1>4, <1>5

(* An accepted save is invisible: a client that showed anything of an      *)
(* observation with a visible edit shows the same afterwards, which is now *)
(* what the backend holds; undone edits write back what was there before.  *)
THEOREM SavesInvisible == Spec => SaveKeepsViews
<1> QED  BY InitViews, ViewsInductive, SaveStep, PTL DEF Spec, SaveKeepsViews

-----------------------------------------------------------------------------
(* EditAccess implements EditHistory, for every number of observations,    *)
(* requests and versions: a version list that shows its last entry not     *)
(* younger than the version of the EditAccess is one column of the stack   *)
(* of layers.  And the tree of the main window has one row per version.    *)
LayersOf(m, high) ==
  [n \in 1 .. high |-> [o \in Obs |->
     IF o \in DOMAIN m THEN Stored(m[o], n) ELSE NoData]]

ShownOf(m) ==
  [o \in Obs |-> IF o \in DOMAIN m /\ CurrentVersion(m[o]) > 0
                   THEN CurrentData(m[o]) ELSE NoData]

-----------------------------------------------------------------------------
(* Stored finds the last entry of a version. *)
LEMMA StoredOK ==
  ASSUME NEW n, NEW high, NEW ev, ListOK(ev, n, high), NEW k
  PROVE  /\ (\A i \in 2 .. Len(ev.versions) : ev.versions[i].version # k) =>
              Stored(ev, k) = NoData
         /\ \A i \in 2 .. Len(ev.versions) :
              /\ ev.versions[i].version = k
              /\ \A j \in 2 .. Len(ev.versions) : ev.versions[j].version = k => j <= i
              => Stored(ev, k) = ev.versions[i].data
<1> DEFINE at == {i \in 2 .. Len(ev.versions) : ev.versions[i].version = k}
<1>1. Stored(ev, k) = IF at = {} THEN NoData
                      ELSE ev.versions[CHOOSE i \in at : \A j \in at : j <= i].data
  BY DEF Stored
<1>2. ASSUME NEW i \in at, \A j \in at : j <= i
      PROVE  Stored(ev, k) = ev.versions[i].data
  <2>1. \A j \in at : (\A x \in at : x <= j) => j = i
    <3> SUFFICES ASSUME NEW j \in at, \A x \in at : x <= j PROVE j = i
      OBVIOUS
    <3>1. j <= i /\ i <= j /\ i \in Int /\ j \in Int
      BY <1>2
    <3> QED  BY <3>1
  <2> HIDE DEF at
  <2>2. (CHOOSE x \in at : \A j \in at : j <= x) = i
    BY <1>2, <2>1
  <2> QED  BY <1>1, <1>2, <2>2
<1> QED  BY <1>1, <1>2

(* Lists with the same entries of a version store the same there. *)
LEMMA StoredSame ==
  ASSUME NEW n, NEW high, NEW ev, ListOK(ev, n, high),
         NEW p, NEW h, NEW other, ListOK(other, p, h), NEW k,
         \A i \in 2 .. Len(ev.versions) : ev.versions[i].version = k =>
           i \in 2 .. Len(other.versions) /\ other.versions[i] = ev.versions[i],
         \A i \in 2 .. Len(other.versions) : other.versions[i].version = k =>
           i \in 2 .. Len(ev.versions) /\ other.versions[i] = ev.versions[i]
  PROVE  Stored(other, k) = Stored(ev, k)
<1> DEFINE at == {i \in 2 .. Len(ev.versions) : ev.versions[i].version = k}
<1>1. Len(ev.versions) \in Nat
  BY ListTypes
<1>2. CASE at = {}
  BY <1>2, StoredOK
<1>3. CASE at # {}
  <2>1. PICK i \in at : \A j \in at : j <= i
    <3>1. at \subseteq 1 .. Len(ev.versions)
      BY <1>1
    <3> HIDE DEF at
    <3> QED  BY <1>1, <1>3, <3>1, LastPosition
  <2>2. Stored(ev, k) = ev.versions[i].data
    BY <2>1, StoredOK
  <2>3. Stored(other, k) = other.versions[i].data
    BY <2>1, StoredOK
  <2> QED  BY <2>1, <2>2, <2>3
<1> QED  BY <1>2, <1>3

(* The last entry of the shown version is the shown one, and no version    *)
(* between it and the version of the EditAccess stored anything.           *)
LEMMA StoredShown ==
  ASSUME NEW n \in Nat, NEW high, NEW ev, ListOK(ev, n, high)
  PROVE  /\ CurrentVersion(ev) > 0 => /\ CurrentVersion(ev) \in 1 .. n
                                      /\ Stored(ev, CurrentVersion(ev)) = CurrentData(ev)
         /\ \A k \in 1 .. n : Stored(ev, k) # NoData => k <= CurrentVersion(ev)
<1> DEFINE vs == ev.versions
           c == ev.current
           L == Len(ev.versions)
<1>1. /\ L \in Nat /\ c \in 1 .. L /\ CurrentVersion(ev) = vs[c].version
      /\ CurrentVersion(ev) \in Nat
      /\ \A i \in 1 .. L : vs[i].version \in Nat
  BY ListTypes DEF ListOK, CurrentVersion
<1>2. /\ \A i \in 1 .. L : vs[i].version <= n <=> i <= c
      /\ \A i, j \in 1 .. L : i < j => vs[i].version <= vs[j].version
  BY DEF ListOK
<1>3. ASSUME NEW i \in 2 .. L, vs[i].version <= n
      PROVE  i <= c /\ vs[i].version <= vs[c].version
  <2>1. i \in 1 .. L /\ i <= c
    BY <1>1, <1>2, <1>3
  <2>2. CASE i = c
    BY <1>1, <2>2
  <2>3. CASE i < c
    BY <1>1, <1>2, <2>1, <2>3
  <2> QED  BY <1>1, <2>1, <2>2, <2>3
<1>4. ASSUME CurrentVersion(ev) > 0
      PROVE  /\ CurrentVersion(ev) \in 1 .. n
             /\ Stored(ev, CurrentVersion(ev)) = CurrentData(ev)
  <2>1. c # 1 /\ CurrentData(ev) = vs[c].data
    BY <1>4, ShownEntry
  <2>2. c \in 2 .. L
    BY <1>1, <2>1
  <2>3. vs[c].version <= n
    BY <1>1, <1>2
  <2>4. \A j \in 2 .. L : vs[j].version = vs[c].version => j <= c
    BY <1>3, <2>3
  <2>5. Stored(ev, vs[c].version) = vs[c].data
    BY <2>2, <2>4, StoredOK
  <2> QED  BY <1>1, <1>4, <2>1, <2>3, <2>5
<1>5. ASSUME NEW k \in 1 .. n, Stored(ev, k) # NoData
      PROVE  k <= CurrentVersion(ev)
  <2>1. PICK i \in 2 .. L : vs[i].version = k
    BY <1>5, StoredOK
  <2> QED  BY <1>1, <1>3, <2>1
<1> QED  BY <1>4, <1>5

(* The overlay of the layers up to the version is what the lists show. *)
LEMMA OverlayShows ==
  ASSUME NEW m, NEW n, NEW u, NEW high, Layer(m, n, u, high)
  PROVE  /\ History!Overlay(LayersOf(m, high), n) = ShownOf(m)
         /\ u = Cardinality({o \in Obs : ShownOf(m)[o] # NoData})
<1> DEFINE ls == LayersOf(m, high)
<1>1. n \in Nat /\ high \in Nat /\ n <= high /\ DOMAIN m \subseteq Obs
  BY DEF Layer
<1>2. \A k \in 1 .. n : \A o \in Obs :
        ls[k][o] = IF o \in DOMAIN m THEN Stored(m[o], k) ELSE NoData
  BY <1>1 DEF LayersOf
<1> HIDE DEF ls
<1>3. ASSUME NEW o \in Obs
      PROVE  LET at == {k \in 1 .. n : ls[k][o] # NoData}
             IN  (IF at = {} THEN NoData
                  ELSE ls[CHOOSE k \in at : \A j \in at : j <= k][o]) = ShownOf(m)[o]
  <2> DEFINE at == {k \in 1 .. n : ls[k][o] # NoData}
  <2>1. CASE o \notin DOMAIN m
    <3>1. at = {} /\ ShownOf(m)[o] = NoData
      BY <1>2, <2>1 DEF ShownOf
    <3> QED  BY <3>1
  <2>2. CASE o \in DOMAIN m
    <3> DEFINE V == CurrentVersion(m[o])
    <3>1. ListOK(m[o], n, high)
      BY <2>2 DEF Layer
    <3>2. /\ V > 0 => V \in 1 .. n /\ Stored(m[o], V) = CurrentData(m[o])
          /\ \A k \in 1 .. n : Stored(m[o], k) # NoData => k <= V
      BY <1>1, <3>1, StoredShown
    <3>3. V \in Nat /\ CurrentData(m[o]) # NoData
      BY <3>1, ListTypes, ListData, ValAssumption
    <3>4. ShownOf(m)[o] = IF V > 0 THEN CurrentData(m[o]) ELSE NoData
      BY <2>2 DEF ShownOf
    <3> HIDE DEF V
    <3>5. CASE V = 0
      <4>1. at = {}
        BY <1>1, <1>2, <2>2, <3>2, <3>5
      <4> QED  BY <3>4, <3>5, <4>1
    <3>6. CASE V > 0
      <4>1. V \in at /\ \A j \in at : j <= V
        BY <1>2, <2>2, <3>2, <3>3, <3>6
      <4>2. \A j \in at : (\A k \in at : k <= j) => j = V
        <5> SUFFICES ASSUME NEW j \in at, \A k \in at : k <= j PROVE j = V
          OBVIOUS
        <5>1. j <= V /\ V <= j /\ j \in Nat
          BY <4>1
        <5> QED  BY <3>3, <5>1
      <4>3. ls[V][o] = CurrentData(m[o])
        BY <1>2, <2>2, <3>2, <3>6
      <4> HIDE DEF at
      <4>4. (CHOOSE k \in at : \A j \in at : j <= k) = V
        BY <4>1, <4>2
      <4>5. (IF at = {} THEN NoData
             ELSE ls[CHOOSE k \in at : \A j \in at : j <= k][o]) = ShownOf(m)[o]
        BY <3>4, <3>6, <4>1, <4>3, <4>4
      <4> QED  BY <4>5 DEF at
    <3> QED  BY <3>3, <3>5, <3>6
  <2> QED  BY <2>1, <2>2
<1>4. History!Overlay(ls, n) = [o \in Obs |-> ShownOf(m)[o]]
  BY <1>3 DEF History!Overlay
<1>5. {o \in Obs : ShownOf(m)[o] # NoData} = Shown(m)
  <2>1. \A o \in DOMAIN m : CurrentData(m[o]) # NoData
    BY ListData, ValAssumption DEF Layer
  <2> QED  BY <1>1, <2>1 DEF ShownOf, Shown
<1> QED  BY <1>4, <1>5 DEF ls, Layer, ShownOf

-----------------------------------------------------------------------------
(* The layers are a sequence, one for each version redo can reach. *)
LEMMA LayersSeq ==
  ASSUME NEW m, NEW n, NEW u, NEW high, Layer(m, n, u, high)
  PROVE  /\ LayersOf(m, high) \in Seq([Obs -> Data])
         /\ Len(LayersOf(m, high)) = high
         /\ \A k \in 1 .. high : LayersOf(m, high)[k] =
              [o \in Obs |-> IF o \in DOMAIN m THEN Stored(m[o], k) ELSE NoData]
<1> DEFINE ls == LayersOf(m, high)
<1>1. high \in Nat
  BY DEF Layer
<1>2. ASSUME NEW o \in DOMAIN m, NEW k
      PROVE  Stored(m[o], k) \in Data
  <2>1. ListOK(m[o], n, high)
    BY DEF Layer
  <2> DEFINE at == {i \in 2 .. Len(m[o].versions) : m[o].versions[i].version = k}
  <2>2. Len(m[o].versions) \in Nat /\ at \subseteq 1 .. Len(m[o].versions)
    BY <2>1, ListTypes
  <2>3. CASE at = {}
    BY <2>1, <2>3, StoredOK DEF Data
  <2>4. CASE at # {}
    <3>1. PICK i \in at : \A j \in at : j <= i
      <4> HIDE DEF at
      <4> QED  BY <2>2, <2>4, LastPosition
    <3>2. Stored(m[o], k) = m[o].versions[i].data
      BY <2>1, <3>1, StoredOK
    <3>3. i \in 1 .. Len(m[o].versions)
      BY <2>2, <3>1
    <3> QED  BY <2>1, <3>2, <3>3, ListTypes
  <2> QED  BY <2>3, <2>4
<1>3. \A k \in 1 .. high :
        /\ ls[k] = [o \in Obs |-> IF o \in DOMAIN m THEN Stored(m[o], k) ELSE NoData]
        /\ ls[k] \in [Obs -> Data]
  BY <1>2 DEF LayersOf, Data
<1>4. ls = [k \in 1 .. high |-> ls[k]]
  BY DEF LayersOf
<1> HIDE DEF ls
<1>5. ls \in Seq([Obs -> Data]) /\ Len(ls) = high
  <2>1. ls \in [1 .. high -> [Obs -> Data]]
    BY <1>3, <1>4
  <2> QED  BY <1>1, <2>1, SeqDef, LenProperties, IsASeq
<1> QED  BY <1>3, <1>5 DEF ls

(* The layers are those of the edits. *)
LEMMA TheMapping ==
  ASSUME IInv
  PROVE  /\ Layer(theEdited, theCurrent, theUpdated, highestVersion)
         /\ theLayers = LayersOf(theEdited, highestVersion)
         /\ theShown = ShownOf(theEdited)
         /\ theLayers \in Seq([Obs -> Data]) /\ Len(theLayers) = highestVersion
         /\ \A k \in 1 .. highestVersion : theLayers[k] =
              [o \in Obs |-> IF o \in DOMAIN theEdited THEN Stored(theEdited[o], k)
                             ELSE NoData]
         /\ old = << >> => /\ theEdited = mEdited /\ theCurrent = mCurrentVersion
                           /\ theUpdated = mUpdated
<1>1. /\ Layer(theEdited, theCurrent, theUpdated, highestVersion)
      /\ old = << >> => /\ theEdited = mEdited /\ theCurrent = mCurrentVersion
                        /\ theUpdated = mUpdated
  <2>1. CASE old = << >>
    BY <2>1 DEF IInv, EditsInv, theEdited, theCurrent, theUpdated, saving
  <2>2. CASE old # << >>
    <3>1. PICK s : old = << s >> /\ Layer(s.edited, s.current, s.updated, highestVersion)
      BY <2>2 DEF IInv, EditsInv
    <3>2. old[1] = s
      BY <3>1
    <3> QED  BY <2>2, <3>1, <3>2 DEF theEdited, theCurrent, theUpdated, saving
  <2> QED  BY <2>1, <2>2
<1>2. theLayers = LayersOf(theEdited, highestVersion) /\ theShown = ShownOf(theEdited)
  BY DEF theLayers, LayersOf, theShown, ShownOf
<1> QED  BY <1>1, <1>2, LayersSeq

(* The edits show the overlay of their layers, and count it. *)
LEMMA EditsShow ==
  IInv => /\ theShown = History!Overlay(theLayers, theCurrent)
          /\ theUpdated = Cardinality({o \in Obs :
                            History!Overlay(theLayers, theCurrent)[o] # NoData})
<1> SUFFICES ASSUME IInv
             PROVE  /\ theShown = History!Overlay(theLayers, theCurrent)
                    /\ theUpdated = Cardinality({o \in Obs :
                                      History!Overlay(theLayers, theCurrent)[o] # NoData})
  OBVIOUS
<1>1. /\ History!Overlay(theLayers, theCurrent) = theShown
      /\ theUpdated = Cardinality({o \in Obs : theShown[o] # NoData})
  BY TheMapping, OverlayShows
<1> QED  BY <1>1

(* So they do after any step. *)
LEMMA StepShows == IInv' => History!Show(theLayers', theCurrent')
<1>1. IInv' => (/\ theShown = History!Overlay(theLayers, theCurrent)
                /\ theUpdated = Cardinality({o \in Obs :
                     History!Overlay(theLayers, theCurrent)[o] # NoData}))'
  BY EditsShow, PTL
<1>2. History!Overlay(theLayers, theCurrent)' = History!Overlay(theLayers', theCurrent')
  BY DEF History!Overlay
<1> QED  BY <1>1, <1>2 DEF History!Show, History!Overlay, History!Cardinality, Cardinality

(* No edits are no layers. *)
LEMMA NoLayers ==
  ASSUME NEW m, NEW n, NEW u, Layer(m, n, u, 0)
  PROVE  LayersOf(m, 0) = << >>
BY LayersSeq, EmptySeq

(* The initial states map to initial states.                               *)
LEMMA InitHistory == Init => History!HInit
<1> SUFFICES ASSUME Init PROVE History!HInit
  OBVIOUS
<1>1. /\ theEdited = NoObs /\ theCurrent = 0 /\ theUpdated = 0 /\ highestVersion = 0
  BY DEF Init, theEdited, theCurrent, theUpdated, saving
<1>2. theLayers = << >>
  BY <1>1, InitIInv, TheMapping, NoLayers
<1>3. theShown = [o \in Obs |-> NoData]
  BY <1>1, NoObsFacts DEF theShown
<1> QED  BY <1>1, <1>2, <1>3 DEF History!HInit, History!Blank

(* In every state, and after every step, the shown edits are counted. *)
LEMMA ShownCount == IInv => theUpdated = Cardinality(Shown(theEdited))
BY TheMapping DEF Layer

(* The same in the next state.                                             *)
LEMMA ShownCountNext == IInv' => theUpdated' = Cardinality(Shown(theEdited'))
<1>1. IInv' => (theUpdated = Cardinality(Shown(theEdited)))'
  BY ShownCount, PTL
<1> QED  BY <1>1 DEF Shown

(* A step that leaves the stored entries and what is shown alone. *)
LEMMA StutterStep ==
  ASSUME IInv, IInv', theCurrent' = theCurrent, highestVersion' = highestVersion,
         DOMAIN theEdited' = DOMAIN theEdited,
         \A o \in DOMAIN theEdited :
           /\ \A k \in 1 .. highestVersion : Stored(theEdited'[o], k) = Stored(theEdited[o], k)
           /\ CurrentVersion(theEdited'[o]) = CurrentVersion(theEdited[o])
           /\ CurrentVersion(theEdited[o]) > 0 =>
                CurrentData(theEdited'[o]) = CurrentData(theEdited[o])
  PROVE  UNCHANGED History!hvars
<1>1. theLayers' = theLayers
  BY DEF theLayers
<1>2. theShown' = theShown
  BY DEF theShown
<1>3. theUpdated = Cardinality(Shown(theEdited))
  BY ShownCount
<1>4. theUpdated' = Cardinality(Shown(theEdited'))
  BY ShownCountNext
<1>5. Shown(theEdited') = Shown(theEdited)
  BY DEF Shown
<1> QED  BY <1>1, <1>2, <1>3, <1>4, <1>5 DEF History!hvars

(* What the invariant says of the step's end. *)
LEMMA MappingNext ==
  IInv' =>
    /\ theLayers' \in Seq([Obs -> Data]) /\ Len(theLayers') = highestVersion'
    /\ \A k \in 1 .. highestVersion' : theLayers'[k] =
         [o \in Obs |-> IF o \in DOMAIN theEdited' THEN Stored(theEdited'[o], k)
                        ELSE NoData]
<1>1. IInv => /\ theLayers \in Seq([Obs -> Data]) /\ Len(theLayers) = highestVersion
              /\ \A k \in 1 .. highestVersion : theLayers[k] =
                   [o \in Obs |-> IF o \in DOMAIN theEdited THEN Stored(theEdited[o], k)
                                  ELSE NoData]
  BY TheMapping
<1>2. IInv' => (/\ theLayers \in Seq([Obs -> Data]) /\ Len(theLayers) = highestVersion
                /\ \A k \in 1 .. highestVersion : theLayers[k] =
                     [o \in Obs |-> IF o \in DOMAIN theEdited THEN Stored(theEdited[o], k)
                                    ELSE NoData])'
  BY <1>1, PTL
<1> QED  BY <1>2 DEF Stored

(* What the dropped list keeps, the part of DropVersionsFromOK that the rows need. *)
LEMMA DropKeeps ==
  ASSUME NEW n \in Nat, NEW high, NEW ev, ListOK(ev, n, high)
  PROVE  /\ ListOK(DropVersionsFrom(ev, n + 1), n + 1, n + 1)
         /\ Len(DropVersionsFrom(ev, n + 1).versions) = ev.current
         /\ \A i \in 1 .. ev.current :
              DropVersionsFrom(ev, n + 1).versions[i] = ev.versions[i]
  BY DropVersionsFromOK

(* Opening a version forgets the layers above and adds a blank one. *)
LEMMA NewVersionMaps ==
  ASSUME IInv, IInv', NewVersion
  PROVE  History!HNewVersion
<1> DEFINE n == mCurrentVersion
           m == mEdited
           blank == [o \in Obs |-> NoData]
           ls == Append(SubSeq(theLayers, 1, n), blank)
<1>1. /\ old = << >> /\ old' = << >>
      /\ mCurrentVersion' = n + 1 /\ highestVersion' = n + 1
      /\ mEdited' = [o \in edited |-> DropVersionsFrom(m[o], n + 1)]
  BY DEF NewVersion, saving
<1>2. /\ theEdited = m /\ theCurrent = n /\ theEdited' = mEdited' /\ theCurrent' = n + 1
      /\ Layer(m, n, theUpdated, highestVersion)
      /\ n \in Nat /\ highestVersion \in Nat /\ n <= highestVersion
  BY <1>1, TheMapping DEF theEdited, theCurrent, saving, Layer
<1>3. /\ theLayers \in Seq([Obs -> Data]) /\ Len(theLayers) = highestVersion
      /\ \A k \in 1 .. highestVersion : theLayers[k] =
           [o \in Obs |-> IF o \in DOMAIN m THEN Stored(m[o], k) ELSE NoData]
  BY <1>2, TheMapping
<1>4. /\ theLayers' \in Seq([Obs -> Data]) /\ Len(theLayers') = n + 1
      /\ \A k \in 1 .. n + 1 : theLayers'[k] =
           [o \in Obs |-> IF o \in DOMAIN mEdited' THEN Stored(mEdited'[o], k)
                          ELSE NoData]
  BY <1>1, <1>2, MappingNext
<1>5. ASSUME NEW o \in DOMAIN m
      PROVE  /\ \A k \in 1 .. n : Stored(mEdited'[o], k) = Stored(m[o], k)
             /\ Stored(mEdited'[o], n + 1) = NoData
  <2> DEFINE ev == m[o]
             left == DropVersionsFrom(ev, n + 1)
  <2>1. mEdited'[o] = left
    BY <1>1 DEF edited
  <2>2. ListOK(ev, n, highestVersion) /\ n \in Nat
    BY <1>2 DEF Layer
  <2> HIDE DEF ev, n, m
  <2>3. /\ ListOK(left, n + 1, n + 1) /\ Len(left.versions) = ev.current
        /\ \A i \in 1 .. ev.current : left.versions[i] = ev.versions[i]
    BY SMTT(30), <2>2, DropKeeps
  <2> HIDE DEF left
  <2>4. ev.current \in 1 .. Len(ev.versions) /\ Len(ev.versions) \in Nat
    BY <2>2, ListTypes DEF ListOK
  <2>5. \A i \in 1 .. Len(ev.versions) : ev.versions[i].version <= n <=> i <= ev.current
    BY <2>2 DEF ListOK
  <2>6. ASSUME NEW k \in 1 .. n PROVE Stored(left, k) = Stored(ev, k)
    <3>1. \A i \in 2 .. Len(ev.versions) : ev.versions[i].version = k =>
            i \in 2 .. Len(left.versions) /\ left.versions[i] = ev.versions[i]
      <4> SUFFICES ASSUME NEW i \in 2 .. Len(ev.versions), ev.versions[i].version = k
                   PROVE  i \in 2 .. Len(left.versions) /\ left.versions[i] = ev.versions[i]
        OBVIOUS
      <4>1. i \in 1 .. Len(ev.versions) /\ ev.versions[i].version <= n
        BY <1>2, <2>4
      <4>2. i <= ev.current /\ i \in 1 .. ev.current
        BY <2>4, <2>5, <4>1
      <4> QED  BY <2>3, <2>4, <4>2
    <3>2. \A i \in 2 .. Len(left.versions) : left.versions[i].version = k =>
            i \in 2 .. Len(ev.versions) /\ left.versions[i] = ev.versions[i]
      BY <2>3, <2>4
    <3> QED  BY <2>2, <2>3, <3>1, <3>2, StoredSame
  <2>7. Stored(left, n + 1) = NoData
    <3>1. ASSUME NEW i \in 2 .. Len(left.versions) PROVE left.versions[i].version # n + 1
      <4>1. i \in 1 .. ev.current /\ i \in 1 .. Len(ev.versions) /\ i <= ev.current
        BY <2>3, <2>4
      <4>2. ev.versions[i].version \in Nat /\ ev.versions[i].version <= n
        BY <2>2, <2>5, <4>1, ListTypes
      <4> QED  BY <1>2, <2>3, <4>1, <4>2
    <3> QED  BY <2>3, <3>1, StoredOK
  <2> QED  BY <2>1, <2>6, <2>7 DEF ev
<1>6. theLayers' = ls
  <2>1. /\ SubSeq(theLayers, 1, n) \in Seq([Obs -> Data])
        /\ Len(SubSeq(theLayers, 1, n)) = n
        /\ \A i \in 1 .. n : SubSeq(theLayers, 1, n)[i] = theLayers[i]
    <3>1. \A i \in 1 .. n : theLayers[i] \in [Obs -> Data]
      <4>1. \A i \in 1 .. n : i \in 1 .. Len(theLayers)
        BY <1>2, <1>3
      <4> QED  BY <1>3, <4>1, ElementOfSeq
    <3> QED  BY <1>2, <3>1, SubSeqProperties
  <2>2. blank \in [Obs -> Data]
    BY DEF Data
  <2>3. /\ ls \in Seq([Obs -> Data]) /\ Len(ls) = n + 1
        /\ \A i \in 1 .. n : ls[i] = theLayers[i]
        /\ ls[n + 1] = blank
    <3> HIDE DEF blank
    <3> QED  BY <1>2, <2>1, <2>2, AppendProperties
  <2> HIDE DEF ls
  <2>4. DOMAIN mEdited' = DOMAIN m
    BY <1>1 DEF edited
  <2>5. ASSUME NEW i \in 1 .. n PROVE theLayers'[i] = ls[i]
    <3>1. i \in 1 .. n + 1 /\ i \in 1 .. highestVersion
      BY <1>2
    <3> QED  BY <1>3, <1>4, <1>5, <2>3, <2>4, <3>1
  <2>6. theLayers'[n + 1] = ls[n + 1]
    <3>1. n + 1 \in 1 .. n + 1
      BY <1>2
    <3> QED  BY <1>4, <1>5, <2>3, <2>4, <3>1
  <2>7. \A i \in 1 .. Len(theLayers') : theLayers'[i] = ls[i]
    BY <1>2, <1>4, <2>5, <2>6
  <2> QED  BY <1>4, <2>3, <2>7, SeqEqual
<1> QED  BY <1>2, <1>6, StepShows DEF History!HNewVersion, History!Blank

(* What is stored in a list on top of older entries, *)
LEMMA AddedStored ==
  ASSUME NEW n \in Nat \ {0}, NEW ev, ListOK(ev, n, n), NEW d \in Val
  PROVE  /\ \A k \in 1 .. n - 1 : Stored(AddVersion(ev, n, d), k) = Stored(ev, k)
         /\ Stored(AddVersion(ev, n, d), n) = d
<1> DEFINE added == AddVersion(ev, n, d)
           L == Len(ev.versions)
<1>1. /\ ListOK(added, n, n) /\ Len(added.versions) = ev.current + 1
      /\ \A i \in 1 .. ev.current : added.versions[i] = ev.versions[i]
      /\ added.versions[ev.current + 1].version = n
      /\ added.versions[ev.current + 1].data = d
  BY AddVersionOK
<1> HIDE DEF added
<1>2. ev.current = L /\ L \in Nat /\ L >= 1
  <2>1. ev.current \in 1 .. L /\ L \in Nat
    BY ListTypes DEF ListOK
  <2>2. L \in 1 .. L
    BY <2>1
  <2>3. L <= ev.current
    BY <2>2 DEF ListOK
  <2> QED  BY <2>1, <2>3
<1>3. \A k \in 1 .. n - 1 : Stored(added, k) = Stored(ev, k)
  <2> SUFFICES ASSUME NEW k \in 1 .. n - 1 PROVE Stored(added, k) = Stored(ev, k)
    OBVIOUS
  <2>1. \A i \in 2 .. L : ev.versions[i].version = k =>
          i \in 2 .. Len(added.versions) /\ added.versions[i] = ev.versions[i]
    BY <1>1, <1>2
  <2>2. \A i \in 2 .. Len(added.versions) : added.versions[i].version = k =>
          i \in 2 .. L /\ added.versions[i] = ev.versions[i]
    BY <1>1, <1>2
  <2> QED  BY <1>1, <2>1, <2>2, StoredSame
<1>4. Stored(added, n) = d
  <2>1. L + 1 \in 2 .. Len(added.versions) /\ \A j \in 2 .. Len(added.versions) : j <= L + 1
    BY <1>1, <1>2
  <2> QED  BY <1>1, <1>2, <2>1, StoredOK
<1> QED  BY <1>3, <1>4 DEF added

(* and in a new one. *)
LEMMA MadeStored ==
  ASSUME NEW n \in Nat \ {0}, NEW b \in Data, NEW d \in Val
  PROVE  /\ \A k \in 1 .. n - 1 : Stored(NewVersions(b, n, d), k) = NoData
         /\ Stored(NewVersions(b, n, d), n) = d
<1> DEFINE made == NewVersions(b, n, d)
<1>1. /\ ListOK(made, n, n) /\ Len(made.versions) = 2
      /\ made.versions[2].version = n /\ made.versions[2].data = d
  BY NewVersionsOK DEF NewVersions
<1> HIDE DEF made
<1>2. \A i \in 2 .. 2 : i = 2
  OBVIOUS
<1>3. \A k \in 1 .. n - 1 : Stored(made, k) = NoData
  BY <1>1, <1>2, StoredOK
<1>4. Stored(made, n) = d
  <2>1. 2 \in 2 .. Len(made.versions) /\ \A j \in 2 .. Len(made.versions) : j <= 2
    BY <1>1, <1>2
  <2> QED  BY <1>1, <2>1, StoredOK
<1> QED  BY <1>3, <1>4 DEF made

(* Storing writes to the topmost layer. *)
LEMMA StoreMaps ==
  ASSUME IInv, IInv', NEW r \in Req, NEW S \in SUBSET Obs, NEW d \in Val,
         StoreUpdates(r, S, d)
  PROVE  S # {} /\ History!HStore(S, d)
<1> DEFINE n == mCurrentVersion
           m == mEdited
           top == [o \in Obs |-> IF o \in S THEN d ELSE theLayers[n][o]]
           ls == [theLayers EXCEPT ![n] = top]
<1>1. /\ old = << >> /\ old' = << >> /\ S # {}
      /\ n = highestVersion /\ n > 0 /\ mCurrentVersion' = n /\ highestVersion' = n
      /\ mEdited' = [o \in edited \cup S |->
           IF o \notin S THEN m[o]
           ELSE IF o \in edited THEN AddVersion(m[o], n, d)
           ELSE NewVersions(view[r][o], n, d)]
  BY DEF StoreUpdates, saving
<1>2. /\ theEdited = m /\ theCurrent = n /\ theEdited' = mEdited' /\ theCurrent' = n
      /\ Layer(m, n, theUpdated, n) /\ n \in Nat \ {0}
  BY <1>1, TheMapping DEF theEdited, theCurrent, saving, Layer
<1>3. /\ theLayers \in Seq([Obs -> Data]) /\ Len(theLayers) = n
      /\ \A k \in 1 .. n : theLayers[k] =
           [o \in Obs |-> IF o \in DOMAIN m THEN Stored(m[o], k) ELSE NoData]
  BY <1>1, <1>2, TheMapping
<1>4. /\ theLayers' \in Seq([Obs -> Data]) /\ Len(theLayers') = n
      /\ \A k \in 1 .. n : theLayers'[k] =
           [o \in Obs |-> IF o \in DOMAIN mEdited' THEN Stored(mEdited'[o], k)
                          ELSE NoData]
  <2>1. highestVersion' = n /\ theEdited' = mEdited'
    BY <1>1, <1>2
  <2> QED  BY <2>1, MappingNext
<1>5. /\ DOMAIN mEdited' = DOMAIN m \cup S
      /\ \A o \in DOMAIN m \ S : mEdited'[o] = m[o]
  BY <1>1 DEF edited
<1>6. ASSUME NEW o \in S
      PROVE  /\ \A k \in 1 .. n - 1 : Stored(mEdited'[o], k) =
                  IF o \in DOMAIN m THEN Stored(m[o], k) ELSE NoData
             /\ Stored(mEdited'[o], n) = d
  <2>1. CASE o \in DOMAIN m
    <3>1. mEdited'[o] = AddVersion(m[o], n, d)
      BY <1>1, <2>1 DEF edited
    <3>2. ListOK(m[o], n, n)
      BY <1>2, <2>1 DEF Layer
    <3> QED  BY <1>2, <2>1, <3>1, <3>2, AddedStored
  <2>2. CASE o \notin DOMAIN m
    <3>1. mEdited'[o] = NewVersions(view[r][o], n, d) /\ view[r][o] \in Data
      BY <1>1, <2>2 DEF edited, IInv, ClientsInv
    <3> QED  BY <1>2, <2>2, <3>1, MadeStored
  <2> QED  BY <2>1, <2>2
<1>7. theLayers[n] \in [Obs -> Data] /\ n \in 1 .. n
  <2>1. n \in 1 .. Len(theLayers)
    BY <1>2, <1>3
  <2> QED  BY <1>3, <2>1, ElementOfSeq
<1>8. theLayers' = ls
  <2>1. top \in [Obs -> Data]
    BY <1>7 DEF Data
  <2>2. /\ ls \in Seq([Obs -> Data]) /\ Len(ls) = n
        /\ \A i \in 1 .. n : ls[i] = IF i = n THEN top ELSE theLayers[i]
    <3> HIDE DEF top
    <3>1. n \in 1 .. Len(theLayers)
      BY <1>3, <1>7
    <3> QED  BY <1>3, <2>1, <3>1, ExceptSeq
  <2> HIDE DEF ls
  <2>3. theLayers'[n] = top
    BY <1>3, <1>4, <1>5, <1>6, <1>7
  <2>4. ASSUME NEW i \in 1 .. n, i # n PROVE theLayers'[i] = theLayers[i]
    <3>1. i \in 1 .. n - 1
      BY <1>2, <2>4
    <3>2. \A o \in Obs :
            (IF o \in DOMAIN mEdited' THEN Stored(mEdited'[o], i) ELSE NoData) =
            (IF o \in DOMAIN m THEN Stored(m[o], i) ELSE NoData)
      BY <1>5, <1>6, <3>1
    <3> QED  BY <1>3, <1>4, <3>2
  <2>5. \A i \in 1 .. Len(theLayers') : theLayers'[i] = ls[i]
    BY <1>4, <2>2, <2>3, <2>4
  <2> QED  BY <1>4, <2>2, <2>5, SeqEqual
<1> QED  BY <1>1, <1>2, <1>3, <1>8, StepShows DEF History!HStore

(* Undo and redo move the position and touch no layer. *)
LEMMA MoveMaps ==
  ASSUME IInv, IInv', NEW k \in Nat, mEdited' = MoveTo(k), mCurrentVersion' = k,
         old = << >>, old' = << >>, highestVersion' = highestVersion
  PROVE  theLayers' = theLayers /\ theCurrent' = k /\ theCurrent = mCurrentVersion
<1>1. /\ theEdited = mEdited /\ theEdited' = mEdited' /\ theCurrent' = k
      /\ theCurrent = mCurrentVersion
      /\ Layer(mEdited, mCurrentVersion, theUpdated, highestVersion)
  BY TheMapping DEF theEdited, theCurrent, saving
<1>2. mEdited' = [o \in DOMAIN mEdited |-> SetVersion(mEdited[o], k)]
  BY DEF MoveTo, edited
<1>3. /\ DOMAIN mEdited' = DOMAIN mEdited
      /\ \A o \in DOMAIN mEdited : mEdited'[o].versions = mEdited[o].versions
  BY <1>1, <1>2, MovedLists
<1>4. \A o \in DOMAIN mEdited : \A j : Stored(mEdited'[o], j) = Stored(mEdited[o], j)
  <2> SUFFICES ASSUME NEW o \in DOMAIN mEdited, NEW j
               PROVE  Stored(mEdited'[o], j) = Stored(mEdited[o], j)
    OBVIOUS
  <2>1. mEdited'[o].versions = mEdited[o].versions
    BY <1>3
  <2> QED  BY <2>1 DEF Stored
<1> QED  BY <1>1, <1>3, <1>4 DEF theLayers

(* Undo takes one layer off ...                                            *)
LEMMA UndoMaps ==
  ASSUME IInv, IInv', Undo
  PROVE  History!HUndo
<1>1. mCurrentVersion \in Nat /\ mCurrentVersion > 0 /\ mCurrentVersion - 1 \in Nat
  BY Unsaved DEF Undo, saving
<1>2. /\ theLayers' = theLayers /\ theCurrent' = mCurrentVersion - 1
      /\ theCurrent = mCurrentVersion
  BY <1>1, MoveMaps DEF Undo, saving
<1> QED  BY <1>1, <1>2, StepShows DEF History!HUndo

(* ... and redo puts it back.                                              *)
LEMMA RedoMaps ==
  ASSUME IInv, IInv', Redo
  PROVE  History!HRedo
<1>1. mCurrentVersion \in Nat /\ mCurrentVersion < highestVersion /\ mCurrentVersion + 1 \in Nat
  BY Unsaved DEF Redo, saving
<1>2. /\ theLayers' = theLayers /\ theCurrent' = mCurrentVersion + 1
      /\ theCurrent = mCurrentVersion /\ Len(theLayers) = highestVersion
  BY <1>1, MoveMaps, TheMapping DEF Redo, saving
<1> QED  BY <1>1, <1>2, StepShows DEF History!HRedo

(* Reset and an accepted save clear the layers. *)
LEMMA ClearMaps ==
  ASSUME IInv, IInv', Reset \/ SaveAccepted
  PROVE  History!HClear
<1>1. old' = << >> /\ mCurrentVersion' = 0 /\ highestVersion' = 0
  BY DEF Reset, SaveAccepted, saving, IInv, EditsInv
<1>2. theCurrent' = 0
  BY <1>1 DEF theCurrent, saving
<1>3. theLayers' \in Seq([Obs -> Data]) /\ Len(theLayers') = 0
  BY <1>1, MappingNext
<1>4. theLayers' = << >>
  BY <1>3, EmptySeq
<1> QED  BY <1>2, <1>4, StepShows DEF History!HClear

(* What the backend reports goes below the layers. *)
LEMMA NoteMaps ==
  ASSUME IInv, IInv', old = << >>, NEW x, NEW d \in Data, NoteBackend(x, d),
         UNCHANGED << mCurrentVersion, highestVersion, old >>
  PROVE  UNCHANGED History!hvars
<1>1. /\ theEdited = mEdited /\ theEdited' = mEdited' /\ theCurrent' = theCurrent
      /\ Layer(mEdited, mCurrentVersion, theUpdated, highestVersion)
      /\ mCurrentVersion \in Nat
  BY TheMapping DEF theEdited, theCurrent, saving, Layer
<1>2. CASE mEdited' = mEdited
  BY <1>1, <1>2, StutterStep
<1>3. CASE x \in edited /\ mEdited' = [mEdited EXCEPT ![x] = UpdateBackend(@, d)]
  <2> DEFINE ev == mEdited[x]
             noted == UpdateBackend(ev, d)
  <2>1. /\ DOMAIN mEdited' = DOMAIN mEdited
        /\ \A o \in DOMAIN mEdited : mEdited'[o] = IF o = x THEN noted ELSE mEdited[o]
    BY <1>1, <1>3 DEF Layer
  <2>2. ListOK(ev, mCurrentVersion, highestVersion)
    BY <1>1, <1>3 DEF Layer, edited
  <2> HIDE DEF ev
  <2>3. /\ ListOK(noted, mCurrentVersion, highestVersion)
        /\ CurrentVersion(noted) = CurrentVersion(ev) /\ noted.current = ev.current
        /\ Len(noted.versions) = Len(ev.versions)
        /\ \A i \in 2 .. Len(ev.versions) : noted.versions[i] = ev.versions[i]
    BY <1>1, <2>2, UpdateBackendOK
  <2> HIDE DEF noted
  <2>4. ASSUME NEW k PROVE Stored(noted, k) = Stored(ev, k)
    BY <2>2, <2>3, StoredSame
  <2>5. CurrentVersion(ev) > 0 => CurrentData(noted) = CurrentData(ev)
    <3> SUFFICES ASSUME CurrentVersion(ev) > 0 PROVE CurrentData(noted) = CurrentData(ev)
      OBVIOUS
    <3>1. ev.current # 1
      BY <2>2, ShownEntry
    <3>2. ev.current \in 1 .. Len(ev.versions) /\ Len(ev.versions) \in Nat
      BY <2>2, ListTypes DEF ListOK
    <3>3. ev.current \in 2 .. Len(ev.versions)
      BY <3>1, <3>2
    <3> QED  BY <2>3, <3>3 DEF CurrentData
  <2>6. \A o \in DOMAIN mEdited :
          /\ \A k \in 1 .. highestVersion : Stored(mEdited'[o], k) = Stored(mEdited[o], k)
          /\ CurrentVersion(mEdited'[o]) = CurrentVersion(mEdited[o])
          /\ CurrentVersion(mEdited[o]) > 0 =>
               CurrentData(mEdited'[o]) = CurrentData(mEdited[o])
    BY <2>1, <2>3, <2>4, <2>5 DEF ev
  <2> QED  BY <1>1, <2>1, <2>6, StutterStep
<1> QED  BY <1>2, <1>3 DEF NoteBackend

-----------------------------------------------------------------------------
(* Every step is a step of the history, or leaves it alone. *)
LEMMA HistoryStep ==
  IInv /\ IInv' /\ [Next]_vars => [History!HNext]_(History!hvars)
<1> SUFFICES ASSUME IInv, IInv', [Next]_vars
             PROVE  History!HNext \/ UNCHANGED History!hvars
  OBVIOUS
<1>1. ASSUME UNCHANGED << mCurrentVersion, highestVersion, mEdited, mUpdated, old >>
      PROVE  UNCHANGED History!hvars
  <2>1. theEdited' = theEdited /\ theCurrent' = theCurrent
    BY <1>1 DEF theEdited, theCurrent, saving
  <2> QED  BY <1>1, <2>1, StutterStep
<1>2. CASE UNCHANGED vars
  BY <1>1, <1>2 DEF vars
<1>3. ASSUME NEW r \in Req, PostRequest(r) \/ Answer(r) \/ DropRequest(r)
      PROVE  UNCHANGED History!hvars
  BY <1>1, <1>3 DEF PostRequest, Answer, DropRequest
<1>4. ASSUME NEW o \in Changing, NEW d \in Val, BackendNew(o, d)
      PROVE  UNCHANGED History!hvars
  BY <1>1, <1>4 DEF BackendNew
<1>5. ASSUME NEW o \in Changing, NEW d \in Val, BackendUpdate(o, d)
      PROVE  UNCHANGED History!hvars
  BY <1>5, NoteMaps DEF BackendUpdate, Data, saving
<1>6. ASSUME NEW o \in Changing, BackendDrop(o)
      PROVE  UNCHANGED History!hvars
  BY <1>6, NoteMaps DEF BackendDrop, Data, saving
<1>7. CASE SaveBegin \/ SaveRefused
  <2>1. /\ theEdited' = theEdited /\ theCurrent' = theCurrent
        /\ highestVersion' = highestVersion
    BY <1>7 DEF SaveBegin, SaveRefused, theEdited, theCurrent, saving
  <2> QED  BY <2>1, StutterStep
<1>8. CASE NewVersion
  BY <1>8, NewVersionMaps DEF History!HNext
<1>9. ASSUME NEW r \in Req, NEW S \in SUBSET Obs, NEW d \in Val, StoreUpdates(r, S, d)
      PROVE  History!HNext
  <2>1. S \in (SUBSET Obs) \ {{}} /\ History!HStore(S, d)
    BY <1>9, StoreMaps
  <2> QED  BY <2>1 DEF History!HNext
<1>10. CASE Undo \/ Redo
  BY <1>10, UndoMaps, RedoMaps DEF History!HNext
<1>11. CASE Reset \/ SaveAccepted
  BY <1>11, ClearMaps DEF History!HNext
<1> QED  BY <1>2, <1>3, <1>4, <1>5, <1>6, <1>7, <1>8, <1>9, <1>10, <1>11 DEF Next

(* Undo, redo, cut-off histories, repeated stores in one version, resets   *)
(* and saves behave as a stack of layers: the version lists with their     *)
(* pointers are a faithful way to keep it.                                 *)
THEOREM Refinement == Spec => ImplementsHistory
<1>1. Spec => []IInv
  BY InitIInv, Inductive, PTL DEF Spec
<1> QED  BY <1>1, InitHistory, HistoryStep, PTL DEF Spec, ImplementsHistory, History!HSpec

-----------------------------------------------------------------------------
(* A function on 1 .. h is a sequence of length h. *)
LEMMA LenOfRows ==
  ASSUME NEW h \in Nat, NEW f, DOMAIN f = 1 .. h, f = [i \in DOMAIN f |-> f[i]]
  PROVE  Len(f) = h
<1> DEFINE S == {f[i] : i \in 1 .. h}
<1>1. f \in [1 .. h -> S]
  OBVIOUS
<1>2. f \in Seq(S)
  <2> HIDE DEF S
  <2> QED  BY <1>1, SeqDef
<1>3. Len(f) \in Nat /\ 1 .. Len(f) = 1 .. h
  <2> HIDE DEF S
  <2> QED  BY <1>2, LenProperties
<1> QED  BY <1>3

(* The rows that a signal leaves. *)
LEMMA RowsLeft ==
  ASSUME NEW current, NEW highest \in Nat, NEW changed,
         OnCurrentVersionChanged(current, highest, changed)
  PROVE  Len(mHistory') = highest
<1> DEFINE rows == Rows(highest)
<1>1. DOMAIN rows = 1 .. highest /\ rows = [i \in DOMAIN rows |-> rows[i]]
  BY DEF Rows
<1>2. mHistory' = rows \/ mHistory' = [rows EXCEPT ![highest] = changed]
  BY DEF OnCurrentVersionChanged
<1> HIDE DEF rows
<1>3. DOMAIN mHistory' = 1 .. highest /\ mHistory' = [i \in DOMAIN mHistory' |-> mHistory'[i]]
  BY <1>1, <1>2
<1> QED  BY <1>3, LenOfRows

(* The tree follows the EditAccess. *)
LEMMA ModelStep ==
  RowPerVersion /\ IInv /\ IInv' /\ [Emitting \/ Silent]_modelVars => RowPerVersion'
<1> SUFFICES ASSUME RowPerVersion, IInv, IInv', [Emitting \/ Silent]_modelVars
             PROVE  Len(mHistory') = highestVersion'
  BY DEF RowPerVersion
<1>1. old = << >> => mCurrentVersion \in Nat /\ highestVersion \in Nat
  BY Unsaved
<1>2. CASE UNCHANGED modelVars
  BY <1>2 DEF modelVars, vars, RowPerVersion
<1>3. CASE Silent
  <2>1. mHistory' = mHistory /\ highestVersion' = highestVersion
    BY <1>3 DEF Silent, SaveBegin, SaveRefused, PostRequest, Answer, DropRequest,
                BackendNew, BackendUpdate, BackendDrop
  <2> QED  BY <2>1 DEF RowPerVersion
<1>4. ASSUME NEW changed, OnCurrentVersionChanged(mCurrentVersion', mCurrentVersion', changed),
             \/ NewVersion \/ Reset \/ SaveAccepted
             \/ \E r \in Req, S \in SUBSET Obs, d \in Val : StoreUpdates(r, S, d)
      PROVE  Len(mHistory') = highestVersion'
  <2>1. mCurrentVersion' = highestVersion' /\ mCurrentVersion' \in Nat
    <3>1. CASE NewVersion
      BY <1>1, <3>1 DEF NewVersion, saving
    <3>2. CASE Reset
      BY <3>2 DEF Reset
    <3>3. CASE SaveAccepted
      BY <3>3 DEF SaveAccepted, saving, IInv, EditsInv
    <3>4. CASE \E r \in Req, S \in SUBSET Obs, d \in Val : StoreUpdates(r, S, d)
      BY <1>1, <3>4 DEF StoreUpdates, saving
    <3> QED  BY <1>4, <3>1, <3>2, <3>3, <3>4
  <2> QED  BY <1>4, <2>1, RowsLeft
<1>5. ASSUME NEW changed, OnCurrentVersionChanged(mCurrentVersion', highestVersion', changed),
             Undo \/ Redo
      PROVE  Len(mHistory') = highestVersion'
  <2>1. highestVersion' \in Nat
    BY <1>1, <1>5 DEF Undo, Redo, saving
  <2> QED  BY <1>5, <2>1, RowsLeft
<1> QED  BY <1>2, <1>3, <1>4, <1>5 DEF Emitting

(* The tree has one row per version that undo and redo can reach, although *)
(* the signal carries the current version as the highest one: it is the    *)
(* highest whenever that signal is sent.                                   *)
THEOREM RowsCorrect == ModelSpec => []RowPerVersion
<1>1. ModelInit => IInv /\ RowPerVersion
  <2>1. Len(<< >>) = 0
    OBVIOUS
  <2> QED  BY <2>1, InitIInv DEF ModelInit, Init, RowPerVersion
<1>2. [Emitting \/ Silent]_modelVars => [Next]_vars
  BY DEF Emitting, Silent, Next, modelVars
<1>3. IInv /\ [Emitting \/ Silent]_modelVars => IInv'
  BY <1>2, Inductive
<1> QED  BY <1>1, <1>3, ModelStep, PTL DEF ModelSpec
=============================================================================
