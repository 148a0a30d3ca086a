------------------------ MODULE SubmissionOrder_proofs ------------------------
(***************************************************************************)
(* What Submission's operators on paths and files do, for every request:   *)
(* the paths beneath srcRoot, the copy in path order that normalize and    *)
(* MaterializeFiles take, and what a request's verdict owes to the order   *)
(* of its files, which is nothing.                                         *)
(***************************************************************************)
EXTENDS Submission, FiniteSetTheorems, FunctionTheorems, SequenceTheorems, TLAPS

-------------------------------------------------------------------------------
(***************************************************************************)
(* Paths.                                                                  *)
(***************************************************************************)
\* What is in a workdir is at a sequence of strings.  The five are strings too;
\* they are named since no prover knows of a literal that it is one.
Component == STRING \cup {"src", "source", "go.mod", "harness", "classes"}
Place == Seq(Component)
USE DEF Place

\* A path of a request is one.
LEMMA PathsArePlaces == Paths \subseteq Place
<1>1. STRING \subseteq Component
  BY DEF Component
<1>2. Paths \subseteq Seq(STRING)
  BY SubmissionAssumption
<1>3. Seq(STRING) \subseteq Seq(Component)
  BY <1>1, SeqMonotonic
<1> QED
  BY <1>2, <1>3

\* Joining srcRoot and a path (filepath.Join): one component more, at the top.
LEMMA SrcPath ==
  ASSUME NEW p \in Place
  PROVE  /\ Src \o p \in Place
         /\ Len(Src \o p) = Len(p) + 1
         /\ (Src \o p)[1] = "src"
         /\ \A i \in 1 .. Len(p) : (Src \o p)[i + 1] = p[i]
<1>1. Src \in Place /\ Len(Src) = 1 /\ Src[1] = "src"
  <2>1. "src" \in Component
    BY DEF Component
  <2>2. Src \in Place
    BY <2>1 DEF Src
  <2>3. Len(Src) = 1
    BY DEF Src
  <2>4. Src[1] = "src"
    BY DEF Src
  <2> QED
    BY <2>2, <2>3, <2>4
<1>2. /\ Src \o p \in Place
      /\ Len(Src \o p) = Len(Src) + Len(p)
      /\ \A i \in 1 .. Len(Src) + Len(p) :
           (Src \o p)[i] = IF i <= Len(Src) THEN Src[i] ELSE p[i - Len(Src)]
  BY <1>1, ConcatProperties
<1>3. Len(p) \in Nat
  OBVIOUS
<1> QED
  BY <1>1, <1>2, <1>3

\* Two files have one place only if they have one path.
LEMMA SrcInjective ==
  ASSUME NEW p \in Place, NEW q \in Place, Src \o p = Src \o q
  PROVE  p = q
<1>1. Len(p) + 1 = Len(q) + 1
  BY SrcPath
<1>2. Len(p) = Len(q)
  BY <1>1
<1>3. \A i \in 1 .. Len(p) : p[i] = q[i]
  BY <1>2, SrcPath
<1> QED
  BY <1>2, <1>3, SeqEqual

\* The last component of a place is the file's own name.
LEMMA SrcBase ==
  ASSUME NEW p \in Place, p # << >>
  PROVE  Base(Src \o p) = Base(p)
<1>1. Len(p) \in 1 .. Len(p)
  BY EmptySeq
<1> QED
  BY <1>1, SrcPath DEF Base

\* What MkdirAll creates for a path: the shorter sequences it begins with.
LEMMA IsParent ==
  ASSUME NEW p \in Place, NEW d \in Place
  PROVE  d \in Parents(p) <=> /\ 1 <= Len(d) /\ Len(d) < Len(p)
                              /\ \A i \in 1 .. Len(d) : d[i] = p[i]
<1>1. ASSUME d \in Parents(p)
      PROVE  1 <= Len(d) /\ Len(d) < Len(p) /\ \A i \in 1 .. Len(d) : d[i] = p[i]
  <2>1. PICK n \in 1 .. Len(p) - 1 : d = SubSeq(p, 1, n)
    BY <1>1 DEF Parents
  <2> QED
    BY <2>1
<1>2. ASSUME 1 <= Len(d), Len(d) < Len(p), \A i \in 1 .. Len(d) : d[i] = p[i]
      PROVE  d \in Parents(p)
  <2>1. SubSeq(p, 1, Len(d)) \in Place /\ Len(SubSeq(p, 1, Len(d))) = Len(d)
    BY <1>2
  <2>2. \A i \in 1 .. Len(d) : SubSeq(p, 1, Len(d))[i] = d[i]
    BY <1>2
  <2>3. d = SubSeq(p, 1, Len(d))
    BY <2>1, <2>2, SeqEqual
  <2>4. Len(d) \in 1 .. Len(p) - 1
    BY <1>2
  <2> QED
    BY <2>3, <2>4 DEF Parents
<1> QED
  BY <1>1, <1>2

LEMMA ParentsType ==
  ASSUME NEW p \in Place
  PROVE  Parents(p) \subseteq Place
BY DEF Parents

\* A parent's parent is a parent, and nothing is its own.
LEMMA ParentsOrder ==
  ASSUME NEW p \in Place
  PROVE  /\ p \notin Parents(p)
         /\ \A d \in Parents(p) : Parents(d) \subseteq Parents(p)
<1>1. p \notin Parents(p)
  BY IsParent
<1>2. ASSUME NEW d \in Parents(p), NEW e \in Parents(d)
      PROVE  e \in Parents(p)
  <2>1. d \in Place
    BY ParentsType
  <2>2. e \in Place
    BY <2>1, ParentsType
  <2>3. 1 <= Len(d) /\ Len(d) < Len(p) /\ \A i \in 1 .. Len(d) : d[i] = p[i]
    BY <2>1, IsParent
  <2>4. 1 <= Len(e) /\ Len(e) < Len(d) /\ \A i \in 1 .. Len(e) : e[i] = d[i]
    BY <2>1, <2>2, IsParent
  <2>5. 1 <= Len(e) /\ Len(e) < Len(p) /\ \A i \in 1 .. Len(e) : e[i] = p[i]
    BY <2>1, <2>2, <2>3, <2>4
  <2> QED
    BY <2>2, <2>5, IsParent
<1> QED
  BY <1>1, <1>2

\* A path above another is, beneath srcRoot, one of its parents: the file is
\* where the other one needs a directory.
LEMMA AboveIsParent ==
  ASSUME NEW p \in Place, NEW q \in Place
  PROVE  Above(p, q) <=> Src \o p \in Parents(Src \o q)
<1> DEFINE d == Src \o p
           c == Src \o q
<1>1. d \in Place /\ c \in Place /\ Len(d) = Len(p) + 1 /\ Len(c) = Len(q) + 1
  BY SrcPath
<1>2. d[1] = "src" /\ c[1] = "src"
  BY SrcPath
<1>3. (\A i \in 1 .. Len(p) : d[i + 1] = p[i]) /\ (\A i \in 1 .. Len(q) : c[i + 1] = q[i])
  BY SrcPath
<1> HIDE DEF d, c
<1>4. ASSUME Above(p, q) PROVE d \in Parents(c)
  <2>1. Len(p) < Len(q) /\ SubSeq(q, 1, Len(p)) = p
    BY <1>4 DEF Above
  <2>2. \A i \in 1 .. Len(p) : q[i] = p[i]
    BY <2>1
  <2>3. ASSUME NEW i \in 1 .. Len(d) PROVE d[i] = c[i]
    <3>1. CASE i = 1
      BY <3>1, <1>2
    <3>2. CASE i # 1
      <4>1. i - 1 \in 1 .. Len(p) /\ i - 1 \in 1 .. Len(q) /\ (i - 1) + 1 = i
        BY <3>2, <1>1, <2>1
      <4> QED
        BY <4>1, <2>2, <1>3
    <3> QED
      BY <3>1, <3>2
  <2> QED
    BY <2>1, <2>3, <1>1, IsParent
<1>5. ASSUME d \in Parents(c) PROVE Above(p, q)
  <2>1. Len(d) < Len(c) /\ \A i \in 1 .. Len(d) : d[i] = c[i]
    BY <1>5, <1>1, IsParent
  <2>2. Len(p) < Len(q)
    BY <2>1, <1>1
  <2>3. ASSUME NEW i \in 1 .. Len(p) PROVE q[i] = p[i]
    <3>1. i + 1 \in 1 .. Len(d) /\ i \in 1 .. Len(q)
      BY <1>1, <2>2
    <3> QED
      BY <3>1, <2>1, <1>3
  <2>4. SubSeq(q, 1, Len(p)) \in Place /\ Len(SubSeq(q, 1, Len(p))) = Len(p)
    BY <2>2
  <2>5. \A i \in 1 .. Len(p) : SubSeq(q, 1, Len(p))[i] = p[i]
    BY <2>2, <2>3
  <2>6. SubSeq(q, 1, Len(p)) = p
    BY <2>4, <2>5, SeqEqual
  <2> QED
    BY <2>2, <2>6 DEF Above
<1> QED
  BY <1>4, <1>5 DEF d, c

-------------------------------------------------------------------------------
(***************************************************************************)
(* The copy in path order.                                                 *)
(***************************************************************************)
\* validatePaths' seen map: no two files with one path.
Distinct(files) == \A i, j \in DOMAIN files : files[i].path = files[j].path => i = j

Elements(f) == {f[i] : i \in DOMAIN f}

InOrder(s) == \A i, j \in DOMAIN s : i < j => Before(s[i].path, s[j].path)

LEMMA FilesType ==
  ASSUME NEW files \in Seq(File)
  PROVE  /\ Len(files) \in Nat /\ DOMAIN files = 1 .. Len(files)
         /\ IsFiniteSet(DOMAIN files) /\ Cardinality(DOMAIN files) = Len(files)
         /\ \A i \in DOMAIN files : /\ files[i] \in File /\ files[i].path \in Paths
                                    /\ files[i].path \in Place /\ files[i].size \in Nat
<1>1. Len(files) \in Nat /\ DOMAIN files = 1 .. Len(files)
  OBVIOUS
<1>2. IsFiniteSet(1 .. Len(files)) /\ Cardinality(1 .. Len(files)) = Len(files)
  <2>1. /\ IsFiniteSet(1 .. Len(files))
        /\ Cardinality(1 .. Len(files)) = IF 1 > Len(files) THEN 0 ELSE Len(files) - 1 + 1
    BY <1>1, FS_Interval
  <2> QED
    BY <2>1, <1>1
<1>3. \A i \in DOMAIN files : files[i] \in File
  OBVIOUS
<1>4. \A i \in DOMAIN files : files[i].path \in Paths /\ files[i].size \in Nat
  BY <1>3 DEF File
<1> QED
  BY <1>1, <1>2, <1>3, <1>4, PathsArePlaces

\* sort.Slice has something to return: every file goes to the place after as
\* many files as come before it, and with distinct paths that is a permutation.
LEMMA OrderExists ==
  ASSUME NEW files \in Seq(File), Distinct(files)
  PROVE  \E s \in [DOMAIN files -> Elements(files)] : InOrder(s)
<1> DEFINE n == Len(files)
           D == 1 .. n
           Earlier(i) == {j \in D : Before(files[j].path, files[i].path)}
           rank == [i \in D |-> Cardinality(Earlier(i)) + 1]
<1>1. n \in Nat /\ DOMAIN files = D /\ IsFiniteSet(D) /\ Cardinality(D) = n
  BY FilesType
<1>2. \A i \in D : files[i] \in File /\ files[i].path \in Paths
  BY FilesType
<1>3. \A i, j \in D : i # j => files[i].path # files[j].path
  BY <1>1 DEF Distinct
<1> HIDE DEF n, D
<1>4. \A p, q \in Paths : /\ p # q => Before(p, q) \/ Before(q, p)
                          /\ ~(Before(p, q) /\ Before(q, p))
  BY SubmissionAssumption
<1>5. \A p, q, r \in Paths : Before(p, q) /\ Before(q, r) => Before(p, r)
  BY SubmissionAssumption
<1>6. ASSUME NEW i \in D
      PROVE  /\ IsFiniteSet(Earlier(i)) /\ Cardinality(Earlier(i)) \in Nat
             /\ Cardinality(Earlier(i)) < n
  <2>1. Earlier(i) \in SUBSET D /\ i \notin Earlier(i)
    BY <1>2, <1>4
  <2>2. Earlier(i) # D
    BY <2>1
  <2> HIDE DEF Earlier
  <2>3. IsFiniteSet(Earlier(i)) /\ Cardinality(Earlier(i)) <= n /\ Cardinality(Earlier(i)) # n
    BY <2>1, <2>2, <1>1, FS_Subset
  <2>4. Cardinality(Earlier(i)) \in Nat
    BY <2>3, FS_CardinalityType
  <2> QED
    BY <2>3, <2>4, <1>1
<1>7. ASSUME NEW i \in D, NEW j \in D, Before(files[i].path, files[j].path)
      PROVE  Cardinality(Earlier(i)) < Cardinality(Earlier(j))
  <2>1. Earlier(i) \in SUBSET Earlier(j)
    BY <1>2, <1>5, <1>7
  <2>2. i \in Earlier(j) /\ i \notin Earlier(i)
    BY <1>2, <1>4, <1>7
  <2>3. Earlier(i) # Earlier(j)
    BY <2>2
  <2> HIDE DEF Earlier
  <2>4. Cardinality(Earlier(i)) <= Cardinality(Earlier(j)) /\ Cardinality(Earlier(j)) # Cardinality(Earlier(i))
    BY <2>1, <2>3, <1>6, FS_Subset
  <2> QED
    BY <2>4, <1>6
<1> HIDE DEF Earlier
<1>8. rank \in [D -> D]
  <2>1. \A i \in D : Cardinality(Earlier(i)) + 1 \in 1 .. n
    BY <1>1, <1>6
  <2> QED
    BY <2>1 DEF D
<1>9. \A i, j \in D : Before(files[i].path, files[j].path) => rank[i] < rank[j]
  BY <1>6, <1>7
<1> HIDE DEF rank
<1>10. \A i \in D : rank[i] \in Int
  BY <1>1, <1>8 DEF D
<1>11. \A i, j \in D : rank[i] = rank[j] => i = j
  BY <1>2, <1>3, <1>4, <1>9, <1>10
<1>12. rank \in Injection(D, D)
  BY <1>8, <1>11, Fun_IsInj
<1>13. rank \in Surjection(D, D)
  BY <1>12, <1>1, FS_Injection
<1>14. \A k \in D : \E i \in D : rank[i] = k
  BY <1>13, Fun_SurjectionProperties
<1> DEFINE at == [k \in D |-> CHOOSE i \in D : rank[i] = k]
           s == [k \in D |-> files[at[k]]]
<1>15. \A k \in D : at[k] \in D /\ rank[at[k]] = k
  BY <1>14
<1> HIDE DEF at
<1>16. s \in [DOMAIN files -> Elements(files)] /\ DOMAIN s = D
  BY <1>1, <1>15 DEF Elements
<1>17. ASSUME NEW k \in D, NEW l \in D, k < l
       PROVE  Before(s[k].path, s[l].path)
  <2>1. k \in Int /\ l \in Int
    BY <1>1 DEF D
  <2>2. at[k] # at[l] /\ rank[at[k]] < rank[at[l]] /\ ~(rank[at[l]] < rank[at[k]])
    BY <1>15, <1>17, <2>1
  <2>3. ~Before(files[at[l]].path, files[at[k]].path)
    BY <2>2, <1>9, <1>15
  <2>4. Before(files[at[k]].path, files[at[l]].path)
    BY <2>2, <2>3, <1>2, <1>3, <1>4, <1>15
  <2> QED
    BY <2>4
<1>18. InOrder(s)
  BY <1>16, <1>17 DEF InOrder
<1> QED
  BY <1>16, <1>18

\* What the sorted copy is made from: how many files, and which.
InPathOrder(D, E) == CHOOSE s \in [D -> E] : \A i, j \in D : i < j => Before(s[i].path, s[j].path)

LEMMA SortedOfSet ==
  ASSUME NEW files
  PROVE  Sorted(files) = InPathOrder(DOMAIN files, Elements(files))
BY Zenon DEF Sorted, InPathOrder, Elements

\* The copy is in path order and holds the same files, each once (Normalize,
\* MaterializeFiles).
LEMMA SortedWorks ==
  ASSUME NEW files \in Seq(File), Distinct(files)
  PROVE  /\ Sorted(files) \in Seq(File) /\ DOMAIN Sorted(files) = DOMAIN files
         /\ InOrder(Sorted(files)) /\ Distinct(Sorted(files))
         /\ Elements(Sorted(files)) = Elements(files)
<1> DEFINE D == DOMAIN files
           E == Elements(files)
           s == Sorted(files)
<1>1. s \in [D -> E] /\ \A i, j \in D : i < j => Before(s[i].path, s[j].path)
  <2>1. \E t \in [D -> E] : \A i, j \in D : i < j => Before(t[i].path, t[j].path)
    BY OrderExists DEF InOrder
  <2> QED
    BY <2>1, SortedOfSet DEF InPathOrder
<1> HIDE DEF s
<1>2. Len(files) \in Nat /\ D = 1 .. Len(files) /\ IsFiniteSet(D)
  BY FilesType
<1>3. \A e \in E : e \in File /\ e.path \in Paths
  BY FilesType DEF Elements
<1>4. DOMAIN s = D /\ s \in Seq(File)
  BY <1>1, <1>2, <1>3
<1>5. InOrder(s)
  BY <1>1, <1>4 DEF InOrder
<1>6. Distinct(s)
  <2>1. \A p \in Paths : ~Before(p, p)
    BY SubmissionAssumption
  <2>2. ASSUME NEW i \in D, NEW j \in D, s[i].path = s[j].path, i # j
        PROVE  FALSE
    <3>1. i < j \/ j < i
      BY <1>2, <2>2
    <3> QED
      BY <3>1, <2>1, <2>2, <1>1, <1>3
  <2> QED
    BY <2>2, <1>4 DEF Distinct
<1>7. Elements(s) = E
  <2>1. files \in [D -> E] /\ \A e \in E : \E i \in D : files[i] = e
    BY <1>2 DEF Elements
  <2>2. \A i, j \in D : files[i] = files[j] => i = j
    BY DEF Distinct
  <2>3. files \in Surjection(D, E) /\ files \in Injection(D, E)
    BY <2>1, <2>2, Fun_IsInj, Fun_IsSurj
  <2>4. IsFiniteSet(E) /\ Cardinality(E) = Cardinality(D)
    BY <2>3, <1>2, FS_Surjection
  <2>5. \A i, j \in D : s[i] = s[j] => i = j
    BY <1>4, <1>6 DEF Distinct
  <2>6. s \in Injection(D, E)
    BY <2>5, <1>1, Fun_IsInj
  <2>7. s \in Surjection(D, E)
    BY <2>6, <2>4, FS_Injection
  <2>8. \A e \in E : \E i \in D : s[i] = e
    BY <2>7, Fun_SurjectionProperties
  <2> QED
    BY <2>8, <1>1, <1>4 DEF Elements
<1> QED
  BY <1>4, <1>5, <1>6, <1>7 DEF s

-------------------------------------------------------------------------------
(***************************************************************************)
(* The order of the files.                                                 *)
(***************************************************************************)
Permutation(D) == {p \in [D -> D] : \A i, j \in D : p[i] = p[j] => i = j}

Rearranged(files, p) == [i \in DOMAIN files |-> files[p[i]]]

\* Another order lists as many files and the same ones.
LEMMA RearrangedType ==
  ASSUME NEW files \in Seq(File), NEW p \in Permutation(DOMAIN files)
  PROVE  /\ \A j \in DOMAIN files : \E i \in DOMAIN files : p[i] = j
         /\ Rearranged(files, p) \in Seq(File)
         /\ DOMAIN Rearranged(files, p) = DOMAIN files
         /\ Len(Rearranged(files, p)) = Len(files)
         /\ Elements(Rearranged(files, p)) = Elements(files)
<1> DEFINE D == DOMAIN files
           g == Rearranged(files, p)
<1>1. Len(files) \in Nat /\ D = 1 .. Len(files) /\ IsFiniteSet(D)
  BY FilesType
<1>2. p \in [D -> D] /\ \A i, j \in D : p[i] = p[j] => i = j
  BY DEF Permutation
<1>3. p \in Injection(D, D)
  BY <1>2, Fun_IsInj
<1>4. p \in Surjection(D, D)
  BY <1>3, <1>1, FS_Injection
<1>5. \A j \in D : \E i \in D : p[i] = j
  BY <1>4, Fun_SurjectionProperties
<1>6. \A i \in D : files[i] \in File
  BY FilesType
<1>7. DOMAIN g = D /\ \A i \in D : g[i] = files[p[i]]
  BY DEF Rearranged
<1>8. g = [i \in 1 .. Len(files) |-> files[p[i]]]
  BY <1>1 DEF Rearranged
<1> HIDE DEF g
<1>9. \A i \in 1 .. Len(files) : files[p[i]] \in File
  BY <1>1, <1>2, <1>6
<1>10. g \in Seq(File) /\ Len(g) = Len(files)
  BY <1>1, <1>8, <1>9
<1>11. Elements(g) = Elements(files)
  BY <1>2, <1>5, <1>7 DEF Elements
<1> QED
  BY <1>5, <1>7, <1>10, <1>11 DEF g

\* It can be undone.
LEMMA RearrangedBack ==
  ASSUME NEW files \in Seq(File), NEW p \in Permutation(DOMAIN files)
  PROVE  \E r \in Permutation(DOMAIN files) : files = Rearranged(Rearranged(files, p), r)
<1> DEFINE D == DOMAIN files
           r == [j \in D |-> CHOOSE i \in D : p[i] = j]
<1>1. \A j \in D : \E i \in D : p[i] = j
  BY RearrangedType
<1>2. \A j \in D : r[j] \in D /\ p[r[j]] = j
  BY <1>1
<1>3. r \in [D -> D]
  BY <1>2
<1> HIDE DEF r
<1>4. r \in Permutation(D)
  BY <1>2, <1>3 DEF Permutation
<1>5. /\ DOMAIN Rearranged(Rearranged(files, p), r) = D
      /\ \A j \in D : Rearranged(Rearranged(files, p), r)[j] = files[j]
  BY <1>2 DEF Rearranged
<1>6. files = [j \in D |-> files[j]]
  OBVIOUS
<1>7. files = Rearranged(Rearranged(files, p), r)
  BY <1>5, <1>6 DEF Rearranged
<1> QED
  BY <1>4, <1>7

\* The running total of validatePaths does not depend on the order.
LEMMA TotalSame ==
  ASSUME NEW files \in Seq(File), NEW p \in Permutation(DOMAIN files)
  PROVE  Total(Rearranged(files, p)) = Total(files)
<1> DEFINE D == DOMAIN files
           g == Rearranged(files, p)
           Share(i) == {i} \X (1 .. g[i].size)
           bytes == UNION {Share(i) : i \in D}
           goal == UNION {{i} \X (1 .. files[i].size) : i \in D}
           move == [x \in bytes |-> <<p[x[1]], x[2]>>]
<1>1. DOMAIN g = D /\ \A i \in D : g[i] = files[p[i]]
  BY DEF Rearranged
<1>2. p \in [D -> D] /\ \A i, j \in D : p[i] = p[j] => i = j
  BY DEF Permutation
<1>3. \A j \in D : \E i \in D : p[i] = j
  BY RearrangedType
<1>4. IsFiniteSet(D) /\ \A i \in D : files[i].size \in Nat
  BY FilesType
<1>5. Total(g) = Cardinality(bytes) /\ Total(files) = Cardinality(goal)
  BY <1>1, Zenon DEF Total
<1> HIDE DEF g
<1>6. IsFiniteSet(bytes)
  <2> DEFINE shares == {Share(i) : i \in D}
             share == [i \in D |-> Share(i)]
  <2>1. share \in Surjection(D, shares)
    <3>1. share \in [D -> shares] /\ \A x \in shares : \E i \in D : share[i] = x
      OBVIOUS
    <3> HIDE DEF share, shares
    <3> QED
      BY <3>1, Fun_IsSurj
  <2>2. \A i \in D : IsFiniteSet(Share(i))
    <3> SUFFICES ASSUME NEW i \in D PROVE IsFiniteSet(Share(i))
      OBVIOUS
    <3>1. g[i].size \in Nat
      BY <1>1, <1>2, <1>4
    <3>2. IsFiniteSet({i})
      BY FS_Singleton
    <3>3. IsFiniteSet(1 .. g[i].size)
      BY <3>1, FS_Interval
    <3> QED
      BY <3>2, <3>3, FS_Product
  <2> HIDE DEF share, Share
  <2>3. IsFiniteSet(shares)
    BY <2>1, <1>4, FS_Surjection
  <2>4. \A x \in shares : IsFiniteSet(x)
    BY <2>2
  <2> HIDE DEF shares
  <2>5. IsFiniteSet(UNION shares)
    BY <2>3, <2>4, FS_UNION
  <2> QED
    BY <2>5 DEF shares
<1>7. \A x : x \in bytes <=> \E i \in D, b \in Nat : b \in 1 .. g[i].size /\ x = <<i, b>>
  OBVIOUS
<1>8. \A x : x \in goal <=> \E i \in D, b \in Nat : b \in 1 .. files[i].size /\ x = <<i, b>>
  OBVIOUS
<1>9. move = [x \in bytes |-> <<p[x[1]], x[2]>>]
  OBVIOUS
<1> HIDE DEF bytes, goal, Share, move
<1>10. move \in [bytes -> goal]
  <2>1. ASSUME NEW x \in bytes PROVE <<p[x[1]], x[2]>> \in goal
    <3>1. PICK i \in D, b \in Nat : b \in 1 .. g[i].size /\ x = <<i, b>>
      BY <1>7
    <3>2. p[i] \in D /\ b \in 1 .. files[p[i]].size
      BY <3>1, <1>1, <1>2
    <3>3. <<p[i], b>> \in goal
      BY <3>2, <1>8
    <3> QED
      BY <3>1, <3>3
  <2> QED
    BY <2>1, <1>9
<1>11. \A x, y \in bytes : move[x] = move[y] => x = y
  <2> SUFFICES ASSUME NEW x \in bytes, NEW y \in bytes, move[x] = move[y]
               PROVE  x = y
    OBVIOUS
  <2>1. PICK i \in D, b \in Nat : b \in 1 .. g[i].size /\ x = <<i, b>>
    BY <1>7
  <2>2. PICK j \in D, c \in Nat : c \in 1 .. g[j].size /\ y = <<j, c>>
    BY <1>7
  <2>3. <<p[i], b>> = <<p[j], c>>
    BY <2>1, <2>2, <1>9
  <2> QED
    BY <2>1, <2>2, <2>3, <1>2
<1>12. \A z \in goal : \E x \in bytes : move[x] = z
  <2> SUFFICES ASSUME NEW z \in goal PROVE \E x \in bytes : move[x] = z
    OBVIOUS
  <2>1. PICK j \in D, b \in Nat : b \in 1 .. files[j].size /\ z = <<j, b>>
    BY <1>8
  <2>2. PICK i \in D : p[i] = j
    BY <1>3
  <2>3. b \in 1 .. g[i].size
    BY <2>1, <2>2, <1>1
  <2>4. <<i, b>> \in bytes
    BY <2>3, <1>7
  <2>5. move[<<i, b>>] = z
    BY <2>4, <2>1, <2>2, <1>9
  <2> QED
    BY <2>4, <2>5
<1>13. move \in Bijection(bytes, goal)
  BY <1>10, <1>11, <1>12, Fun_IsBij
<1>14. Cardinality(goal) = Cardinality(bytes)
  BY <1>13, <1>6, FS_Bijection DEF ExistsBijection
<1> QED
  BY <1>5, <1>14 DEF g

\* validatePaths accepts every order of what it accepts.
LEMMA validatePathsSame ==
  ASSUME NEW files \in Seq(File), NEW p \in Permutation(DOMAIN files), NEW pol, NEW caps,
         validatePaths(files, pol, caps)
  PROVE  validatePaths(Rearranged(files, p), pol, caps)
<1> DEFINE D == DOMAIN files
           g == Rearranged(files, p)
<1>1. g \in Seq(File) /\ DOMAIN g = D /\ Len(g) = Len(files)
  BY RearrangedType
<1>2. \A i \in D : p[i] \in D /\ g[i] = files[p[i]]
  BY DEF Rearranged, Permutation
<1>3. \A i, j \in D : p[i] = p[j] => i = j
  BY DEF Permutation
<1>4. \A j \in D : \E i \in D : p[i] = j
  BY RearrangedType
<1>5. Total(g) = Total(files)
  BY TotalSame
<1> HIDE DEF g
<1>6. g # << >> /\ Within(Len(g), caps.files)
  BY <1>1 DEF validatePaths
<1>7. \A i \in D : Within(g[i].size, caps.fileBytes) /\ validatePath(g[i].path, pol, caps)
  BY <1>2 DEF validatePaths
<1>8. Within(Total(g), caps.filesBytes)
  BY <1>5 DEF validatePaths
<1>9. \A i, j \in D : g[i].path = g[j].path => i = j
  <2>1. \A i, j \in D : files[i].path = files[j].path => i = j
    BY DEF validatePaths
  <2>2. ASSUME NEW i \in D, NEW j \in D, g[i].path = g[j].path
        PROVE  i = j
    <3>1. files[p[i]].path = files[p[j]].path
      BY <2>2, <1>2
    <3>2. p[i] = p[j]
      BY <3>1, <2>1, <1>2
    <3> QED
      BY <3>2, <1>3
  <2> QED
    BY <2>2
<1>10. pol.compileExts = {} \/ \E i \in D : Ext(Base(g[i].path)) \in pol.compileExts
  <2>1. CASE pol.compileExts = {}
    BY <2>1
  <2>2. CASE \E j \in D : Ext(Base(files[j].path)) \in pol.compileExts
    <3>1. PICK j \in D : Ext(Base(files[j].path)) \in pol.compileExts
      BY <2>2
    <3>2. PICK i \in D : p[i] = j
      BY <1>4
    <3>3. g[i].path = files[j].path
      BY <3>2, <1>2
    <3> QED
      BY <3>1, <3>3
  <2> QED
    BY <2>1, <2>2 DEF validatePaths
<1> QED
  BY <1>1, <1>6, <1>7, <1>8, <1>9, <1>10 DEF validatePaths, g

-------------------------------------------------------------------------------
(***************************************************************************)
(* Requests.                                                               *)
(***************************************************************************)
\* A request with other files, or the same in another order.
With(q, files) == [q EXCEPT !.files = files]

LEMMA OrdersAre ==
  ASSUME NEW s \in Request, NEW q
  PROVE  q \in Orders(s) <=> \E p \in Permutation(DOMAIN s.files) : q = With(s, Rearranged(s.files, p))
<1>1. {f \in [DOMAIN s.files -> DOMAIN s.files] : \A i, j \in DOMAIN f : f[i] = f[j] => i = j}
        = Permutation(DOMAIN s.files)
  BY DEF Permutation
<1>2. Orders(s) = {With(s, Rearranged(s.files, p)) : p \in Permutation(DOMAIN s.files)}
  BY <1>1, Zenon DEF Orders, Rearranged, With
<1> QED
  BY <1>2

LEMMA WithFields ==
  ASSUME NEW s \in Request, NEW files \in Seq(File)
  PROVE  LET q == With(s, files)
         IN /\ q \in Request /\ q.files = files
            /\ q.language = s.language /\ q.mode = s.mode /\ q.source = s.source
            /\ q.entrypoint = s.entrypoint /\ q.stdin = s.stdin /\ q.stdins = s.stdins
            /\ q.wire = s.wire /\ q.wellEncoded = s.wellEncoded
            /\ \A more : With(q, more) = With(s, more)
            /\ With(s, s.files) = s
BY DEF With, Request

\* Whether an entrypoint will do depends on which files there are.
LEMMA resolveEntrypointSame ==
  ASSUME NEW s \in Request, NEW p \in Permutation(DOMAIN s.files), NEW pol,
         resolveEntrypoint(s, pol)
  PROVE  resolveEntrypoint(With(s, Rearranged(s.files, p)), pol)
<1> DEFINE q == With(s, Rearranged(s.files, p))
           D == DOMAIN s.files
<1>1. s.files \in Seq(File)
  BY DEF Request
<1>2. DOMAIN Rearranged(s.files, p) = D /\ Rearranged(s.files, p) \in Seq(File)
  BY <1>1, RearrangedType
<1>3. q.files = Rearranged(s.files, p) /\ q.entrypoint = s.entrypoint
  BY <1>2, WithFields
<1>4. DOMAIN q.files = D /\ \A i \in D : q.files[i] = s.files[p[i]]
  BY <1>2, <1>3 DEF Rearranged
<1>5. \A j \in D : \E i \in D : p[i] = j
  BY <1>1, RearrangedType
<1> HIDE DEF q
<1>6. Entry(q, pol) = Entry(s, pol)
  BY <1>3 DEF Entry
<1>7. ASSUME pol.entryIsClass PROVE resolveEntrypoint(q, pol)
  BY <1>6, <1>7 DEF resolveEntrypoint
<1>8. ASSUME ~pol.entryIsClass PROVE resolveEntrypoint(q, pol)
  <2>1. validatePath(Entry(q, pol), pol, Caps)
    BY <1>6, <1>8 DEF resolveEntrypoint
  <2>2. PICK j \in D : s.files[j].path = Entry(s, pol)
    BY <1>8 DEF resolveEntrypoint
  <2>3. PICK i \in D : p[i] = j
    BY <1>5
  <2>4. i \in DOMAIN q.files /\ q.files[i].path = Entry(q, pol)
    BY <2>2, <2>3, <1>4, <1>6
  <2> QED
    BY <2>1, <2>4, <1>8 DEF resolveEntrypoint
<1> QED
  BY <1>7, <1>8 DEF q

\* Another order of the files is as well a request, can be undone, decodes as
\* the first does, and when the first is accepted it is too, for the same
\* canonical request.
LEMMA OrderSame ==
  ASSUME NEW s \in Request, NEW q \in Orders(s)
  PROVE  /\ q \in Request /\ s \in Orders(q)
         /\ q.language = s.language
         /\ Decodes(q) <=> Decodes(s)
         /\ Accepts(s) => Accepts(q) /\ normalize(q) = normalize(s)
<1>1. s.files \in Seq(File)
  BY DEF Request
<1>2. PICK p \in Permutation(DOMAIN s.files) : q = With(s, Rearranged(s.files, p))
  BY OrdersAre
<1> DEFINE g == Rearranged(s.files, p)
<1>3. /\ g \in Seq(File) /\ DOMAIN g = DOMAIN s.files /\ Len(g) = Len(s.files)
      /\ Elements(g) = Elements(s.files)
  BY <1>1, RearrangedType
<1>4. /\ q \in Request /\ q.files = g
      /\ q.language = s.language /\ q.mode = s.mode /\ q.source = s.source
      /\ q.entrypoint = s.entrypoint /\ q.stdin = s.stdin /\ q.stdins = s.stdins
      /\ q.wire = s.wire /\ q.wellEncoded = s.wellEncoded
  BY <1>2, <1>3, WithFields
<1>5. s \in Orders(q)
  <2>1. PICK r \in Permutation(DOMAIN s.files) : s.files = Rearranged(g, r)
    BY <1>1, RearrangedBack
  <2>2. r \in Permutation(DOMAIN q.files)
    BY <1>3, <1>4
  <2>3. With(q, Rearranged(q.files, r)) = With(s, s.files)
    BY <2>1, <1>2, <1>3, <1>4, WithFields
  <2>4. s = With(q, Rearranged(q.files, r))
    BY <2>3, <1>1, WithFields
  <2> QED
    BY <2>2, <2>4, <1>4, OrdersAre
<1>6. Decodes(q) <=> Decodes(s)
  BY <1>4 DEF Decodes, Batch
<1>7. (q.files = << >>) <=> (s.files = << >>)
  BY <1>1, <1>3, <1>4, EmptySeq
<1>8. ASSUME Accepts(s) PROVE Accepts(q)
  <2>1. ASSUME s.files # << >>
        PROVE  LET pol == Registry(q.mode)[q.language]
               IN validatePaths(q.files, pol, Caps) /\ (q.mode # "test" => resolveEntrypoint(q, pol))
    <3> DEFINE pol == Registry(s.mode)[s.language]
    <3>1. validatePaths(s.files, pol, Caps) /\ (s.mode # "test" => resolveEntrypoint(s, pol))
      BY <1>8, <2>1 DEF Accepts, WellShaped
    <3> HIDE DEF pol
    <3>2. validatePaths(g, pol, Caps)
      BY <3>1, <1>1, validatePathsSame
    <3>3. s.mode # "test" => resolveEntrypoint(q, pol)
      BY <3>1, <1>2, resolveEntrypointSame
    <3> QED
      BY <3>2, <3>3, <1>4 DEF pol
  <2>2. WellShaped(q)
    BY <2>1, <1>4, <1>7, <1>8 DEF Accepts, WellShaped
  <2>3. validateMode(q) /\ (IsBatch(q) <=> IsBatch(s))
    BY <1>4, <1>8 DEF Accepts, validateMode, IsBatch
  <2> QED
    BY <2>2, <2>3, <1>4, <1>8 DEF Accepts
<1>9. normalize(q) = normalize(s)
  <2>1. CASE s.files = << >>
    <3>1. g = s.files
      BY <2>1, <1>4, <1>7
    <3>2. q = s
      BY <3>1, <1>1, <1>2, WithFields
    <3> QED
      BY <3>2
  <2>2. CASE s.files # << >>
    <3>1. Sorted(q.files) = Sorted(s.files)
      BY <1>3, <1>4, SortedOfSet
    <3>2. \A pol : Entry(q, pol) = Entry(s, pol)
      BY <1>4 DEF Entry
    <3> DEFINE e == IF s.mode = "test" THEN << >> ELSE Entry(s, Registry(s.mode)[s.language])
    <3>3. normalize(q) = [q EXCEPT !.files = Sorted(s.files), !.entrypoint = e]
      BY <2>2, <3>1, <3>2, <1>4, <1>7 DEF normalize
    <3>4. normalize(s) = [s EXCEPT !.files = Sorted(s.files), !.entrypoint = e]
      BY <2>2 DEF normalize
    <3> HIDE DEF e
    <3>5. [q EXCEPT !.files = Sorted(s.files), !.entrypoint = e]
            = [s EXCEPT !.files = Sorted(s.files), !.entrypoint = e]
      BY <1>2 DEF With, Request
    <3> QED
      BY <3>3, <3>4, <3>5
  <2> QED
    BY <2>1, <2>2
<1> QED
  BY <1>4, <1>5, <1>6, <1>8, <1>9

===============================================================================
