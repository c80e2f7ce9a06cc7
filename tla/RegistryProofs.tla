---------------------------- MODULE RegistryProofs ----------------------------
(* Theorems about what a registry lists and counts: RepositoryListing, for *)
(* every set of tags, digests and documents, every page size, and any      *)
(* number of clients and scans; ActiveUploads, for any number of sessions  *)
(* and requests.                                                           *)
EXTENDS RepositoryListing, ActiveUploads, FiniteSetTheorems, TLAPS

(* A client that is between two pages is owed only what comes after the    *)
(* last one; nobody else has begun a page or is owed anything.             *)
WalkInv ==
  /\ TypeOK
  /\ \A c \in Client :
       /\ c \notin twice
       /\ walk[c] # "next" => last[c] = 0 /\ owed[c] = {}
       /\ \A n \in owed[c] : n > last[c]

ScanInv == TypeOK /\ ScanComplete
-----------------------------------------------------------------------------
(* Sets of places. *)

LEMMA LeastExists ==
  ASSUME NEW S \in SUBSET Nat, S # {}
  PROVE  \E n \in S : \A k \in S : n <= k
<1>1. PICK n \in S : \A k \in S : ~ (<<k, n>> \in OpToRel(<, Nat))
  BY NatLessThanWellFounded, WFMin
<1>2. \A k \in S : ~(k < n)
  BY <1>1 DEF OpToRel
<1> QED
  BY <1>2

(* The member with the fewest greater ones is the greatest. *)
LEMMA GreatestExists ==
  ASSUME NEW S \in SUBSET Nat, IsFiniteSet(S), S # {}
  PROVE  \E n \in S : \A k \in S : k <= n
<1> DEFINE Above(n) == {k \in S : k > n}
           Counts == {Cardinality(Above(n)) : n \in S}
<1>1. \A n \in S : IsFiniteSet(Above(n)) /\ Cardinality(Above(n)) \in Nat
  BY FS_Subset, FS_CardinalityType
<1>2. PICK m \in Counts : \A k \in Counts : m <= k
  <2>1. Counts \in SUBSET Nat /\ Counts # {}
    BY <1>1
  <2> QED
    BY <2>1, LeastExists
<1>3. PICK n \in S : m = Cardinality(Above(n))
  BY <1>2
<1>4. ASSUME NEW k \in S, k > n PROVE FALSE
  <2>1. Above(k) \subseteq Above(n) /\ k \in Above(n) /\ k \notin Above(k)
    <3>1. k \in Nat /\ n \in Nat /\ S \subseteq Nat
      OBVIOUS
    <3>2. (\A j \in S : j > k => j > n) /\ ~(k > k)
      BY <1>4, <3>1
    <3> QED
      BY <1>4, <3>1, <3>2
  <2>2. Cardinality(Above(k)) <= Cardinality(Above(n)) /\ Cardinality(Above(k)) # Cardinality(Above(n))
    BY <1>1, <2>1, FS_Subset
  <2>3. m <= Cardinality(Above(k))
    BY <1>2
  <2> QED
    BY <1>1, <1>3, <2>2, <2>3
<1> QED
  BY <1>4

LEMMA LargestIs ==
  ASSUME NEW S \in SUBSET Nat, IsFiniteSet(S), S # {}
  PROVE  Largest(S) \in S /\ \A k \in S : k <= Largest(S)
BY GreatestExists DEF Largest

(* Every name has a place behind 0, and there are finitely many. *)
LEMMA Names ==
  /\ Name \subseteq Nat \ {0} /\ IsFiniteSet(Name)
  /\ Listed \subseteq Name
  /\ \A n \in Reference : n \in Name /\ Temp[n] \in Name
<1>1. Reference \subseteq Name /\ \A n \in Reference : Temp[n] \in TempName
  BY DEF Name, TempName
<1>2. Name \subseteq Nat \ {0}
  BY NameAssumption DEF Name, TempName
<1>3. Listed \subseteq Name
  BY DEF Listed, Name, TempName, Reference
<1>4. IsFiniteSet(TempName)
  <2> DEFINE f == [n \in Reference |-> Temp[n]]
  <2>1. f \in Surjection(Reference, TempName)
    BY DEF TempName, Surjection
  <2> QED
    BY <2>1, NameAssumption, FS_Surjection
<1> QED
  BY <1>1, <1>2, <1>3, <1>4, NameAssumption, FS_Union DEF Name

(* A page is the beginning of what is to be listed: what it leaves comes   *)
(* after the last of it, and it leaves nothing if there is room for all.   *)
LEMMA PageIs ==
  ASSUME NEW tags \in SUBSET Name
  PROVE  /\ IsFiniteSet(tags) /\ Cardinality(tags) \in Nat
         /\ Page(tags) \subseteq tags
         /\ Cardinality(tags) <= PageSize => Page(tags) = tags
         /\ Cardinality(tags) > PageSize =>
              /\ Link(tags) \in tags
              /\ \A n \in tags \ Page(tags) : n > Link(tags)
<1> DEFINE Before(n) == {k \in tags : k < n}
<1>1. /\ IsFiniteSet(tags) /\ Cardinality(tags) \in Nat /\ tags \subseteq Nat
      /\ Page(tags) \subseteq tags
  BY Names, FS_Subset, FS_CardinalityType DEF Page
<1>2. \A n \in tags : IsFiniteSet(Before(n)) /\ Cardinality(Before(n)) \in Nat
  BY <1>1, FS_Subset, FS_CardinalityType
<1>3. Page(tags) = {n \in tags : Cardinality(Before(n)) < PageSize}
  BY DEF Page
<1>4. ASSUME Cardinality(tags) <= PageSize, NEW n \in tags
      PROVE  n \in Page(tags)
  <2>1. Before(n) \subseteq tags /\ n \in tags /\ n \notin Before(n)
    BY <1>1
  <2>2. Cardinality(Before(n)) <= Cardinality(tags) /\ Cardinality(Before(n)) # Cardinality(tags)
    BY <1>1, <2>1, FS_Subset
  <2> HIDE DEF Before
  <2>3. Cardinality(Before(n)) < PageSize
    BY <1>1, <1>2, <1>4, <2>2, PageSizeAssumption
  <2> QED
    BY <1>3, <2>3
<1>5. ASSUME NEW n \in tags, NEW k \in Page(tags), n <= k
      PROVE  n \in Page(tags)
  <2>1. Before(n) \subseteq Before(k) /\ k \in tags
    <3>1. n \in Nat /\ k \in tags /\ k \in Nat /\ \A j \in tags : j \in Nat
      BY <1>1
    <3>2. \A j \in tags : j < n => j < k
      BY <1>5, <3>1
    <3> QED
      BY <3>1, <3>2
  <2>2. Cardinality(Before(n)) <= Cardinality(Before(k))
    BY <1>2, <2>1, FS_Subset
  <2> HIDE DEF Before
  <2>3. Cardinality(Before(k)) < PageSize
    BY <1>3
  <2>4. Cardinality(Before(n)) < PageSize
    BY <1>2, <2>1, <2>2, <2>3, PageSizeAssumption
  <2> QED
    BY <1>3, <2>4
<1>6. ASSUME Cardinality(tags) > PageSize
      PROVE  /\ Link(tags) \in tags
             /\ \A n \in tags \ Page(tags) : n > Link(tags)
  <2>1. tags # {}
    BY <1>1, <1>6, FS_EmptySet, PageSizeAssumption
  <2>2. PICK n \in tags : \A k \in tags : n <= k
    BY <1>1, <2>1, LeastExists
  <2>3. Before(n) = {}
    <3>1. n \in Nat /\ \A k \in tags : k \in Nat /\ n <= k
      BY <1>1, <2>2
    <3>2. \A k \in tags : ~(k < n)
      BY <3>1
    <3> QED
      BY <3>2
  <2>4. n \in Page(tags)
    BY <1>3, <2>3, FS_EmptySet, PageSizeAssumption
  <2>5. Link(tags) \in Page(tags)
    BY <1>1, <2>4, FS_Subset, LargestIs DEF Link
  <2>6. ASSUME NEW k \in tags \ Page(tags) PROVE k > Link(tags)
    <3>1. k \in Nat /\ Link(tags) \in Nat
      BY <1>1, <2>5
    <3>2. ~ (k <= Link(tags))
      BY <1>5, <2>5
    <3> QED
      BY <3>1, <3>2
  <2> QED
    BY <1>1, <2>5, <2>6
<1> QED
  BY <1>1, <1>4, <1>6
-----------------------------------------------------------------------------
LEMMA InitTypeOK == Init => TypeOK
  BY DEF Init, TypeOK

(* After a put or a delete what is owed is still there, and what was kept  *)
(* still as it was.                                                        *)
LEMMA ChangedType ==
  ASSUME TypeOK, dir' \in [Name -> Document \cup {Unparsable, NoFile}], Changed
  PROVE  TypeOK'
<1>1. ASSUME NEW c \in Client PROVE owed'[c] \subseteq Listed \cap Present'
  BY Names DEF TypeOK, Changed, Present
<1>2. ASSUME NEW s \in Scan PROVE kept'[s] \subseteq Files'
  BY DEF TypeOK, Changed, Files
<1>3. owed' \in [Client -> SUBSET (Listed \cap Present')] /\ kept' \in [Scan -> SUBSET Files']
  BY <1>1, <1>2 DEF Changed
<1> QED
  BY <1>3 DEF TypeOK, Changed, walkVars, scanVars

LEMMA DirStep ==
  ASSUME TypeOK, NEW n \in Reference, Write(n) \/ Install(n) \/ Delete(n)
  PROVE  dir' \in [Name -> Document \cup {Unparsable, NoFile}] /\ Changed
<1>1. n \in Name /\ Temp[n] \in Name
  BY Names
<1>2. ASSUME NEW k \in Name, NEW d \in Document \cup {Unparsable, NoFile}
      PROVE  [dir EXCEPT ![k] = d] \in [Name -> Document \cup {Unparsable, NoFile}]
  BY DEF TypeOK
<1>3. CASE Write(n)
  <2>1. PICK name \in {Temp[n]} \cup ({n} \cap Present), d \in Document \cup {Unparsable} :
          dir' = [dir EXCEPT ![name] = d]
    BY <1>3 DEF Write
  <2>2. name \in Name
    BY <1>1, <2>1
  <2> QED
    BY <1>2, <1>3, <2>1, <2>2 DEF Write
<1>4. CASE Install(n)
  <2>1. dir[Temp[n]] \in Document \cup {Unparsable, NoFile}
    BY <1>1 DEF TypeOK
  <2>2. dir' \in [Name -> Document \cup {Unparsable, NoFile}]
    BY <1>1, <1>4, <2>1 DEF Install, TypeOK
  <2> QED
    BY <1>4, <2>2 DEF Install
<1>5. CASE Delete(n)
  BY <1>1, <1>2, <1>5 DEF Delete
<1> QED
  BY <1>3, <1>4, <1>5

(* What the next page leaves and where it goes on.                         *)
LEMMA NextPageIs ==
  ASSUME TypeOK, NEW c \in Client, NextPage(c)
  PROVE  LET tags == TagsAfter(last[c]) IN
         /\ tags \in SUBSET Name
         /\ \A n \in Page(tags) : n \in Listed /\ n > last[c]
         /\ \A n \in owed[c] : n > last[c] => n \in tags
         /\ walk[c] = "next" /\ twice' = twice
         /\ owed' = [owed EXCEPT ![c] = owed[c] \ Page(tags)]
         /\ \/ /\ Link(tags) \in Listed
               /\ \A n \in tags \ Page(tags) : n > Link(tags)
               /\ last' = [last EXCEPT ![c] = Link(tags)] /\ walk' = walk
            \/ /\ Page(tags) = tags
               /\ last' = [last EXCEPT ![c] = 0] /\ walk' = [walk EXCEPT ![c] = "over"]
<1> DEFINE tags == TagsAfter(last[c])
<1>1. tags \in SUBSET Name /\ tags \subseteq Listed /\ \A n \in tags : n > last[c]
  BY Names DEF TagsAfter
<1>2. \A n \in owed[c] : n > last[c] => n \in tags
  BY DEF TypeOK, TagsAfter
<1>3. last[c] \in Nat /\ \A n \in tags : n \in Nat
  <2>1. Name \subseteq Nat /\ Listed \subseteq Nat
    BY Names
  <2>2. \A n \in tags : n \in Nat
    BY <1>1, <2>1
  <2>3. last[c] \in Listed \/ last[c] = 0
    BY DEF TypeOK
  <2>4. 0 \in Nat
    OBVIOUS
  <2>5. last[c] \in Nat
    BY <2>1, <2>3, <2>4, Zenon
  <2> QED
    BY <2>2, <2>5
<1> HIDE DEF tags
<1>4. Page(tags) \subseteq tags /\ Cardinality(tags) \in Nat
  BY <1>1, PageIs
<1>5. \A n \in Page(tags) : n \in Listed /\ n > last[c] /\ ~(n <= last[c])
  BY <1>1, <1>3, <1>4
<1>6. /\ walk[c] = "next" /\ twice' = twice
      /\ owed' = [owed EXCEPT ![c] = owed[c] \ Page(tags)]
  BY <1>5 DEF NextPage, tags
<1>7. CASE Cardinality(tags) > PageSize
  <2>1. last' = [last EXCEPT ![c] = Link(tags)] /\ walk' = walk
    BY <1>7 DEF NextPage, tags
  <2>2. Link(tags) \in Listed /\ \A n \in tags \ Page(tags) : n > Link(tags)
    BY <1>1, <1>7, PageIs
  <2> QED
    BY <1>1, <1>2, <1>5, <1>6, <2>1, <2>2 DEF tags
<1>8. CASE ~(Cardinality(tags) > PageSize)
  <2>1. Page(tags) = tags
    BY <1>1, <1>4, <1>8, PageIs, PageSizeAssumption
  <2>2. last' = [last EXCEPT ![c] = 0] /\ walk' = [walk EXCEPT ![c] = "over"]
    BY <1>8 DEF NextPage, tags
  <2> QED
    BY <1>1, <1>2, <1>5, <1>6, <2>1, <2>2 DEF tags
<1> QED
  BY <1>7, <1>8

LEMMA TypeStep ==
  ASSUME TypeOK, [Next]_vars
  PROVE  TypeOK'
<1>1. ASSUME NEW n \in Reference, Write(n) \/ Install(n) \/ Delete(n) PROVE TypeOK'
  BY <1>1, DirStep, ChangedType
<1>2. ASSUME NEW c \in Client, BeginWalk(c) PROVE TypeOK'
  BY <1>2 DEF TypeOK, BeginWalk, Present, Files, scanVars
<1>3. ASSUME NEW c \in Client, NextPage(c) PROVE TypeOK'
  <2>1. /\ owed' = [owed EXCEPT ![c] = owed[c] \ Page(TagsAfter(last[c]))]
        /\ twice' = twice
        /\ \/ /\ Link(TagsAfter(last[c])) \in Listed /\ walk' = walk
              /\ last' = [last EXCEPT ![c] = Link(TagsAfter(last[c]))]
           \/ walk' = [walk EXCEPT ![c] = "over"] /\ last' = [last EXCEPT ![c] = 0]
    BY <1>3, NextPageIs
  <2>2. UNCHANGED <<dir, scanVars, kept>>
    BY <1>3 DEF NextPage
  <2> QED
    BY <2>1, <2>2 DEF TypeOK, Present, Files, scanVars
<1>4. ASSUME NEW s \in Scan, BeginScan(s) PROVE TypeOK'
  BY <1>4 DEF TypeOK, BeginScan, Present, Files, walkVars
<1>5. ASSUME NEW s \in Scan, ReadEntry(s) PROVE TypeOK'
  BY <1>5 DEF TypeOK, ReadEntry, Present, Files, walkVars
<1>6. CASE UNCHANGED vars
  BY <1>6 DEF TypeOK, vars, walkVars, scanVars, Present, Files
<1> QED
  BY <1>1, <1>2, <1>3, <1>4, <1>5, <1>6 DEF Next

(* Every variable holds what its declaration says; what is owed is there,  *)
(* and what was kept is still as it was.                                   *)
THEOREM TypeCorrect == Spec => []TypeOK
<1>1. TypeOK /\ [Next]_vars => TypeOK'
  BY TypeStep
<1> QED
  BY InitTypeOK, <1>1, PTL DEF Spec
-----------------------------------------------------------------------------
LEMMA WalkStep ==
  ASSUME WalkInv, [Next]_vars
  PROVE  WalkInv'
<1>1. TypeOK /\ TypeOK'
  BY TypeStep DEF WalkInv
<1>2. ASSUME NEW n \in Reference, Write(n) \/ Install(n) \/ Delete(n) PROVE WalkInv'
  <2>1. Changed
    BY <1>1, <1>2, DirStep
  <2> QED
    BY <1>1, <2>1 DEF WalkInv, Changed, walkVars
<1>3. ASSUME NEW c \in Client, BeginWalk(c) PROVE WalkInv'
  <2>1. last[c] = 0 /\ \A n \in Listed : n > 0
    BY <1>3, Names DEF WalkInv, BeginWalk
  <2>2. ASSUME NEW d \in Client
        PROVE  /\ d \notin twice'
               /\ walk'[d] # "next" => last'[d] = 0 /\ owed'[d] = {}
               /\ \A n \in owed'[d] : n > last'[d]
    BY <1>1, <1>3, <2>1 DEF WalkInv, TypeOK, BeginWalk
  <2> QED
    BY <1>1, <2>2 DEF WalkInv
<1>4. ASSUME NEW c \in Client, NextPage(c) PROVE WalkInv'
  <2> DEFINE tags == TagsAfter(last[c])
  <2>1. /\ \A n \in owed[c] : n \in tags
        /\ walk[c] = "next" /\ twice' = twice
        /\ owed' = [owed EXCEPT ![c] = owed[c] \ Page(tags)]
        /\ \/ /\ \A n \in tags \ Page(tags) : n > Link(tags)
              /\ last' = [last EXCEPT ![c] = Link(tags)] /\ walk' = walk
           \/ /\ Page(tags) = tags
              /\ last' = [last EXCEPT ![c] = 0] /\ walk' = [walk EXCEPT ![c] = "over"]
    BY <1>1, <1>4, NextPageIs DEF WalkInv
  <2> HIDE DEF tags
  <2>2. ASSUME NEW d \in Client
        PROVE  /\ d \notin twice'
               /\ walk'[d] # "next" => last'[d] = 0 /\ owed'[d] = {}
               /\ \A n \in owed'[d] : n > last'[d]
    <3>1. CASE d # c
      <4>1. walk'[d] = walk[d] /\ last'[d] = last[d] /\ owed'[d] = owed[d] /\ twice' = twice
        BY <1>1, <2>1, <3>1 DEF TypeOK
      <4> QED
        BY <4>1 DEF WalkInv
    <3>2. CASE d = c
      <4>1. owed'[c] = owed[c] \ Page(tags) /\ c \notin twice'
        BY <1>1, <2>1 DEF WalkInv, TypeOK
      <4>2. CASE /\ \A n \in tags \ Page(tags) : n > Link(tags)
                 /\ last' = [last EXCEPT ![c] = Link(tags)] /\ walk' = walk
        BY <1>1, <2>1, <3>2, <4>1, <4>2 DEF TypeOK
      <4>3. CASE /\ Page(tags) = tags
                 /\ last' = [last EXCEPT ![c] = 0] /\ walk' = [walk EXCEPT ![c] = "over"]
        BY <1>1, <2>1, <3>2, <4>1, <4>3 DEF TypeOK
      <4> QED
        BY <2>1, <4>2, <4>3
    <3> QED
      BY <3>1, <3>2
  <2> QED
    BY <1>1, <2>2 DEF WalkInv
<1>5. ASSUME NEW s \in Scan, BeginScan(s) \/ ReadEntry(s) PROVE WalkInv'
  BY <1>1, <1>5 DEF WalkInv, BeginScan, ReadEntry, walkVars
<1>6. CASE UNCHANGED vars
  BY <1>1, <1>6 DEF WalkInv, vars, walkVars
<1> QED
  BY <1>2, <1>3, <1>4, <1>5, <1>6 DEF Next

(* Whoever follows the links gets every tag that was there all the time,   *)
(* and none twice or out of order (manifests.go:239-256, 312-320).         *)
THEOREM WalkExactInvariant == Spec => []WalkExact
<1>1. Init => WalkInv
  BY InitTypeOK DEF Init, WalkInv
<1>2. WalkInv /\ [Next]_vars => WalkInv'
  BY WalkStep
<1>3. WalkInv => WalkExact
  BY DEF WalkInv, WalkExact
<1> QED
  BY <1>1, <1>2, <1>3, PTL DEF Spec
-----------------------------------------------------------------------------
LEMMA ScanStep ==
  ASSUME ScanInv, [Next]_vars
  PROVE  ScanInv'
<1>1. TypeOK /\ TypeOK'
  BY TypeStep DEF ScanInv
<1> USE DEF ScanInv, ScanComplete
<1>2. ASSUME NEW n \in Reference, Write(n) \/ Install(n) \/ Delete(n) PROVE ScanInv'
  <2>1. Changed
    BY <1>1, <1>2, DirStep
  <2> QED
    BY <1>1, <2>1 DEF Changed, scanVars
<1>3. ASSUME NEW c \in Client, BeginWalk(c) \/ NextPage(c) PROVE ScanInv'
  BY <1>1, <1>3 DEF BeginWalk, NextPage, scanVars
<1>4. ASSUME NEW s \in Scan, BeginScan(s) PROVE ScanInv'
  <2>1. \A f \in Files : f[1] \in Present
    BY DocumentAssumption DEF Files, Present
  <2>2. ASSUME NEW t \in Scan, NEW f \in kept'[t], f[2] \in Refers
        PROVE  f[1] \in todo'[t] \/ f \in found'[t]
    BY <1>1, <1>4, <2>1, <2>2 DEF BeginScan, TypeOK
  <2> QED
    BY <1>1, <2>2
<1>5. ASSUME NEW s \in Scan, ReadEntry(s) PROVE ScanInv'
  <2>1. PICK n \in todo[s] :
          /\ todo' = [todo EXCEPT ![s] = todo[s] \ {n}]
          /\ found' = [found EXCEPT ![s] = IF dir[n] \in Refers THEN found[s] \cup {<<n, dir[n]>>}
                                           ELSE found[s]]
          /\ kept' = kept
    BY <1>5 DEF ReadEntry
  <2>2. ASSUME NEW t \in Scan, NEW f \in kept'[t], f[2] \in Refers
        PROVE  f[1] \in todo'[t] \/ f \in found'[t]
    <3>1. f = <<f[1], f[2]>> /\ dir[f[1]] = f[2]
      BY <1>1, <2>1 DEF TypeOK, Files
    <3>2. f[1] \in todo[t] \/ f \in found[t]
      BY <2>1, <2>2
    <3>3. CASE t = s /\ f[1] = n
      BY <1>1, <2>1, <2>2, <3>1, <3>3 DEF TypeOK
    <3>4. CASE ~(t = s /\ f[1] = n)
      BY <1>1, <2>1, <3>2, <3>4 DEF TypeOK
    <3> QED
      BY <3>3, <3>4
  <2> QED
    BY <1>1, <2>2
<1>6. CASE UNCHANGED vars
  BY <1>1, <1>6 DEF vars, scanVars
<1> QED
  BY <1>2, <1>3, <1>4, <1>5, <1>6 DEF Next

(* A referrer whose file stays as it was is listed (store.go:314-365).     *)
THEOREM ScanCompleteInvariant == Spec => []ScanComplete
<1>1. Init => ScanInv
  BY InitTypeOK DEF Init, ScanInv, ScanComplete
<1>2. ScanInv /\ [Next]_vars => ScanInv'
  BY ScanStep
<1>3. ScanInv => ScanComplete
  BY DEF ScanInv
<1> QED
  BY <1>1, <1>2, <1>3, PTL DEF Spec
------------------------------------------------------------------------------
(* The gauge of upload sessions, which shares nothing with the listing.    *)

(* However many goroutines there may be, only so many have begun. *)
Busy == {r \in Request : pc[r] # "idle"}

GaugeInv ==
  GaugeTypeOK /\ IsFiniteSet(live) /\ IsFiniteSet(Busy) /\ GaugeDrift
-----------------------------------------------------------------------------
LEMMA GaugeParts ==
  ASSUME IsFiniteSet(Busy), NEW l \in Label \ {"idle"}
  PROVE  IsFiniteSet(At({l}))
<1>1. At({l}) \subseteq Busy
  BY DEF At, Busy
<1> QED
  BY <1>1, FS_Subset

LEMMA Counted ==
  ASSUME NEW S, NEW x, IsFiniteSet(S)
  PROVE  /\ Cardinality(S) \in Nat
         /\ IsFiniteSet(S \cup {x}) /\ IsFiniteSet(S \ {x})
         /\ x \notin S => Cardinality(S \cup {x}) = Cardinality(S) + 1
         /\ x \in S => Cardinality(S \ {x}) = Cardinality(S) - 1
         /\ x \notin S => S \ {x} = S
BY FS_CardinalityType, FS_AddElement, FS_RemoveElement

(* Where the one that moves was, and where it goes. *)
LEMMA Moves ==
  ASSUME GaugeTypeOK, IsFiniteSet(Busy), NEW r \in Request, NEW l \in Label, Goto(r, l)
  PROVE  /\ IsFiniteSet(Busy') /\ pc' \in [Request -> Label]
         /\ \A q \in Request : pc'[q] = IF q = r THEN l ELSE pc[q]
         /\ \A k \in Label :
              At({k})' = IF k = l THEN At({k}) \cup {r} ELSE At({k}) \ {r}
<1>1. pc' \in [Request -> Label] /\ \A q \in Request : pc'[q] = IF q = r THEN l ELSE pc[q]
  BY DEF GaugeTypeOK, Goto
<1>2. Busy' \subseteq Busy \cup {r}
  BY <1>1 DEF Busy
<1>3. IsFiniteSet(Busy')
  BY <1>2, Counted, FS_Subset
<1>4. ASSUME NEW k \in Label
      PROVE  At({k})' = IF k = l THEN At({k}) \cup {r} ELSE At({k}) \ {r}
  BY <1>1 DEF At
<1> QED
  BY <1>1, <1>3, <1>4

(* The sum that GaugeDrift states, and that its terms are numbers. *)
LEMMA GaugeSums ==
  ASSUME GaugeInv
  PROVE  /\ Cardinality(live) \in Nat
         /\ Cardinality(At({"created"})) \in Nat
         /\ Cardinality(At({"closed"})) \in Nat
         /\ gauge \in Int /\ vain \in Nat
         /\ gauge = Cardinality(live) - Cardinality(At({"created"}))
                    + Cardinality(At({"closed"})) - vain
<1>1. IsFiniteSet(live) /\ IsFiniteSet(At({"created"})) /\ IsFiniteSet(At({"closed"}))
  BY GaugeParts DEF GaugeInv, Label
<1> QED
  BY <1>1, FS_CardinalityType DEF GaugeInv, GaugeDrift, GaugeTypeOK

(* What a request that goes from one label to another does to the sums.    *)
LEMMA MovesCount ==
  ASSUME GaugeInv, NEW r \in Request, NEW l \in Label, Goto(r, l)
  PROVE  \A k \in {"created", "closed"} :
           LET before == Cardinality(At({k}))
               after == Cardinality(At({k})')
           IN  /\ pc[r] = k /\ l # k => after = before - 1
               /\ pc[r] # k /\ l = k => after = before + 1
               /\ pc[r] # k /\ l # k => after = before
<1> SUFFICES ASSUME NEW k \in {"created", "closed"}
             PROVE  /\ pc[r] = k /\ l # k => Cardinality(At({k})') = Cardinality(At({k})) - 1
                    /\ pc[r] # k /\ l = k => Cardinality(At({k})') = Cardinality(At({k})) + 1
                    /\ pc[r] # k /\ l # k => Cardinality(At({k})') = Cardinality(At({k}))
  OBVIOUS
<1>1. IsFiniteSet(At({k})) /\ k \in Label
  BY GaugeParts DEF GaugeInv, Label
<1>2. At({k})' = IF k = l THEN At({k}) \cup {r} ELSE At({k}) \ {r}
  BY Moves, <1>1 DEF GaugeInv
<1>3. r \in At({k}) <=> pc[r] = k
  BY DEF At
<1> QED
  BY <1>1, <1>2, <1>3, Counted

LEMMA GaugeStep ==
  ASSUME GaugeInv, [GaugeNext]_gaugeVars
  PROVE  GaugeInv'
<1>1. GaugeTypeOK /\ IsFiniteSet(live) /\ IsFiniteSet(Busy)
  BY DEF GaugeInv
<1>2. ASSUME NEW r \in Request, NEW s \in Session, CreateUpload(r, s) PROVE GaugeInv'
  <2>1. Goto(r, "created") /\ pc[r] = "idle" /\ "created" \in Label
    BY <1>2 DEF CreateUpload, Label
  <2>2. s \notin live
    BY <1>1, <1>2 DEF CreateUpload, GaugeTypeOK
  <2>3. Cardinality(live') = Cardinality(live) + 1 /\ IsFiniteSet(live')
    BY <1>1, <1>2, <2>2, Counted DEF CreateUpload
  <2>4. GaugeDrift'
    BY <1>2, <2>1, <2>3, MovesCount, GaugeSums DEF CreateUpload, GaugeDrift
  <2>5. GaugeTypeOK'
    BY <1>1, <1>2, <2>1, Moves DEF CreateUpload, GaugeTypeOK, At
  <2> QED
    BY <1>1, <2>1, <2>3, <2>4, <2>5, Moves DEF GaugeInv
<1>3. ASSUME NEW r \in Request, IncUploadSessionsActive(r) PROVE GaugeInv'
  <2>1. Goto(r, "idle") /\ pc[r] = "created" /\ "idle" \in Label
    BY <1>3 DEF IncUploadSessionsActive, Label
  <2>2. GaugeDrift'
    BY <1>3, <2>1, MovesCount, GaugeSums DEF IncUploadSessionsActive, GaugeDrift
  <2>3. GaugeTypeOK'
    BY <1>1, <1>3, <2>1, Moves DEF IncUploadSessionsActive, GaugeTypeOK, At
  <2> QED
    BY <1>1, <1>3, <2>1, <2>2, <2>3, Moves DEF GaugeInv, IncUploadSessionsActive
<1>4. ASSUME NEW r \in Request, NEW s \in Session, NEW call \in {"complete", "cancel"},
             BeginClose(r, s, call)
      PROVE  GaugeInv'
  <2>1. PICK l \in {call, "closed"} :
          /\ Goto(r, l)
          /\ l = call => s \in live /\ vain' = vain
          /\ l = "closed" => vain' = vain + 1
    BY <1>4 DEF BeginClose
  <2>2. pc[r] = "idle" /\ l \in Label /\ UNCHANGED <<live, used, gauge>>
        /\ sid' = [sid EXCEPT ![r] = s]
    BY <1>4 DEF BeginClose, Label
  <2>3. GaugeDrift'
    BY <2>1, <2>2, MovesCount, GaugeSums DEF GaugeDrift
  <2>4. GaugeTypeOK'
    BY <1>1, <2>1, <2>2, Moves DEF GaugeTypeOK, At
  <2> QED
    BY <1>1, <2>1, <2>2, <2>3, <2>4, Moves DEF GaugeInv
<1>5. ASSUME NEW r \in Request, CompleteFails(r) PROVE GaugeInv'
  <2>1. Goto(r, "closed") /\ pc[r] = "complete" /\ "closed" \in Label
    BY <1>5 DEF CompleteFails, Label
  <2>2. GaugeDrift'
    BY <1>5, <2>1, MovesCount, GaugeSums DEF CompleteFails, GaugeDrift
  <2>3. GaugeTypeOK'
    BY <1>1, <1>5, <2>1, Moves DEF CompleteFails, GaugeTypeOK, At
  <2> QED
    BY <1>1, <1>5, <2>1, <2>2, <2>3, Moves DEF GaugeInv, CompleteFails
<1>6. ASSUME NEW r \in Request, Close(r) PROVE GaugeInv'
  <2>1. /\ Goto(r, "closed") /\ pc[r] \in {"complete", "cancel"}
        /\ "closed" \in Label
    BY <1>6 DEF Close, Label
  <2>2. IsFiniteSet(live')
    BY <1>1, <1>6, Counted DEF Close
  <2>3. Cardinality(live') = IF sid[r] \in live THEN Cardinality(live) - 1 ELSE Cardinality(live)
    BY <1>1, <1>6, Counted DEF Close
  <2>4. vain' = (IF sid[r] \in live THEN vain ELSE vain + 1) /\ gauge' = gauge
    BY <1>6 DEF Close
  <2>5. GaugeDrift'
    BY <2>1, <2>3, <2>4, MovesCount, GaugeSums DEF GaugeDrift
  <2>6. GaugeTypeOK'
    BY <1>1, <1>6, <2>1, Moves DEF Close, GaugeTypeOK, At
  <2> QED
    BY <1>1, <2>1, <2>2, <2>5, <2>6, Moves DEF GaugeInv
<1>7. ASSUME NEW r \in Request, DecUploadSessionsActive(r) PROVE GaugeInv'
  <2>1. Goto(r, "idle") /\ pc[r] = "closed" /\ "idle" \in Label
    BY <1>7 DEF DecUploadSessionsActive, Label
  <2>2. GaugeDrift'
    BY <1>7, <2>1, MovesCount, GaugeSums DEF DecUploadSessionsActive, GaugeDrift
  <2>3. GaugeTypeOK'
    BY <1>1, <1>7, <2>1, Moves DEF DecUploadSessionsActive, GaugeTypeOK, At
  <2> QED
    BY <1>1, <1>7, <2>1, <2>2, <2>3, Moves DEF GaugeInv, DecUploadSessionsActive
<1>8. CASE Restart
  <2>1. Busy' = {} /\ At({"created"})' = {} /\ At({"closed"})' = {}
    BY <1>8 DEF Restart, Busy, At
  <2>2. GaugeTypeOK'
    BY <1>1, <1>8 DEF Restart, GaugeTypeOK, Label, At
  <2>3. live' = {} /\ gauge' = 0 /\ vain' = 0
    BY <1>8 DEF Restart
  <2>4. GaugeDrift'
    BY <2>1, <2>3, FS_EmptySet DEF GaugeDrift
  <2> QED
    BY <2>1, <2>2, <2>3, <2>4, FS_EmptySet DEF GaugeInv
<1>9. CASE UNCHANGED gaugeVars
  BY <1>9 DEF gaugeVars, GaugeDrift, GaugeInv, GaugeTypeOK, At, Busy
<1> QED
  BY <1>2, <1>3, <1>4, <1>5, <1>6, <1>7, <1>8, <1>9 DEF GaugeNext

LEMMA GaugeInvariance == GaugeSpec => []GaugeInv
<1>1. GaugeInit => GaugeInv
  <2> SUFFICES ASSUME GaugeInit PROVE GaugeInv
    OBVIOUS
  <2>1. Busy = {} /\ At({"created"}) = {} /\ At({"closed"}) = {}
    BY DEF GaugeInit, Busy, At
  <2>2. GaugeTypeOK
    BY DEF GaugeInit, GaugeTypeOK, Label, At
  <2> QED
    BY <2>1, <2>2, FS_EmptySet DEF GaugeInit, GaugeInv, GaugeDrift
<1>2. GaugeInv /\ [GaugeNext]_gaugeVars => GaugeInv'
  BY GaugeStep
<1> QED
  BY <1>1, <1>2, PTL DEF GaugeSpec

(* The table and the gauge hold what they should, and whoever is about to  *)
(* close a session has an id that was given out.                           *)
THEOREM GaugeTypeCorrect == GaugeSpec => []GaugeTypeOK
BY GaugeInvariance, PTL DEF GaugeInv

(* The gauge is the number of sessions, but for the counts still to come   *)
(* and for the closes in vain (storage.go:163-213), however many sessions  *)
(* and goroutines there are and however often a close comes in vain.       *)
THEOREM GaugeDriftInvariant == GaugeSpec => []GaugeDrift
BY GaugeInvariance, PTL DEF GaugeInv
==============================================================================
