----------------------------- MODULE RowsProofs -----------------------------
(***************************************************************************)
(* Tables whose identifiers are drawn once, and induction on the numbers.  *)
(***************************************************************************)
EXTENDS Rows, FiniteSetTheorems, FunctionTheorems, WellFoundedInduction, TLAPS

-----------------------------------------------------------------------------
(* Induction: a set of numbers has a least element.                        *)

LEMMA Least ==
  ASSUME NEW T \in SUBSET Nat, T # {}
  PROVE  \E x \in T : \A y \in T : x <= y
<1>1. IsWellFoundedOn(OpToRel(<, Nat), Nat)
  BY NatLessThanWellFounded
<1>2. PICK R : R = OpToRel(<, Nat)
  OBVIOUS
<1>3. \A x, y \in Nat : <<x, y>> \in R <=> x < y
  BY <1>2 DEF OpToRel
<1>4. PICK x \in T : \A y \in T : ~(<<y, x>> \in R)
  BY <1>1, <1>2, WFMin
<1>5. \A y \in T : ~(y < x)
  BY <1>3, <1>4
<1> QED BY <1>5

-----------------------------------------------------------------------------
(* Identifiers are drawn once.                                             *)

LEMMA InjectionsExist ==
  ASSUME NEW S, NEW T, IsFiniteSet(S), IsFiniteSet(T), Cardinality(S) <= Cardinality(T)
  PROVE  \E f \in [S -> T] : \A x, y \in S : f[x] = f[y] => x = y
<1>1. Cardinality(S) \in Nat /\ Cardinality(T) \in Nat
  BY FS_CardinalityType
<1>2. PICK f \in Bijection(S, 1..Cardinality(S)) : TRUE
  BY FS_CardinalityType, Fun_ExistsBijSymmetric, Fun_ExistsBij
<1>3. PICK g \in Bijection(1..Cardinality(T), T) : TRUE
  BY FS_CardinalityType, Fun_ExistsBij
<1>4. /\ f \in [S -> 1..Cardinality(S)]
      /\ \A x, y \in S : f[x] = f[y] => x = y
  BY DEF Bijection, Injection, IsInjective
<1>5. /\ g \in [1..Cardinality(T) -> T]
      /\ \A i, j \in 1..Cardinality(T) : g[i] = g[j] => i = j
  BY DEF Bijection, Injection, IsInjective
<1> DEFINE h == [x \in S |-> g[f[x]]]
<1>6. \A x \in S : f[x] \in 1..Cardinality(T)
  BY <1>1, <1>4
<1>7. h \in [S -> T] /\ \A x, y \in S : h[x] = h[y] => x = y
  BY <1>4, <1>5, <1>6
<1> QED BY <1>7

\* Beyond a finite set there are as many numbers as one likes.
LEMMA RoomBeyond ==
  ASSUME NEW taken, IsFiniteSet(taken), NEW m \in Nat
  PROVE  LET free == (1..Cardinality(taken) + m) \ taken
         IN IsFiniteSet(free) /\ m <= Cardinality(free)
<1>1. PICK n \in Nat : n = Cardinality(taken)
  BY FS_CardinalityType
<1>2. PICK k \in Int : k = n + m
  BY <1>1
<1>3. PICK all : all = 1..k
  OBVIOUS
<1>4. IsFiniteSet(all) /\ Cardinality(all) = k
  <2>1. PICK a \in Int : a = 1
    OBVIOUS
  <2>2. IsFiniteSet(a..k) /\ Cardinality(a..k) = IF a > k THEN 0 ELSE k - a + 1
    BY FS_Interval
  <2>3. (IF a > k THEN 0 ELSE k - a + 1) = k
    BY <1>1, <1>2, <2>1
  <2> QED BY <1>3, <2>1, <2>2, <2>3
<1>5. IsFiniteSet(all \cap taken) /\ Cardinality(all \cap taken) <= n /\ Cardinality(all \cap taken) \in Nat
  BY <1>1, FS_Intersection, FS_CardinalityType
<1>6. IsFiniteSet(all \ taken) /\ Cardinality(all \ taken) = Cardinality(all) - Cardinality(all \cap taken)
  BY <1>4, FS_Difference
<1>7. m <= Cardinality(all \ taken)
  BY <1>2, <1>4, <1>5, <1>6
<1> QED BY <1>1, <1>2, <1>3, <1>6, <1>7

\* New rows are given identifiers of their own.
LEMMA DrawnOnce ==
  ASSUME NEW rows, NEW known, NEW new, IsFiniteSet(DOMAIN rows), IsFiniteSet(known), IsFiniteSet(new)
  PROVE  /\ Drawn(rows, known, new) \in [new -> Nat]
         /\ \A x, y \in new : Drawn(rows, known, new)[x] = Drawn(rows, known, new)[y] => x = y
         /\ \A x \in new : Drawn(rows, known, new)[x] \notin DOMAIN rows \cup known
<1>1. PICK taken : taken = DOMAIN rows \cup known
  OBVIOUS
<1>2. IsFiniteSet(taken)
  BY <1>1, FS_Union
<1>3. Cardinality(new) \in Nat /\ Cardinality(taken) \in Nat
  BY <1>2, FS_CardinalityType
<1>4. PICK all : all = 1..Cardinality(taken) + Cardinality(new)
  OBVIOUS
<1>5. IsFiniteSet(all \ taken) /\ Cardinality(new) <= Cardinality(all \ taken)
  BY <1>2, <1>3, <1>4, RoomBeyond
<1>6. PICK f \in [new -> all \ taken] : \A x, y \in new : f[x] = f[y] => x = y
  BY <1>5, InjectionsExist
<1>7. /\ f \in [new -> all] /\ IsInjective(f)
      /\ \A x \in new : f[x] \notin taken
  BY <1>6 DEF IsInjective
<1>8. Drawn(rows, known, new) =
        CHOOSE id \in [new -> all] : IsInjective(id) /\ \A x \in new : id[x] \notin taken
  BY <1>1, <1>4 DEF Drawn
<1>9. /\ Drawn(rows, known, new) \in [new -> all] /\ IsInjective(Drawn(rows, known, new))
      /\ \A x \in new : Drawn(rows, known, new)[x] \notin taken
  BY <1>7, <1>8
<1>10. all \subseteq Nat
  BY <1>3, <1>4
<1>11. Drawn(rows, known, new) \in [new -> Nat]
  BY <1>9, <1>10
<1> QED BY <1>1, <1>9, <1>11 DEF IsInjective

\* The table with the new rows: the old ones are as they were, each new one is
\* there under an identifier nobody knows.
LEMMA RowsPut ==
  ASSUME NEW rows, NEW known, NEW new, IsFiniteSet(DOMAIN rows), IsFiniteSet(known), IsFiniteSet(new),
         DOMAIN rows \subseteq Nat
  PROVE  /\ IsFiniteSet(DOMAIN Put(rows, known, new)) /\ DOMAIN Put(rows, known, new) \subseteq Nat
         /\ DOMAIN rows \subseteq DOMAIN Put(rows, known, new)
         /\ \A i \in DOMAIN rows : Put(rows, known, new)[i] = rows[i]
         /\ \A i \in DOMAIN Put(rows, known, new) \ DOMAIN rows : i \notin known /\ Put(rows, known, new)[i] \in new
         /\ \A x \in new : \E i \in DOMAIN Put(rows, known, new) \ DOMAIN rows : Put(rows, known, new)[i] = x
         /\ \A i, j \in DOMAIN Put(rows, known, new) \ DOMAIN rows :
              Put(rows, known, new)[i] = Put(rows, known, new)[j] => i = j
<1> DEFINE id == Drawn(rows, known, new)
           ids == {id[x] : x \in new}
<1>1. /\ id \in [new -> Nat]
      /\ \A x, y \in new : id[x] = id[y] => x = y
      /\ \A x \in new : id[x] \notin DOMAIN rows \cup known
  BY DrawnOnce
<1> HIDE DEF id
<1>2. Put(rows, known, new) = [i \in DOMAIN rows \cup ids |->
                          IF i \in DOMAIN rows THEN rows[i] ELSE CHOOSE x \in new : id[x] = i]
  BY DEF Put, id
<1>3. IsFiniteSet(ids)
  <2>1. id \in Surjection(new, ids)
    BY <1>1, Fun_IsSurj
  <2> QED BY <2>1, FS_Surjection
<1>4. \A x \in new : (CHOOSE y \in new : id[y] = id[x]) = x
  BY <1>1
<1>5. IsFiniteSet(DOMAIN rows \cup ids) /\ ids \subseteq Nat
  BY <1>1, <1>3, FS_Union
<1>6. \A x \in new : id[x] \in DOMAIN Put(rows, known, new) \ DOMAIN rows /\ Put(rows, known, new)[id[x]] = x
  BY <1>1, <1>2, <1>4
<1>7. \A i \in DOMAIN Put(rows, known, new) \ DOMAIN rows : i \notin known /\ Put(rows, known, new)[i] \in new
  BY <1>1, <1>2, <1>6
<1>8. \A i \in DOMAIN Put(rows, known, new) \ DOMAIN rows : i = id[Put(rows, known, new)[i]]
  BY <1>2, <1>6
<1> QED BY <1>2, <1>5, <1>6, <1>7, <1>8
=============================================================================
