---------------------------- MODULE AdminPagesProofs ----------------------------
(***************************************************************************)
(* Theorems about ListQueries and AdminPages for pages of any size, tables *)
(* of any length and any number of inputs.                                 *)
(***************************************************************************)
EXTENDS AdminPages, FiniteSetTheorems, SequenceTheorems, TLAPS

-------------------------------------------------------------------------------
(* The database, for the rows "found" of a table and the order asked for. *)

Ranked(rows, found) == \A n \in found : rows[n].rank \in Int

Before(rows, found, descending, n) ==
    {m \in found : Precedes(rows[m], rows[n], descending)}
Ties(rows, found, n) == {m \in found : rows[m].rank = rows[n].rank}

\* Of two rows one precedes the other or they tie, and to tie is to be in the
\* same relation to every row.
LEMMA RowsAreOrdered ==
  ASSUME NEW rows, NEW found, Ranked(rows, found), NEW descending \in BOOLEAN
  PROVE  /\ \A n \in found : ~Precedes(rows[n], rows[n], descending)
         /\ \A n, m \in found : Precedes(rows[n], rows[m], descending)
                                  => rows[n].rank # rows[m].rank
         /\ \A n, m \in found : \/ Precedes(rows[n], rows[m], descending)
                                \/ Precedes(rows[m], rows[n], descending)
                                \/ rows[n].rank = rows[m].rank
         /\ \A n, m, k \in found :
              Precedes(rows[n], rows[m], descending)
                /\ (Precedes(rows[m], rows[k], descending)
                      \/ rows[m].rank = rows[k].rank)
                => Precedes(rows[n], rows[k], descending)
         /\ \A n, m, k \in found :
              rows[n].rank = rows[m].rank
                /\ Precedes(rows[m], rows[k], descending)
                => Precedes(rows[n], rows[k], descending)
<1>1. \A n \in found : rows[n].rank \in Int
  BY DEF Ranked
<1>2. CASE descending = TRUE
  BY <1>1, <1>2 DEF Precedes
<1>3. CASE descending = FALSE
  BY <1>1, <1>3 DEF Precedes
<1> QED
  BY <1>2, <1>3

\* The rows that match are finitely many.
LEMMA FoundIsFinite ==
  ASSUME NEW last \in Nat, NEW found \in SUBSET (1..last)
  PROVE  IsFiniteSet(found) /\ Cardinality(found) \in 0..last
<1>1. IsFiniteSet(1..last) /\ Cardinality(1..last) = last
  BY FS_Interval
<1>2. IsFiniteSet(found) /\ Cardinality(found) \in Nat /\ Cardinality(found) <= last
  BY <1>1, FS_Subset, FS_CardinalityType
<1> QED
  BY <1>2

\* So are those of any part of them.
LEMMA PartsAreFinite ==
  ASSUME NEW found, IsFiniteSet(found)
  PROVE  /\ Cardinality(found) \in Nat
         /\ \A part \in SUBSET found :
              /\ IsFiniteSet(part) /\ Cardinality(part) \in Nat
              /\ Cardinality(part) <= Cardinality(found)
<1>1. Cardinality(found) \in Nat
  BY FS_CardinalityType
<1>2. ASSUME NEW part \in SUBSET found
      PROVE  /\ IsFiniteSet(part) /\ Cardinality(part) \in Nat
             /\ Cardinality(part) <= Cardinality(found)
  BY FS_Subset, FS_CardinalityType
<1> QED
  BY <1>1, <1>2

\* Rows that tie share an interval of places, as many as they are, and the
\* intervals follow each other in the order of the ranks.
LEMMA PlacesFollow ==
  ASSUME NEW found, IsFiniteSet(found), NEW rows, Ranked(rows, found),
         NEW descending \in BOOLEAN
  PROVE  LET first(n) == Cardinality(Before(rows, found, descending, n))
             ties(n) == Cardinality(Ties(rows, found, n))
         IN  /\ \A n \in found :
                  /\ first(n) \in Nat /\ ties(n) \in Nat \ {0}
                  /\ first(n) + ties(n) <= Cardinality(found)
                  /\ Places(rows, found, descending, n) =
                       (first(n) + 1)..(first(n) + ties(n))
             /\ \A n, m \in found :
                  Precedes(rows[n], rows[m], descending)
                    => first(n) + ties(n) <= first(m)
<1> DEFINE B(n) == Before(rows, found, descending, n)
           T(n) == Ties(rows, found, n)
           size == Cardinality(found)
<1>1. /\ IsFiniteSet(found) /\ size \in Nat
      /\ \A part \in SUBSET found :
           /\ IsFiniteSet(part) /\ Cardinality(part) \in Nat
           /\ Cardinality(part) <= size
  BY PartsAreFinite
<1>2. \A n : B(n) \in SUBSET found /\ T(n) \in SUBSET found
  BY DEF Before, Ties
<1>3. \A n \in found : n \in T(n)
  BY DEF Ties
<1>4. \A n \in found : B(n) \cap T(n) = {}
  BY RowsAreOrdered DEF Before, Ties
<1>5. \A n, m \in found :
        Precedes(rows[n], rows[m], descending) => B(n) \cup T(n) \subseteq B(m)
  BY RowsAreOrdered DEF Before, Ties
<1>6. \A n : Places(rows, found, descending, n) =
        (Cardinality(B(n)) + 1)..(Cardinality(B(n)) + Cardinality(T(n)))
  BY DEF Places, Before, Ties
<1> HIDE DEF B, T
<1>7. \A n : /\ Cardinality(B(n)) \in Nat /\ Cardinality(T(n)) \in Nat
             /\ IsFiniteSet(B(n)) /\ IsFiniteSet(T(n))
  BY <1>1, <1>2
<1>8. \A n \in found : Cardinality(T(n)) # 0
  BY <1>3, <1>7, FS_EmptySet
<1>9. \A n \in found :
        Cardinality(B(n) \cup T(n)) = Cardinality(B(n)) + Cardinality(T(n))
  <2> TAKE n \in found
  <2>1. Cardinality(B(n) \cup T(n)) =
          Cardinality(B(n)) + Cardinality(T(n)) - Cardinality(B(n) \cap T(n))
    BY <1>7, FS_Union
  <2>2. Cardinality(B(n) \cap T(n)) = 0
    BY <1>4, FS_EmptySet
  <2> QED
    BY <1>7, <2>1, <2>2
<1>10. \A n \in found : Cardinality(B(n)) + Cardinality(T(n)) <= size
  <2> TAKE n \in found
  <2>1. B(n) \cup T(n) \in SUBSET found
    BY <1>2
  <2> QED
    BY <1>1, <1>9, <2>1
<1>11. \A n, m \in found :
         Precedes(rows[n], rows[m], descending)
           => Cardinality(B(n)) + Cardinality(T(n)) <= Cardinality(B(m))
  <2> SUFFICES ASSUME NEW n \in found, NEW m \in found,
                      Precedes(rows[n], rows[m], descending)
               PROVE  Cardinality(B(n)) + Cardinality(T(n)) <= Cardinality(B(m))
    OBVIOUS
  <2>1. B(n) \cup T(n) \in SUBSET B(m)
    BY <1>5
  <2>2. Cardinality(B(n) \cup T(n)) <= Cardinality(B(m))
    BY <1>7, <2>1, FS_Subset
  <2> QED
    BY <1>9, <2>2
<1> QED
  BY <1>6, <1>7, <1>8, <1>10, <1>11 DEF B, T

\* The intervals are as large as the groups of rows that tie.
LEMMA PlacesAreAsMany ==
  ASSUME NEW found, IsFiniteSet(found), NEW rows, Ranked(rows, found),
         NEW descending \in BOOLEAN, NEW n \in found
  PROVE  /\ Places(rows, found, descending, n) \subseteq 1..Cardinality(found)
         /\ IsFiniteSet(Places(rows, found, descending, n))
         /\ Cardinality(Places(rows, found, descending, n))
              = Cardinality(Ties(rows, found, n))
<1> DEFINE F(k) == Cardinality(Before(rows, found, descending, k))
           T(k) == Cardinality(Ties(rows, found, k))
           size == Cardinality(found)
<1>1. size \in Nat
  BY PartsAreFinite
<1>2. /\ \A k \in found :
           /\ F(k) \in Nat /\ T(k) \in Nat \ {0}
           /\ F(k) + T(k) <= size
           /\ Places(rows, found, descending, k) = (F(k) + 1)..(F(k) + T(k))
      /\ \A k, m \in found :
           Precedes(rows[k], rows[m], descending) => F(k) + T(k) <= F(m)
  BY PlacesFollow
<1> HIDE DEF F, T
<1>3. /\ F(n) \in Nat /\ T(n) \in Nat \ {0} /\ F(n) + T(n) <= size
      /\ Places(rows, found, descending, n) = (F(n) + 1)..(F(n) + T(n))
  BY <1>2
<1>4. /\ IsFiniteSet((F(n) + 1)..(F(n) + T(n)))
      /\ Cardinality((F(n) + 1)..(F(n) + T(n))) = T(n)
  <2>1. /\ F(n) + 1 \in Int /\ F(n) + T(n) \in Int
        /\ ~(F(n) + 1 > F(n) + T(n))
        /\ (F(n) + T(n)) - (F(n) + 1) + 1 = T(n)
    BY <1>3
  <2> QED
    BY <2>1, FS_Interval
<1>5. Places(rows, found, descending, n) \subseteq 1..size
  <2>1. /\ F(n) \in Nat /\ F(n) + T(n) <= size
        /\ Places(rows, found, descending, n) = (F(n) + 1)..(F(n) + T(n))
    BY <1>3
  <2> HIDE DEF size
  <2>2. T(n) \in Nat
    BY <1>3
  <2> QED
    BY <1>1, <2>1, <2>2
<1>6. /\ IsFiniteSet(Places(rows, found, descending, n))
      /\ Cardinality(Places(rows, found, descending, n)) = T(n)
  BY <1>3, <1>4
<1> QED
  BY <1>5, <1>6 DEF T

\* Rows that can be at the same place tie.
LEMMA PlacesTie ==
  ASSUME NEW found, IsFiniteSet(found), NEW rows, Ranked(rows, found),
         NEW descending \in BOOLEAN,
         NEW n \in found
  PROVE  \A m \in found :
            Places(rows, found, descending, n) \cap
              Places(rows, found, descending, m) # {}
            => rows[n].rank = rows[m].rank
<1> DEFINE F(k) == Cardinality(Before(rows, found, descending, k))
           T(k) == Cardinality(Ties(rows, found, k))
           size == Cardinality(found)
<1>1. /\ \A k \in found :
           /\ F(k) \in Nat /\ T(k) \in Nat \ {0}
           /\ F(k) + T(k) <= size
           /\ Places(rows, found, descending, k) = (F(k) + 1)..(F(k) + T(k))
      /\ \A k, l \in found :
           Precedes(rows[k], rows[l], descending) => F(k) + T(k) <= F(l)
  BY PlacesFollow
<1> HIDE DEF F, T
<1>2. ASSUME NEW m \in found, NEW place,
             place \in Places(rows, found, descending, n),
             place \in Places(rows, found, descending, m)
      PROVE  rows[n].rank = rows[m].rank
  <2>1. /\ F(n) \in Nat /\ T(n) \in Nat /\ F(m) \in Nat /\ T(m) \in Nat
        /\ place \in (F(n) + 1)..(F(n) + T(n))
        /\ place \in (F(m) + 1)..(F(m) + T(m))
    BY <1>1, <1>2
  <2>2. ~(F(n) + T(n) <= F(m)) /\ ~(F(m) + T(m) <= F(n))
    BY <2>1
  <2>3. /\ ~Precedes(rows[n], rows[m], descending)
        /\ ~Precedes(rows[m], rows[n], descending)
    BY <1>1, <2>2
  <2> QED
    BY <2>3, RowsAreOrdered
<1> QED
  BY <1>2

\* The rows can be put in an order that the database may take: the rows that
\* rank alike by age, say.
LEMMA AnOrderExists ==
  ASSUME NEW found \in SUBSET Int, IsFiniteSet(found), NEW rows,
         Ranked(rows, found), NEW descending \in BOOLEAN
  PROVE  \E order \in Bijection(1..Cardinality(found), found) :
            \A i \in 1..Cardinality(found) :
               i \in Places(rows, found, descending, order[i])
<1> DEFINE B(n) == Before(rows, found, descending, n)
           T(n) == Ties(rows, found, n)
           Upto(n) == B(n) \cup {m \in T(n) : m <= n}
           size == Cardinality(found)
           at == [n \in found |-> Cardinality(Upto(n))]
<1>1. /\ IsFiniteSet(found) /\ size \in Nat
      /\ \A part \in SUBSET found :
           /\ IsFiniteSet(part) /\ Cardinality(part) \in Nat
           /\ Cardinality(part) <= size
  BY PartsAreFinite
<1>2. \A n \in found : n \in Int
  OBVIOUS
<1>3. \A n : /\ B(n) \in SUBSET found /\ T(n) \in SUBSET found
             /\ Upto(n) \in SUBSET found
  BY DEF Before, Ties
<1>4. \A n \in found : B(n) \cup {n} \in SUBSET Upto(n) /\ n \notin B(n)
  BY <1>2, RowsAreOrdered DEF Before, Ties
<1>5. \A n \in found : Upto(n) \in SUBSET (B(n) \cup T(n))
  OBVIOUS
  \* Of two rows, one comes before the other.
<1>6. ASSUME NEW n \in found, NEW m \in found, n # m
      PROVE  \/ Upto(n) \in SUBSET Upto(m) /\ m \notin Upto(n)
             \/ Upto(m) \in SUBSET Upto(n) /\ n \notin Upto(m)
  <2>1. ASSUME NEW k \in found, NEW l \in found,
               \/ Precedes(rows[k], rows[l], descending)
               \/ rows[k].rank = rows[l].rank /\ k < l
        PROVE  Upto(k) \in SUBSET Upto(l) /\ l \notin Upto(k)
    <3>1. CASE Precedes(rows[k], rows[l], descending)
      <4>1. B(k) \cup T(k) \in SUBSET B(l)
        BY <3>1, RowsAreOrdered DEF Before, Ties
      <4>2. l \notin B(l)
        BY <1>4
      <4> HIDE DEF B, T
      <4> QED
        BY <4>1, <4>2
    <3>2. CASE rows[k].rank = rows[l].rank /\ k < l
      <4>1. B(k) = B(l)
        BY <3>2, RowsAreOrdered DEF Before
      <4>2. T(k) = T(l)
        BY <3>2 DEF Ties
      <4>3. \A r \in found : r <= k => r <= l
        BY <1>2, <3>2
      <4>4. l \notin B(l) /\ ~(l <= k)
        BY <1>2, <1>4, <3>2
      <4>5. T(k) \in SUBSET found
        BY <1>3
      <4> HIDE DEF B, T
      <4> QED
        BY <4>1, <4>2, <4>3, <4>4, <4>5
    <3> QED
      BY <2>1, <3>1, <3>2
  <2>2. \/ Precedes(rows[n], rows[m], descending)
        \/ Precedes(rows[m], rows[n], descending)
        \/ rows[n].rank = rows[m].rank /\ (n < m \/ m < n)
    BY <1>2, <1>6, RowsAreOrdered
  <2> HIDE DEF Upto
  <2> QED
    BY <2>1, <2>2
<1>7. \A n \in found :
        /\ Cardinality(B(n)) \in Nat /\ Cardinality(T(n)) \in Nat
        /\ Places(rows, found, descending, n) =
             (Cardinality(B(n)) + 1)..(Cardinality(B(n)) + Cardinality(T(n)))
  <2> DEFINE F(n) == Cardinality(Before(rows, found, descending, n))
             G(n) == Cardinality(Ties(rows, found, n))
  <2>1. /\ \A n \in found :
             /\ F(n) \in Nat /\ G(n) \in Nat \ {0}
             /\ F(n) + G(n) <= size
             /\ Places(rows, found, descending, n) = (F(n) + 1)..(F(n) + G(n))
        /\ \A n, m \in found :
             Precedes(rows[n], rows[m], descending) => F(n) + G(n) <= F(m)
    BY PlacesFollow
  <2> QED
    BY <2>1
<1>8. \A n \in found : n \in Upto(n)
  BY <1>4
<1> HIDE DEF B, T, Upto
<1>9. \A n \in found : at[n] \in Places(rows, found, descending, n)
  <2> TAKE n \in found
  <2>1. /\ IsFiniteSet(B(n)) /\ IsFiniteSet(T(n)) /\ IsFiniteSet(Upto(n))
        /\ Cardinality(Upto(n)) \in Nat
    BY <1>1, <1>3
  <2>2. /\ IsFiniteSet(B(n) \cup {n})
        /\ Cardinality(B(n) \cup {n}) = Cardinality(B(n)) + 1
    BY <1>4, <2>1, FS_AddElement
  <2>3. Cardinality(B(n) \cup {n}) <= Cardinality(Upto(n))
    BY <1>4, <2>1, FS_Subset
  <2>4. /\ IsFiniteSet(B(n) \cup T(n))
        /\ Cardinality(B(n) \cup T(n)) =
             Cardinality(B(n)) + Cardinality(T(n)) - Cardinality(B(n) \cap T(n))
    BY <2>1, FS_Union
  <2>5. Cardinality(B(n) \cap T(n)) \in Nat
    <3>1. B(n) \cap T(n) \in SUBSET found
      BY <1>3
    <3> QED
      BY <1>1, <3>1
  <2>6. Cardinality(Upto(n)) <= Cardinality(B(n) \cup T(n))
    BY <1>5, <2>4, FS_Subset
  <2>7. Cardinality(B(n)) \in Nat /\ Cardinality(T(n)) \in Nat
    BY <1>7
  <2>8. Cardinality(B(n)) + 1 <= Cardinality(Upto(n))
    BY <2>2, <2>3
  <2>9. Cardinality(Upto(n)) <= Cardinality(B(n)) + Cardinality(T(n))
    BY <2>1, <2>4, <2>5, <2>6, <2>7
  <2>10. Cardinality(Upto(n)) \in
           (Cardinality(B(n)) + 1)..(Cardinality(B(n)) + Cardinality(T(n)))
    BY <2>1, <2>7, <2>8, <2>9
  <2> QED
    BY <1>7, <2>10
<1>10. \A n, m \in found : at[n] = at[m] => n = m
  <2> SUFFICES ASSUME NEW n \in found, NEW m \in found, n # m
               PROVE  Cardinality(Upto(n)) # Cardinality(Upto(m))
    OBVIOUS
  <2>1. IsFiniteSet(Upto(n)) /\ IsFiniteSet(Upto(m))
    BY <1>1, <1>3
  <2>2. CASE Upto(n) \in SUBSET Upto(m) /\ m \notin Upto(n)
    <3>1. Upto(n) # Upto(m)
      BY <1>8, <2>2
    <3> QED
      BY <2>1, <2>2, <3>1, FS_Subset
  <2>3. CASE Upto(m) \in SUBSET Upto(n) /\ n \notin Upto(m)
    <3>1. Upto(n) # Upto(m)
      BY <1>8, <2>3
    <3> QED
      BY <2>1, <2>3, <3>1, FS_Subset
  <2> QED
    BY <1>6, <2>2, <2>3
<1> DEFINE placed == 1..size
<1>11. at \in [found -> placed]
  <2>1. \A n \in found : at[n] \in placed
    BY <1>9, PlacesAreAsMany
  <2>2. at = [n \in found |-> at[n]]
    OBVIOUS
  <2> HIDE DEF at, placed
  <2> QED
    BY <2>1, <2>2
<1>12. IsFiniteSet(placed) /\ Cardinality(placed) = size
  BY <1>1, FS_Interval
<1> HIDE DEF at
<1>13. at \in Injection(found, placed)
  BY <1>10, <1>11 DEF Injection, IsInjective
<1>14. at \in Surjection(found, placed)
  <2> HIDE DEF placed
  <2> QED
    BY <1>12, <1>13, FS_Injection
<1> DEFINE order == [i \in placed |-> CHOOSE n \in found : at[n] = i]
<1>15. \A i \in placed : order[i] \in found /\ at[order[i]] = i
  <2> TAKE i \in placed
  <2>1. \E n \in found : at[n] = i
    BY <1>14 DEF Surjection
  <2> HIDE DEF placed
  <2> QED
    BY <2>1
<1>16. \A n \in found : at[n] \in placed /\ order[at[n]] = n
  <2> TAKE n \in found
  <2>1. at[n] \in placed
    BY <1>11
  <2> HIDE DEF order, placed
  <2> QED
    BY <1>10, <1>15, <2>1
<1>17. order \in [placed -> found]
  <2> HIDE DEF placed
  <2> QED
    BY <1>15
<1>18. order \in Bijection(placed, found)
  <2> HIDE DEF order, placed
  <2> QED
    BY <1>15, <1>16, <1>17 DEF Bijection, Injection, Surjection, IsInjective
<1>19. \A i \in placed : i \in Places(rows, found, descending, order[i])
  <2> HIDE DEF order, placed
  <2> QED
    BY <1>9, <1>15
<1> QED
  <2> HIDE DEF order
  <2> QED
    BY <1>18, <1>19

\* The numbers of the rows that are answered, of "size" that match: those from 1
\* on.
Answered(size, skip, take) == {k \in 1..take : skip + k <= size}

LEMMA AnsweredFromOne ==
  ASSUME NEW size \in Nat, NEW skip \in Nat, NEW take \in Nat
  PROVE  \E length \in Nat : Answered(size, skip, take) = 1..length
<1>1. CASE size <= skip
  <2>1. Answered(size, skip, take) = 1..0
    BY <1>1 DEF Answered
  <2> QED
    BY <2>1
<1>2. CASE skip < size /\ size - skip <= take
  <2>1. Answered(size, skip, take) = 1..(size - skip) /\ size - skip \in Nat
    BY <1>2 DEF Answered
  <2> QED
    BY <2>1
<1>3. CASE take < size - skip
  <2>1. Answered(size, skip, take) = 1..take
    BY <1>3 DEF Answered
  <2> QED
    BY <2>1
<1> QED
  BY <1>1, <1>2, <1>3

\* Rows of what was found, each of them once, at places from the one after
\* "skip" that the order leaves them.
InPlace(ids, rows, found, descending, skip, take) ==
    /\ DOMAIN ids = Answered(Cardinality(found), skip, take)
    /\ ids \in Seq(found)
    /\ IsInjective(ids)
    /\ \A k \in DOMAIN ids :
          /\ ids[k] \in found
          /\ skip + k \in Places(rows, found, descending, ids[k])

\* findMany answers with rows that match, at the places that it is asked for.
LEMMA AnswersAreInPlace ==
  ASSUME NEW rows, NEW last \in Nat, DOMAIN rows = 1..last,
         NEW where, NEW descending \in BOOLEAN,
         NEW skip \in Nat, NEW take \in Nat,
         NEW ids \in FindMany(rows, [where |-> where, descending |-> descending,
                                     skip |-> skip, take |-> take])
  PROVE  InPlace(ids, rows, Matching(rows, where), descending, skip, take)
<1> DEFINE found == Matching(rows, where)
           size == Cardinality(found)
           answered == Answered(size, skip, take)
<1>1. found \in SUBSET (1..last)
  BY DEF Matching
<1>2. /\ ids \in [answered -> found]
      /\ IsInjective(ids)
      /\ \A k \in answered : skip + k \in Places(rows, found, descending, ids[k])
  BY DEF FindMany, Answered
<1> HIDE DEF found
<1>3. size \in Nat
  BY <1>1, FoundIsFinite
<1>4. PICK length \in Nat : answered = 1..length
  <2> HIDE DEF size
  <2> QED
    BY <1>3, AnsweredFromOne
<1> HIDE DEF answered, size
<1>5. ids \in Seq(found)
  <2>1. ids \in [1..length -> found]
    BY <1>2, <1>4
  <2> QED
    BY <2>1, SeqDef
<1>6. DOMAIN ids = answered /\ \A k \in answered : ids[k] \in found
  BY <1>2
<1> QED
  BY <1>2, <1>5, <1>6 DEF InPlace, found, answered, size

\* findMany has an answer.
LEMMA AnAnswerExists ==
  ASSUME NEW rows, NEW last \in Nat, DOMAIN rows = 1..last,
         NEW where, NEW descending \in BOOLEAN,
         NEW skip \in Nat, NEW take \in Nat,
         Ranked(rows, Matching(rows, where))
  PROVE  FindMany(rows, [where |-> where, descending |-> descending,
                         skip |-> skip, take |-> take]) # {}
<1> DEFINE found == Matching(rows, where)
           size == Cardinality(found)
           answered == Answered(size, skip, take)
           args == [where |-> where, descending |-> descending,
                    skip |-> skip, take |-> take]
<1>1. found \in SUBSET (1..last)
  BY DEF Matching
<1>2. \A ids : /\ ids \in [answered -> found]
               /\ IsInjective(ids)
               /\ \A k \in answered :
                     skip + k \in Places(rows, found, descending, ids[k])
               => ids \in FindMany(rows, args)
  BY DEF FindMany, Answered
<1> HIDE DEF found, args
<1>3. size \in Nat /\ IsFiniteSet(found) /\ found \in SUBSET Int
  BY <1>1, FoundIsFinite
<1>4. Ranked(rows, found)
  BY DEF found
<1>5. PICK order \in Bijection(1..size, found) :
        \A i \in 1..size : i \in Places(rows, found, descending, order[i])
  BY <1>3, <1>4, AnOrderExists
<1>6. /\ order \in [1..size -> found]
      /\ \A i, k \in 1..size : order[i] = order[k] => i = k
  BY <1>5 DEF Bijection, Injection, IsInjective
<1> DEFINE ids == [k \in answered |-> order[skip + k]]
<1> HIDE DEF size
<1>7. \A k \in answered : k \in Nat /\ skip + k \in 1..size
  BY <1>3 DEF Answered
<1>8. ids \in [answered -> found]
  BY <1>6, <1>7
<1>9. IsInjective(ids)
  <2>1. \A k, l \in answered : ids[k] = ids[l] => k = l
    <3> SUFFICES ASSUME NEW k \in answered, NEW l \in answered, ids[k] = ids[l]
                 PROVE  k = l
      OBVIOUS
    <3>1. order[skip + k] = order[skip + l]
      OBVIOUS
    <3>2. skip + k = skip + l
      BY <1>6, <1>7, <3>1
    <3>3. k \in Nat /\ l \in Nat
      BY <1>7
    <3> HIDE DEF answered, ids
    <3> QED
      BY <3>2, <3>3
  <2>2. DOMAIN ids = answered
    OBVIOUS
  <2> HIDE DEF ids, answered
  <2> QED
    BY <2>1, <2>2 DEF IsInjective
<1>10. \A k \in answered : skip + k \in Places(rows, found, descending, ids[k])
  BY <1>5, <1>7
<1>11. ids \in FindMany(rows, args)
  <2> HIDE DEF ids
  <2> QED
    BY <1>2, <1>8, <1>9, <1>10 DEF size
<1> QED
  BY <1>11 DEF args

\* All places that row n can have are asked for.
Sure(rows, found, descending, skip, take, n) ==
    Places(rows, found, descending, n) \subseteq (skip + 1)..(skip + take)

\* Such a row is in every answer: the rows that tie with it have no room for all
\* of them otherwise.
LEMMA SureRowsAreFound ==
  ASSUME NEW found, IsFiniteSet(found), NEW rows, Ranked(rows, found),
         NEW descending \in BOOLEAN,
         NEW skip \in Nat, NEW take \in Nat, NEW ids,
         InPlace(ids, rows, found, descending, skip, take),
         NEW n \in found, Sure(rows, found, descending, skip, take, n)
  PROVE  \E k \in DOMAIN ids : ids[k] = n
<1> DEFINE P(m) == Places(rows, found, descending, m)
           ties == Ties(rows, found, n)
           f == [i \in P(n) |-> ids[i - skip]]
           size == Cardinality(found)
<1>1. /\ P(n) \subseteq 1..size
      /\ IsFiniteSet(P(n)) /\ Cardinality(P(n)) = Cardinality(ties)
      /\ \A m \in found : P(n) \cap P(m) # {} => rows[n].rank = rows[m].rank
  <2>1. /\ P(n) \subseteq 1..size
        /\ IsFiniteSet(P(n)) /\ Cardinality(P(n)) = Cardinality(ties)
    BY PlacesAreAsMany
  <2>2. \A m \in found :
          Places(rows, found, descending, n) \cap
            Places(rows, found, descending, m) # {}
          => rows[n].rank = rows[m].rank
    BY PlacesTie
  <2> QED
    BY <2>1, <2>2
<1>2. size \in Nat /\ IsFiniteSet(ties)
  <2>1. ties \in SUBSET found
    BY DEF Ties
  <2> HIDE DEF ties
  <2> QED
    BY <2>1, PartsAreFinite
<1>3. /\ DOMAIN ids = {k \in 1..take : skip + k <= size}
      /\ \A k, l \in DOMAIN ids : ids[k] = ids[l] => k = l
      /\ \A k \in DOMAIN ids : ids[k] \in found /\ skip + k \in P(ids[k])
  BY DEF InPlace, IsInjective, Answered
<1>4. P(n) \subseteq (skip + 1)..(skip + take)
  BY DEF Sure
<1> HIDE DEF P, size
<1>5. \A i \in P(n) : i \in Int /\ i - skip \in DOMAIN ids /\ skip + (i - skip) = i
  BY <1>1, <1>2, <1>3, <1>4
<1>6. \A i \in P(n) : ids[i - skip] \in ties
  <2> TAKE i \in P(n)
  <2>1. ids[i - skip] \in found /\ i \in P(ids[i - skip])
    BY <1>3, <1>5
  <2> QED
    BY <1>1, <2>1 DEF Ties
<1>7. n \in ties
  BY DEF Ties
<1> HIDE DEF ties
<1>8. f \in [P(n) -> ties]
  BY <1>6
<1>9. \A i, k \in P(n) : f[i] = f[k] => i = k
  <2> SUFFICES ASSUME NEW i \in P(n), NEW k \in P(n), ids[i - skip] = ids[k - skip]
               PROVE  i = k
    OBVIOUS
  <2>1. i - skip = k - skip
    BY <1>3, <1>5
  <2> QED
    BY <1>5, <2>1
<1>10. f \in Surjection(P(n), ties)
  <2> HIDE DEF f
  <2>1. f \in Injection(P(n), ties)
    BY <1>8, <1>9 DEF Injection, IsInjective
  <2> QED
    BY <1>1, <1>2, <2>1, FS_Injection
<1>11. PICK i \in P(n) : f[i] = n
  <2> HIDE DEF f
  <2> QED
    BY <1>7, <1>10 DEF Surjection
<1> QED
  BY <1>5, <1>11

-------------------------------------------------------------------------------
\* Every list is a page of its rows, however they are selected and sorted.
LEMMA ListIsAPage ==
  ASSUME NEW page \in Screens, NEW path \in PathRecord
  PROVE  /\ ListOf(page, path).descending \in BOOLEAN
         /\ ListOf(page, path) =
              [where |-> ListOf(page, path).where,
               descending |-> ListOf(page, path).descending,
               skip |-> (path.page - 1) * Limit, take |-> Limit]
<1>1. \A keys : Parsed(path, keys).page = path.page
  BY DEF Parsed, PathRecord
<1> DEFINE Page(args) ==
      /\ args.descending \in BOOLEAN
      /\ args = [where |-> args.where, descending |-> args.descending,
                 skip |-> (path.page - 1) * Limit, take |-> Limit]
<1>2. ASSUME NEW asked, NEW where, NEW descending \in BOOLEAN,
             asked.page = path.page
      PROVE  Page(FindArgs(asked, where, descending))
  BY <1>2 DEF FindArgs
<1> HIDE DEF Page
<1>9. \A asked, where, params :
        asked.page = path.page => Page(FindArgs(asked, where, "desc" \in params))
  <2> TAKE asked, where, params
  <2> DEFINE descending == "desc" \in params
  <2>1. descending \in BOOLEAN
    OBVIOUS
  <2> HIDE DEF descending
  <2>2. asked.page = path.page => Page(FindArgs(asked, where, descending))
    BY <1>2, <2>1
  <2> QED
    BY <2>2 DEF descending
<1>3. Page(UsersList(UsersListQuery(path)))
  BY <1>1, <1>9 DEF UsersList, UsersListQuery
<1>4. Page(ClientsList(ClientsListQuery(path)))
  BY <1>1, <1>9 DEF ClientsList, ClientsListQuery
<1>5. Page(ProjectsList(ProjectsListQuery(path)))
  BY <1>1, <1>9 DEF ProjectsList, ProjectsListQuery
<1>6. Page(TasksList(TasksListQuery(path)))
  BY <1>1, <1>9 DEF TasksList, TasksListQuery
<1>7. Page(AssignmentsList(AssignmentsListQuery(path)))
  BY <1>1, <1>2 DEF AssignmentsList, AssignmentsListQuery
<1>8. Page(ListOf(page, path))
  BY <1>3, <1>4, <1>5, <1>6, <1>7 DEF ListOf, Screens
<1> QED
  BY <1>8 DEF Page

\* The filters of a page that can be on: its own, and the order.
QueryOf(page) ==
    [page : 1..MaxRows, text : Texts, on : SUBSET (FiltersOf(page) \cup {"desc"})]

\* What a page asks for reaches the database as it was asked: no schema and no
\* service drops a filter of the page, and none adds one.
LEMMA FiltersArrive ==
  ASSUME NEW page \in Screens, NEW q \in QueryOf(page)
  PROVE  /\ PathOf(page, q) \in PathRecord
         /\ PathOf(page, q).page = q.page
         /\ ListOf(page, PathOf(page, q)).where =
              [conditions |-> (q.on \ {"includeDeleted", "desc"})
                                 \cup (IF q.text = "word" THEN {"q"} ELSE {}),
               withDeleted |-> "includeDeleted" \in q.on]
<1> DEFINE text == IF q.text = "word" THEN {"q"} ELSE {}
<1>1. /\ q.page \in 1..MaxRows
      /\ q.on \subseteq FiltersOf(page) \cup {"desc"}
      /\ text \subseteq {"q"}
  BY DEF QueryOf
<1> HIDE DEF text
<1>2. \A filters : Path(q, filters) =
        [page |-> q.page, params |-> (q.on \cap (filters \cup {"desc"})) \cup text]
  BY DEF Path, text
<1> DEFINE Arrives(where) ==
      where = [conditions |-> (q.on \ {"includeDeleted", "desc"}) \cup text,
               withDeleted |-> "includeDeleted" \in q.on]
<1>3. ASSUME NEW filters, NEW keys, NEW columns, NEW descending,
             q.on \subseteq filters \cup {"desc"}, "desc" \notin filters,
             filters \cup {"q"} \subseteq keys,
             columns = (filters \ {"includeDeleted"}) \cup {"q"}
      PROVE  LET asked == Parsed(Path(q, filters), keys)
             IN  Arrives(FindArgs(asked, Where(asked, columns), descending).where)
  <2> DEFINE params == ((q.on \cap (filters \cup {"desc"})) \cup text) \cap keys
             asked == Parsed(Path(q, filters), keys)
  <2>1. asked.params = params
    BY <1>2 DEF Parsed
  <2>2. params \cap columns = (q.on \ {"includeDeleted", "desc"}) \cup text
    BY <1>1, <1>3
  <2>3. "includeDeleted" \in params <=> "includeDeleted" \in q.on
    BY <1>1, <1>3
  <2> HIDE DEF params, asked
  <2>4. Where(asked, columns) =
          [conditions |-> params \cap columns,
           withDeleted |-> "includeDeleted" \in params]
    BY <2>1 DEF Where
  <2>5. Arrives(Where(asked, columns))
    BY <2>2, <2>3, <2>4
  <2>6. FindArgs(asked, Where(asked, columns), descending).where = Where(asked, columns)
    BY DEF FindArgs
  <2> QED
    BY <2>5, <2>6 DEF asked
<1> DEFINE Both == /\ Arrives(ListOf(page, PathOf(page, q)).where)
                   /\ \E filters : PathOf(page, q) = Path(q, filters)
<1> HIDE DEF Arrives
<1>4. ASSUME page = "users" PROVE Both
  <2>1. q.on \subseteq {"role", "isActive", "includeDeleted"} \cup {"desc"}
    BY <1>1, <1>4 DEF FiltersOf, UsersFilters
  <2>2. Arrives(UsersList(UsersListQuery(UsersPath(q))).where)
    BY <1>3, <2>1 DEF UsersList, UsersListQuery, UsersPath, UsersWhere
  <2>3. Arrives(ListOf(page, PathOf(page, q)).where)
    BY <1>4, <2>2 DEF ListOf, PathOf
  <2>4. PathOf(page, q) = Path(q, {"role", "isActive", "includeDeleted"})
    BY <1>4 DEF PathOf, UsersPath
  <2> QED
    BY <2>3, <2>4
<1>5. ASSUME page = "clients" PROVE Both
  <2>1. q.on \subseteq {"isActive", "includeDeleted"} \cup {"desc"}
    BY <1>1, <1>5 DEF FiltersOf, ClientsFilters
  <2>2. Arrives(ClientsList(ClientsListQuery(ClientsPath(q))).where)
    BY <1>3, <2>1 DEF ClientsList, ClientsListQuery, ClientsPath, ClientsWhere
  <2>3. Arrives(ListOf(page, PathOf(page, q)).where)
    BY <1>5, <2>2 DEF ListOf, PathOf
  <2>4. PathOf(page, q) = Path(q, {"isActive", "includeDeleted"})
    BY <1>5 DEF PathOf, ClientsPath
  <2> QED
    BY <2>3, <2>4
<1>6. ASSUME page = "projects" PROVE Both
  <2>1. q.on \subseteq {"clientId", "isActive", "includeDeleted"} \cup {"desc"}
    BY <1>1, <1>6 DEF FiltersOf, ProjectsFilters
  <2>2. Arrives(ProjectsList(ProjectsListQuery(ProjectsPath(q))).where)
    BY <1>3, <2>1 DEF ProjectsList, ProjectsListQuery, ProjectsPath, ProjectsWhere
  <2>3. Arrives(ListOf(page, PathOf(page, q)).where)
    BY <1>6, <2>2 DEF ListOf, PathOf
  <2>4. PathOf(page, q) = Path(q, {"clientId", "isActive", "includeDeleted"})
    BY <1>6 DEF PathOf, ProjectsPath
  <2> QED
    BY <2>3, <2>4
<1>7. ASSUME page = "tasks" PROVE Both
  <2>1. q.on \subseteq {"projectId", "status", "includeDeleted"} \cup {"desc"}
    BY <1>1, <1>7 DEF FiltersOf, TasksFilters
  <2>2. Arrives(TasksList(TasksListQuery(TasksPath(q))).where)
    BY <1>3, <2>1 DEF TasksList, TasksListQuery, TasksPath, TasksWhere
  <2>3. Arrives(ListOf(page, PathOf(page, q)).where)
    BY <1>7, <2>2 DEF ListOf, PathOf
  <2>4. PathOf(page, q) = Path(q, {"projectId", "status", "includeDeleted"})
    BY <1>7 DEF PathOf, TasksPath
  <2> QED
    BY <2>3, <2>4
<1>8. ASSUME page = "assignments" PROVE Both
  <2>1. q.on \subseteq {"userId", "taskId"} \cup {"desc"}
    BY <1>1, <1>8 DEF FiltersOf, AssignmentsFilters
  <2>2. Arrives(AssignmentsList(AssignmentsListQuery(AssignmentsPath(q))).where)
    BY <1>3, <2>1
       DEF AssignmentsList, AssignmentsListQuery, AssignmentsPath, AssignmentsWhere
  <2>3. Arrives(ListOf(page, PathOf(page, q)).where)
    BY <1>8, <2>2 DEF ListOf, PathOf
  <2>4. PathOf(page, q) = Path(q, {"userId", "taskId"})
    BY <1>8 DEF PathOf, AssignmentsPath
  <2> QED
    BY <2>3, <2>4
<1>9. Both
  BY <1>4, <1>5, <1>6, <1>7, <1>8 DEF Screens
<1>10. q.on \cup text \subseteq Params
  BY <1>1 DEF Params
<1>11. /\ PathOf(page, q).page = q.page
       /\ PathOf(page, q) \in PathRecord
  BY <1>1, <1>2, <1>9, <1>10 DEF PathRecord
<1> QED
  BY <1>9, <1>11 DEF Arrives, text

\* The order that a page asks for is the one that the database is asked for, on
\* every page of the list.
LEMMA OrderArrives ==
  ASSUME NEW page \in Screens, NEW q \in QueryOf(page)
  PROVE  ListOf(page, PathOf(page, q)).descending
           = (page = "assignments" \/ "desc" \in q.on)
<1> DEFINE text == IF q.text = "word" THEN {"q"} ELSE {}
<1>1. text \subseteq {"q"}
  OBVIOUS
<1> HIDE DEF text
<1>2. ASSUME NEW filters, NEW keys, "desc" \in keys
      PROVE  "desc" \in Parsed(Path(q, filters), keys).params <=> "desc" \in q.on
  <2>1. Parsed(Path(q, filters), keys).params =
          ((q.on \cap (filters \cup {"desc"})) \cup text) \cap keys
    BY DEF Parsed, Path, text
  <2> QED
    BY <1>1, <1>2, <2>1
<1>3. \A asked, where, descending :
        FindArgs(asked, where, descending).descending = descending
  BY DEF FindArgs
<1> DEFINE Goal == ListOf(page, PathOf(page, q)).descending
                     = (page = "assignments" \/ "desc" \in q.on)
<1>4. ASSUME page = "users" PROVE Goal
  <2>1. ListOf(page, PathOf(page, q)).descending =
          ("desc" \in UsersListQuery(UsersPath(q)).params)
    BY <1>3, <1>4 DEF ListOf, PathOf, UsersList
  <2>2. "desc" \in UsersListQuery(UsersPath(q)).params <=> "desc" \in q.on
    BY <1>2 DEF UsersListQuery, UsersPath
  <2> QED
    BY <1>4, <2>1, <2>2
<1>5. ASSUME page = "clients" PROVE Goal
  <2>1. ListOf(page, PathOf(page, q)).descending =
          ("desc" \in ClientsListQuery(ClientsPath(q)).params)
    BY <1>3, <1>5 DEF ListOf, PathOf, ClientsList
  <2>2. "desc" \in ClientsListQuery(ClientsPath(q)).params <=> "desc" \in q.on
    BY <1>2 DEF ClientsListQuery, ClientsPath
  <2> QED
    BY <1>5, <2>1, <2>2
<1>6. ASSUME page = "projects" PROVE Goal
  <2>1. ListOf(page, PathOf(page, q)).descending =
          ("desc" \in ProjectsListQuery(ProjectsPath(q)).params)
    BY <1>3, <1>6 DEF ListOf, PathOf, ProjectsList
  <2>2. "desc" \in ProjectsListQuery(ProjectsPath(q)).params <=> "desc" \in q.on
    BY <1>2 DEF ProjectsListQuery, ProjectsPath
  <2> QED
    BY <1>6, <2>1, <2>2
<1>7. ASSUME page = "tasks" PROVE Goal
  <2>1. ListOf(page, PathOf(page, q)).descending =
          ("desc" \in TasksListQuery(TasksPath(q)).params)
    BY <1>3, <1>7 DEF ListOf, PathOf, TasksList
  <2>2. "desc" \in TasksListQuery(TasksPath(q)).params <=> "desc" \in q.on
    BY <1>2 DEF TasksListQuery, TasksPath
  <2> QED
    BY <1>7, <2>1, <2>2
<1>8. ASSUME page = "assignments" PROVE Goal
  BY <1>3, <1>8 DEF ListOf, PathOf, AssignmentsList
<1> QED
  BY <1>4, <1>5, <1>6, <1>7, <1>8 DEF Screens

\* The state that a list is made from: the page, its filters and the table.
ListState ==
    /\ screen \in Screens
    /\ query \in QueryOf(screen)
    /\ table \in Seq(Row) /\ Len(table) <= MaxRows

\* The rows that the database finds are those that the page shows its filters
\* to be for.
LEMMA FoundAreSelected ==
  ASSUME ListState, NEW q \in QueryOf(screen), q.on = query.on, q.text = query.text
  PROVE  Matching(table, ListOf(screen, PathOf(screen, q)).where) = Selected
<1> DEFINE where == ListOf(screen, PathOf(screen, q)).where
<1>1. where = [conditions |-> (query.on \ {"includeDeleted", "desc"})
                                \cup (IF query.text = "word" THEN {"q"} ELSE {}),
               withDeleted |-> "includeDeleted" \in query.on]
  BY FiltersArrive DEF ListState
<1> HIDE DEF where
<1>2. /\ where.withDeleted <=> "includeDeleted" \in query.on
      /\ \A fits : where.conditions \subseteq fits <=>
           /\ query.on \ {"includeDeleted", "desc"} \subseteq fits
           /\ query.text = "word" => "q" \in fits
  <2>1. CASE query.text = "word"
    BY <1>1, <2>1
  <2>2. CASE query.text # "word"
    BY <1>1, <2>2
  <2> QED
    BY <2>1, <2>2
<1>3. Matching(table, where) = Selected
  BY <1>2, Zenon DEF Matching, Selected
<1> QED
  BY <1>3 DEF where

-------------------------------------------------------------------------------
\* A page holds no fewer rows than it has number, and later pages start later.
LEMMA PagesGrow ==
  /\ \A p \in Nat : p * Limit \in Nat /\ p <= p * Limit
  /\ \A p, m \in Nat : p <= m => p * Limit <= m * Limit
  /\ \A p \in Nat : (p + 1) * Limit = p * Limit + Limit
  /\ \A p \in Nat \ {0} : p * Limit = (p - 1) * Limit + Limit
<1>1. Limit \in Nat /\ Limit >= 1
  BY LimitAssumption
<1>2. \A p \in Nat : p * Limit \in Nat
  BY <1>1
<1>3. \A p \in Nat : p <= p * Limit
  BY <1>1
<1>4. \A p, m \in Nat : p <= m => p * Limit <= m * Limit
  BY <1>1
<1>5. \A p \in Nat : (p + 1) * Limit = p * Limit + Limit
  BY <1>1
<1>6. \A p \in Nat \ {0} : p * Limit = (p - 1) * Limit + Limit
  BY <1>1
<1> QED
  BY <1>2, <1>3, <1>4, <1>5, <1>6

\* Every place is on a page.
LEMMA PageOfPlace ==
  ASSUME NEW i \in Nat \ {0}
  PROVE  \E p \in 1..i : (p - 1) * Limit < i /\ i <= p * Limit
<1> DEFINE Enough == {p \in Nat : i <= p * Limit}
<1>1. i \in Enough
  BY PagesGrow
<1>2. PICK p \in Enough : \A m \in Enough : ~(<<m, p>> \in OpToRel(<, Nat))
  <2>1. Enough \subseteq Nat /\ Enough # {}
    BY <1>1
  <2> HIDE DEF Enough
  <2> QED
    BY <2>1, NatLessThanWellFounded, WFMin
<1>3. \A m \in Enough : ~(m < p)
  BY <1>2 DEF OpToRel
<1>4. p \in 1..i
  BY <1>1, <1>3, LimitAssumption
<1>5. p - 1 \notin Enough
  BY <1>3, <1>4
<1> QED
  BY <1>4, <1>5, PagesGrow

\* What the database answers to the request for a page, and that it does.
LEMMA FoundOnPage ==
  ASSUME ListState, NEW path \in PathRecord
  PROVE  /\ Matching(table, ListOf(screen, path).where) \in SUBSET (1..Len(table))
         /\ ListOf(screen, path).descending \in BOOLEAN
         /\ (path.page - 1) * Limit \in Nat
         /\ FindMany(table, ListOf(screen, path)) # {}
         /\ \A ids \in FindMany(table, ListOf(screen, path)) :
              InPlace(ids, table, Matching(table, ListOf(screen, path).where),
                      ListOf(screen, path).descending, (path.page - 1) * Limit,
                      Limit)
<1> DEFINE args == ListOf(screen, path)
           where == args.where
           descending == args.descending
           skip == (path.page - 1) * Limit
<1>1. /\ descending \in BOOLEAN
      /\ args = [where |-> where, descending |-> descending,
                 skip |-> skip, take |-> Limit]
  BY ListIsAPage DEF ListState
<1>2. skip \in Nat /\ Limit \in Nat
  <2>1. path.page - 1 \in Nat
    BY BoundAssumption DEF PathRecord
  <2> QED
    BY <2>1, PagesGrow, LimitAssumption
<1>3. Len(table) \in Nat /\ DOMAIN table = 1..Len(table)
  BY DEF ListState
<1>4. Matching(table, where) \in SUBSET (1..Len(table))
  BY <1>3 DEF Matching
<1>5. Ranked(table, Matching(table, where))
  <2>1. \A n \in 1..Len(table) : table[n] \in Row
    BY DEF ListState
  <2>2. \A row \in Row : row.rank \in Int
    BY RanksAssumption DEF Row
  <2> QED
    BY <1>4, <2>1, <2>2 DEF Ranked
<1> HIDE DEF where, descending, skip
<1> DEFINE plain == [where |-> where, descending |-> descending,
                     skip |-> skip, take |-> Limit]
<1>6. FindMany(table, plain) # {}
  BY <1>1, <1>2, <1>3, <1>5, AnAnswerExists
<1>7. \A ids \in FindMany(table, plain) :
        InPlace(ids, table, Matching(table, where), descending, skip, Limit)
  BY <1>1, <1>2, <1>3, AnswersAreInPlace
<1>8. /\ FindMany(table, args) # {}
      /\ \A ids \in FindMany(table, args) :
           InPlace(ids, table, Matching(table, where), descending, skip, Limit)
  <2>1. args = plain
    BY <1>1
  <2> HIDE DEF args, plain
  <2> QED
    BY <1>6, <1>7, <2>1
<1> QED
  BY <1>1, <1>2, <1>4, <1>8 DEF where, descending, skip

\* An answer to the request for page p has only rows that can be there, all of
\* those that can be nowhere else, and some if any place of the page is taken.
LEMMA PageHoldsItsPlaces ==
  ASSUME ListState, NEW p \in 1..MaxRows
  PROVE  /\ OnPageNo(p) # {}
         /\ \A rows \in OnPageNo(p) :
              /\ rows \subseteq
                   {n \in Selected : PlacesFor(n) \cap PlacesOn(p) # {}}
              /\ \A n \in Selected : PlacesFor(n) \subseteq PlacesOn(p) => n \in rows
              /\ (p - 1) * Limit < Cardinality(Selected) => rows # {}
<1> DEFINE descending == screen = "assignments" \/ "desc" \in query.on
           q == [query EXCEPT !.page = p]
           path == PathOf(screen, q)
           args == ListOf(screen, path)
           skip == (p - 1) * Limit
           size == Cardinality(Selected)
<1>1. /\ q \in QueryOf(screen) /\ q.on = query.on /\ q.text = query.text
      /\ q.page = p
  BY DEF ListState, QueryOf
<1>2. path \in PathRecord /\ path.page = p
  <2> HIDE DEF q
  <2> QED
    BY <1>1, FiltersArrive DEF ListState
<1>3. args.descending = descending
  <2> HIDE DEF q
  <2> QED
    BY <1>1, OrderArrives DEF ListState
<1>4. Matching(table, args.where) = Selected
  <2> HIDE DEF q
  <2> QED
    BY <1>1, FoundAreSelected
<1>5. skip + Limit = p * Limit
  BY PagesGrow
<1>6. /\ skip \in Nat /\ Limit \in Nat /\ Limit >= 1 /\ p * Limit = skip + Limit
      /\ Selected \in SUBSET (1..Len(table)) /\ Len(table) \in Nat
      /\ descending \in BOOLEAN
      /\ FindMany(table, args) # {}
      /\ \A ids \in FindMany(table, args) :
           InPlace(ids, table, Selected, descending, skip, Limit)
  <2> HIDE DEF q, path
  <2> QED
    BY <1>2, <1>3, <1>4, <1>5, FoundOnPage, LimitAssumption DEF ListState
<1>7. OnPageNo(p) = {ToSet(ids) : ids \in FindMany(table, args)}
  BY DEF OnPageNo
<1>8. \A n : PlacesFor(n) = Places(table, Selected, descending, n)
  BY DEF PlacesFor
<1>9. PlacesOn(p) = (skip + 1)..(skip + Limit)
  BY <1>5 DEF PlacesOn
<1>10. Ranked(table, Selected)
  <2>1. \A n \in 1..Len(table) : table[n] \in Row
    BY DEF ListState
  <2>2. \A row \in Row : row.rank \in Int
    BY RanksAssumption DEF Row
  <2> QED
    BY <1>6, <2>1, <2>2 DEF Ranked
<1> HIDE DEF descending, q, path, args, skip
<1>11. size \in Nat /\ IsFiniteSet(Selected)
  <2> DEFINE found == Selected
  <2>1. found \in SUBSET (1..Len(table))
    BY <1>6
  <2> HIDE DEF found
  <2>2. Cardinality(found) \in Nat /\ IsFiniteSet(found)
    BY <1>6, <2>1, FoundIsFinite
  <2> QED
    BY <2>2 DEF found
<1> HIDE DEF size
<1>12. ASSUME NEW ids \in FindMany(table, args)
       PROVE  /\ \A k \in DOMAIN ids :
                   /\ ids[k] \in Selected
                   /\ PlacesFor(ids[k]) \cap PlacesOn(p) # {}
              /\ \A n \in Selected :
                   PlacesFor(n) \subseteq PlacesOn(p) => \E k \in DOMAIN ids : ids[k] = n
              /\ skip < size => DOMAIN ids # {}
  <2>1. InPlace(ids, table, Selected, descending, skip, Limit)
    BY <1>6
  <2>2. /\ DOMAIN ids = Answered(size, skip, Limit)
        /\ \A k \in DOMAIN ids : /\ ids[k] \in Selected
                                 /\ skip + k \in PlacesFor(ids[k])
    BY <1>8, <2>1 DEF InPlace, size
  <2>3. ASSUME NEW k \in DOMAIN ids
        PROVE  ids[k] \in Selected /\ PlacesFor(ids[k]) \cap PlacesOn(p) # {}
    <3>1. k \in 1..Limit
      BY <2>2 DEF Answered
    <3>2. skip + k \in PlacesOn(p)
      BY <1>6, <1>9, <3>1
    <3> QED
      BY <2>2, <3>2
  <2>4. ASSUME NEW n \in Selected, PlacesFor(n) \subseteq PlacesOn(p)
        PROVE  \E k \in DOMAIN ids : ids[k] = n
    <3> DEFINE found == Selected
    <3>1. /\ Ranked(table, found) /\ n \in found
          /\ Sure(table, found, descending, skip, Limit, n)
          /\ InPlace(ids, table, found, descending, skip, Limit)
      BY <1>6, <1>8, <1>9, <1>10, <2>1, <2>4 DEF Sure
    <3>2. skip \in Nat /\ Limit \in Nat /\ descending \in BOOLEAN
      BY <1>6
    <3>3. IsFiniteSet(found)
      BY <1>11
    <3> HIDE DEF found
    <3> QED
      BY <3>1, <3>2, <3>3, SureRowsAreFound
  <2>5. skip < size => 1 \in DOMAIN ids
    BY <1>6, <1>11, <2>2 DEF Answered
  <2> QED
    BY <2>3, <2>4, <2>5
<1>13. \A ids : ToSet(ids) = {ids[k] : k \in DOMAIN ids}
  BY DEF ToSet
<1>14. OnPageNo(p) # {}
  BY <1>6, <1>7
<1>15. ASSUME NEW rows \in OnPageNo(p)
       PROVE  /\ \A n \in rows : n \in Selected /\ PlacesFor(n) \cap PlacesOn(p) # {}
              /\ \A n \in Selected : PlacesFor(n) \subseteq PlacesOn(p) => n \in rows
              /\ skip < size => rows # {}
  <2>1. PICK ids \in FindMany(table, args) : rows = ToSet(ids)
    BY <1>7
  <2>2. rows = {ids[k] : k \in DOMAIN ids}
    BY <1>13, <2>1
  <2> QED
    BY <1>12, <2>2
<1> QED
  BY <1>14, <1>15 DEF skip, size

\* Whatever the page size, the filters and the table are, the pages from the
\* first to the last have all places, and no row is lost but for ties.
LEMMA PagesLoseOnlyTiesAnyList ==
  ASSUME ListState
  PROVE  PagesLoseOnlyTies
<1> DEFINE size == Cardinality(Selected)
<1>1. Len(table) \in Nat /\ Len(table) <= MaxRows /\ MaxRows \in Nat
      /\ Selected \in SUBSET (1..Len(table))
  BY BoundAssumption DEF ListState, Selected
<1>2. size \in 0..MaxRows
  <2> DEFINE found == Selected
             last == Len(table)
  <2>1. last \in Nat /\ last <= MaxRows /\ found \in SUBSET (1..last)
    BY <1>1
  <2> HIDE DEF found, last
  <2>2. Cardinality(found) \in 0..last
    BY <2>1, FoundIsFinite
  <2> QED
    BY <1>1, <2>1, <2>2 DEF found
<1>3. Reachable \subseteq 1..MaxRows
  BY DEF Reachable
<1> HIDE DEF size
<1>4. \A p \in 1..MaxRows :
        p \in Reachable <=> \A m \in 1..(p - 1) : m * Limit < size
  BY DEF Reachable, CanNext, size
<1>5. ASSUME NEW i \in 1..size
      PROVE  \E p \in Reachable : i \in PlacesOn(p)
  <2>1. i \in Nat \ {0} /\ i <= size
    BY <1>2
  <2>2. PICK p \in 1..i : (p - 1) * Limit < i /\ i <= p * Limit
    BY <2>1, PageOfPlace
  <2>3. p \in Nat \ {0} /\ p \in 1..MaxRows
    BY <1>1, <1>2, <2>1
  <2>4. (p - 1) * Limit \in Nat /\ p * Limit \in Nat
    <3>1. p - 1 \in Nat /\ p \in Nat
      BY <2>3
    <3> QED
      BY <3>1, PagesGrow, Zenon
  <2>5. \A m \in 1..(p - 1) : m * Limit < size
    <3> TAKE m \in 1..(p - 1)
    <3>1. /\ m * Limit <= (p - 1) * Limit
          /\ m * Limit \in Nat
      <4>1. m \in Nat /\ p - 1 \in Nat /\ m <= p - 1
        BY <2>3
      <4> QED
        BY <4>1, PagesGrow, Zenon
    <3> QED
      BY <1>2, <2>1, <2>2, <2>4, <3>1
  <2>6. p \in Reachable
    BY <1>4, <2>3, <2>5
  <2>7. i \in PlacesOn(p)
    <3>1. i \in ((p - 1) * Limit + 1)..(p * Limit)
      BY <2>1, <2>2, <2>4
    <3> QED
      BY <3>1 DEF PlacesOn
  <2> QED
    BY <2>6, <2>7
<1>6. ASSUME NEW p \in Reachable, p > 1
      PROVE  (p - 1) * Limit < size
  <2>1. p - 1 \in 1..(p - 1) /\ p \in 1..MaxRows
    BY <1>1, <1>3, <1>6
  <2> QED
    BY <1>4, <2>1
<1>7. ASSUME NEW p \in Reachable
      PROVE  LET answers == OnPageNo(p)
                 near == {n \in Selected : PlacesFor(n) \cap PlacesOn(p) # {}}
                 sure == {n \in near : PlacesFor(n) \subseteq PlacesOn(p)}
             IN  /\ answers # {}
                 /\ p > 1 => {} \notin answers
                 /\ \A rows \in answers : sure \subseteq rows /\ rows \subseteq near
  <2>1. /\ OnPageNo(p) # {}
        /\ \A rows \in OnPageNo(p) :
             /\ rows \subseteq {n \in Selected : PlacesFor(n) \cap PlacesOn(p) # {}}
             /\ \A n \in Selected : PlacesFor(n) \subseteq PlacesOn(p) => n \in rows
             /\ (p - 1) * Limit < size => rows # {}
    BY <1>3, PageHoldsItsPlaces DEF size
  <2> QED
    BY <1>6, <2>1
<1> QED
  BY <1>5, <1>7, Zenon DEF PagesLoseOnlyTies, size

-------------------------------------------------------------------------------
(* The invariants *)

\* A list request, its two parts not read yet or read, and a list as received.
Flight == [path : PathRecord, rows : Seq(Shown) \cup {None},
           total : 0..MaxRows \cup {None}]
Answer == [path : PathRecord, rows : Seq(Shown), total : 0..MaxRows]

\* What TypeOK leaves out: the list on display is complete, only the page's own
\* filters are on, and what is open or under way is a dialog of this page that
\* has been opened.
OfThisPage(d) == d.kind \in DOMAIN DialogsOf(screen) /\ d.opened <= inputs

ListPart ==
    /\ ListState
    /\ loading \in BOOLEAN /\ error \in BOOLEAN
    /\ result \in Answer \cup {None}
    /\ flights \in Seq(Flight)
    /\ raced \in BOOLEAN /\ unseen \in BOOLEAN /\ misled \in BOOLEAN

DialogPart ==
    /\ inputs \in 0..MaxInputs
    /\ dialog \in Dialog \cup {None}
    /\ dialog # None => OfThisPage(dialog)
    /\ writes \in Seq(Write)
    /\ \A j \in DOMAIN writes : OfThisPage(writes[j])

PageInv == ListPart /\ DialogPart

\* What belongs to one opening of a dialog is of one kind; a dialog that ignores
\* a second submit is saving just when one write of it is under way; and one
\* that is held is there as long as its write is.
WritesOf(d) == {j \in DOMAIN writes : writes[j].opened = d.opened}

OneKind ==
    dialog # None => \A j \in WritesOf(dialog) : writes[j].kind = dialog.kind

Sole ==
    dialog # None /\ Trait(dialog.kind).once =>
        IF dialog.saving THEN \E j \in DOMAIN writes : WritesOf(dialog) = {j}
        ELSE WritesOf(dialog) = {}

HeldStays ==
    \A j \in DOMAIN writes :
        Trait(writes[j].kind).held => dialog # None /\ j \in WritesOf(dialog)

DialogsInv == OneKind /\ Sole /\ HeldStays

\* Unless list requests met, there is at most one, for the present path, or the
\* list on display is for it.
OneFlight ==
    ~raced =>
        /\ Len(flights) <= 1
        /\ \A i \in DOMAIN flights : flights[i].path = CurrentPath
        /\ flights = << >> => error \/ result.path = CurrentPath

\* While no write is done that the page has not been told of, what has been read
\* for it is what could be read now.
NoneDone == \A j \in DOMAIN writes : writes[j].state # "done"

UpToDate ==
    ~raced /\ ~unseen /\ NoneDone =>
        /\ \A i \in DOMAIN flights :
              /\ flights[i].rows \in {None} \cup RowsNow(CurrentPath)
              /\ flights[i].total \in {None, TotalNow(CurrentPath)}
        /\ flights = << >> =>
              \/ error
              \/ /\ result.rows \in RowsNow(CurrentPath)
                 /\ result.total = TotalNow(CurrentPath)

\* The page that the visitor is on is the first one or has rows.
PageHasRows ==
    ~misled => query.page = 1 \/ (query.page - 1) * Limit < Cardinality(Selected)

-------------------------------------------------------------------------------
(* Types *)

\* RemoveAt closes the gap.
LEMMA RemoveAtFacts ==
  ASSUME NEW S, NEW s \in Seq(S), NEW i \in DOMAIN s
  PROVE  /\ RemoveAt(s, i) \in Seq(S)
         /\ Len(RemoveAt(s, i)) = Len(s) - 1
         /\ DOMAIN RemoveAt(s, i) = 1..(Len(s) - 1)
         /\ \A j \in 1..(Len(s) - 1) :
              RemoveAt(s, i)[j] = IF j < i THEN s[j] ELSE s[j + 1]
<1> DEFINE before == SubSeq(s, 1, i - 1)
           after == SubSeq(s, i + 1, Len(s))
<1>1. Len(s) \in Nat /\ i \in 1..Len(s) /\ \A j \in 1..Len(s) : s[j] \in S
  OBVIOUS
<1>2. /\ before \in Seq(S) /\ Len(before) = i - 1
      /\ \A j \in 1..(i - 1) : before[j] = s[j]
  <2>1. \A j \in 1..(i - 1) : s[j] \in S
    BY <1>1
  <2> QED
    BY <1>1, <2>1, SubSeqProperties
<1>3. /\ after \in Seq(S) /\ Len(after) = Len(s) - i
      /\ \A j \in 1..(Len(s) - i) : after[j] = s[i + j]
  <2>1. \A j \in (i + 1)..Len(s) : s[j] \in S
    BY <1>1
  <2> QED
    BY <1>1, <2>1, SubSeqProperties
<1> HIDE DEF before, after
<1> DEFINE whole == before \o after
<1>4. /\ whole \in Seq(S)
      /\ Len(whole) = Len(before) + Len(after)
      /\ \A j \in 1..(Len(before) + Len(after)) :
           whole[j] = IF j <= Len(before) THEN before[j] ELSE after[j - Len(before)]
  BY <1>2, <1>3, ConcatProperties, Zenon
<1> HIDE DEF whole
<1>5. Len(whole) = Len(s) - 1 /\ DOMAIN whole = 1..(Len(s) - 1)
  BY <1>1, <1>2, <1>3, <1>4
<1>6. ASSUME NEW j \in 1..(Len(s) - 1)
      PROVE  whole[j] = IF j < i THEN s[j] ELSE s[j + 1]
  <2>1. whole[j] = IF j <= i - 1 THEN before[j] ELSE after[j - (i - 1)]
    <3>1. Len(before) = i - 1 /\ Len(after) = Len(s) - i
      BY <1>2, <1>3
    <3>2. \A k \in 1..((i - 1) + (Len(s) - i)) :
            whole[k] = IF k <= i - 1 THEN before[k] ELSE after[k - (i - 1)]
      BY <1>4, <3>1, Zenon
    <3>3. j \in 1..((i - 1) + (Len(s) - i))
      BY <1>1
    <3> QED
      BY <3>2, <3>3, Zenon
  <2>2. CASE j < i
    BY <1>1, <1>2, <2>1, <2>2
  <2>3. CASE ~(j < i)
    <3>1. j - (i - 1) \in 1..(Len(s) - i) /\ i + (j - (i - 1)) = j + 1
      BY <1>1, <2>3
    <3>2. whole[j] = after[j - (i - 1)]
      BY <1>1, <2>1, <2>3
    <3>3. after[j - (i - 1)] = s[i + (j - (i - 1))]
      BY <1>3, <3>1
    <3> QED
      BY <2>3, <3>1, <3>2, <3>3
  <2> QED
    BY <2>2, <2>3
<1>7. RemoveAt(s, i) = whole
  BY DEF RemoveAt, whole, before, after
<1> QED
  BY <1>4, <1>5, <1>6, <1>7

\* What holds of the elements holds after one of them is removed.
LEMMA RemoveAtKeeps ==
  ASSUME NEW S, NEW s \in Seq(S), NEW i \in DOMAIN s,
         NEW j \in DOMAIN RemoveAt(s, i)
  PROVE  \E k \in DOMAIN s \ {i} : RemoveAt(s, i)[j] = s[k]
<1>1. Len(s) \in Nat /\ DOMAIN s = 1..Len(s)
  OBVIOUS
<1>4. /\ DOMAIN RemoveAt(s, i) = 1..(Len(s) - 1)
      /\ \A m \in 1..(Len(s) - 1) :
           RemoveAt(s, i)[m] = IF m < i THEN s[m] ELSE s[m + 1]
  BY RemoveAtFacts, Zenon
<1>2. CASE j < i
  BY <1>1, <1>2, <1>4
<1>3. CASE ~(j < i)
  BY <1>1, <1>3, <1>4
<1> QED
  BY <1>2, <1>3

\* A dialog that is held ignores a second submit, and a failure does not close
\* it.
LEMMA DialogTraits ==
  ASSUME screen \in Screens
  PROVE  /\ "create" \in DOMAIN DialogsOf(screen)
         /\ \A kind \in DOMAIN DialogsOf(screen) :
              /\ kind \in Kinds
              /\ Trait(kind).once \in BOOLEAN /\ Trait(kind).picks \in BOOLEAN
              /\ Trait(kind).held => Trait(kind).once
<1>1. \A kind \in DOMAIN DialogsOf(screen) : kind \in Kinds
  BY DEF Kinds
<1> DEFINE Traits(d) == /\ d.once \in BOOLEAN /\ d.picks \in BOOLEAN
                        /\ d.held => d.once
<1>2. /\ \A picks \in BOOLEAN : Traits(CreateForm(picks))
      /\ \A held \in BOOLEAN : Traits(Modal(held))
      /\ \A guarded, shuts \in BOOLEAN : Traits(Confirmation(guarded, shuts))
  BY DEF CreateForm, Modal, Confirmation
<1> HIDE DEF Traits
<1> DEFINE Good(dialogs) == /\ "create" \in DOMAIN dialogs
                            /\ \A kind \in DOMAIN dialogs : Traits(dialogs[kind])
<1>3. Good(UsersDialogs)
  <2>1. ASSUME NEW a, Traits(a), NEW b, Traits(b), NEW c, Traits(c),
               NEW d, Traits(d), NEW e, Traits(e)
        PROVE  Good([create |-> a, edit |-> b, reset |-> c, deactivate |-> d,
                     restore |-> e])
    BY <2>1
  <2>2. Traits(CreateForm(FALSE)) /\ Traits(Modal(FALSE))
    BY <1>2
  <2> HIDE DEF Good
  <2> QED
    BY <2>1, <2>2, Zenon DEF UsersDialogs, UsersCreateForm, EditUserModal,
      ResetPasswordModal, DeactivateUserModal, RestoreUserModal
<1>4. Good(ClientsDialogs)
  <2>1. ASSUME NEW a, Traits(a), NEW b, Traits(b), NEW c, Traits(c)
        PROVE  Good([create |-> a, edit |-> b, deactivate |-> c])
    BY <2>1
  <2>2. /\ Traits(CreateForm(FALSE)) /\ Traits(Modal(FALSE))
        /\ Traits(Confirmation(FALSE, TRUE))
    BY <1>2
  <2> HIDE DEF Good
  <2> QED
    BY <2>1, <2>2, Zenon DEF ClientsDialogs, ClientCreateForm,
      ClientEditModal, ClientDeactivation
<1>5. Good(ProjectsDialogs)
  <2>1. ASSUME NEW a, Traits(a), NEW b, Traits(b), NEW c, Traits(c), NEW d, Traits(d)
        PROVE  Good([create |-> a, edit |-> b, remove |-> c, addTask |-> d])
    BY <2>1
  <2>2. /\ Traits(CreateForm(TRUE)) /\ Traits(Modal(TRUE))
        /\ Traits(Confirmation(TRUE, FALSE)) /\ Traits(CreateForm(FALSE))
    BY <1>2
  <2> HIDE DEF Good
  <2> QED
    BY <2>1, <2>2, Zenon DEF ProjectsDialogs, ProjectCreateForm,
      ProjectEditModal, ProjectRemoval, AddTask
<1>6. Good(TasksDialogs)
  <2>1. ASSUME NEW a, Traits(a), NEW b, Traits(b), NEW c, Traits(c)
        PROVE  Good([create |-> a, edit |-> b, deactivate |-> c])
    BY <2>1
  <2>2. /\ Traits(CreateForm(TRUE)) /\ Traits(Modal(FALSE))
        /\ Traits(Confirmation(FALSE, FALSE))
    BY <1>2
  <2> HIDE DEF Good
  <2> QED
    BY <2>1, <2>2, Zenon DEF TasksDialogs, TaskCreateForm, TaskEditModal,
      TaskDeactivation
<1>7. Good(AssignmentsDialogs)
  <2>1. ASSUME NEW a, Traits(a), NEW b, Traits(b)
        PROVE  Good([create |-> a, remove |-> b])
    BY <2>1
  <2>2. Traits(CreateForm(TRUE)) /\ Traits(Confirmation(FALSE, FALSE))
    BY <1>2
  <2> HIDE DEF Good
  <2> QED
    BY <2>1, <2>2, Zenon DEF AssignmentsDialogs, AssignmentCreateForm,
      AssignmentRemoval
<1> HIDE DEF Good
<1>8. Good(DialogsOf(screen))
  BY <1>3, <1>4, <1>5, <1>6, <1>7 DEF Screens, DialogsOf
<1> QED
  BY <1>1, <1>8 DEF Good, Traits, Trait

\* What the server would answer is a list of rows that are there.
LEMMA AnswerTypes ==
  ASSUME ListState, NEW path \in PathRecord
  PROVE  /\ RowsNow(path) \subseteq Seq(Shown)
         /\ TotalNow(path) \in 0..MaxRows
<1> DEFINE args == ListOf(screen, path)
           found == Matching(table, args.where)
<1>1. Len(table) \in Nat /\ DOMAIN table = 1..Len(table)
      /\ \A n \in DOMAIN table : table[n] \in Row
  BY DEF ListState
<1>2. /\ found \in SUBSET (1..Len(table))
      /\ \A ids \in FindMany(table, args) : ids \in Seq(found)
  BY FoundOnPage DEF InPlace
<1>3. TotalNow(path) \in 0..MaxRows
  <2>1. Cardinality(found) \in 0..Len(table)
    <3> HIDE DEF found
    <3> QED
      BY <1>1, <1>2, FoundIsFinite
  <2> QED
    BY <1>1, <2>1, BoundAssumption DEF TotalNow, Count, ListState
<1> HIDE DEF found
<1>4. ASSUME NEW ids \in FindMany(table, args)
      PROVE  [k \in DOMAIN ids |-> [id |-> ids[k], row |-> table[ids[k]]]]
               \in Seq(Shown)
  <2>1. ids \in Seq(found)
    BY <1>2
  <2>2. /\ DOMAIN ids = 1..Len(ids) /\ Len(ids) \in Nat
        /\ \A k \in DOMAIN ids : ids[k] \in found
    BY <2>1
  <2>3. \A n \in found : n \in 1..MaxRows /\ table[n] \in Row
    BY <1>1, <1>2, BoundAssumption DEF ListState
  <2>4. \A k \in DOMAIN ids : [id |-> ids[k], row |-> table[ids[k]]] \in Shown
    BY <2>2, <2>3 DEF Shown
  <2> QED
    BY <2>2, <2>4
<1>5. RowsNow(path) \subseteq Seq(Shown)
  BY <1>4 DEF RowsNow
<1> QED
  BY <1>3, <1>5

\* The paths that the page fetches.
LEMMA PathTypes ==
  ASSUME ListState
  PROVE  CurrentPath \in PathRecord
BY FiltersArrive DEF ListState, CurrentPath

\* So is the path of the next render.
LEMMA NextPathTypes ==
  ASSUME ListState, query' \in QueryOf(screen)
  PROVE  NextPath \in PathRecord
BY FiltersArrive DEF ListState, NextPath

\* Rows stay rows, whatever a write does with them.
LEMMA RowTypes ==
  ASSUME screen \in Screens
  PROVE  /\ \A rank \in Ranks : NewRow(rank) \in Row
         /\ \A row \in Row :
              /\ Deleted(row) \in Row
              /\ Removed(row) \in Row
              /\ Edited(row) \subseteq Row
              /\ [row EXCEPT !.fits = @ \cup {"isActive"}] \in Row
<1>1. /\ FiltersOf(screen) \subseteq Params
      /\ {"q", "role", "status", "isActive"} \subseteq Params
  <2>1. FiltersOf("users") = {"role", "isActive", "includeDeleted"}
    BY DEF FiltersOf, UsersFilters
  <2>2. FiltersOf("tasks") = {"projectId", "status", "includeDeleted"}
    BY DEF FiltersOf, TasksFilters
  <2>3. "users" \in Screens /\ "tasks" \in Screens
    BY DEF Screens
  <2> QED
    BY <2>1, <2>2, <2>3 DEF Params
<1>2. \A rank \in Ranks : NewRow(rank) \in Row
  BY <1>1 DEF NewRow, Columns, Row
<1>3. ASSUME NEW row \in Row
      PROVE  /\ Deleted(row) \in Row
             /\ [row EXCEPT !.fits = @ \ {"isActive"}] \in Row
             /\ [row EXCEPT !.fits = @ \cup {"isActive"}] \in Row
             /\ Edited(row) \subseteq Row
  <2>1. row.fits \in SUBSET Params
    BY DEF Row
  <2>2. \A fits \in SUBSET Params : [row EXCEPT !.fits = fits] \in Row
    BY DEF Row
  <2>3. \A fits \in SUBSET Params :
          [row EXCEPT !.fits = fits, !.deleted = TRUE] \in Row
    BY DEF Row
  <2>4. \A fits \in SUBSET Params, rank \in Ranks :
          [row EXCEPT !.fits = fits, !.rank = rank] \in Row
    BY DEF Row
  <2>5. EditedFilter \in Params
    BY <1>1 DEF EditedFilter
  <2>6. Deleted(row) \in Row
    <3>1. CASE screen = "users"
      <4>1. row.fits \ {"isActive"} \in SUBSET Params
        BY <2>1
      <4> QED
        BY <2>3, <3>1, <4>1 DEF Deleted
    <3>2. CASE screen = "tasks"
      <4>1. row.fits \ {"status"} \in SUBSET Params
        BY <2>1
      <4> QED
        BY <2>3, <3>2, <4>1 DEF Deleted
    <3>3. CASE screen \notin {"users", "tasks"}
      <4>1. [row EXCEPT !.deleted = TRUE] \in Row
        BY DEF Row
      <4> QED
        BY <3>3, <4>1 DEF Deleted
    <3> QED
      BY <3>1, <3>2, <3>3
  <2>7. Edited(row) \subseteq Row
    <3> DEFINE edited(fits, rank) == [row EXCEPT !.fits = fits, !.rank = rank]
               drafts == {row.fits \ {EditedFilter}, row.fits \cup {EditedFilter}}
    <3>1. drafts \subseteq SUBSET Params
      BY <2>1, <2>5
    <3>2. Edited(row) = {edited(fits, rank) : fits \in drafts, rank \in Ranks}
      BY DEF Edited
    <3>3. \A fits \in SUBSET Params, rank \in Ranks : edited(fits, rank) \in Row
      BY <2>4
    <3> HIDE DEF edited, drafts
    <3> QED
      BY <3>1, <3>2, <3>3
  <2>8. /\ row.fits \ {"isActive"} \in SUBSET Params
        /\ row.fits \cup {"isActive"} \in SUBSET Params
    BY <1>1, <2>1
  <2> QED
    BY <2>2, <2>6, <2>7, <2>8
<1> QED
  BY <1>2, <1>3 DEF Removed

\* What the server makes of the table.
LEMMA EffectTypes ==
  ASSUME ListState, NEW w \in Write, NEW rows \in Effects(w)
  PROVE  rows \in Seq(Row) /\ Len(rows) <= MaxRows
<1> DEFINE row == table[w.id]
           found == w.id \in DOMAIN table /\ ~row.deleted
           With(rs) == IF found THEN {[table EXCEPT ![w.id] = r] : r \in rs} ELSE {}
           Fine(t) == t \in Seq(Row) /\ Len(t) <= MaxRows
<1>1. /\ table \in Seq(Row) /\ Len(table) <= MaxRows
      /\ screen \in Screens
  BY DEF ListState
<1>2. \A rs : rs \subseteq Row => \A t \in With(rs) : Fine(t)
  BY <1>1, ExceptSeq
<1>3. found => row \in Row
  BY <1>1
<1>4. \A rank \in Ranks : Fine(Append(table, NewRow(rank))) \/ Len(table) >= MaxRows
  BY <1>1, RowTypes, AppendProperties, BoundAssumption
<1>5. CASE w.kind = "create"
  BY <1>1, <1>4, <1>5, BoundAssumption DEF Effects
<1>6. CASE w.kind = "edit"
  <2>1. rows \in With(Edited(row))
    BY <1>6 DEF Effects
  <2>2. found
    BY <2>1
  <2> QED
    BY <1>1, <1>2, <1>3, <2>1, <2>2, RowTypes
<1>7. CASE w.kind \in {"remove", "deactivate"}
  <2>1. rows \in With({Removed(row)})
    BY <1>7 DEF Effects
  <2>2. found
    BY <2>1
  <2> QED
    BY <1>1, <1>2, <1>3, <2>1, <2>2, RowTypes
<1>8. CASE w.kind = "restore"
  <2>1. rows \in With({[row EXCEPT !.fits = @ \cup {"isActive"}]})
    BY <1>8 DEF Effects
  <2>2. found
    BY <2>1
  <2> QED
    BY <1>1, <1>2, <1>3, <2>1, <2>2, RowTypes
<1>9. CASE w.kind \in {"reset", "addTask"}
  <2>1. rows \in With({row})
    BY <1>9 DEF Effects
  <2>2. found
    BY <2>1
  <2> QED
    BY <1>1, <1>2, <1>3, <2>1, <2>2
<1>10. w.kind \in {"create", "edit", "remove", "deactivate", "restore", "reset",
                   "addTask"}
  <2>1. \A page \in Screens : DOMAIN DialogsOf(page) \subseteq
          {"create", "edit", "remove", "deactivate", "restore", "reset", "addTask"}
    BY DEF Screens, DialogsOf, UsersDialogs, ClientsDialogs, ProjectsDialogs,
           TasksDialogs, AssignmentsDialogs
  <2>2. w.kind \in Kinds
    BY DEF Write
  <2> QED
    BY <2>1, <2>2 DEF Kinds
<1> QED
  BY <1>5, <1>6, <1>7, <1>8, <1>9, <1>10

\* A list request that is sent, and nothing is known of it yet.
LEMMA SendTypes ==
  ASSUME flights \in Seq(Flight), NEW path \in PathRecord, Send(path)
  PROVE  /\ flights' \in Seq(Flight) /\ Len(flights') = Len(flights) + 1
         /\ flights' # << >>
         /\ flights'[Len(flights) + 1] = [path |-> path, rows |-> None, total |-> None]
         /\ loading' \in BOOLEAN /\ error' \in BOOLEAN
         /\ raced' \in BOOLEAN /\ unseen' \in BOOLEAN
<1> DEFINE f == [path |-> path, rows |-> None, total |-> None]
<1>1. f \in Flight
  BY DEF Flight
<1>2. flights' = Append(flights, f)
  BY DEF Send
<1> HIDE DEF f
<1>3. /\ flights' \in Seq(Flight) /\ Len(flights') = Len(flights) + 1
      /\ flights' # << >>
      /\ flights'[Len(flights) + 1] = f
  BY <1>1, <1>2, AppendProperties
<1>4. raced' \in BOOLEAN
  BY Zenon DEF Send
<1> QED
  BY <1>3, <1>4 DEF Send, f

\* The visitor selects, sorts or turns the page.
Browse == ChangeText \/ ChangeFilter \/ FollowUrl \/ Sort \/ TurnPage

\* The query stays one of this page, and no list has a page beyond the last row.
LEMMA BrowseFacts ==
  ASSUME PageInv, Browse
  PROVE  /\ query' \in QueryOf(screen) /\ misled' \in BOOLEAN
         /\ FetchIfChanged
         /\ inputs' = inputs + 2 /\ inputs' \in 0..MaxInputs
         /\ UNCHANGED <<screen, result, dialog, writes, table>>
<1>1. /\ query.page \in 1..MaxRows /\ query.text \in Texts
      /\ query.on \subseteq FiltersOf(screen) \cup {"desc"}
      /\ query = [page |-> query.page, text |-> query.text, on |-> query.on]
      /\ misled \in BOOLEAN /\ inputs \in 0..MaxInputs /\ 1 \in 1..MaxRows
  BY BoundAssumption DEF PageInv, ListPart, DialogPart, ListState, QueryOf
<1>2. \A page \in 1..MaxRows, text \in Texts,
         on \in SUBSET (FiltersOf(screen) \cup {"desc"}) :
        [page |-> page, text |-> text, on |-> on] \in QueryOf(screen)
  BY DEF QueryOf
<1>3. /\ \A page : [query EXCEPT !.page = page] =
                     [page |-> page, text |-> query.text, on |-> query.on]
      /\ \A text : [query EXCEPT !.text = text] =
                     [page |-> query.page, text |-> text, on |-> query.on]
  BY <1>1
<1>4. \A key \in FiltersOf(screen) \cup {"desc"} :
        \E on \in SUBSET (FiltersOf(screen) \cup {"desc"}) :
          Toggled(key) = [page |-> query.page, text |-> query.text, on |-> on]
  <2> TAKE key \in FiltersOf(screen) \cup {"desc"}
  <2> DEFINE on == IF key \in query.on THEN query.on \ {key} ELSE query.on \cup {key}
  <2>1. on \in SUBSET (FiltersOf(screen) \cup {"desc"})
    BY <1>1
  <2>2. Toggled(key) = [page |-> query.page, text |-> query.text, on |-> on]
    BY <1>1 DEF Toggled
  <2> QED
    BY <2>1, <2>2
<1>5. ASSUME NEW text \in Texts, NEW on \in SUBSET (FiltersOf(screen) \cup {"desc"}),
             FirstPage([page |-> query.page, text |-> text, on |-> on])
      PROVE  query' \in QueryOf(screen) /\ misled' \in BOOLEAN
  BY <1>1, <1>2, <1>5 DEF FirstPage
<1>6. ASSUME ChangeText
      PROVE  query' \in QueryOf(screen) /\ misled' \in BOOLEAN
  BY <1>1, <1>3, <1>5, <1>6 DEF ChangeText
<1>7. ASSUME ChangeFilter
      PROVE  query' \in QueryOf(screen) /\ misled' \in BOOLEAN
  BY <1>1, <1>4, <1>5, <1>7 DEF ChangeFilter
<1>8. ASSUME FollowUrl
      PROVE  query' \in QueryOf(screen) /\ misled' \in BOOLEAN
  <2>1. "projectId" \in FiltersOf(screen)
    BY <1>8 DEF FollowUrl, FiltersOf, TasksFilters
  <2> QED
    BY <1>1, <1>2, <1>4, <1>8, <2>1 DEF FollowUrl
<1>9. ASSUME Sort
      PROVE  query' \in QueryOf(screen) /\ misled' \in BOOLEAN
  BY <1>1, <1>4, <1>5, <1>9 DEF Sort
<1>10. ASSUME TurnPage
       PROVE  query' \in QueryOf(screen) /\ misled' \in BOOLEAN
  <2>1. result \in Answer
    BY <1>10 DEF TurnPage, TableShown, PageInv, ListPart
  <2>2. result.path.page \in 1..MaxRows /\ result.total \in 0..MaxRows
    BY <2>1 DEF Answer, PathRecord
  <2>3. CanNext(result.path.page, result.total) => result.path.page + 1 \in 1..MaxRows
    <3>1. result.path.page <= result.path.page * Limit
          /\ result.path.page * Limit \in Nat
      <4>1. result.path.page \in Nat
        BY <2>2, BoundAssumption
      <4> QED
        BY <4>1, PagesGrow, Zenon
    <3> QED
      BY <2>2, <3>1, BoundAssumption DEF CanNext
  <2>4. CanPrev(result.path.page) => result.path.page - 1 \in 1..MaxRows
    BY <2>2, BoundAssumption DEF CanPrev
  <2>5. \E page \in 1..MaxRows : query' = [query EXCEPT !.page = page]
    BY <1>10, <2>3, <2>4 DEF TurnPage
  <2>6. misled' \in BOOLEAN
    <3>1. misled' = (misled \/ ~ListIsCurrent)
      BY <1>10 DEF TurnPage
    <3> QED
      BY <3>1
  <2> QED
    BY <1>1, <1>2, <1>3, <2>5, <2>6
<1>11. /\ FetchIfChanged
       /\ inputs + 2 <= MaxInputs /\ inputs' = inputs + 2
       /\ UNCHANGED <<screen, result, dialog, writes, table>>
  BY DEF Browse, ChangeText, ChangeFilter, FollowUrl, Sort, TurnPage, Change,
         Input
<1> QED
  BY <1>1, <1>6, <1>7, <1>8, <1>9, <1>10, <1>11, BoundAssumption DEF Browse

\* A dialog is opened, with an id of its own.
LEMMA OpenFacts ==
  ASSUME PageInv, OpenCreate \/ OpenRow
  PROVE  /\ dialog = None /\ inputs' = inputs + 1 /\ inputs' \in 0..MaxInputs
         /\ dialog' \in Dialog /\ dialog'.kind \in DOMAIN DialogsOf(screen)
         /\ dialog'.opened = inputs + 1 /\ ~dialog'.saving
         /\ UNCHANGED <<screen, query, loading, error, result, flights, writes,
                        table, raced, unseen, misled>>
<1>1. screen \in Screens /\ inputs \in 0..MaxInputs
  BY DEF PageInv, ListPart, DialogPart, ListState
<1>2. PICK kind \in DOMAIN DialogsOf(screen), id \in 1..MaxRows \cup {None} :
        Open(kind, id)
  <2>1. CASE OpenCreate
    BY <1>1, <2>1, DialogTraits DEF OpenCreate
  <2>2. CASE OpenRow
    <3>1. result \in Answer
      BY <2>2 DEF OpenRow, TableShown, PageInv, ListPart
    <3>2. \A i \in DOMAIN result.rows : result.rows[i].id \in 1..MaxRows
      <4>1. result.rows \in Seq(Shown)
        BY <3>1 DEF Answer
      <4>2. \A i \in DOMAIN result.rows : result.rows[i] \in Shown
        BY <4>1
      <4> QED
        BY <4>2 DEF Shown
    <3> QED
      BY <2>2, <3>2 DEF OpenRow
  <2> QED
    BY <2>1, <2>2
<1> DEFINE ready == ~Trait(kind).picks \/ (screen = "tasks" /\ "projectId" \in query.on)
<1>3. ready \in BOOLEAN
  OBVIOUS
<1>4. dialog' = [kind |-> kind, id |-> id, opened |-> inputs + 1, ready |-> ready,
                 saving |-> FALSE]
  BY <1>2 DEF Open
<1> HIDE DEF ready
<1>5. /\ dialog = None /\ inputs + 1 <= MaxInputs /\ inputs' = inputs + 1
      /\ UNCHANGED <<screen, query, loading, error, result, flights, writes,
                     table, raced, unseen, misled>>
  BY <1>2 DEF Open, OnPage, Click, Input, history
<1>6. kind \in Kinds
  BY <1>1, DialogTraits
<1>7. inputs + 1 \in 1..MaxInputs
  BY <1>1, <1>5, BoundAssumption
<1>8. dialog' \in Dialog
  BY <1>3, <1>4, <1>6, <1>7 DEF Dialog
<1> QED
  BY <1>4, <1>5, <1>7, <1>8, BoundAssumption

\* A write is sent by the dialog that is open.
LEMMA SubmitFacts ==
  ASSUME PageInv, Submit
  PROVE  /\ dialog \in Dialog
         /\ Trait(dialog.kind).once => ~dialog.saving
         /\ writes' \in Seq(Write) /\ Len(writes') = Len(writes) + 1
         /\ \A j \in DOMAIN writes : writes'[j] = writes[j]
         /\ writes'[Len(writes) + 1].kind = dialog.kind
         /\ writes'[Len(writes) + 1].opened = dialog.opened
         /\ writes'[Len(writes) + 1].state = "sent"
         /\ dialog' \in Dialog
         /\ dialog'.kind = dialog.kind /\ dialog'.opened = dialog.opened
         /\ dialog'.saving = Trait(dialog.kind).once
         /\ inputs' = inputs + 1 /\ inputs' \in 0..MaxInputs
         /\ UNCHANGED <<screen, query, loading, error, result, flights, table,
                        raced, unseen, misled>>
<1>1. /\ dialog \in Dialog /\ dialog.kind \in DOMAIN DialogsOf(screen)
      /\ inputs \in 0..MaxInputs /\ writes \in Seq(Write) /\ screen \in Screens
  BY DEF Submit, PageInv, ListPart, ListState, DialogPart, OfThisPage
<1> DEFINE w == [kind |-> dialog.kind, id |-> dialog.id, opened |-> dialog.opened,
                 path |-> CurrentPath, state |-> "sent"]
           once == Trait(dialog.kind).once
<1>2. once \in BOOLEAN
  BY <1>1, DialogTraits
<1>3. w \in Write
  <2>1. CurrentPath \in PathRecord
    BY PathTypes DEF PageInv, ListPart
  <2> QED
    BY <1>1, <2>1 DEF Dialog, Write
<1>4. /\ writes' = Append(writes, w)
      /\ dialog' = [dialog EXCEPT !.saving = once]
      /\ once => ~dialog.saving
      /\ inputs + 1 <= MaxInputs /\ inputs' = inputs + 1
      /\ UNCHANGED <<screen, query, loading, error, result, flights, table,
                     raced, unseen, misled>>
  BY DEF Submit, Click, Input, history
<1>5. w.kind = dialog.kind /\ w.opened = dialog.opened /\ w.state = "sent"
  OBVIOUS
<1> HIDE DEF w, once
<1>6. /\ writes' \in Seq(Write) /\ Len(writes') = Len(writes) + 1
      /\ \A j \in DOMAIN writes : writes'[j] = writes[j]
      /\ writes'[Len(writes) + 1] = w
  BY <1>1, <1>3, <1>4, AppendProperties
<1>7. /\ dialog' \in Dialog
      /\ dialog'.kind = dialog.kind /\ dialog'.opened = dialog.opened
      /\ dialog'.saving = once
  BY <1>1, <1>2, <1>4 DEF Dialog
<1> QED
  BY <1>1, <1>4, <1>5, <1>6, <1>7, BoundAssumption DEF once

\* The server carries a write out or refuses to.
LEMMA MarkFacts ==
  ASSUME PageInv, NEW j \in DOMAIN writes, NEW state \in {"done", "refused"},
         writes' = [writes EXCEPT ![j].state = state]
  PROVE  /\ writes' \in Seq(Write) /\ DOMAIN writes' = DOMAIN writes
         /\ Len(writes') = Len(writes)
         /\ writes'[j].state = state
         /\ \A i \in DOMAIN writes :
              /\ writes'[i].kind = writes[i].kind
              /\ writes'[i].opened = writes[i].opened
              /\ i # j => writes'[i] = writes[i]
<1>1. writes \in Seq(Write) /\ writes[j] \in Write
  BY DEF PageInv, DialogPart
<1> DEFINE w == [writes[j] EXCEPT !.state = state]
<1>2. /\ w \in Write /\ w.state = state
      /\ w.kind = writes[j].kind /\ w.opened = writes[j].opened
  BY <1>1 DEF Write
<1>3. writes' = [writes EXCEPT ![j] = w]
  OBVIOUS
<1> HIDE DEF w
<1>4. /\ writes' \in Seq(Write) /\ DOMAIN writes' = DOMAIN writes
      /\ Len(writes') = Len(writes)
      /\ \A i \in DOMAIN writes : writes'[i] = IF i = j THEN w ELSE writes[i]
  BY <1>1, <1>2, <1>3, ExceptSeq
<1> QED
  BY <1>2, <1>4

\* The answer to a write: the dialog is closed, since the write is done or fails
\* in a dialog that closes then, or it is released.
LEMMA AnswerFacts ==
  ASSUME PageInv, NEW j \in DOMAIN writes, Written(j) \/ WriteFails(j)
  PROVE  /\ writes' = RemoveAt(writes, j) /\ writes' \in Seq(Write)
         /\ \/ /\ dialog' = Closed(writes[j])
               /\ writes[j].state = "done" \/ Trait(writes[j].kind).shuts
            \/ dialog' = Released(writes[j])
         /\ dialog' \in Dialog \cup {None}
         /\ dialog' # None =>
              /\ dialog \in Dialog
              /\ dialog'.kind = dialog.kind /\ dialog'.opened = dialog.opened
         /\ UNCHANGED <<screen, query, result, table, inputs, misled>>
<1>1. writes \in Seq(Write) /\ dialog \in Dialog \cup {None}
  BY DEF PageInv, DialogPart
<1>2. /\ writes' = RemoveAt(writes, j)
      /\ UNCHANGED <<screen, query, result, table, inputs, misled>>
      /\ \/ /\ dialog' = Closed(writes[j])
            /\ writes[j].state = "done" \/ Trait(writes[j].kind).shuts
         \/ dialog' = Released(writes[j])
  <2>1. CASE Written(j)
    BY <2>1 DEF Written
  <2>2. CASE WriteFails(j) /\ Trait(writes[j].kind).shuts
    BY <2>2 DEF WriteFails
  <2>3. CASE WriteFails(j) /\ ~Trait(writes[j].kind).shuts
    BY <2>3 DEF WriteFails
  <2> QED
    BY <2>1, <2>2, <2>3
<1>3. writes' \in Seq(Write)
  BY <1>1, <1>2, RemoveAtFacts
<1>4. ASSUME dialog \in Dialog
      PROVE  LET d == [dialog EXCEPT !.saving = FALSE]
             IN  d \in Dialog /\ d.kind = dialog.kind /\ d.opened = dialog.opened
  BY <1>4 DEF Dialog
<1>5. /\ dialog' \in Dialog \cup {None}
      /\ dialog' # None =>
           /\ dialog \in Dialog
           /\ dialog'.kind = dialog.kind /\ dialog'.opened = dialog.opened
  <2>1. CASE dialog' = Closed(writes[j])
    BY <1>1, <2>1 DEF Closed
  <2>2. CASE dialog' = Released(writes[j])
    BY <1>1, <1>4, <2>2 DEF Released
  <2> QED
    BY <1>2, <2>1, <2>2
<1> QED
  BY <1>2, <1>3, <1>5

\* A step of the server on a list, and the answer to one.
LEMMA ReadFacts ==
  ASSUME PageInv, NEW i \in DOMAIN flights, ReadRows(i) \/ ReadTotal(i)
  PROVE  /\ flights' \in Seq(Flight) /\ DOMAIN flights' = DOMAIN flights
         /\ Len(flights') = Len(flights)
         /\ \A k \in DOMAIN flights :
              /\ flights'[k].path = flights[k].path
              /\ flights'[k].rows \in {flights[k].rows} \cup RowsNow(flights[k].path)
              /\ flights'[k].total \in {flights[k].total, TotalNow(flights[k].path)}
         /\ UNCHANGED <<screen, query, loading, error, result, dialog, writes, table,
                        inputs, raced, unseen, misled>>
<1> DEFINE path == flights[i].path
           g == [flights[i] EXCEPT !["total"] = TotalNow(path)]
<1>1. flights \in Seq(Flight) /\ flights[i] \in Flight /\ path \in PathRecord
  <2>1. flights \in Seq(Flight)
    BY DEF PageInv, ListPart
  <2>2. flights[i] \in Flight
    BY <2>1
  <2> QED
    BY <2>1, <2>2 DEF Flight
<1>2. RowsNow(path) \subseteq Seq(Shown) /\ TotalNow(path) \in 0..MaxRows
  BY <1>1, AnswerTypes DEF PageInv, ListPart
<1>3. \A rows \in Seq(Shown) :
        LET f == [flights[i] EXCEPT !["rows"] = rows]
        IN  /\ f \in Flight /\ f.path = path
            /\ f.rows = rows /\ f.total = flights[i].total
  BY <1>1 DEF Flight
<1>8. /\ g \in Flight /\ g.path = path
      /\ g.rows = flights[i].rows /\ g.total = TotalNow(path)
  <2> DEFINE total == TotalNow(path)
  <2>1. total \in 0..MaxRows
    BY <1>2
  <2> HIDE DEF total
  <2>2. /\ [flights[i] EXCEPT !["total"] = total] \in Flight
        /\ [flights[i] EXCEPT !["total"] = total].path = path
        /\ [flights[i] EXCEPT !["total"] = total].rows = flights[i].rows
        /\ [flights[i] EXCEPT !["total"] = total].total = total
    BY <1>1, <2>1 DEF Flight
  <2> QED
    BY <2>2 DEF total
<1>4. PICK h \in Flight : /\ flights' = [flights EXCEPT ![i] = h]
                          /\ h.path = path
                          /\ h.rows \in {flights[i].rows} \cup RowsNow(path)
                          /\ h.total \in {flights[i].total, TotalNow(path)}
  <2>1. CASE ReadRows(i)
    <3>1. PICK rows \in RowsNow(path) :
            flights' = [flights EXCEPT ![i] = [flights[i] EXCEPT !["rows"] = rows]]
      BY <2>1 DEF ReadRows, Read
    <3> DEFINE f == [flights[i] EXCEPT !["rows"] = rows]
    <3>2. rows \in Seq(Shown)
      BY <1>2
    <3>3. f \in Flight /\ f.path = path /\ f.rows = rows /\ f.total = flights[i].total
      BY <1>3, <3>2
    <3>4. flights' = [flights EXCEPT ![i] = f]
      BY <3>1
    <3> HIDE DEF f
    <3> QED
      BY <3>3, <3>4
  <2>2. CASE ReadTotal(i)
    <3>1. flights' = [flights EXCEPT ![i] = g]
      BY <2>2 DEF ReadTotal, Read
    <3> HIDE DEF g
    <3> QED
      BY <1>8, <3>1
  <2> QED
    BY <2>1, <2>2
<1>5. UNCHANGED <<screen, query, loading, error, result, dialog, writes, table,
                  inputs, raced, unseen, misled>>
  BY DEF ReadRows, ReadTotal, Read, component, history
<1> HIDE DEF g
<1>7. /\ flights' \in Seq(Flight) /\ DOMAIN flights' = DOMAIN flights
      /\ Len(flights') = Len(flights)
      /\ \A k \in DOMAIN flights : flights'[k] = IF k = i THEN h ELSE flights[k]
  BY <1>1, <1>4, ExceptSeq
<1> QED
  BY <1>4, <1>5, <1>7

\* The list as received: what was not read before is read now.
LEMMA ReceiveFacts ==
  ASSUME PageInv, NEW i \in DOMAIN flights, Receive(i)
  PROVE  /\ result' \in Answer /\ result'.path = flights[i].path
         /\ flights[i].rows \in {None} \cup RowsNow(flights[i].path) =>
              result'.rows \in RowsNow(flights[i].path)
         /\ flights[i].total \in {None, TotalNow(flights[i].path)} =>
              result'.total = TotalNow(flights[i].path)
         /\ flights' = RemoveAt(flights, i)
         /\ loading' = FALSE
         /\ UNCHANGED <<screen, query, error, dialog, writes, table, inputs, raced,
                        unseen, misled>>
<1> DEFINE path == flights[i].path
           read == IF flights[i].rows = None THEN RowsNow(path) ELSE {flights[i].rows}
           total == IF flights[i].total = None THEN TotalNow(path)
                    ELSE flights[i].total
<1>1. flights[i] \in Flight /\ path \in PathRecord
  <2>1. flights[i] \in Flight
    BY DEF PageInv, ListPart
  <2> QED
    BY <2>1 DEF Flight
<1>2. RowsNow(path) \subseteq Seq(Shown) /\ TotalNow(path) \in 0..MaxRows
  BY <1>1, AnswerTypes DEF PageInv, ListPart
<1>3. read \subseteq Seq(Shown) /\ total \in 0..MaxRows
  <2>1. flights[i].rows \in Seq(Shown) \cup {None}
    BY <1>1 DEF Flight
  <2>2. read \subseteq Seq(Shown)
    BY <1>2, <2>1
  <2>3. total \in 0..MaxRows
    BY <1>1, <1>2 DEF Flight
  <2> QED
    BY <2>2, <2>3
<1>4. PICK rows \in read : result' = [path |-> path, rows |-> rows, total |-> total]
  BY DEF Receive
<1>5. /\ flights[i].rows \in {None} \cup RowsNow(path) => rows \in RowsNow(path)
      /\ flights[i].total \in {None, TotalNow(path)} => total = TotalNow(path)
  OBVIOUS
<1> HIDE DEF read, total
<1>6. result' \in Answer
  <2>1. rows \in Seq(Shown)
    BY <1>3
  <2> QED
    BY <1>1, <1>3, <1>4, <2>1 DEF Answer
<1> QED
  BY <1>4, <1>5, <1>6 DEF Receive, history

\* The effect on the path leaves what is under way well formed.
LEMMA FetchFacts ==
  ASSUME PageInv, query' \in QueryOf(screen), FetchIfChanged
  PROVE  /\ flights' \in Seq(Flight)
         /\ loading' \in BOOLEAN /\ error' \in BOOLEAN
         /\ raced' \in BOOLEAN /\ unseen' \in BOOLEAN
<1>1. CASE NextPath # CurrentPath
  <2>1. NextPath \in PathRecord
    BY NextPathTypes DEF PageInv, ListPart
  <2>2. flights \in Seq(Flight) /\ Send(NextPath)
    BY <1>1 DEF FetchIfChanged, PageInv, ListPart
  <2> QED
    BY <2>1, <2>2, SendTypes
<1>2. CASE NextPath = CurrentPath
  BY <1>2 DEF FetchIfChanged, PageInv, ListPart
<1> QED
  BY <1>1, <1>2

\* The page as it is mounted.
LEMMA PageInvInit == Init => PageInv
<1> SUFFICES ASSUME Init PROVE PageInv
  OBVIOUS
<1>1. screen \in Screens
  BY DEF Init
<1>2. query \in QueryOf(screen)
  <2>1. PICK on \in {{}} \cup (IF screen = "tasks" THEN {{"projectId"}} ELSE {}) :
          query = [page |-> 1, text |-> "", on |-> on]
    BY DEF Init
  <2>2. on \subseteq FiltersOf(screen)
    BY DEF FiltersOf, TasksFilters
  <2>3. 1 \in 1..MaxRows /\ "" \in Texts
    BY BoundAssumption DEF Texts
  <2> QED
    BY <2>1, <2>2, <2>3 DEF QueryOf
<1>3. table \in Seq(Row) /\ Len(table) = 3
  <2> DEFINE first == NewRow(CHOOSE rank \in Ranks : TRUE)
             otherwise == CHOOSE rank \in Ranks :
                             Ranks # {first.rank} => rank # first.rank
             second == [first EXCEPT !.fits =
                          IF screen = "users" THEN {"isActive"} ELSE {},
                                     !.rank = otherwise]
             third == Deleted(first)
  <2>1. first \in Row /\ third \in Row
    <3>1. (CHOOSE rank \in Ranks : TRUE) \in Ranks
      BY RanksAssumption
    <3>2. first \in Row
      BY <1>1, <3>1, RowTypes
    <3> QED
      BY <1>1, <3>2, RowTypes
  <2>2. {"isActive"} \subseteq Params
    <3>1. "isActive" \in FiltersOf("users") /\ "users" \in Screens
      BY DEF FiltersOf, UsersFilters, Screens
    <3> QED
      BY <3>1 DEF Params
  <2>3. second \in Row
    <3>1. \E rank \in Ranks : Ranks # {first.rank} => rank # first.rank
      BY <2>1, RanksAssumption DEF Row
    <3>2. otherwise \in Ranks
      BY <3>1
    <3> HIDE DEF otherwise, first
    <3> QED
      BY <2>1, <2>2, <3>2 DEF Row
  <2>4. table = <<first, second, third>>
    BY DEF Init, Rows
  <2> HIDE DEF first, second, third
  <2> QED
    BY <2>1, <2>3, <2>4
<1>4. ListState
  BY <1>1, <1>2, <1>3, BoundAssumption DEF ListState
<1>5. flights \in Seq(Flight)
  <2>1. CurrentPath \in PathRecord
    BY <1>4, PathTypes
  <2> DEFINE f == [path |-> CurrentPath, rows |-> None, total |-> None]
  <2>2. f \in Flight
    BY <2>1 DEF Flight
  <2>3. flights = <<f>>
    BY DEF Init
  <2> HIDE DEF f
  <2> QED
    BY <2>2, <2>3
<1>6. /\ loading = TRUE /\ error = FALSE /\ result = None /\ dialog = None
      /\ writes = << >> /\ inputs = 0
      /\ raced = FALSE /\ unseen = FALSE /\ misled = FALSE
  BY DEF Init
<1>7. writes \in Seq(Write) /\ DOMAIN writes = {}
  BY <1>6, EmptySeq
<1>8. ListPart
  <2>1. /\ loading \in BOOLEAN /\ error \in BOOLEAN
        /\ raced \in BOOLEAN /\ unseen \in BOOLEAN /\ misled \in BOOLEAN
    BY <1>6
  <2> QED
    BY <1>4, <1>5, <1>6, <2>1 DEF ListPart
<1>9. DialogPart
  <2>1. inputs \in 0..MaxInputs
    BY <1>6, BoundAssumption
  <2> QED
    BY <1>6, <1>7, <2>1 DEF DialogPart
<1> QED
  BY <1>8, <1>9 DEF PageInv

\* Every step keeps what is in the state of the kind that it is.
LEMMA PageInvStep == PageInv /\ [Next]_vars => PageInv'
<1> SUFFICES ASSUME PageInv, [Next]_vars PROVE PageInv'
  OBVIOUS
<1>1. /\ screen \in Screens /\ flights \in Seq(Flight) /\ writes \in Seq(Write)
      /\ dialog \in Dialog \cup {None} /\ inputs \in 0..MaxInputs
      /\ result \in Answer \cup {None}
  BY DEF PageInv, ListPart, DialogPart, ListState
\* The list is as it was, but for the request that is under way.
<1>2. ASSUME UNCHANGED <<screen, query, result, table, misled>>,
             loading' \in BOOLEAN, error' \in BOOLEAN, flights' \in Seq(Flight),
             raced' \in BOOLEAN, unseen' \in BOOLEAN
      PROVE  ListPart'
  BY <1>2 DEF PageInv, ListPart, ListState
<1>3. ASSUME UNCHANGED <<screen, query, loading, error, result, flights, table,
                         raced, unseen, misled>>
      PROVE  ListPart'
  BY <1>3 DEF PageInv, ListPart, ListState
\* The dialogs are as they were, while the visitor does something else.
<1>4. ASSUME UNCHANGED <<screen, dialog, writes>>,
             inputs' \in 0..MaxInputs, inputs' >= inputs
      PROVE  DialogPart'
  <2>1. \A d : d.opened \in Int /\ OfThisPage(d) => d.opened <= inputs'
    BY <1>1, <1>4, BoundAssumption DEF OfThisPage
  <2>2. /\ dialog # None => dialog.opened \in Int
        /\ \A j \in DOMAIN writes : writes[j].opened \in Int
    <3>1. \A j \in DOMAIN writes : writes[j] \in Write
      BY <1>1
    <3> QED
      BY <1>1, <3>1 DEF Dialog, Write
  <2> QED
    BY <1>4, <2>1, <2>2 DEF PageInv, DialogPart, OfThisPage
<1>5. CASE Browse
  <2>1. /\ query' \in QueryOf(screen) /\ misled' \in BOOLEAN
        /\ FetchIfChanged
        /\ inputs' = inputs + 2 /\ inputs' \in 0..MaxInputs
        /\ UNCHANGED <<screen, result, dialog, writes, table>>
    BY <1>5, BrowseFacts
  <2>2. ListPart'
    BY <2>1, FetchFacts DEF PageInv, ListPart, ListState
  <2>3. DialogPart'
    BY <1>1, <1>4, <2>1, BoundAssumption
  <2> QED
    BY <2>2, <2>3 DEF PageInv
<1>6. CASE OpenCreate \/ OpenRow
  <2>1. /\ dialog = None /\ inputs' = inputs + 1 /\ inputs' \in 0..MaxInputs
        /\ dialog' \in Dialog /\ dialog'.kind \in DOMAIN DialogsOf(screen)
        /\ dialog'.opened = inputs + 1
        /\ UNCHANGED <<screen, query, loading, error, result, flights, writes,
                       table, raced, unseen, misled>>
    BY <1>6, OpenFacts
  <2>2. \A j \in DOMAIN writes :
          writes[j].opened \in Int /\ writes[j].opened <= inputs
    <3>1. \A j \in DOMAIN writes : writes[j] \in Write
      BY <1>1
    <3> QED
      BY <3>1 DEF PageInv, DialogPart, OfThisPage, Write
  <2>3. DialogPart'
    BY <1>1, <2>1, <2>2, BoundAssumption DEF PageInv, DialogPart, OfThisPage
  <2> QED
    BY <1>3, <2>1, <2>3 DEF PageInv
<1>7. CASE ChoicesLoaded
  <2>1. /\ dialog \in Dialog /\ dialog' = [dialog EXCEPT !.ready = TRUE]
        /\ UNCHANGED <<screen, query, loading, error, result, flights, writes,
                       table, inputs, raced, unseen, misled>>
    BY <1>1, <1>7 DEF ChoicesLoaded, history
  <2>2. /\ dialog' \in Dialog
        /\ dialog'.kind = dialog.kind /\ dialog'.opened = dialog.opened
    BY <2>1 DEF Dialog
  <2>3. DialogPart'
    BY <2>1, <2>2, NoneAssumption DEF PageInv, DialogPart, OfThisPage
  <2> QED
    BY <1>3, <2>1, <2>3 DEF PageInv
<1>8. CASE Submit
  <2>1. /\ dialog \in Dialog
        /\ writes' \in Seq(Write) /\ Len(writes') = Len(writes) + 1
        /\ \A j \in DOMAIN writes : writes'[j] = writes[j]
        /\ writes'[Len(writes) + 1].kind = dialog.kind
        /\ writes'[Len(writes) + 1].opened = dialog.opened
        /\ dialog' \in Dialog
        /\ dialog'.kind = dialog.kind /\ dialog'.opened = dialog.opened
        /\ inputs' = inputs + 1 /\ inputs' \in 0..MaxInputs
        /\ UNCHANGED <<screen, query, loading, error, result, flights, table,
                       raced, unseen, misled>>
    BY <1>8, SubmitFacts
  <2>2. /\ dialog.opened \in Int /\ OfThisPage(dialog)
        /\ \A j \in DOMAIN writes :
             writes[j].opened \in Int /\ OfThisPage(writes[j])
    <3>1. \A j \in DOMAIN writes : writes[j] \in Write
      BY <1>1
    <3>2. dialog # None
      BY <2>1, NoneAssumption
    <3> QED
      BY <2>1, <3>1, <3>2 DEF PageInv, DialogPart, Write, Dialog
  <2>3. \A j \in DOMAIN writes' :
          /\ writes'[j].kind \in DOMAIN DialogsOf(screen)
          /\ writes'[j].opened <= inputs'
    <3> TAKE j \in DOMAIN writes'
    <3>1. j \in DOMAIN writes \/ j = Len(writes) + 1
      BY <1>1, <2>1
    <3>2. \A d : d.opened \in Int /\ OfThisPage(d) =>
            d.kind \in DOMAIN DialogsOf(screen) /\ d.opened <= inputs'
      BY <1>1, <2>1, BoundAssumption DEF OfThisPage
    <3> QED
      BY <2>1, <2>2, <3>1, <3>2
  <2>4. dialog.opened <= inputs' /\ dialog.kind \in DOMAIN DialogsOf(screen)
    BY <1>1, <2>1, <2>2, BoundAssumption DEF OfThisPage
  <2>5. DialogPart'
    BY <2>1, <2>3, <2>4 DEF DialogPart, OfThisPage
  <2> QED
    BY <1>3, <2>1, <2>5 DEF PageInv
<1>9. CASE Cancel
  <2>1. /\ dialog' = None /\ inputs' = inputs + 1 /\ inputs + 1 <= MaxInputs
        /\ UNCHANGED <<screen, query, loading, error, result, flights, writes,
                       table, raced, unseen, misled>>
    BY <1>9 DEF Cancel, Click, Input, history
  <2>2. \A j \in DOMAIN writes : writes[j].opened <= inputs'
    <3>1. \A j \in DOMAIN writes : writes[j] \in Write
      BY <1>1
    <3>2. \A j \in DOMAIN writes :
            writes[j].opened \in Int /\ writes[j].opened <= inputs
      BY <3>1 DEF PageInv, DialogPart, OfThisPage, Write
    <3> QED
      BY <1>1, <2>1, <3>2, BoundAssumption
  <2>3. DialogPart'
    BY <1>1, <2>1, <2>2, BoundAssumption DEF PageInv, DialogPart, OfThisPage
  <2> QED
    BY <1>3, <2>1, <2>3 DEF PageInv
<1>10. ASSUME NEW i \in DOMAIN flights, ReadRows(i) \/ ReadTotal(i)
       PROVE  PageInv'
  <2>1. /\ flights' \in Seq(Flight)
        /\ UNCHANGED <<screen, query, loading, error, result, dialog, writes, table,
                       inputs, raced, unseen, misled>>
    BY <1>10, ReadFacts
  <2>2. ListPart'
    BY <1>2, <2>1 DEF PageInv, ListPart
  <2>3. DialogPart'
    BY <1>1, <1>4, <2>1, BoundAssumption
  <2> QED
    BY <2>2, <2>3 DEF PageInv
<1>11. ASSUME NEW j \in DOMAIN writes, Perform(j) \/ Refuse(j)
       PROVE  PageInv'
  <2>1. PICK state \in {"done", "refused"} :
          writes' = [writes EXCEPT ![j].state = state]
    BY <1>11 DEF Perform, Refuse
  <2>2. /\ writes' \in Seq(Write) /\ DOMAIN writes' = DOMAIN writes
        /\ \A i \in DOMAIN writes :
             writes'[i].kind = writes[i].kind /\ writes'[i].opened = writes[i].opened
    BY <2>1, MarkFacts
  <2>3. /\ UNCHANGED <<screen, query, loading, error, result, dialog, flights,
                       inputs, raced, unseen>>
        /\ misled' \in BOOLEAN
        /\ table' \in Seq(Row) /\ Len(table') <= MaxRows
    <3>1. CASE Perform(j)
      <4>1. writes[j] \in Write /\ ListState
        BY <1>1 DEF PageInv, ListPart
      <4>2. table' \in Seq(Row) /\ Len(table') <= MaxRows
        BY <3>1, <4>1, EffectTypes DEF Perform
      <4>3. misled' \in BOOLEAN
        BY <3>1, Zenon DEF Perform
      <4> QED
        BY <3>1, <4>2, <4>3 DEF Perform, component
    <3>2. CASE Refuse(j)
      BY <3>2 DEF Refuse, component, history, PageInv, ListPart, ListState
    <3> QED
      BY <1>11, <3>1, <3>2
  <2>4. ListPart'
    BY <2>3 DEF PageInv, ListPart, ListState
  <2>5. DialogPart'
    BY <2>2, <2>3 DEF PageInv, DialogPart, OfThisPage
  <2> QED
    BY <2>4, <2>5 DEF PageInv
<1>12. ASSUME NEW i \in DOMAIN flights, Receive(i) \/ Fail(i)
       PROVE  PageInv'
  <2>1. flights' = RemoveAt(flights, i) /\ flights' \in Seq(Flight)
    BY <1>1, <1>12, RemoveAtFacts DEF Receive, Fail
  <2>2. CASE Receive(i)
    <3>1. /\ result' \in Answer /\ loading' = FALSE
          /\ UNCHANGED <<screen, query, error, dialog, writes, table, inputs, raced,
                         unseen, misled>>
      BY <2>2, ReceiveFacts
    <3>2. ListPart'
      BY <2>1, <3>1 DEF PageInv, ListPart, ListState
    <3>3. DialogPart'
      BY <1>1, <1>4, <3>1, BoundAssumption
    <3> QED
      BY <3>2, <3>3 DEF PageInv
  <2>3. CASE Fail(i)
    <3>1. /\ error' = TRUE /\ loading' = FALSE
          /\ UNCHANGED <<screen, query, result, dialog, writes, table, inputs, raced,
                         unseen, misled>>
      BY <2>3 DEF Fail, history
    <3>2. ListPart'
      BY <1>2, <2>1, <3>1 DEF PageInv, ListPart
    <3>3. DialogPart'
      BY <1>1, <1>4, <3>1, BoundAssumption
    <3> QED
      BY <3>2, <3>3 DEF PageInv
  <2> QED
    BY <1>12, <2>2, <2>3
<1>13. ASSUME NEW j \in DOMAIN writes, Written(j) \/ WriteFails(j)
       PROVE  PageInv'
  <2>1. /\ writes' = RemoveAt(writes, j) /\ writes' \in Seq(Write)
        /\ dialog' \in Dialog \cup {None}
        /\ dialog' # None =>
             /\ dialog \in Dialog
             /\ dialog'.kind = dialog.kind /\ dialog'.opened = dialog.opened
        /\ UNCHANGED <<screen, query, result, table, inputs, misled>>
    BY <1>13, AnswerFacts
  <2>2. \A k \in DOMAIN writes' : OfThisPage(writes'[k])
    <3> TAKE k \in DOMAIN writes'
    <3>1. PICK i \in DOMAIN writes : writes'[k] = writes[i]
      BY <1>1, <2>1, RemoveAtKeeps
    <3> QED
      BY <3>1 DEF PageInv, DialogPart
  <2>3. DialogPart'
    BY <2>1, <2>2, NoneAssumption DEF PageInv, DialogPart, OfThisPage
  <2>4. /\ loading' \in BOOLEAN /\ error' \in BOOLEAN /\ flights' \in Seq(Flight)
        /\ raced' \in BOOLEAN /\ unseen' \in BOOLEAN
    <3>1. CASE Written(j)
      <4>1. writes[j].path \in PathRecord
        <5>1. writes[j] \in Write
          BY <1>1
        <5> QED
          BY <5>1 DEF Write
      <4>2. Send(writes[j].path)
        BY <3>1 DEF Written
      <4> QED
        BY <1>1, <4>1, <4>2, SendTypes
    <3>2. CASE WriteFails(j)
      <4>1. error' \in BOOLEAN /\ unseen' \in BOOLEAN
        BY <3>2, Zenon DEF WriteFails
      <4> QED
        BY <3>2, <4>1 DEF WriteFails, PageInv, ListPart
    <3> QED
      BY <1>13, <3>1, <3>2
  <2>5. ListPart'
    BY <1>2, <2>1, <2>4
  <2> QED
    BY <2>3, <2>5 DEF PageInv
<1>14. CASE UNCHANGED vars
  <2>1. ListPart'
    BY <1>3, <1>14 DEF vars
  <2>2. DialogPart'
    BY <1>1, <1>4, <1>14, BoundAssumption DEF vars
  <2> QED
    BY <2>1, <2>2 DEF PageInv
<1> QED
  BY <1>5, <1>6, <1>7, <1>8, <1>9, <1>10, <1>11, <1>12, <1>13, <1>14
     DEF Next, Browse, SettleList, SettleWrite

\* The state of a page is well formed in every behaviour.
LEMMA PagesAreWellFormed == Spec => []PageInv
<1>1. Init => PageInv
  BY PageInvInit
<1>2. PageInv /\ [Next]_vars => PageInv'
  BY PageInvStep
<1> QED
  BY <1>1, <1>2, PTL DEF Spec

\* The state of the page, its requests and its table are always of their kind;
\* above all the pager, which counts from the list on display, never leads to a
\* page that a list cannot have.
THEOREM TypeCorrect == Spec => []TypeOK
<1>1. PageInv => TypeOK
  <2> SUFFICES ASSUME PageInv PROVE TypeOK
    OBVIOUS
  <2>1. /\ flights \in Seq(Flight) /\ writes \in Seq(Write) /\ table \in Seq(Row)
        /\ Len(table) <= MaxRows /\ screen \in Screens
        /\ query \in QueryOf(screen) /\ result \in Answer \cup {None}
    BY DEF PageInv, ListPart, DialogPart, ListState
  <2>2. /\ \A i \in DOMAIN flights : flights[i] \in Flight
        /\ \A j \in DOMAIN writes : writes[j] \in Write
        /\ \A n \in DOMAIN table : table[n] \in Row
        /\ Len(table) \in 0..MaxRows
    BY <2>1, BoundAssumption
  <2>3. \A f \in Flight : IsFlight(f)
    <3> TAKE f \in Flight
    <3>1. /\ DOMAIN f = {"path", "rows", "total"} /\ f.path \in PathRecord
          /\ f.rows \in Seq(Shown) \cup {None} /\ f.total \in 0..MaxRows \cup {None}
      BY DEF Flight
    <3>2. f.rows = None \/ \A i \in DOMAIN f.rows : f.rows[i] \in Shown
      BY <3>1
    <3> QED
      BY <3>1, <3>2 DEF IsFlight
  <2>4. Answer \subseteq Flight
    BY DEF Answer, Flight
  <2>5. query \in Query
    <3>1. FiltersOf(screen) \cup {"desc"} \subseteq Params
      BY <2>1 DEF Params
    <3> QED
      BY <2>1, <3>1 DEF QueryOf, Query
  <2> QED
    BY <2>1, <2>2, <2>3, <2>4, <2>5 DEF PageInv, ListPart, DialogPart, TypeOK
<1> QED
  BY <1>1, PagesAreWellFormed, PTL

\* Turning the pages loses no selected row but for ties in the order, in whatever
\* way the queries break them, on any page of the console, with any filters, page
\* size and table.
THEOREM PagesLoseOnlyTiesAlways == Spec => []PagesLoseOnlyTies
<1>1. PageInv => PagesLoseOnlyTies
  BY PagesLoseOnlyTiesAnyList DEF PageInv, ListPart
<1> QED
  BY <1>1, PagesAreWellFormed, PTL

-------------------------------------------------------------------------------
(* Dialogs and writes *)

\* The writes of one opening in a sequence of writes.
Under(s, id) == {j \in DOMAIN s : s[j].opened = id}

StaysSole(s, t, id) ==
    /\ Under(s, id) = {} => Under(t, id) = {}
    /\ \A i : Under(s, id) = {i} => \E k \in DOMAIN t : Under(t, id) = {k}

\* A write of another opening is answered: that of the dialog is still alone.
LEMMA OtherAnswered ==
  ASSUME NEW s \in Seq(Write), NEW j \in DOMAIN s, NEW id, j \notin Under(s, id)
  PROVE  StaysSole(s, RemoveAt(s, j), id)
<1> DEFINE rest == RemoveAt(s, j)
<1>1. /\ Len(s) \in Nat /\ DOMAIN s = 1..Len(s) /\ j \in 1..Len(s)
      /\ DOMAIN rest = 1..(Len(s) - 1)
      /\ \A k \in 1..(Len(s) - 1) : rest[k] = IF k < j THEN s[k] ELSE s[k + 1]
  <2>1. /\ DOMAIN rest = 1..(Len(s) - 1)
        /\ \A k \in 1..(Len(s) - 1) : rest[k] = IF k < j THEN s[k] ELSE s[k + 1]
    BY RemoveAtFacts, Zenon
  <2> QED
    BY <2>1
<1> HIDE DEF rest
<1>2. \A k \in 1..(Len(s) - 1) :
        k \in Under(rest, id) <=> (IF k < j THEN k ELSE k + 1) \in Under(s, id)
  <2> TAKE k \in 1..(Len(s) - 1)
  <2>1. CASE k < j
    BY <1>1, <2>1 DEF Under
  <2>2. CASE ~(k < j)
    BY <1>1, <2>2 DEF Under
  <2> QED
    BY <2>1, <2>2
<1>3. Under(rest, id) \subseteq 1..(Len(s) - 1) /\ Under(s, id) \subseteq 1..Len(s)
  BY <1>1 DEF Under
<1>4. Under(s, id) = {} => Under(rest, id) = {}
  BY <1>2, <1>3
<1>5. ASSUME NEW i, Under(s, id) = {i}
      PROVE  \E k \in DOMAIN rest : Under(rest, id) = {k}
  <2>1. i \in 1..Len(s) /\ i # j
    BY <1>3, <1>5
  <2> DEFINE k == IF i < j THEN i ELSE i - 1
  <2>2. k \in 1..(Len(s) - 1)
    BY <1>1, <2>1
  <2>3. \A m \in 1..(Len(s) - 1) : (IF m < j THEN m ELSE m + 1) = i <=> m = k
    BY <1>1, <2>1
  <2> HIDE DEF k
  <2>4. \A m \in 1..(Len(s) - 1) : m \in Under(rest, id) <=> m = k
    BY <1>2, <1>5, <2>3
  <2>5. Under(rest, id) = {k}
    BY <1>3, <2>2, <2>4
  <2> QED
    BY <1>1, <2>2, <2>5
<1> QED
  BY <1>4, <1>5 DEF rest, StaysSole

\* When the page is mounted no dialog is open and no write under way.
LEMMA DialogsInvInit == Init => DialogsInv
<1>1. Init => dialog = None /\ writes = << >>
  BY DEF Init
<1> QED
  BY <1>1 DEF DialogsInv, OneKind, Sole, HeldStays

\* No step mixes up the writes of different openings of dialogs.
LEMMA DialogsInvStep == PageInv /\ DialogsInv /\ [Next]_vars => DialogsInv'
<1> SUFFICES ASSUME PageInv, DialogsInv, [Next]_vars PROVE DialogsInv'
  OBVIOUS
<1>1. /\ screen \in Screens /\ writes \in Seq(Write)
      /\ dialog \in Dialog \cup {None} /\ inputs \in Int
      /\ dialog # None => OfThisPage(dialog)
      /\ \A j \in DOMAIN writes : writes[j].opened \in Int /\ OfThisPage(writes[j])
  <2>1. writes \in Seq(Write) /\ \A j \in DOMAIN writes : OfThisPage(writes[j])
    BY DEF PageInv, DialogPart
  <2>2. \A j \in DOMAIN writes : writes[j] \in Write
    BY <2>1
  <2>3. \A w \in Write : w.opened \in Int
    BY DEF Write
  <2> QED
    BY <2>1, <2>2, <2>3 DEF PageInv, ListPart, DialogPart, ListState
<1>2. OneKind /\ Sole /\ HeldStays
  BY DEF DialogsInv
<1>3. \A kind \in DOMAIN DialogsOf(screen) : Trait(kind).held => Trait(kind).once
  BY <1>1, DialogTraits
<1>5. ASSUME UNCHANGED <<screen, dialog, writes>>
      PROVE  DialogsInv'
  BY <1>2, <1>5 DEF DialogsInv, OneKind, Sole, HeldStays, WritesOf, Trait
\* A dialog that ignores a second submit has one write at most.
<1>6. ASSUME NEW i \in DOMAIN writes, NEW k \in DOMAIN writes, dialog # None,
             Trait(dialog.kind).once, i \in WritesOf(dialog), k \in WritesOf(dialog)
      PROVE  i = k /\ dialog.saving
  BY <1>2, <1>6 DEF Sole
<1>7. CASE Browse
  BY <1>5, <1>7, BrowseFacts
<1>8. CASE OpenCreate \/ OpenRow
  <2>1. /\ dialog = None /\ dialog' \in Dialog /\ dialog'.opened = inputs + 1
        /\ ~dialog'.saving /\ UNCHANGED <<screen, writes>>
    BY <1>8, OpenFacts
  <2>2. WritesOf(dialog)' = {}
    BY <1>1, <2>1 DEF WritesOf, OfThisPage
  <2>3. HeldStays'
    BY <1>2, <2>1 DEF HeldStays, Trait
  <2>4. OneKind' /\ Sole'
    BY <2>1, <2>2 DEF OneKind, Sole
  <2> QED
    BY <2>3, <2>4 DEF DialogsInv
<1>9. CASE ChoicesLoaded
  <2>1. /\ dialog \in Dialog /\ dialog # None /\ UNCHANGED <<screen, writes>>
        /\ dialog' = [dialog EXCEPT !.ready = TRUE]
    BY <1>1, <1>9 DEF ChoicesLoaded
  <2>2. /\ dialog' \in Dialog /\ dialog'.kind = dialog.kind
        /\ dialog'.opened = dialog.opened /\ dialog'.saving = dialog.saving
    BY <2>1 DEF Dialog
  <2>3. dialog' # None
    BY <2>2, NoneAssumption
  <2>4. WritesOf(dialog)' = WritesOf(dialog)
    BY <2>1, <2>2 DEF WritesOf
  <2>5. OneKind'
    BY <1>2, <2>1, <2>2, <2>4 DEF OneKind
  <2>6. Sole'
    BY <1>2, <2>1, <2>2, <2>4 DEF Sole, Trait
  <2>7. HeldStays'
    BY <1>2, <2>1, <2>3, <2>4 DEF HeldStays, Trait
  <2> QED
    BY <2>5, <2>6, <2>7 DEF DialogsInv
<1>10. CASE Submit
  <2>1. /\ dialog \in Dialog /\ (Trait(dialog.kind).once => ~dialog.saving)
        /\ Len(writes') = Len(writes) + 1 /\ writes' \in Seq(Write)
        /\ \A j \in DOMAIN writes : writes'[j] = writes[j]
        /\ writes'[Len(writes) + 1].kind = dialog.kind
        /\ writes'[Len(writes) + 1].opened = dialog.opened
        /\ dialog' \in Dialog
        /\ dialog'.kind = dialog.kind /\ dialog'.opened = dialog.opened
        /\ dialog'.saving = Trait(dialog.kind).once
        /\ screen' = screen
    BY <1>10, SubmitFacts
  <2>2. dialog # None /\ dialog' # None
    BY <2>1, NoneAssumption
  <2> DEFINE last == Len(writes) + 1
  <2>3. DOMAIN writes' = DOMAIN writes \cup {last} /\ last \notin DOMAIN writes
    BY <1>1, <2>1
  <2> HIDE DEF last
  <2>4. WritesOf(dialog)' = WritesOf(dialog) \cup {last}
    BY <2>1, <2>3 DEF WritesOf, last
  <2>5. OneKind'
    BY <1>2, <2>1, <2>2, <2>3, <2>4 DEF OneKind, WritesOf, last
  <2>6. Sole'
    <3>1. Trait(dialog.kind).once => WritesOf(dialog)' = {last}
      BY <1>2, <2>1, <2>2, <2>4 DEF Sole
    <3> QED
      BY <2>1, <2>2, <2>3, <3>1 DEF Sole, Trait
  <2>7. HeldStays'
    BY <1>2, <2>1, <2>2, <2>3, <2>4 DEF HeldStays, Trait
  <2> QED
    BY <2>5, <2>6, <2>7 DEF DialogsInv
<1>11. CASE Cancel
  <2>1. /\ dialog # None /\ (Trait(dialog.kind).held => ~dialog.saving)
        /\ dialog' = None /\ UNCHANGED <<screen, writes>>
    BY <1>11 DEF Cancel
  <2>2. ASSUME NEW j \in DOMAIN writes, Trait(writes[j].kind).held
        PROVE  FALSE
    <3>1. j \in WritesOf(dialog) /\ writes[j].kind = dialog.kind
      BY <1>2, <2>1, <2>2 DEF HeldStays, OneKind
    <3>2. Trait(dialog.kind).once
      BY <1>1, <1>3, <2>1, <2>2, <3>1 DEF OfThisPage
    <3> QED
      BY <1>6, <2>1, <2>2, <3>1, <3>2
  <2> QED
    BY <2>1, <2>2 DEF DialogsInv, OneKind, Sole, HeldStays, Trait
<1>12. ASSUME NEW i \in DOMAIN flights, ReadRows(i) \/ ReadTotal(i)
       PROVE  DialogsInv'
  BY <1>5, <1>12, ReadFacts
<1>13. ASSUME NEW j \in DOMAIN writes, Perform(j) \/ Refuse(j)
       PROVE  DialogsInv'
  <2>1. PICK state \in {"done", "refused"} :
          writes' = [writes EXCEPT ![j].state = state]
    BY <1>13 DEF Perform, Refuse
  <2>2. /\ DOMAIN writes' = DOMAIN writes
        /\ \A i \in DOMAIN writes :
             writes'[i].kind = writes[i].kind /\ writes'[i].opened = writes[i].opened
    BY <2>1, MarkFacts
  <2>3. UNCHANGED <<screen, dialog>>
    BY <1>13 DEF Perform, Refuse, component
  <2>4. WritesOf(dialog)' = WritesOf(dialog)
    BY <2>2, <2>3 DEF WritesOf
  <2>5. OneKind'
    <3>1. WritesOf(dialog) \subseteq DOMAIN writes
      BY DEF WritesOf
    <3> QED
      BY <1>2, <2>2, <2>3, <2>4, <3>1 DEF OneKind
  <2>6. Sole'
    BY <1>2, <2>2, <2>3, <2>4 DEF Sole, Trait
  <2>7. HeldStays'
    BY <1>2, <2>2, <2>3, <2>4 DEF HeldStays, Trait
  <2> QED
    BY <2>5, <2>6, <2>7 DEF DialogsInv
<1>14. ASSUME NEW i \in DOMAIN flights, Receive(i) \/ Fail(i)
       PROVE  DialogsInv'
  BY <1>5, <1>14 DEF Receive, Fail
<1>15. ASSUME NEW j \in DOMAIN writes, Written(j) \/ WriteFails(j)
       PROVE  DialogsInv'
  <2>1. /\ writes' = RemoveAt(writes, j) /\ writes' \in Seq(Write)
        /\ dialog' \in {Closed(writes[j]), Released(writes[j])}
        /\ screen' = screen
    BY <1>15, AnswerFacts
  <2>2. \A k \in DOMAIN writes' : \E i \in DOMAIN writes \ {j} : writes'[k] = writes[i]
    BY <1>1, <2>1, RemoveAtKeeps
  \* The dialog is closed.
  <2>3. CASE dialog # None /\ dialog.kind = writes[j].kind /\ dialog' = None
    <3>1. ASSUME NEW i \in DOMAIN writes \ {j}, Trait(writes[i].kind).held
          PROVE  FALSE
      <4>1. i \in WritesOf(dialog) /\ writes[i].kind = dialog.kind
        BY <1>2, <2>3, <3>1 DEF HeldStays, OneKind
      <4>2. j \in WritesOf(dialog)
        BY <1>2, <2>3, <3>1, <4>1 DEF HeldStays
      <4>3. Trait(dialog.kind).once
        BY <1>1, <1>3, <2>3, <3>1, <4>1 DEF OfThisPage
      <4> QED
        BY <1>6, <2>3, <4>1, <4>2, <4>3
    <3> QED
      BY <2>1, <2>2, <2>3, <3>1 DEF DialogsInv, OneKind, Sole, HeldStays, Trait
  \* It is released.
  <2>4. CASE /\ dialog # None /\ dialog.opened = writes[j].opened
             /\ dialog' = [dialog EXCEPT !.saving = FALSE]
    <3>1. /\ dialog' \in Dialog /\ dialog' # None /\ ~dialog'.saving
          /\ dialog'.kind = dialog.kind /\ dialog'.opened = dialog.opened
      BY <1>1, <2>4, NoneAssumption DEF Dialog
    <3>2. j \in WritesOf(dialog)
      BY <2>4 DEF WritesOf
    <3>3. \A k \in DOMAIN writes' : \E i \in DOMAIN writes \ {j} :
            /\ writes'[k] = writes[i]
            /\ k \in WritesOf(dialog)' <=> i \in WritesOf(dialog)
      BY <2>2, <3>1 DEF WritesOf
    <3>4. WritesOf(dialog)' \subseteq DOMAIN writes'
      BY DEF WritesOf
    <3>5. OneKind'
      <4>1. ASSUME NEW k \in WritesOf(dialog)'
            PROVE  writes'[k].kind = dialog'.kind
        <5>1. PICK i \in WritesOf(dialog) : writes'[k] = writes[i]
          BY <3>3, <3>4
        <5> QED
          BY <1>2, <2>4, <3>1, <5>1 DEF OneKind
      <4> QED
        BY <4>1 DEF OneKind
    <3>6. Sole'
      <4>1. Trait(dialog.kind).once => WritesOf(dialog)' = {}
        <5>1. ASSUME Trait(dialog.kind).once, NEW k \in WritesOf(dialog)'
              PROVE  FALSE
          <6>1. PICK i \in DOMAIN writes \ {j} : i \in WritesOf(dialog)
            BY <3>3, <3>4, <5>1
          <6> QED
            BY <1>6, <2>4, <3>2, <5>1, <6>1
        <5> QED
          BY <5>1
      <4> QED
        BY <2>1, <3>1, <4>1 DEF Sole, Trait
    <3>7. HeldStays'
      BY <1>2, <2>1, <3>1, <3>3 DEF HeldStays, Trait
    <3> QED
      BY <3>5, <3>6, <3>7 DEF DialogsInv
  \* It is not the one that submitted, or there is none.
  <2>5. CASE dialog' = dialog /\ (dialog = None \/ j \notin WritesOf(dialog))
    <3>1. \A k \in DOMAIN writes' : \E i \in DOMAIN writes \ {j} :
            /\ writes'[k] = writes[i]
            /\ k \in WritesOf(dialog)' <=> i \in WritesOf(dialog)
      BY <2>2, <2>5 DEF WritesOf
    <3>2. WritesOf(dialog)' \subseteq DOMAIN writes'
      BY DEF WritesOf
    <3>3. OneKind'
      BY <1>2, <2>5, <3>1, <3>2 DEF OneKind
    <3>4. Sole'
      <4>1. CASE dialog = None
        BY <2>5, <4>1 DEF Sole
      <4>2. CASE dialog # None
        <5>1. /\ WritesOf(dialog) = Under(writes, dialog.opened)
              /\ WritesOf(dialog)' = Under(RemoveAt(writes, j), dialog.opened)
          BY <2>1, <2>5 DEF WritesOf, Under
        <5>2. /\ WritesOf(dialog) = {} => WritesOf(dialog)' = {}
              /\ \A i : WritesOf(dialog) = {i} =>
                   \E k \in DOMAIN writes' : WritesOf(dialog)' = {k}
          <6> DEFINE id == dialog.opened
          <6>1. j \notin Under(writes, id)
            BY <2>5, <4>2, <5>1
          <6> HIDE DEF id
          <6>2. StaysSole(writes, RemoveAt(writes, j), id)
            BY <1>1, <6>1, OtherAnswered, Zenon
          <6> QED
            BY <2>1, <5>1, <6>2 DEF id, StaysSole
        <5> QED
          BY <1>2, <2>1, <2>5, <4>2, <5>2 DEF Sole, Trait
      <4> QED
        BY <4>1, <4>2
    <3>5. HeldStays'
      BY <1>2, <2>1, <2>5, <3>1 DEF HeldStays, Trait
    <3> QED
      BY <3>3, <3>4, <3>5 DEF DialogsInv
  <2>6. CASE dialog' = Closed(writes[j])
    <3>1. dialog # None /\ dialog.kind # writes[j].kind => j \notin WritesOf(dialog)
      BY <1>2 DEF OneKind
    <3> QED
      BY <2>3, <2>5, <2>6, <3>1 DEF Closed
  <2>7. CASE dialog' = Released(writes[j])
    <3>1. dialog.opened # writes[j].opened => j \notin WritesOf(dialog)
      BY DEF WritesOf
    <3> QED
      BY <2>4, <2>5, <2>7, <3>1 DEF Released
  <2> QED
    BY <2>1, <2>6, <2>7
<1>16. CASE UNCHANGED vars
  BY <1>5, <1>16 DEF vars
<1> QED
  BY <1>7, <1>8, <1>9, <1>10, <1>11, <1>12, <1>13, <1>14, <1>15, <1>16
     DEF Next, Browse, SettleList, SettleWrite

\* Writes belong to their dialogs in every behaviour.
LEMMA DialogsAreInOrder == Spec => [](PageInv /\ DialogsInv)
<1>1. Init => DialogsInv
  BY DialogsInvInit
<1>2. PageInv /\ DialogsInv /\ [Next]_vars => DialogsInv'
  BY DialogsInvStep
<1> QED
  BY <1>1, <1>2, PagesAreWellFormed, PTL DEF Spec

\* A form that saves has one write under way, and one that does not save has
\* none, whichever forms were cancelled and reopened meanwhile.
THEOREM SavingIsOneWriteAlways == Spec => []SavingIsOneWrite
<1>1. DialogsInv => SavingIsOneWrite
  <2> SUFFICES ASSUME DialogsInv, dialog # None, Trait(dialog.kind).once
               PROVE  Cardinality(WritesOf(dialog))
                        = (IF dialog.saving THEN 1 ELSE 0)
    BY DEF SavingIsOneWrite, WritesOf
  <2>1. IF dialog.saving THEN \E j \in DOMAIN writes : WritesOf(dialog) = {j}
        ELSE WritesOf(dialog) = {}
    BY DEF DialogsInv, Sole
  <2> QED
    BY <2>1, FS_Singleton, FS_EmptySet
<1> QED
  BY <1>1, DialogsAreInOrder, PTL

\* A dialog that goes without being cancelled goes with a write of its kind that
\* is done, or of another opening only where dialogs of the kind are not held.
THEOREM DialogsCloseForAReasonAlways == Spec => DialogsCloseForAReason
<1> DEFINE Reason ==
      dialog # None /\ dialog' = None /\ inputs' = inputs =>
          \E j \in DOMAIN writes :
             /\ Len(writes') < Len(writes)
             /\ writes[j].kind = dialog.kind
             /\ \/ /\ writes[j].opened = dialog.opened
                   /\ (writes[j].state = "done" \/ Trait(dialog.kind).shuts)
                \/ /\ writes[j].opened # dialog.opened
                   /\ ~Trait(dialog.kind).held
<1>1. PageInv /\ DialogsInv /\ [Next]_vars => [Reason]_vars
  <2> SUFFICES ASSUME PageInv, DialogsInv, Next,
                      dialog # None, dialog' = None, inputs' = inputs
               PROVE  \E j \in DOMAIN writes :
                         /\ Len(writes') < Len(writes)
                         /\ writes[j].kind = dialog.kind
                         /\ \/ /\ writes[j].opened = dialog.opened
                               /\ (writes[j].state = "done" \/ Trait(dialog.kind).shuts)
                            \/ /\ writes[j].opened # dialog.opened
                               /\ ~Trait(dialog.kind).held
    OBVIOUS
  <2>1. dialog \in Dialog /\ writes \in Seq(Write) /\ inputs \in Int
    BY DEF PageInv, DialogPart
  <2>2. ~Browse /\ ~(OpenCreate \/ OpenRow)
    BY BrowseFacts, OpenFacts
  <2>3. ~ChoicesLoaded
    <3>1. [dialog EXCEPT !.ready = TRUE] \in Dialog
      BY <2>1 DEF Dialog
    <3> QED
      BY <3>1, NoneAssumption DEF ChoicesLoaded
  <2>4. ~Submit /\ ~Cancel
    BY <2>1 DEF Submit, Cancel, Click, Input
  <2>5. \A i \in DOMAIN flights :
          ~ReadRows(i) /\ ~ReadTotal(i) /\ ~Receive(i) /\ ~Fail(i)
    BY DEF ReadRows, ReadTotal, Read, Receive, Fail, component
  <2>6. \A j \in DOMAIN writes : ~Perform(j) /\ ~Refuse(j)
    BY DEF Perform, Refuse, component
  <2>7. PICK j \in DOMAIN writes : Written(j) \/ WriteFails(j)
    BY <2>2, <2>3, <2>4, <2>5, <2>6 DEF Next, Browse, SettleList, SettleWrite
  <2>8. /\ writes' = RemoveAt(writes, j)
        /\ \/ /\ dialog' = Closed(writes[j])
              /\ writes[j].state = "done" \/ Trait(writes[j].kind).shuts
           \/ dialog' = Released(writes[j])
    BY <2>7, AnswerFacts
  <2>9. Len(writes') < Len(writes)
    BY <2>1, <2>8, RemoveAtFacts
  <2>10. dialog' # Released(writes[j])
    <3>1. [dialog EXCEPT !.saving = FALSE] \in Dialog
      BY <2>1 DEF Dialog
    <3> QED
      BY <3>1, NoneAssumption DEF Released
  <2>11. /\ writes[j].kind = dialog.kind
         /\ writes[j].state = "done" \/ Trait(dialog.kind).shuts
    BY <2>8, <2>10 DEF Closed
  <2>12. Trait(dialog.kind).held => writes[j].opened = dialog.opened
    BY <2>11 DEF DialogsInv, HeldStays, WritesOf
  <2> QED
    BY <2>9, <2>11, <2>12
<1> QED
  BY <1>1, DialogsAreInOrder, PTL DEF Spec, DialogsCloseForAReason

-------------------------------------------------------------------------------
(* Lists *)

\* The list for the present path is that of the rows that the page shows its
\* filters to be for, and it is empty only beyond the last of them.
LEMMA ListFacts ==
  ASSUME ListState
  PROVE  /\ CurrentPath.page = query.page
         /\ TotalNow(CurrentPath) = Cardinality(Selected)
         /\ Cardinality(Selected) \in Nat
         /\ \A rows \in RowsNow(CurrentPath) :
              /\ \A k \in DOMAIN rows :
                   rows[k].id \in Selected /\ rows[k].row = table[rows[k].id]
              /\ rows = << >> =>
                   Cardinality(Selected) <= (query.page - 1) * Limit
<1> DEFINE args == ListOf(screen, CurrentPath)
           descending == args.descending
           skip == (query.page - 1) * Limit
           found == Selected
<1>1. CurrentPath \in PathRecord /\ CurrentPath.page = query.page
  BY FiltersArrive DEF ListState, CurrentPath
<1>2. Matching(table, args.where) = found
  <2>1. query \in QueryOf(screen)
    BY DEF ListState
  <2> QED
    BY <2>1, FoundAreSelected DEF CurrentPath
<1>3. /\ skip \in Nat
      /\ found \in SUBSET (1..Len(table)) /\ Len(table) \in Nat
      /\ \A ids \in FindMany(table, args) :
           InPlace(ids, table, found, descending, skip, Limit)
  <2>1. Len(table) \in Nat
    BY DEF ListState
  <2> HIDE DEF found
  <2> QED
    BY <1>1, <1>2, <2>1, FoundOnPage
<1>4. TotalNow(CurrentPath) = Cardinality(found)
  BY <1>2 DEF TotalNow, Count
<1>5. RowsNow(CurrentPath) =
        {[k \in DOMAIN ids |-> [id |-> ids[k], row |-> table[ids[k]]]] :
           ids \in FindMany(table, args)}
  BY DEF RowsNow
<1> HIDE DEF found, descending, skip, args
<1>6. Cardinality(found) \in Nat
  BY <1>3, FoundIsFinite
<1>7. ASSUME NEW rows \in RowsNow(CurrentPath)
      PROVE  /\ \A k \in DOMAIN rows :
                  rows[k].id \in found /\ rows[k].row = table[rows[k].id]
             /\ rows = << >> => Cardinality(found) <= skip
  <2>1. PICK ids \in FindMany(table, args) :
          rows = [k \in DOMAIN ids |-> [id |-> ids[k], row |-> table[ids[k]]]]
    BY <1>5
  <2>2. /\ DOMAIN ids = Answered(Cardinality(found), skip, Limit)
        /\ \A k \in DOMAIN ids : ids[k] \in found
    BY <1>3 DEF InPlace
  <2>3. ASSUME rows = << >>
        PROVE  Cardinality(found) <= skip
    <3>1. 1 \notin DOMAIN ids
      BY <2>1, <2>3
    <3> QED
      BY <1>3, <1>6, <2>2, <3>1, LimitAssumption DEF Answered
  <2> QED
    BY <2>1, <2>2, <2>3
<1> QED
  BY <1>1, <1>4, <1>6, <1>7 DEF found, skip

\* While page, path and table are the same, so is what the server would answer.
LEMMA SameAnswer ==
  ASSUME UNCHANGED <<screen, table>>, CurrentPath' = CurrentPath
  PROVE  /\ RowsNow(CurrentPath)' = RowsNow(CurrentPath)
         /\ TotalNow(CurrentPath)' = TotalNow(CurrentPath)
BY DEF RowsNow, TotalNow

\* A step that leaves the list, the path and the table alone, and tells the page
\* of no write, leaves the list as right as it was.
LEMMA ListKept ==
  ASSUME OneFlight, UpToDate,
         UNCHANGED <<screen, result, flights, table, raced>>,
         CurrentPath' = CurrentPath, error => error',
         ~unseen' /\ NoneDone' => ~unseen /\ NoneDone
  PROVE  OneFlight' /\ UpToDate'
<1>1. OneFlight'
  BY DEF OneFlight
<1>2. /\ RowsNow(CurrentPath)' = RowsNow(CurrentPath)
      /\ TotalNow(CurrentPath)' = TotalNow(CurrentPath)
  BY SameAnswer
<1>3. UpToDate'
  BY <1>2 DEF UpToDate
<1> QED
  BY <1>1, <1>3

\* A request that meets no other one is the only one, and has read nothing yet.
LEMMA ListSent ==
  ASSUME flights \in Seq(Flight), NEW path \in PathRecord, Send(path),
         CurrentPath' = NextPath
  PROVE  OneFlight' /\ UpToDate'
<1>1. raced' = (flights # << >> \/ path # NextPath)
  BY DEF Send
<1>2. ASSUME ~raced'
      PROVE  /\ Len(flights') = 1 /\ DOMAIN flights' = {1}
             /\ flights'[1].path = CurrentPath'
             /\ flights'[1].rows = None /\ flights'[1].total = None
             /\ flights' # << >>
  <2>1. flights = << >> /\ path = CurrentPath'
    BY <1>1, <1>2
  <2>2. /\ flights' \in Seq(Flight) /\ Len(flights') = Len(flights) + 1
        /\ flights' # << >>
        /\ flights'[Len(flights) + 1] = [path |-> path, rows |-> None, total |-> None]
    BY SendTypes
  <2>3. Len(flights) = 0
    BY <2>1
  <2> QED
    BY <2>1, <2>2, <2>3
<1>3. OneFlight'
  BY <1>2 DEF OneFlight
<1>4. UpToDate'
  BY <1>2 DEF UpToDate
<1> QED
  BY <1>3, <1>4

\* What has been read is what would be read now, or the page knows why not.
ListInv == OneFlight /\ UpToDate /\ PageHasRows

\* When the page is mounted its first request is under way.
LEMMA ListInvInit == Init => ListInv
<1> SUFFICES ASSUME Init PROVE ListInv
  OBVIOUS
<1>1. /\ flights = <<[path |-> CurrentPath, rows |-> None, total |-> None]>>
      /\ query.page = 1
  <2>1. PICK on : query = [page |-> 1, text |-> "", on |-> on]
    BY DEF Init
  <2> QED
    BY <2>1 DEF Init
<1>2. /\ Len(flights) = 1 /\ DOMAIN flights = {1} /\ flights # << >>
      /\ flights[1].path = CurrentPath
      /\ flights[1].rows = None /\ flights[1].total = None
  <2>1. \A f : Len(<<f>>) = 1 /\ DOMAIN <<f>> = {1} /\ <<f>> # << >> /\ <<f>>[1] = f
    OBVIOUS
  <2> QED
    BY <1>1, <2>1
<1>3. OneFlight
  BY <1>2 DEF OneFlight
<1>4. UpToDate
  BY <1>2 DEF UpToDate
<1> QED
  BY <1>1, <1>3, <1>4 DEF ListInv, PageHasRows

\* The visitor is sent to page 1, or turns from a page that has rows to the next
\* one, if there are more, or to the one before.
LEMMA BrowsedPageHasRows ==
  ASSUME PageInv, PageHasRows, Browse
  PROVE  PageHasRows'
<1>1. /\ query \in QueryOf(screen) /\ query.page \in 1..MaxRows
      /\ ListState /\ MaxRows \in Nat
  BY BoundAssumption DEF PageInv, ListPart, ListState, QueryOf
<1>2. ASSUME NEW changed \in QueryOf(screen), FirstPage(changed)
      PROVE  PageHasRows'
  <2>1. query'.page = 1
    BY <1>2 DEF FirstPage, QueryOf
  <2> QED
    BY <2>1 DEF PageHasRows
<1>3. \A key \in FiltersOf(screen) \cup {"desc"} : Toggled(key) \in QueryOf(screen)
  BY <1>1 DEF Toggled, QueryOf
<1>4. CASE ChangeText
  <2>1. PICK text \in Texts : FirstPage([query EXCEPT !.text = text])
    BY <1>4 DEF ChangeText
  <2>2. [query EXCEPT !.text = text] \in QueryOf(screen)
    BY <1>1 DEF QueryOf
  <2> QED
    BY <1>2, <2>1, <2>2
<1>5. CASE ChangeFilter
  BY <1>2, <1>3, <1>5 DEF ChangeFilter
<1>6. CASE FollowUrl
  <2>1. /\ query' = Toggled("projectId") /\ UNCHANGED <<screen, table>>
        /\ misled' = (misled \/ "projectId" \notin query.on)
    BY <1>6 DEF FollowUrl
  <2>2. CASE "projectId" \notin query.on
    <3>1. misled'
      BY <2>1, <2>2
    <3> QED
      BY <3>1 DEF PageHasRows
  \* A filter less: no selected row is lost.
  <2>3. CASE "projectId" \in query.on
    <3>1. /\ query' = [query EXCEPT !.on = @ \ {"projectId"}]
          /\ UNCHANGED table /\ misled' = misled
      <4>1. misled \in BOOLEAN
        BY DEF PageInv, ListPart
      <4> QED
        BY <2>1, <2>3, <4>1 DEF Toggled
    <3>2. /\ query'.page = query.page /\ query'.text = query.text
          /\ query'.on \subseteq query.on
      BY <1>1, <3>1 DEF QueryOf
    <3>3. "includeDeleted" \in query.on => "includeDeleted" \in query'.on
      BY <1>1, <3>1 DEF QueryOf
    <3>4. Selected \subseteq Selected'
      <4>1. Selected' =
              {n \in DOMAIN table :
                 /\ table[n].deleted => "includeDeleted" \in query'.on
                 /\ query'.on \ {"includeDeleted", "desc"} \subseteq table[n].fits
                 /\ query.text = "word" => "q" \in table[n].fits}
        BY <3>1, <3>2 DEF Selected
      <4> QED
        BY <3>2, <3>3, <4>1 DEF Selected
    <3>5. /\ Cardinality(Selected) <= Cardinality(Selected')
          /\ Cardinality(Selected) \in Nat /\ Cardinality(Selected') \in Nat
      <4>1. Selected' \subseteq 1..Len(table) /\ Len(table) \in Nat
        BY <1>1, <3>1 DEF ListState, Selected
      <4>2. IsFiniteSet(Selected')
        <5>1. IsFiniteSet(1..Len(table))
          BY <4>1, FS_Interval
        <5> QED
          BY <4>1, <5>1, FS_Subset
      <4> QED
        BY <3>4, <4>2, FS_Subset, FS_CardinalityType
    <3>6. (query.page - 1) * Limit \in Nat
      <4>1. query.page - 1 \in Nat
        BY <1>1
      <4> QED
        BY <4>1, PagesGrow
    <3> QED
      BY <3>1, <3>2, <3>5, <3>6 DEF PageHasRows
  <2> QED
    BY <2>2, <2>3
<1>7. CASE Sort
  BY <1>2, <1>3, <1>7 DEF Sort
<1>8. CASE TurnPage
  <2> SUFFICES ASSUME ~misled'
               PROVE  (query'.page - 1) * Limit < Cardinality(Selected')
    BY DEF PageHasRows
  <2>1. ~misled /\ ListIsCurrent
    <3>1. misled' = (misled \/ ~ListIsCurrent)
      BY <1>8 DEF TurnPage
    <3> QED
      BY <3>1
  <2>2. /\ result.path.page = query.page
        /\ result.total = Cardinality(Selected)
        /\ Cardinality(Selected) \in Nat
    BY <1>1, <2>1, ListFacts DEF ListIsCurrent
  <2>3. PICK page \in {query.page + 1, query.page - 1} :
          /\ query' = [query EXCEPT !.page = page]
          /\ page = query.page + 1 => CanNext(query.page, Cardinality(Selected))
          /\ page = query.page - 1 => CanPrev(query.page)
    BY <1>1, <1>8, <2>2 DEF TurnPage
  <2>4. query'.page = page /\ query'.on = query.on /\ query'.text = query.text
    BY <1>1, <2>3 DEF QueryOf
  <2>5. Selected' = Selected
    BY <1>8, <2>4 DEF TurnPage, Selected
  <2>6. CASE page = query.page + 1
    <3>1. query.page * Limit < Cardinality(Selected)
      BY <2>3, <2>6 DEF CanNext
    <3>2. page - 1 = query.page
      BY <1>1, <2>6
    <3> QED
      BY <2>4, <2>5, <3>1, <3>2
  <2>7. CASE page = query.page - 1
    <3>1. query.page > 1
      BY <2>3, <2>7 DEF CanPrev
    <3>2. (query.page - 1) * Limit < Cardinality(Selected)
      BY <1>1, <2>1, <3>1 DEF PageHasRows
    <3>3. /\ (page - 1) * Limit \in Nat /\ (query.page - 1) * Limit \in Nat
          /\ (page - 1) * Limit <= (query.page - 1) * Limit
      <4>1. page - 1 \in Nat /\ query.page - 1 \in Nat /\ page - 1 <= query.page - 1
        BY <1>1, <2>7, <3>1
      <4> QED
        BY <4>1, PagesGrow
    <3>4. (page - 1) * Limit < Cardinality(Selected)
      BY <2>2, <3>2, <3>3
    <3> QED
      BY <2>4, <2>5, <3>4
  <2> QED
    BY <2>6, <2>7
<1> QED
  BY <1>4, <1>5, <1>6, <1>7, <1>8 DEF Browse

\* Every step leaves the list right, or recorded as what it is.
LEMMA ListInvStep == PageInv /\ ListInv /\ [Next]_vars => ListInv'
<1> SUFFICES ASSUME PageInv, ListInv, [Next]_vars PROVE ListInv'
  OBVIOUS
<1>1. /\ flights \in Seq(Flight) /\ writes \in Seq(Write) /\ ListState
      /\ DOMAIN flights = 1..Len(flights) /\ Len(flights) \in Nat
      /\ OneFlight /\ UpToDate /\ PageHasRows
  BY DEF PageInv, ListPart, DialogPart, ListInv
<1>2. ASSUME UNCHANGED <<screen, query>>
      PROVE  CurrentPath' = CurrentPath /\ NextPath = CurrentPath
  BY <1>2 DEF CurrentPath, NextPath
<1>3. CurrentPath' = NextPath
  <2>1. screen' = screen
    BY BrowseFacts DEF Next, Browse, Open, OpenCreate, OpenRow, ChoicesLoaded, Submit,
       Cancel, ReadRows, ReadTotal, Read, Perform, Refuse, SettleList, SettleWrite,
       Receive, Fail, Written, WriteFails, vars
  <2> QED
    BY <2>1 DEF CurrentPath, NextPath
<1>4. ASSUME UNCHANGED <<screen, query, table, misled>>
      PROVE  PageHasRows'
  BY <1>1, <1>4 DEF PageHasRows, Selected
<1>5. ASSUME UNCHANGED <<screen, query, result, flights, table, raced, misled>>,
             error => error', ~unseen' /\ NoneDone' => ~unseen /\ NoneDone
      PROVE  ListInv'
  BY <1>1, <1>2, <1>4, <1>5, ListKept DEF ListInv
<1>6. CASE Browse
  <2>1. /\ query' \in QueryOf(screen) /\ FetchIfChanged
        /\ UNCHANGED <<screen, result, dialog, writes, table>>
    BY <1>6, BrowseFacts
  <2>2. OneFlight' /\ UpToDate'
    <3>1. CASE NextPath # CurrentPath
      <4>1. NextPath \in PathRecord
        BY <1>1, <2>1, NextPathTypes
      <4>2. Send(NextPath)
        BY <2>1, <3>1 DEF FetchIfChanged
      <4> QED
        BY <1>1, <1>3, <4>1, <4>2, ListSent
    <3>2. CASE NextPath = CurrentPath
      <4>1. UNCHANGED <<flights, loading, error, raced, unseen>>
        BY <2>1, <3>2 DEF FetchIfChanged
      <4>2. NoneDone' = NoneDone
        BY <2>1 DEF NoneDone
      <4> QED
        BY <1>1, <1>3, <2>1, <3>2, <4>1, <4>2, ListKept
    <3> QED
      BY <3>1, <3>2
  <2>3. PageHasRows'
    BY <1>1, <1>6, BrowsedPageHasRows
  <2> QED
    BY <2>2, <2>3 DEF ListInv
<1>7. CASE OpenCreate \/ OpenRow \/ ChoicesLoaded \/ Cancel
  <2>1. UNCHANGED <<screen, query, error, result, flights, writes, table, raced,
                    unseen, misled>>
    BY <1>7 DEF OpenCreate, OpenRow, Open, ChoicesLoaded, Cancel, history
  <2> QED
    BY <1>5, <2>1 DEF NoneDone
<1>8. CASE Submit
  <2>1. /\ \A j \in DOMAIN writes : j \in DOMAIN writes' /\ writes'[j] = writes[j]
        /\ UNCHANGED <<screen, query, error, result, flights, table, raced, unseen,
                       misled>>
    <3>1. /\ writes' \in Seq(Write) /\ Len(writes') = Len(writes) + 1
          /\ \A j \in DOMAIN writes : writes'[j] = writes[j]
          /\ UNCHANGED <<screen, query, error, result, flights, table, raced, unseen,
                         misled>>
      BY <1>8, SubmitFacts
    <3> QED
      BY <1>1, <3>1
  <2> QED
    BY <1>5, <2>1 DEF NoneDone
<1>9. ASSUME NEW i \in DOMAIN flights, ReadRows(i) \/ ReadTotal(i)
      PROVE  ListInv'
  <2>1. /\ flights' \in Seq(Flight) /\ DOMAIN flights' = DOMAIN flights
        /\ Len(flights') = Len(flights)
        /\ \A k \in DOMAIN flights :
             /\ flights'[k].path = flights[k].path
             /\ flights'[k].rows \in {flights[k].rows} \cup RowsNow(flights[k].path)
             /\ flights'[k].total \in {flights[k].total, TotalNow(flights[k].path)}
        /\ UNCHANGED <<screen, query, error, result, writes, table, raced, unseen,
                       misled>>
    BY <1>9, ReadFacts
  <2>2. flights # << >> /\ flights' # << >>
    BY <1>1, <2>1
  <2>3. /\ CurrentPath' = CurrentPath
        /\ RowsNow(CurrentPath)' = RowsNow(CurrentPath)
        /\ TotalNow(CurrentPath)' = TotalNow(CurrentPath)
    BY <1>2, <2>1, SameAnswer
  <2>4. OneFlight'
    BY <1>1, <2>1, <2>2, <2>3 DEF OneFlight
  <2>5. UpToDate'
    <3> SUFFICES ASSUME ~raced', ~unseen', NoneDone', NEW k \in DOMAIN flights'
                 PROVE  /\ flights'[k].rows \in {None} \cup RowsNow(CurrentPath)'
                        /\ flights'[k].total \in {None, TotalNow(CurrentPath)'}
      BY <2>2 DEF UpToDate
    <3>1. ~raced /\ ~unseen /\ NoneDone /\ k \in DOMAIN flights
      BY <2>1 DEF NoneDone
    <3>2. /\ flights[k].path = CurrentPath
          /\ flights[k].rows \in {None} \cup RowsNow(CurrentPath)
          /\ flights[k].total \in {None, TotalNow(CurrentPath)}
      BY <1>1, <3>1 DEF OneFlight, UpToDate
    <3>3. /\ flights'[k].rows \in {flights[k].rows} \cup RowsNow(CurrentPath)
          /\ flights'[k].total \in {flights[k].total, TotalNow(CurrentPath)}
      BY <2>1, <3>1, <3>2
    <3> QED
      BY <2>3, <3>2, <3>3
  <2> QED
    BY <1>4, <2>1, <2>4, <2>5 DEF ListInv
<1>10. ASSUME NEW j \in DOMAIN writes, Perform(j)
       PROVE  ListInv'
  <2>1. /\ writes' = [writes EXCEPT ![j].state = "done"]
        /\ misled' = (misled \/ table' # table)
        /\ UNCHANGED <<screen, query, error, result, flights, raced, unseen>>
    BY <1>10 DEF Perform, component
  <2>2. ~NoneDone'
    <3>1. j \in DOMAIN writes' /\ writes'[j].state = "done"
      <4>1. writes[j] \in Write
        BY <1>1
      <4>2. [writes[j] EXCEPT !.state = "done"].state = "done"
        BY <4>1 DEF Write
      <4> QED
        BY <1>1, <2>1, <4>2
    <3> QED
      BY <3>1 DEF NoneDone
  <2>3. OneFlight' /\ UpToDate'
    BY <1>1, <1>2, <2>1, <2>2 DEF OneFlight, UpToDate
  <2>4. PageHasRows'
    <3>1. CASE table' = table
      <4>1. misled' = misled
        BY <2>1, <3>1 DEF PageInv, ListPart
      <4> QED
        BY <1>4, <2>1, <3>1, <4>1
    <3>2. CASE table' # table
      BY <2>1, <3>2 DEF PageHasRows
    <3> QED
      BY <3>1, <3>2
  <2> QED
    BY <2>3, <2>4 DEF ListInv
<1>11. ASSUME NEW j \in DOMAIN writes, Refuse(j)
       PROVE  ListInv'
  <2>1. /\ writes[j].state = "sent"
        /\ writes' = [writes EXCEPT ![j].state = "refused"]
        /\ UNCHANGED <<screen, query, error, result, flights, table, raced, unseen,
                       misled>>
    BY <1>11 DEF Refuse, component, history
  <2>2. NoneDone' => NoneDone
    <3>1. ASSUME NEW k \in DOMAIN writes, k # j, NoneDone'
          PROVE  writes[k].state # "done"
      <4>1. k \in DOMAIN writes' /\ writes'[k] = writes[k]
        BY <1>1, <2>1, <3>1
      <4> QED
        BY <3>1, <4>1 DEF NoneDone
    <3> QED
      BY <2>1, <3>1 DEF NoneDone
  <2> QED
    BY <1>5, <2>1, <2>2
<1>12. ASSUME NEW i \in DOMAIN flights, Receive(i) \/ Fail(i)
       PROVE  ListInv'
  <2>1. flights' = RemoveAt(flights, i)
    BY <1>12 DEF Receive, Fail
  <2>2. ~raced => flights' = << >> /\ i = 1
    <3> SUFFICES ASSUME ~raced PROVE flights' = << >> /\ i = 1
      OBVIOUS
    <3>1. i = 1 /\ Len(flights) = 1
      BY <1>1, <1>12 DEF OneFlight
    <3>2. flights' \in Seq(Flight) /\ Len(flights') = Len(flights) - 1
      BY <1>1, <2>1, RemoveAtFacts
    <3> QED
      BY <3>1, <3>2
  <2>3. UNCHANGED <<screen, query, writes, table, raced, unseen, misled>>
    BY <1>12 DEF Receive, Fail, history
  <2>4. /\ CurrentPath' = CurrentPath
        /\ RowsNow(CurrentPath)' = RowsNow(CurrentPath)
        /\ TotalNow(CurrentPath)' = TotalNow(CurrentPath)
    BY <1>2, <2>3, SameAnswer
  <2>5. CASE Fail(i)
    <3>1. error'
      BY <2>5 DEF Fail
    <3>2. OneFlight' /\ UpToDate'
      BY <2>2, <2>3, <3>1 DEF OneFlight, UpToDate
    <3> QED
      BY <1>4, <2>3, <3>2 DEF ListInv
  <2>6. CASE Receive(i)
    <3>1. /\ result' \in Answer /\ result'.path = flights[i].path
          /\ flights[i].rows \in {None} \cup RowsNow(flights[i].path) =>
               result'.rows \in RowsNow(flights[i].path)
          /\ flights[i].total \in {None, TotalNow(flights[i].path)} =>
               result'.total = TotalNow(flights[i].path)
      BY <2>6, ReceiveFacts
    <3>2. OneFlight'
      BY <1>1, <2>2, <2>3, <2>4, <3>1 DEF OneFlight
    <3>3. UpToDate'
      <4> SUFFICES ASSUME ~raced', ~unseen', NoneDone'
                   PROVE  /\ flights' = << >> /\ DOMAIN flights' = {}
                          /\ result'.rows \in RowsNow(CurrentPath)'
                          /\ result'.total = TotalNow(CurrentPath)'
        BY DEF UpToDate
      <4>1. ~raced /\ ~unseen /\ NoneDone
        BY <2>3 DEF NoneDone
      <4>2. /\ flights[i].path = CurrentPath
            /\ flights[i].rows \in {None} \cup RowsNow(CurrentPath)
            /\ flights[i].total \in {None, TotalNow(CurrentPath)}
        BY <1>1, <4>1 DEF OneFlight, UpToDate
      <4> QED
        BY <2>2, <2>4, <3>1, <4>1, <4>2
    <3> QED
      BY <1>4, <2>3, <3>2, <3>3 DEF ListInv
  <2> QED
    BY <1>12, <2>5, <2>6
<1>13. ASSUME NEW j \in DOMAIN writes, Written(j)
       PROVE  ListInv'
  <2>1. Send(writes[j].path) /\ UNCHANGED <<screen, query, table, misled>>
    BY <1>13 DEF Written
  <2>2. writes[j].path \in PathRecord
    <3>1. writes[j] \in Write
      BY <1>1
    <3> QED
      BY <3>1 DEF Write
  <2>3. OneFlight' /\ UpToDate'
    BY <1>1, <1>3, <2>1, <2>2, ListSent
  <2> QED
    BY <1>4, <2>1, <2>3 DEF ListInv
<1>14. ASSUME NEW j \in DOMAIN writes, WriteFails(j)
       PROVE  ListInv'
  <2>1. /\ writes' = RemoveAt(writes, j)
        /\ error => error'
        /\ ~unseen' => ~unseen /\ writes[j].state # "done"
        /\ UNCHANGED <<screen, query, result, flights, table, raced, misled>>
    BY <1>14 DEF WriteFails
  <2>2. ASSUME NEW k \in DOMAIN writes \ {j}
        PROVE  \E m \in DOMAIN writes' : writes'[m] = writes[k]
    <3> DEFINE m == IF k < j THEN k ELSE k - 1
    <3>1. /\ DOMAIN writes' = 1..(Len(writes) - 1)
          /\ \A n \in 1..(Len(writes) - 1) :
               writes'[n] = IF n < j THEN writes[n] ELSE writes[n + 1]
      BY <1>1, <2>1, RemoveAtFacts, Zenon
    <3>2. /\ Len(writes) \in Nat /\ j \in 1..Len(writes)
          /\ k \in 1..Len(writes) /\ k # j
      BY <1>1
    <3>3. m \in 1..(Len(writes) - 1) /\ (m < j => m = k) /\ (~(m < j) => m + 1 = k)
      BY <3>2
    <3> QED
      BY <3>1, <3>3
  <2>3. ~unseen' /\ NoneDone' => ~unseen /\ NoneDone
    BY <2>1, <2>2 DEF NoneDone
  <2> QED
    BY <1>5, <2>1, <2>3
<1>15. CASE UNCHANGED vars
  BY <1>5, <1>15 DEF vars, NoneDone
<1> QED
  BY <1>6, <1>7, <1>8, <1>9, <1>10, <1>11, <1>12, <1>13, <1>14, <1>15
     DEF Next, Browse, SettleList, SettleWrite

\* Nothing that the visitor, the network or the server does makes the list wrong
\* without a record of it.
LEMMA ListsAreInOrder == Spec => [](PageInv /\ ListInv)
<1>1. Init => ListInv
  BY ListInvInit
<1>2. PageInv /\ ListInv /\ [Next]_vars => ListInv'
  BY ListInvStep
<1> QED
  BY <1>1, <1>2, PagesAreWellFormed, PTL DEF Spec

\* When everything has settled, what is on display is an error or the list that
\* the filters select, as the table is by now, whatever the visitor did meanwhile
\* and in whatever order the answers came.
THEOREM ListIsRightAlways == Spec => []ListIsRight
<1>1. PageInv /\ ListInv => ListIsRight
  <2> SUFFICES ASSUME PageInv, ListInv, Quiet, ~raced, ~unseen, ~error
               PROVE  /\ result.path.page = query.page
                      /\ result.total = Cardinality(Selected)
                      /\ \A i \in DOMAIN result.rows :
                            /\ result.rows[i].id \in Selected
                            /\ result.rows[i].row = table[result.rows[i].id]
    BY DEF ListIsRight
  <2>1. NoneDone
    BY DEF Quiet, NoneDone
  <2>2. /\ result.path = CurrentPath
        /\ result.rows \in RowsNow(CurrentPath)
        /\ result.total = TotalNow(CurrentPath)
    BY <2>1 DEF ListInv, OneFlight, UpToDate, Quiet
  <2> QED
    BY <2>2, ListFacts DEF PageInv, ListPart
<1> QED
  BY <1>1, ListsAreInOrder, PTL

\* A page without rows of a list that has some is met only after a write has
\* changed the table, the URL has set a project, or the pager has counted another
\* list's rows.
THEOREM EmptyPageHasACauseAlways == Spec => []EmptyPageHasACause
<1>1. PageInv /\ ListInv => EmptyPageHasACause
  <2> SUFFICES ASSUME PageInv, ListInv, Quiet, ~raced, ~unseen, ~error, ~misled,
                      result.rows = << >>
               PROVE  result.total = 0
    BY DEF EmptyPageHasACause
  <2>1. NoneDone
    BY DEF Quiet, NoneDone
  <2>2. result.rows \in RowsNow(CurrentPath) /\ result.total = TotalNow(CurrentPath)
    BY <2>1 DEF ListInv, UpToDate, Quiet
  <2>3. /\ result.total = Cardinality(Selected)
        /\ Cardinality(Selected) \in Nat
        /\ Cardinality(Selected) <= (query.page - 1) * Limit
    BY <2>2, ListFacts DEF PageInv, ListPart
  <2>4. (query.page - 1) * Limit \in Nat /\ (1 - 1) * Limit = 0
    <3>1. query.page - 1 \in Nat
      BY BoundAssumption DEF PageInv, ListPart, ListState, QueryOf
    <3> QED
      BY <3>1, PagesGrow, LimitAssumption
  <2>5. query.page = 1
    BY <2>3, <2>4 DEF ListInv, PageHasRows
  <2> QED
    BY <2>3, <2>4, <2>5
<1> QED
  BY <1>1, ListsAreInOrder, PTL
=================================================================================
