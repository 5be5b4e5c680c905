--------------------------- MODULE AmountsProofs ---------------------------
(***************************************************************************)
(* What adding and removing a row does to a total.                         *)
(***************************************************************************)
EXTENDS Amounts, FiniteSetTheorems, TLAPS

\* The rows whose total is meant: their units can be counted.
Countable(rows) == IsFiniteSet(Credited(rows)) /\ IsFiniteSet(Debited(rows))

\* The units of one row.
LEMMA Block ==
    ASSUME NEW k, NEW n \in Int
    PROVE  /\ IsFiniteSet({k} \X (1 .. n))
           /\ Cardinality({k} \X (1 .. n)) = IF n > 0 THEN n ELSE 0
<1> DEFINE S == 1 .. n
           T == {k} \X S
           f == [m \in S |-> <<k, m>>]
<1>1. IsFiniteSet(S) /\ Cardinality(S) = IF n > 0 THEN n ELSE 0
  BY FS_Interval
<1>2. f \in Bijection(S, T)
  <2>1. f \in [S -> T] /\ \A a, b \in S : f[a] = f[b] => a = b
    OBVIOUS
  <2>2. \A t \in T : \E m \in S : f[m] = t
    OBVIOUS
  <2> HIDE DEF f, S, T
  <2> QED
    BY <2>1, <2>2 DEF Bijection, Injection, IsInjective, Surjection
<1>3. ExistsBijection(S, T)
  BY <1>2 DEF ExistsBijection
<1> HIDE DEF S, T
<1>4. IsFiniteSet(T) /\ Cardinality(T) = Cardinality(S)
  BY <1>1, <1>3, FS_Bijection
<1> QED
  BY <1>1, <1>4 DEF S, T

\* Nothing adds up to nothing.
LEMMA TotalOfNone == Countable({}) /\ Total({}) = 0
<1>1. Credited({}) = {} /\ Debited({}) = {}
  BY DEF Credited, Debited
<1> QED
  BY <1>1, FS_EmptySet DEF Countable, Total

\* The units of a new row are new ones.
LEMMA UnionDisjoint ==
    ASSUME NEW S, IsFiniteSet(S), NEW T, IsFiniteSet(T), S \cap T = {}
    PROVE  /\ IsFiniteSet(S \cup T)
           /\ Cardinality(S \cup T) = Cardinality(S) + Cardinality(T)
           /\ Cardinality(S) \in Nat /\ Cardinality(T) \in Nat
<1>1. Cardinality(S) \in Nat /\ Cardinality(T) \in Nat
  BY FS_CardinalityType
<1>2. Cardinality(S \cap T) = 0
  BY FS_EmptySet
<1>3. /\ IsFiniteSet(S \cup T)
      /\ Cardinality(S \cup T) = Cardinality(S) + Cardinality(T) - Cardinality(S \cap T)
  BY FS_Union
<1>4. PICK s, t : s = Cardinality(S) /\ t = Cardinality(T)
  OBVIOUS
<1>5. s \in Nat /\ t \in Nat => s + t - 0 = s + t
  OBVIOUS
<1>6. Cardinality(S \cup T) = s + t - 0
  BY <1>2, <1>3, <1>4, Zenon
<1> QED
  BY <1>1, <1>3, <1>4, <1>5, <1>6, Zenon

\* A row with a new id adds its amount.
LEMMA TotalAdd ==
    ASSUME NEW rows, Countable(rows), NEW x, x.amt \in Int,
           \A r \in rows : r.id # x.id
    PROVE  /\ Countable(rows \cup {x})
           /\ Total(rows \cup {x}) = Total(rows) + x.amt
           /\ Total(rows) \in Int
<1> DEFINE up == {x.id} \X (1 .. x.amt)
           down == {x.id} \X (1 .. -x.amt)
<1>1. /\ IsFiniteSet(up) /\ Cardinality(up) = IF x.amt > 0 THEN x.amt ELSE 0
      /\ IsFiniteSet(down) /\ Cardinality(down) = IF -x.amt > 0 THEN -x.amt ELSE 0
  <2>1. -x.amt \in Int
    OBVIOUS
  <2> QED
    BY <2>1, Block, Zenon
<1>2. /\ Credited(rows \cup {x}) = Credited(rows) \cup up
      /\ Debited(rows \cup {x}) = Debited(rows) \cup down
  BY DEF Credited, Debited
<1>3. Credited(rows) \cap up = {} /\ Debited(rows) \cap down = {}
  BY DEF Credited, Debited
<1> HIDE DEF up, down
<1>4. /\ IsFiniteSet(Credited(rows \cup {x}))
      /\ Cardinality(Credited(rows \cup {x})) = Cardinality(Credited(rows)) + Cardinality(up)
      /\ Cardinality(Credited(rows)) \in Nat
  <2>1. IsFiniteSet(Credited(rows)) /\ IsFiniteSet(up) /\ Credited(rows) \cap up = {}
    BY <1>1, <1>3 DEF Countable
  <2>2. Credited(rows \cup {x}) = Credited(rows) \cup up
    BY <1>2
  <2> QED
    BY <2>1, <2>2, UnionDisjoint, Zenon
<1>5. /\ IsFiniteSet(Debited(rows \cup {x}))
      /\ Cardinality(Debited(rows \cup {x})) = Cardinality(Debited(rows)) + Cardinality(down)
      /\ Cardinality(Debited(rows)) \in Nat
  <2>1. IsFiniteSet(Debited(rows)) /\ IsFiniteSet(down) /\ Debited(rows) \cap down = {}
    BY <1>1, <1>3 DEF Countable
  <2>2. Debited(rows \cup {x}) = Debited(rows) \cup down
    BY <1>2
  <2> QED
    BY <2>1, <2>2, UnionDisjoint, Zenon
<1> QED
  BY <1>1, <1>4, <1>5 DEF Countable, Total

\* Any part of countable rows is countable.
LEMMA CountablePart ==
    ASSUME NEW rows, Countable(rows), NEW part, part \subseteq rows
    PROVE  Countable(part)
<1>1. Credited(part) \subseteq Credited(rows) /\ Debited(part) \subseteq Debited(rows)
  BY DEF Credited, Debited
<1> QED
  BY <1>1, FS_Subset DEF Countable

\* A row that is taken away takes its amount with it.
LEMMA TotalRemove ==
    ASSUME NEW rows, Countable(rows), NEW x \in rows, x.amt \in Int,
           \A r \in rows : r.id = x.id => r = x
    PROVE  /\ Countable(rows \ {x})
           /\ Total(rows \ {x}) = Total(rows) - x.amt
           /\ Total(rows) \in Int
<1> DEFINE rest == rows \ {x}
<1>1. Countable(rest)
  BY CountablePart
<1>2. rest \cup {x} = rows /\ \A r \in rest : r.id # x.id
  OBVIOUS
<1> HIDE DEF rest
<1>3. Total(rows) = Total(rest) + x.amt /\ Total(rest) \in Int
  BY <1>1, <1>2, TotalAdd
<1> QED
  BY <1>1, <1>3 DEF rest

\* Rows that debit nothing do not add up to less than nothing.
LEMMA TotalOfCredits ==
    ASSUME NEW rows, Countable(rows), \A r \in rows : r.amt \in Nat
    PROVE  Total(rows) \in Nat
<1>1. Debited(rows) = {}
  BY DEF Debited
<1> QED
  BY <1>1, FS_EmptySet, FS_CardinalityType DEF Countable, Total

=============================================================================
