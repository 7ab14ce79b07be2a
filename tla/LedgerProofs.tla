---------------------------- MODULE LedgerProofs ----------------------------
(***************************************************************************)
(* What the ledger of a user is worth, and what one row more does to it,   *)
(* for any number of rows.                                                 *)
(*                                                                         *)
(* Total folds over a set of rows with a recursive function.  Such a       *)
(* function is the one chosen to satisfy its equation: it is shown to      *)
(* exist and to be the only one, by induction over the subsets of a finite *)
(* set, each time as the absence of a least counterexample (LeastSet).     *)
(***************************************************************************)
EXTENDS Ledger, FiniteSetTheorems, TLAPS

\* A non-empty set of subsets of a finite set has a least element.
LEMMA LeastSet ==
  ASSUME NEW S, IsFiniteSet(S), NEW T \in SUBSET SUBSET S, T # {}
  PROVE  \E least \in T : \A s \in T : ~ (s \subseteq least /\ s # least)
  <1> DEFINE R == StrictSubsetOrdering(S)
  <1>1. IsWellFoundedOn(R, SUBSET S)
    BY FS_StrictSubsetOrderingWellFounded, FS_FiniteSubsetsOfFinite
  <1> HIDE DEF R
  <1>2. PICK least \in T : \A s \in T : ~ (<<s, least>> \in R)
    BY <1>1, WFMin
  <1>3. ASSUME NEW s \in T, s \subseteq least, s # least PROVE FALSE
    <2>1. <<s, least>> \in R
      BY <1>3 DEF R, StrictSubsetOrdering
    <2> QED
      BY <1>2, <2>1
  <1> QED
    BY <1>3

-----------------------------------------------------------------------------
(* The sum of the amounts of a set of rows, in the collection f *)

\* The element of a set that is summed first.
Any(s) == CHOOSE x \in s : TRUE

Sums(sum, f, S) ==
  sum = [s \in SUBSET S |-> IF s = {} THEN 0 ELSE f[Any(s)].amount + sum[s \ {Any(s)}]]

Sum(f, S) == (CHOOSE g : Sums(g, f, S))[S]

LEMMA AnyFacts ==
  ASSUME NEW s, s # {}
  PROVE  Any(s) \in s /\ s \ {Any(s)} \subseteq s /\ s \ {Any(s)} # s
  BY DEF Any

LEMMA SumsApplied ==
  ASSUME NEW sum, NEW f, NEW S, Sums(sum, f, S), NEW s \in SUBSET S
  PROVE  /\ s = {} => sum[s] = 0
         /\ s # {} => sum[s] = f[Any(s)].amount + sum[s \ {Any(s)}]
  BY DEF Sums

\* Two functions that sum agree where both do.
LEMMA SumsAgree ==
  ASSUME NEW f, NEW S, NEW R, NEW sum, Sums(sum, f, S), NEW other, Sums(other, f, R),
         NEW s \in SUBSET S, s \in SUBSET R, IsFiniteSet(s)
  PROVE  sum[s] = other[s]
  <1> DEFINE T == {r \in SUBSET s : sum[r] # other[r]}
  <1> SUFFICES ASSUME T # {} PROVE FALSE
    OBVIOUS
  <1>0. T \in SUBSET SUBSET s
    OBVIOUS
  <1>1. PICK r \in T : \A q \in T : ~ (q \subseteq r /\ q # r)
    <2> HIDE DEF T
    <2> QED
      BY <1>0, LeastSet
  <1>2. r # {}
    BY SumsApplied
  <1>3. sum[r \ {Any(r)}] = other[r \ {Any(r)}]
    BY <1>1, <1>2, AnyFacts
  <1>4. r \in SUBSET S /\ r \in SUBSET R
    OBVIOUS
  <1> QED
    BY <1>2, <1>3, <1>4, SumsApplied

\* There is a function that sums: from those that sum over the strict subsets of
\* a least set over which none does, one that does would be put together.
LEMMA SumsExist ==
  ASSUME NEW f, NEW S, IsFiniteSet(S)
  PROVE  \E sum : Sums(sum, f, S)
  <1> DEFINE T == {s \in SUBSET S : ~ \E sum : Sums(sum, f, s)}
  <1> SUFFICES ASSUME T # {} PROVE FALSE
    OBVIOUS
  <1>0. T \in SUBSET SUBSET S
    OBVIOUS
  <1>1. PICK s \in T : \A q \in T : ~ (q \subseteq s /\ q # s)
    <2> HIDE DEF T
    <2> QED
      BY <1>0, LeastSet
  <1>2. IsFiniteSet(s) /\ \A q \in SUBSET s : IsFiniteSet(q) /\ q \in SUBSET S
    BY FS_Subset
  <1>3. ASSUME NEW q \in SUBSET s, q # s
        PROVE  Sums(CHOOSE g : Sums(g, f, q), f, q)
    <2>1. \E sum : Sums(sum, f, q)
      BY <1>1, <1>2, <1>3
    <2> QED
      BY <2>1
  <1> DEFINE Part(q) == CHOOSE g : Sums(g, f, q)
             whole   == [q \in SUBSET s |->
                           IF q = {} THEN 0
                           ELSE f[Any(q)].amount + Part(q \ {Any(q)})[q \ {Any(q)}]]
  <1>4. ASSUME NEW q \in SUBSET s, q # s PROVE whole[q] = Part(q)[q]
    <2>1. Sums(Part(q), f, q)
      BY <1>3, <1>4
    <2> HIDE DEF Part
    <2>2. CASE q = {}
      BY <2>1, <2>2, SumsApplied
    <2>3. CASE q # {}
      <3> DEFINE r == q \ {Any(q)}
      <3>1. r \in SUBSET q /\ r \in SUBSET s /\ r # s
        BY <1>4, <2>3, AnyFacts
      <3>2. Sums(Part(r), f, r)
        BY <3>1, <1>3 DEF Part
      <3>3. Part(q)[r] = Part(r)[r]
        BY <2>1, <3>1, <3>2, <1>2, SumsAgree
      <3>4. Part(q)[q] = f[Any(q)].amount + Part(q)[r]
        BY <2>1, <2>3, SumsApplied
      <3> QED
        BY <2>3, <3>3, <3>4
    <2> QED
      BY <2>2, <2>3
  <1>5. ASSUME NEW q \in SUBSET s, q # {}
        PROVE  whole[q] = f[Any(q)].amount + whole[q \ {Any(q)}]
    <2>1. q \ {Any(q)} \in SUBSET s /\ q \ {Any(q)} # s
      BY <1>5, AnyFacts
    <2>2. whole[q \ {Any(q)}] = Part(q \ {Any(q)})[q \ {Any(q)}]
      BY <2>1, <1>4
    <2> HIDE DEF Part
    <2> QED
      BY <1>5, <2>2
  <1>6. Sums(whole, f, s)
    <2>1. \A q \in SUBSET s :
            whole[q] = IF q = {} THEN 0 ELSE f[Any(q)].amount + whole[q \ {Any(q)}]
      <3> TAKE q \in SUBSET s
      <3>1. CASE q = {}
        BY <3>1
      <3>2. CASE q # {}
        <4> HIDE DEF whole
        <4> QED
          BY <1>5, <3>2
      <3> QED
        BY <3>1, <3>2
    <2>2. whole = [q \in SUBSET s |-> whole[q]]
      OBVIOUS
    <2> HIDE DEF whole
    <2> QED
      BY <2>1, <2>2, Zenon DEF Sums
  <1> HIDE DEF whole
  <1> QED
    BY <1>6

\* The equations of Sum.
LEMMA SumIsSum ==
  ASSUME NEW f, NEW S, IsFiniteSet(S)
  PROVE  Sums(CHOOSE g : Sums(g, f, S), f, S)
  BY SumsExist

LEMMA SumEmpty == ASSUME NEW f PROVE Sum(f, {}) = 0
  BY SumIsSum, SumsApplied, FS_EmptySet DEF Sum

LEMMA SumFirst ==
  ASSUME NEW f, NEW S, IsFiniteSet(S), S # {}
  PROVE  Sum(f, S) = f[Any(S)].amount + Sum(f, S \ {Any(S)})
  <1> DEFINE r == S \ {Any(S)}
             sum == CHOOSE g : Sums(g, f, S)
             rest == CHOOSE g : Sums(g, f, r)
  <1>1. r \in SUBSET S /\ IsFiniteSet(r)
    BY FS_Subset
  <1>2. Sums(sum, f, S) /\ Sums(rest, f, r)
    BY <1>1, SumIsSum
  <1>3. Sum(f, S) = sum[S] /\ Sum(f, r) = rest[r]
    BY DEF Sum
  <1> HIDE DEF sum, rest
  <1>4. sum[r] = rest[r]
    BY <1>1, <1>2, SumsAgree
  <1>5. sum[S] = f[Any(S)].amount + sum[r]
    BY <1>2, SumsApplied
  <1> QED
    BY <1>3, <1>4, <1>5

LEMMA TotalIsSum == ASSUME NEW S PROVE Total(S) = Sum(txn, S)
  BY Zenon DEF Total, MapThenSumSet, MapThenFoldSet, Sum, Sums, Any

-----------------------------------------------------------------------------
(* Facts about sums *)

LEMMA SumNat ==
  ASSUME NEW f, NEW S, IsFiniteSet(S), \A t \in S : f[t].amount \in Nat
  PROVE  Sum(f, S) \in Nat
  <1> DEFINE T == {s \in SUBSET S : Sum(f, s) \notin Nat}
  <1> SUFFICES ASSUME T # {} PROVE FALSE
    OBVIOUS
  <1>0. T \in SUBSET SUBSET S
    OBVIOUS
  <1>1. PICK s \in T : \A q \in T : ~ (q \subseteq s /\ q # s)
    <2> HIDE DEF T
    <2> QED
      BY <1>0, LeastSet
  <1>2. s # {}
    BY SumEmpty
  <1>3. IsFiniteSet(s)
    BY FS_Subset
  <1>4. Sum(f, s \ {Any(s)}) \in Nat
    BY <1>1, <1>2, AnyFacts
  <1>5. f[Any(s)].amount \in Nat
    BY <1>2, AnyFacts
  <1> QED
    BY <1>2, <1>3, <1>4, <1>5, SumFirst

\* It does not matter which element is taken away first.
LEMMA SumRemove ==
  ASSUME NEW f, NEW S, IsFiniteSet(S), \A t \in S : f[t].amount \in Nat, NEW t \in S
  PROVE  Sum(f, S) = f[t].amount + Sum(f, S \ {t})
  <1> DEFINE T == {s \in SUBSET S : \E x \in s : Sum(f, s) # f[x].amount + Sum(f, s \ {x})}
  <1> SUFFICES ASSUME T # {} PROVE FALSE
    OBVIOUS
  <1>0. T \in SUBSET SUBSET S
    OBVIOUS
  <1>1. PICK s \in T : \A q \in T : ~ (q \subseteq s /\ q # s)
    <2> HIDE DEF T
    <2> QED
      BY <1>0, LeastSet
  <1>2. PICK x \in s : Sum(f, s) # f[x].amount + Sum(f, s \ {x})
    OBVIOUS
  <1>3. PICK y : y = Any(s)
    OBVIOUS
  <1>4. /\ y \in s /\ s \subseteq S
        /\ IsFiniteSet(s) /\ IsFiniteSet(s \ {x}) /\ IsFiniteSet((s \ {x}) \ {y})
    BY <1>2, <1>3, AnyFacts, FS_Subset
  <1>5. Sum(f, s) = f[y].amount + Sum(f, s \ {y})
    BY <1>3, <1>4, SumFirst
  <1>6. x # y
    BY <1>2, <1>5
  <1>7. Sum(f, s \ {y}) = f[x].amount + Sum(f, (s \ {y}) \ {x})
    <2>1. s \ {y} \in SUBSET S /\ s \ {y} \subseteq s /\ s \ {y} # s /\ x \in s \ {y}
      BY <1>4, <1>6
    <2> QED
      BY <1>1, <2>1
  <1>8. Sum(f, s \ {x}) = f[y].amount + Sum(f, (s \ {x}) \ {y})
    <2>1. s \ {x} \in SUBSET S /\ s \ {x} \subseteq s /\ s \ {x} # s /\ y \in s \ {x}
      BY <1>4, <1>6
    <2> QED
      BY <1>1, <2>1
  <1>9. (s \ {y}) \ {x} = (s \ {x}) \ {y}
    OBVIOUS
  <1>10. /\ f[x].amount \in Nat /\ f[y].amount \in Nat
         /\ Sum(f, (s \ {x}) \ {y}) \in Nat
    BY <1>4, SumNat
  <1>11. PICK n : n = Sum(f, (s \ {x}) \ {y})
    OBVIOUS
  <1>12. Sum(f, s) = f[y].amount + (f[x].amount + n) /\ Sum(f, s \ {x}) = f[y].amount + n
    BY <1>5, <1>7, <1>8, <1>9, <1>11
  <1>13. n \in Nat
    BY <1>10, <1>11
  <1> QED
    BY <1>2, <1>10, <1>12, <1>13

LEMMA SumAgree ==
  ASSUME NEW f, NEW g, NEW S, IsFiniteSet(S), \A t \in S : f[t].amount = g[t].amount
  PROVE  Sum(f, S) = Sum(g, S)
  <1> DEFINE T == {s \in SUBSET S : Sum(f, s) # Sum(g, s)}
  <1> SUFFICES ASSUME T # {} PROVE FALSE
    OBVIOUS
  <1>0. T \in SUBSET SUBSET S
    OBVIOUS
  <1>1. PICK s \in T : \A q \in T : ~ (q \subseteq s /\ q # s)
    <2> HIDE DEF T
    <2> QED
      BY <1>0, LeastSet
  <1>2. s # {}
    BY SumEmpty
  <1>3. IsFiniteSet(s)
    BY FS_Subset
  <1>4. Sum(f, s \ {Any(s)}) = Sum(g, s \ {Any(s)})
    BY <1>1, <1>2, AnyFacts
  <1>5. f[Any(s)].amount = g[Any(s)].amount
    BY <1>2, AnyFacts
  <1> QED
    BY <1>2, <1>3, <1>4, <1>5, SumFirst

LEMMA SumAdd ==
  ASSUME NEW f, NEW S, IsFiniteSet(S), NEW t, t \notin S,
         \A x \in S \cup {t} : f[x].amount \in Nat
  PROVE  Sum(f, S \cup {t}) = Sum(f, S) + f[t].amount
  <1>1. IsFiniteSet(S \cup {t}) /\ (S \cup {t}) \ {t} = S
    BY FS_AddElement
  <1>2. Sum(f, S \cup {t}) = f[t].amount + Sum(f, S)
    BY <1>1, SumRemove
  <1>3. Sum(f, S) \in Nat /\ f[t].amount \in Nat
    BY SumNat
  <1> QED
    BY <1>2, <1>3

-----------------------------------------------------------------------------
(* The worth of a ledger, and what one row more does to it *)

\* RowsOf and LedgerBalance, of any collection f of rows.
Settled(f, u, types) ==
  {t \in DOMAIN f : f[t].user = u /\ f[t].type \in types /\ f[t].status = "COMPLETED"}

Worth(f, u) ==
  Opening[u] + Sum(f, Settled(f, u, CreditType)) - Sum(f, Settled(f, u, DebitType))

IsLedger(f) == f \in [DOMAIN f -> Row] /\ IsFiniteSet(DOMAIN f)

\* What a row adds to the wallet of u.
Effect(row, u) ==
  IF row.status = "COMPLETED" /\ row.user = u
    THEN IF row.type \in CreditType THEN row.amount ELSE 0 - row.amount
    ELSE 0

LEMMA LedgerIsWorth == ASSUME NEW u PROVE LedgerBalance(u) = Worth(txn, u)
  BY TotalIsSum, Zenon DEF LedgerBalance, Worth, RowsOf, Settled

LEMMA NextLedgerIsWorth == ASSUME NEW u PROVE LedgerBalance(u)' = Worth(txn', u)
  <1>1. ASSUME NEW S PROVE Total(S)' = Sum(txn', S)
    BY Zenon DEF Total, MapThenSumSet, MapThenFoldSet, Sum, Sums, Any
  <1> QED
    BY <1>1, Zenon DEF LedgerBalance, Worth, RowsOf, Settled

LEMMA SettledFacts ==
  ASSUME NEW f, IsLedger(f), NEW u, NEW types
  PROVE  /\ IsFiniteSet(Settled(f, u, types))
         /\ \A t \in Settled(f, u, types) : f[t].amount \in Nat
         /\ Sum(f, Settled(f, u, types)) \in Nat
  <1>1. Settled(f, u, types) \in SUBSET DOMAIN f
    BY DEF Settled
  <1>2. IsFiniteSet(Settled(f, u, types))
    BY <1>1, FS_Subset DEF IsLedger
  <1>3. \A t \in Settled(f, u, types) : f[t].amount \in Nat
    BY <1>1 DEF IsLedger, Row
  <1> QED
    BY <1>2, <1>3, SumNat

LEMMA WorthInt == ASSUME NEW f, IsLedger(f), NEW u \in User PROVE Worth(f, u) \in Int
  BY SettledFacts, OpeningAssumption DEF Worth

\* g is f but for row t, which f does not have or has not as COMPLETED.
LEMMA SumOfOneMore ==
  ASSUME NEW f, IsLedger(f), NEW g, IsLedger(g), NEW t, DOMAIN g = DOMAIN f \cup {t},
         t \in DOMAIN f => f[t].status # "COMPLETED",
         \A x \in DOMAIN f \ {t} : g[x] = f[x],
         NEW u, NEW types
  PROVE  Sum(g, Settled(g, u, types)) =
           Sum(f, Settled(f, u, types)) + (IF t \in Settled(g, u, types) THEN g[t].amount ELSE 0)
  <1>1. t \notin Settled(f, u, types)
    BY DEF Settled
  <1>2. /\ t \in Settled(g, u, types) => Settled(g, u, types) = Settled(f, u, types) \cup {t}
        /\ t \notin Settled(g, u, types) => Settled(g, u, types) = Settled(f, u, types)
    <2>1. \A x \in DOMAIN f \ {t} : x \in Settled(g, u, types) <=> x \in Settled(f, u, types)
      BY DEF Settled
    <2>2. Settled(g, u, types) \subseteq DOMAIN f \cup {t} /\ Settled(f, u, types) \subseteq DOMAIN f
      BY DEF Settled
    <2> QED
      BY <1>1, <2>1, <2>2
  <1>3. Sum(g, Settled(f, u, types)) = Sum(f, Settled(f, u, types))
    <2>1. \A x \in Settled(f, u, types) : g[x].amount = f[x].amount
      BY <1>1 DEF Settled
    <2> QED
      BY <2>1, SettledFacts, SumAgree
  <1>4. CASE t \in Settled(g, u, types)
    <2>1. \A x \in Settled(f, u, types) \cup {t} : g[x].amount \in Nat
      BY <1>2, <1>4, SettledFacts
    <2>2. Sum(g, Settled(f, u, types) \cup {t}) = Sum(g, Settled(f, u, types)) + g[t].amount
      BY <1>1, <2>1, SettledFacts, SumAdd
    <2> QED
      BY <1>2, <1>3, <1>4, <2>2
  <1>5. CASE t \notin Settled(g, u, types)
    BY <1>2, <1>3, <1>5, SettledFacts
  <1> QED
    BY <1>4, <1>5

LEMMA WorthOfOneMore ==
  ASSUME NEW f, IsLedger(f), NEW g, IsLedger(g), NEW t, DOMAIN g = DOMAIN f \cup {t},
         t \in DOMAIN f => f[t].status # "COMPLETED",
         \A x \in DOMAIN f \ {t} : g[x] = f[x],
         NEW u \in User
  PROVE  Worth(g, u) = Worth(f, u) + Effect(g[t], u)
  <1> DEFINE credits == Sum(f, Settled(f, u, CreditType))
             debits  == Sum(f, Settled(f, u, DebitType))
             credit  == IF t \in Settled(g, u, CreditType) THEN g[t].amount ELSE 0
             debit   == IF t \in Settled(g, u, DebitType) THEN g[t].amount ELSE 0
  <1>1. /\ Sum(g, Settled(g, u, CreditType)) = credits + credit
        /\ Sum(g, Settled(g, u, DebitType)) = debits + debit
    BY SumOfOneMore
  <1>2. credits \in Nat /\ debits \in Nat /\ Opening[u] \in Nat
    BY SettledFacts, OpeningAssumption
  <1>3. g[t] \in Row /\ t \in DOMAIN g
    BY DEF IsLedger
  <1>4. credit \in Nat /\ debit \in Nat /\ credit - debit = Effect(g[t], u)
    BY <1>3 DEF Settled, Effect, Row, CreditType, DebitType
  <1>5. Worth(f, u) = Opening[u] + credits - debits
    BY DEF Worth
  <1>6. Worth(g, u) = Opening[u] + (credits + credit) - (debits + debit)
    BY <1>1 DEF Worth
  <1> HIDE DEF credits, debits, credit, debit
  <1> QED
    BY <1>2, <1>4, <1>5, <1>6
=============================================================================
