---------------------------- MODULE ReturnsProofs ----------------------------
(* Returns and credits, for any number of lines, returns, inspections and    *)
(* decisions and any quantities and taxes.                                   *)
EXTENDS Returns, Shelf, Attachments, FiniteSetTheorems, TLAPS

-----------------------------------------------------------------------------
(* Division.                                                               *)

LEMMA Division ==
  ASSUME NEW a \in Nat, NEW c \in Nat, c > 0
  PROVE  a \div c \in Nat /\ c * (a \div c) <= a /\ a < c * (a \div c) + c
  OBVIOUS

LEMMA DivisionMonotone ==
  ASSUME NEW a \in Nat, NEW b \in Nat, NEW c \in Nat, c > 0, a <= b
  PROVE  a \div c <= b \div c
<1> DEFINE m == a \div c
           n == b \div c
<1>1. m \in Nat /\ n \in Nat /\ c * m <= a /\ b < c * n + c
  BY Division
<1>2. c * m < c * (n + 1)
  <2>1. c * (n + 1) = c * n + c
    BY <1>1
  <2> QED
    BY <1>1, <2>1
<1> HIDE DEF m, n
<1>3. m < n + 1
  BY <1>1, <1>2
<1> QED
  BY <1>1, <1>3 DEF m, n

LEMMA DivisionExact ==
  ASSUME NEW t \in Nat, NEW c \in Nat, c > 0, NEW h \in Nat, h < c
  PROVE  (t * c + h) \div c = t
<1> DEFINE n == (t * c + h) \div c
<1>0. t * c \in Nat /\ t * c + h \in Nat
  OBVIOUS
<1>1. n \in Nat /\ c * n <= t * c + h /\ t * c + h < c * n + c
  BY <1>0, Division
<1> HIDE DEF n
<1>2. c * n < c * (t + 1) /\ c * t < c * (n + 1)
  BY <1>1
<1>3. n < t + 1 /\ t < n + 1
  BY <1>1, <1>2
<1> QED
  BY <1>1, <1>3 DEF n

\* More units have no less tax, all of them have the tax of the line.
LEMMA Taxing ==
  ASSUME NEW l \in Line
  PROVE  /\ \A m, n \in Nat : TargetTax(l, m) \in Nat /\ (m <= n => TargetTax(l, m) <= TargetTax(l, n))
         /\ TargetTax(l, 0) = 0
         /\ TargetTax(l, Shipped[l]) = Tax[l]
<1> DEFINE c == Shipped[l]
           t == Tax[l]
           h == c \div 2
<1>1. c \in Nat /\ c > 0 /\ t \in Nat /\ h \in Nat /\ h < c
  BY ReturnsAssumption
<1> HIDE DEF c, t, h
<1>2. \A n \in Nat : TargetTax(l, n) = (t * n + h) \div c
  BY DEF TargetTax, c, t, h
<1>3. ASSUME NEW m \in Nat, NEW n \in Nat, m <= n
      PROVE  (t * m + h) \div c \in Nat /\ (t * m + h) \div c <= (t * n + h) \div c
  <2>1. t * m \in Nat /\ t * n \in Nat /\ t * m <= t * n
    BY <1>1, <1>3
  <2> QED
    BY <1>1, <2>1, Division, DivisionMonotone
<1>4. TargetTax(l, c) = t
  BY <1>1, <1>2, DivisionExact
<1>5. TargetTax(l, 0) = 0
  <2>1. (0 * c + h) \div c = 0
    BY <1>1, DivisionExact
  <2> QED
    BY <1>1, <1>2, <2>1
<1> QED
  BY <1>1, <1>2, <1>3, <1>4, <1>5 DEF c, t

-----------------------------------------------------------------------------
(* Sums.                                                                   *)

\* The sum of natural numbers over a finite set is one.
LEMMA UnitsFinite ==
  ASSUME NEW S, NEW f, IsFiniteSet(S), \A x \in S : f[x] \in Nat
  PROVE  IsFiniteSet(Units(S, f)) /\ Sum(S, f) \in Nat
<1> DEFINE of == [x \in S |-> {x} \X (1..f[x])]
           all == {{x} \X (1..f[x]) : x \in S}
<1>1. of \in Surjection(S, all)
  BY DEF Surjection
<1>2. IsFiniteSet(all)
  BY <1>1, FS_Surjection
<1>3. \A T \in all : IsFiniteSet(T)
  <2> SUFFICES ASSUME NEW x \in S PROVE IsFiniteSet({x} \X (1..f[x]))
    OBVIOUS
  <2>1. f[x] \in Int
    OBVIOUS
  <2>2. IsFiniteSet(1..f[x])
    BY <2>1, FS_Interval
  <2>3. IsFiniteSet({x})
    BY FS_Singleton, Zenon
  <2> QED
    BY <2>2, <2>3, FS_Product
<1>4. Units(S, f) = UNION all
  BY DEF Units
<1> HIDE DEF all
<1>5. IsFiniteSet(Units(S, f))
  BY <1>2, <1>3, <1>4, FS_UNION
<1> QED
  BY <1>5, FS_CardinalityType DEF Sum

\* A sum of no more elements, none of them larger, is no larger.
LEMMA SumMonotone ==
  ASSUME NEW S, NEW T, NEW f, NEW g, IsFiniteSet(T), S \subseteq T,
         \A x \in T : f[x] \in Nat /\ g[x] \in Nat,
         \A x \in S : f[x] <= g[x]
  PROVE  Sum(S, f) <= Sum(T, g)
<1>1. Units(S, f) \subseteq Units(T, g)
  BY DEF Units
<1> QED
  BY <1>1, UnitsFinite, FS_Subset DEF Sum

\* A sum of zeros is zero.
LEMMA SumZero ==
  ASSUME NEW S, NEW f, \A x \in S : f[x] = 0 PROVE Sum(S, f) = 0
<1>1. Units(S, f) = {}
  BY DEF Units
<1> QED
  BY <1>1, FS_EmptySet DEF Sum

\* A sum depends on the elements of its set only.
LEMMA SumSame ==
  ASSUME NEW S, NEW f, NEW g, \A x \in S : f[x] = g[x]
  PROVE  Sum(S, f) = Sum(S, g)
<1>1. Units(S, f) = Units(S, g)
  BY DEF Units
<1> QED
  BY <1>1 DEF Sum

\* A sum in which one element is larger by a, or new.
LEMMA SumAdds ==
  ASSUME NEW S, NEW T, NEW f, NEW g, NEW x \in T, NEW a \in Nat,
         IsFiniteSet(S), S \subseteq T, T \subseteq S \cup {x},
         \A y \in S : f[y] \in Nat,
         \A y \in T \ {x} : g[y] = f[y],
         g[x] = (IF x \in S THEN f[x] ELSE 0) + a
  PROVE  Sum(T, g) = Sum(S, f) + a
<1> DEFINE old == IF x \in S THEN f[x] ELSE 0
           extra == {x} \X ((old + 1)..(old + a))
<1>1. old \in Nat /\ g[x] = old + a
  OBVIOUS
<1> HIDE DEF old
<1>2. IsFiniteSet(extra) /\ Cardinality(extra) = a
  <2>1. /\ IsFiniteSet((old + 1)..(old + a))
        /\ Cardinality((old + 1)..(old + a))
             = IF old + 1 > old + a THEN 0 ELSE (old + a) - (old + 1) + 1
    BY <1>1, FS_Interval
  <2>2. IsFiniteSet({x}) /\ Cardinality({x}) = 1
    BY FS_Singleton, Zenon
  <2>3. /\ IsFiniteSet(extra)
        /\ Cardinality(extra) = Cardinality({x}) * Cardinality((old + 1)..(old + a))
    BY <2>1, <2>2, FS_Product
  <2> QED
    BY <1>1, <2>1, <2>2, <2>3
<1>3. Units(T, g) = Units(S, f) \cup extra
  <2>1. \A p : p \in Units(T, g) <=> \E y \in T : \E k \in 1..g[y] : p = <<y, k>>
    BY DEF Units
  <2>2. \A p : p \in Units(S, f) <=> \E y \in S : \E k \in 1..f[y] : p = <<y, k>>
    BY DEF Units
  <2>3. \A p : p \in extra <=> \E k \in (old + 1)..(old + a) : p = <<x, k>>
    OBVIOUS
  <2>4. ASSUME NEW y \in T, NEW k \in 1..g[y]
        PROVE  <<y, k>> \in Units(S, f) \cup extra
    <3>1. CASE y = x
      <4>1. k \in 1..old \/ k \in (old + 1)..(old + a)
        BY <1>1, <2>4, <3>1
      <4> QED
        BY <3>1, <4>1, <2>2, <2>3 DEF old
    <3>2. CASE y # x
      BY <3>2, <2>4, <2>2
    <3> QED
      BY <3>1, <3>2
  <2>5. ASSUME NEW y \in S, NEW k \in 1..f[y]
        PROVE  <<y, k>> \in Units(T, g)
    <3>1. CASE y = x
      <4>1. k \in 1..g[x]
        BY <1>1, <2>5, <3>1 DEF old
      <4> QED
        BY <3>1, <4>1, <2>1
    <3>2. CASE y # x
      BY <3>2, <2>5, <2>1
    <3> QED
      BY <3>1, <3>2
  <2>6. ASSUME NEW k \in (old + 1)..(old + a) PROVE <<x, k>> \in Units(T, g)
    <3>1. k \in 1..g[x]
      BY <1>1, <2>6
    <3> QED
      BY <3>1, <2>1
  <2> HIDE DEF extra
  <2>7. Units(T, g) \subseteq Units(S, f) \cup extra
    BY <2>1, <2>4
  <2>8. Units(S, f) \subseteq Units(T, g) /\ extra \subseteq Units(T, g)
    BY <2>2, <2>3, <2>5, <2>6
  <2> QED
    BY <2>7, <2>8
<1>4. Units(S, f) \cap extra = {}
  BY <1>1 DEF Units, old
<1>5. IsFiniteSet(Units(S, f)) /\ Cardinality(Units(S, f)) \in Nat
  BY UnitsFinite DEF Sum
<1> HIDE DEF extra
<1>6. Cardinality(Units(S, f) \cup extra) = Cardinality(Units(S, f)) + a - Cardinality({})
  BY <1>2, <1>4, <1>5, FS_Union
<1>7. Cardinality({}) = 0
  BY FS_EmptySet
<1> QED
  BY <1>3, <1>5, <1>6, <1>7 DEF Sum

-----------------------------------------------------------------------------
\* The inductive invariant: every total on its own.
Got == [i \in Inspection |-> IF inspection[i].is = "inspection" THEN inspection[i].received ELSE 0]

Asking ==
  /\ \A p \in ReturnLine : received[p] <= asked[p]
  /\ \A l \in Line : Requested(l) <= Shipped[l]
  /\ \A r \in Return : status[r] = "none" => \A l \in Line : asked[<<r, l>>] = 0

Returning ==
  \A l \in Line :
    /\ Sum(InspectionsOf(l), Got) = Sum(LinesOf(l), received)
    /\ restocked[l] + Sum(LinesOf(l), defective) = Sum(LinesOf(l), received)

Crediting ==
  /\ \A i \in Inspection :
       /\ credit[i].units <= Got[i]
       /\ credit[i].units = 0 => credit[i].tax = 0
  /\ \A l \in Line : TaxCredited(l) = TargetTax(l, Credited(l))

Deciding ==
  /\ \A i \in Inspection :
       /\ inspection[i].is = "inspection" => Disposed(i) <= inspection[i].defective
       /\ inspection[i] = None => DispositionsOf(i) = {}
  /\ \A d \in Disposition :
       /\ disposition[d].is # "none" => resolved[d] <= disposition[d].quantity
       /\ disposition[d] = None => resolved[d] = 0

Books == TypeOK /\ Asking /\ Returning /\ Crediting /\ Deciding /\ StatusTellsProgress

InspectionRow == [is : {"inspection"}, of : ReturnLine, received : Nat \ {0}, defective : Nat]
DispositionRow == [is : {"quarantine", "disposed", "supplier_return"}, of : Inspection,
                   quantity : Nat \ {0}]

\* A row that is there is one of its table.
LEMMA Rows ==
  ASSUME TypeOK
  PROVE  /\ \A i \in Inspection :
              /\ inspection[i].is = "inspection" => inspection[i] \in InspectionRow
              /\ inspection[i] # None => inspection[i].is = "inspection"
         /\ \A d \in Disposition :
              /\ disposition[d].is # "none" => disposition[d] \in DispositionRow
              /\ disposition[d] # None => disposition[d].is # "none"
         /\ None.is = "none"
  BY DEF TypeOK, None, InspectionRow, DispositionRow

\* What is summed is natural, and finitely much of it.
LEMMA Summable ==
  ASSUME TypeOK
  PROVE  /\ \A l \in Line : IsFiniteSet(LinesOf(l)) /\ LinesOf(l) \subseteq ReturnLine
         /\ \A l \in Line : IsFiniteSet(InspectionsOf(l)) /\ InspectionsOf(l) \subseteq Inspection
         /\ \A i \in Inspection : IsFiniteSet(DispositionsOf(i)) /\ DispositionsOf(i) \subseteq Disposition
         /\ \A i \in Inspection : Got[i] \in Nat /\ CreditUnits[i] \in Nat /\ CreditTax[i] \in Nat
         /\ \A d \in Disposition : Quantities[d] \in Nat
<1>1. IsFiniteSet(ReturnLine)
  BY ReturnsAssumption, FS_Product DEF ReturnLine
<1>2. \A l \in Line : IsFiniteSet(LinesOf(l)) /\ LinesOf(l) \subseteq ReturnLine
  BY <1>1, FS_Subset DEF LinesOf
<1>3. \A l \in Line : IsFiniteSet(InspectionsOf(l)) /\ InspectionsOf(l) \subseteq Inspection
  BY ReturnsAssumption, FS_Subset DEF InspectionsOf
<1>4. \A i \in Inspection : IsFiniteSet(DispositionsOf(i)) /\ DispositionsOf(i) \subseteq Disposition
  BY ReturnsAssumption, FS_Subset DEF DispositionsOf
<1>5. \A i \in Inspection : Got[i] \in Nat
  BY Rows DEF Got, InspectionRow
<1>6. \A i \in Inspection : CreditUnits[i] \in Nat /\ CreditTax[i] \in Nat
  BY DEF TypeOK, CreditUnits, CreditTax
<1>7. \A d \in Disposition : Quantities[d] \in Nat
  BY Rows DEF Quantities, DispositionRow
<1> QED
  BY <1>2, <1>3, <1>4, <1>5, <1>6, <1>7

\* The sums of a line are natural.
LEMMA SumsAreNatural ==
  ASSUME TypeOK, NEW l \in Line
  PROVE  /\ Requested(l) \in Nat /\ Credited(l) \in Nat /\ TaxCredited(l) \in Nat
         /\ Sum(LinesOf(l), received) \in Nat /\ Sum(LinesOf(l), defective) \in Nat
         /\ Sum(InspectionsOf(l), Got) \in Nat
<1>1. \A p \in LinesOf(l) : asked[p] \in Nat /\ received[p] \in Nat /\ defective[p] \in Nat
  BY DEF LinesOf, TypeOK
<1>2. \A i \in InspectionsOf(l) : Got[i] \in Nat /\ CreditUnits[i] \in Nat /\ CreditTax[i] \in Nat
  BY Summable
<1>3. IsFiniteSet(LinesOf(l)) /\ IsFiniteSet(InspectionsOf(l))
  BY Summable
<1> QED
  BY <1>1, <1>2, <1>3, UnitsFinite DEF Requested, Credited, TaxCredited

\* No more is credited than came back, no more came back than was shipped.
LEMMA CreditedWithinShipped ==
  ASSUME Books, NEW l \in Line
  PROVE  /\ Credited(l) <= Sum(LinesOf(l), received)
         /\ Sum(LinesOf(l), received) <= Shipped[l]
<1>1. Credited(l) <= Sum(InspectionsOf(l), Got)
  <2>1. \A i \in InspectionsOf(l) : CreditUnits[i] <= Got[i] /\ CreditUnits[i] \in Nat /\ Got[i] \in Nat
    BY Summable DEF Books, Crediting, CreditUnits
  <2> QED
    BY <2>1, Summable, SumMonotone DEF Credited, Books
<1>2. Sum(LinesOf(l), received) <= Requested(l)
  <2>1. \A p \in LinesOf(l) : received[p] <= asked[p] /\ received[p] \in Nat /\ asked[p] \in Nat
    BY DEF Books, Asking, LinesOf, TypeOK
  <2> QED
    BY <2>1, Summable, SumMonotone DEF Requested, Books
<1>3. /\ Requested(l) \in Nat /\ Credited(l) \in Nat
      /\ Sum(LinesOf(l), received) \in Nat /\ Sum(InspectionsOf(l), Got) \in Nat
  BY SumsAreNatural DEF Books
<1>4. /\ Requested(l) <= Shipped[l] /\ Shipped[l] \in Nat
      /\ Sum(InspectionsOf(l), Got) = Sum(LinesOf(l), received)
  BY ReturnsAssumption DEF Books, Asking, Returning
<1> QED
  BY <1>1, <1>2, <1>3, <1>4

LEMMA BooksInit == Init => Books
<1> SUFFICES ASSUME Init PROVE Books
  OBVIOUS
<1>1. TypeOK
  BY DEF Init, TypeOK
<1>2. \A l \in Line : /\ Requested(l) = 0 /\ Sum(LinesOf(l), received) = 0
                      /\ Sum(LinesOf(l), defective) = 0
  BY SumZero DEF Init, Requested, LinesOf
<1>3. \A l \in Line : /\ Sum(InspectionsOf(l), Got) = 0 /\ Credited(l) = 0 /\ TaxCredited(l) = 0
  <2>1. \A l \in Line : InspectionsOf(l) = {}
    BY DEF Init, InspectionsOf, None
  <2> QED
    BY <2>1, SumZero DEF Credited, TaxCredited
<1>4. Asking
  BY <1>2, ReturnsAssumption DEF Init, Asking, ReturnLine
<1>5. Returning
  BY <1>2, <1>3 DEF Init, Returning
<1>6. Crediting
  <2>1. \A i \in Inspection :
          credit[i].units <= Got[i] /\ (credit[i].units = 0 => credit[i].tax = 0)
    BY DEF Init, Got, None
  <2>2. \A l \in Line : TaxCredited(l) = TargetTax(l, Credited(l))
    BY <1>3, Taxing
  <2> QED
    BY <2>1, <2>2 DEF Crediting
<1>7. Deciding
  BY DEF Init, Deciding, DispositionsOf, None
<1>8. StatusTellsProgress
  BY DEF Init, StatusTellsProgress
<1> QED
  BY <1>1, <1>4, <1>5, <1>6, <1>7, <1>8 DEF Books

-----------------------------------------------------------------------------
(* The steps.                                                              *)

\* A request asks for more of some lines.
LEMMA RequestStep ==
  ASSUME Books, NEW r \in Return, NEW q \in [Line -> 0..MaxUnits], Request(r, q)
  PROVE  Books'
<1> USE DEF Books
<1>1. \A l \in Line : q[l] \in Nat
  BY ReturnsAssumption
<1>2. \A p \in ReturnLine : p[1] \in Return /\ p[2] \in Line /\ p = <<p[1], p[2]>>
  BY DEF ReturnLine
<1>3. TypeOK'
  BY <1>1, <1>2 DEF Request, TypeOK
<1>4. \A p \in ReturnLine : received[p] <= asked'[p] /\ (p[1] = r => received[p] = 0)
  <2> SUFFICES ASSUME NEW p \in ReturnLine
               PROVE  received[p] <= asked'[p] /\ (p[1] = r => received[p] = 0)
    OBVIOUS
  <2>1. asked'[p] = IF p[1] = r THEN q[p[2]] ELSE asked[p]
    BY DEF Request
  <2>2. received[p] <= asked[p] /\ received[p] \in Nat
    BY DEF Asking, TypeOK
  <2>3. CASE p[1] = r
    <3>1. asked[p] = 0
      BY <1>2, <2>3 DEF Request, Asking
    <3> QED
      BY <1>1, <1>2, <2>1, <2>2, <2>3, <3>1
  <2> QED
    BY <2>1, <2>2, <2>3
<1>5. ASSUME NEW l \in Line
      PROVE  Requested(l)' <= Shipped[l]
  <2> DEFINE p == <<r, l>>
  <2>1. p \in LinesOf(l) /\ p \in ReturnLine /\ asked[p] = 0
    BY DEF LinesOf, ReturnLine, Request, Asking
  <2>2. asked'[p] = q[l] /\ \A o \in LinesOf(l) \ {p} : asked'[o] = asked[o]
    BY <1>2, <2>1 DEF Request, LinesOf
  <2>3. \A o \in LinesOf(l) : asked[o] \in Nat
    BY DEF LinesOf, TypeOK
  <2>4. Sum(LinesOf(l), asked') = Sum(LinesOf(l), asked) + q[l]
    <3> HIDE DEF p
    <3>1. asked'[p] = (IF p \in LinesOf(l) THEN asked[p] ELSE 0) + q[l]
      BY <1>1, <2>1, <2>2
    <3> QED
      BY <1>1, <2>1, <2>2, <2>3, <3>1, Summable, SumAdds
  <2>5. Requested(l)' = Requested(l) + q[l]
    BY <2>4 DEF Requested, LinesOf
  <2>6. Requested(l) \in Nat /\ Requested(l) <= Shipped[l]
    BY SumsAreNatural DEF Asking
  <2> QED
    BY <1>1, <2>5, <2>6 DEF Request
<1>6. \A s \in Return : status'[s] = "none" => \A l \in Line : asked'[<<s, l>>] = 0
  BY <1>2 DEF Request, TypeOK, Asking, ReturnLine
<1>7. Asking'
  BY <1>4, <1>5, <1>6 DEF Request, Asking
<1>8. /\ Returning' /\ Crediting' /\ Deciding'
  BY DEF Request, Returning, Crediting, Deciding, Got, InspectionsOf, LinesOf, TaxCredited,
         Credited, CreditUnits, CreditTax, Disposed, DispositionsOf, Quantities, TargetTax
<1>9. StatusTellsProgress'
  <2> SUFFICES ASSUME NEW s \in Return, status'[s] # "none"
               PROVE  /\ status'[s] = "inspected" <=> \A l \in Line : received[<<s, l>>] = asked'[<<s, l>>]
                      /\ status'[s] = "requested" <=> \A l \in Line : received[<<s, l>>] = 0
    BY DEF StatusTellsProgress, Request
  <2>1. CASE s = r
    <3>1. \A l \in Line : received[<<r, l>>] = 0 /\ asked'[<<r, l>>] = q[l]
      BY <1>4 DEF Request, ReturnLine
    <3>2. \E l \in Line : received[<<r, l>>] # asked'[<<r, l>>]
      <4>1. PICK l \in Line : q[l] > 0
        BY DEF Request
      <4>2. q[l] # 0
        BY <1>1, <4>1
      <4> QED
        BY <3>1, <4>2
    <3>3. status'[r] = "requested"
      BY DEF Request, TypeOK
    <3>4. ~(\A l \in Line : received[<<r, l>>] = asked'[<<r, l>>]) /\ \A l \in Line : received[<<r, l>>] = 0
      BY <3>1, <3>2
    <3>5. "requested" # "inspected"
      OBVIOUS
    <3> QED
      BY <2>1, <3>3, <3>4, <3>5
  <2>2. CASE s # r
    <3>1. \A l \in Line : asked'[<<s, l>>] = asked[<<s, l>>]
      BY <2>2 DEF Request, ReturnLine
    <3>2. status'[s] = status[s]
      BY <2>2 DEF Request, TypeOK
    <3> QED
      BY <3>1, <3>2 DEF StatusTellsProgress
  <2> QED
    BY <2>1, <2>2
<1> QED
  BY <1>3, <1>7, <1>8, <1>9

\* A decision is about units nothing was decided on.
LEMMA DisposeStep ==
  ASSUME Books, NEW d \in Disposition, NEW i \in Inspection, NEW q \in 1..MaxUnits,
         NEW what \in {"quarantine", "disposed", "supplier_return"}, Dispose(d, i, q, what)
  PROVE  Books'
<1> USE DEF Books
<1>1. /\ q \in Nat \ {0} /\ disposition[d] = None /\ disposition'[d] = Decided(i, q, what)
      /\ \A e \in Disposition \ {d} : disposition'[e] = disposition[e]
      /\ Decided(i, q, what) \in DispositionRow
  BY ReturnsAssumption DEF Dispose, TypeOK, Decided, DispositionRow
<1>2. TypeOK'
  BY <1>1 DEF Dispose, TypeOK, DispositionRow
<1>3. /\ Asking' /\ Returning' /\ Crediting' /\ StatusTellsProgress'
  BY DEF Dispose, Asking, Requested, Returning, Crediting, Got, InspectionsOf, LinesOf, TaxCredited,
         Credited, CreditUnits, CreditTax, TargetTax, StatusTellsProgress
<1>4. \A j \in Inspection : DispositionsOf(j)' = DispositionsOf(j) \cup (IF j = i THEN {d} ELSE {})
  BY <1>1 DEF DispositionsOf, Decided, None, DispositionRow
<1>5. /\ Quantities'[d] = q
      /\ \A e \in Disposition \ {d} : Quantities'[e] = Quantities[e]
  BY <1>1 DEF Quantities, Decided, DispositionRow
<1>6. ASSUME NEW j \in Inspection, inspection[j].is = "inspection"
      PROVE  Disposed(j)' <= inspection[j].defective
  <2>1. CASE j = i
    <3>1. d \notin DispositionsOf(i)
      BY <1>1 DEF DispositionsOf, None
    <3>2. Sum(DispositionsOf(i)', Quantities') = Sum(DispositionsOf(i), Quantities) + q
      <4>1. DispositionsOf(i)' = DispositionsOf(i) \cup {d}
        BY <1>4
      <4>2. Quantities'[d] = (IF d \in DispositionsOf(i) THEN Quantities[d] ELSE 0) + q
        BY <1>1, <1>5, <3>1
      <4>3. \A e \in DispositionsOf(i)' \ {d} : Quantities'[e] = Quantities[e]
        BY <1>5, <4>1, Summable
      <4>4. IsFiniteSet(DispositionsOf(i)) /\ \A e \in DispositionsOf(i) : Quantities[e] \in Nat
        BY Summable
      <4> HIDE DEF DispositionsOf, Quantities
      <4> QED
        BY <1>1, <4>1, <4>2, <4>3, <4>4, SumAdds
    <3> QED
      BY <2>1, <3>2 DEF Disposed, Dispose
  <2>2. CASE j # i
    <3>1. Sum(DispositionsOf(j)', Quantities') = Sum(DispositionsOf(j), Quantities)
      <4>1. DispositionsOf(j)' = DispositionsOf(j) /\ d \notin DispositionsOf(j)
        BY <1>1, <1>4, <2>2 DEF DispositionsOf, None
      <4>2. \A e \in DispositionsOf(j) : Quantities'[e] = Quantities[e]
        BY <1>5, <4>1, Summable
      <4> HIDE DEF DispositionsOf, Quantities
      <4> QED
        BY <4>1, <4>2, SumSame
    <3> QED
      BY <1>6, <3>1 DEF Disposed, Deciding
  <2> QED
    BY <2>1, <2>2
<1>7. \A j \in Inspection : inspection[j] = None => DispositionsOf(j)' = {}
  BY <1>4 DEF Deciding, Dispose, None
<1>8. \A e \in Disposition :
        /\ disposition'[e].is # "none" => resolved[e] <= disposition'[e].quantity
        /\ disposition'[e] = None => resolved[e] = 0
  <2>1. resolved[d] = 0
    BY <1>1 DEF Deciding
  <2>2. disposition'[d].quantity = q
    BY <1>1 DEF Decided
  <2> QED
    BY <1>1, <2>1, <2>2 DEF Deciding
<1>9. Deciding'
  BY <1>6, <1>7, <1>8 DEF Dispose, Deciding
<1> QED
  BY <1>2, <1>3, <1>9

\* What leaves the quarantine was in it.
LEMMA ResolveStep ==
  ASSUME Books, NEW d \in Disposition, NEW q \in 1..MaxUnits, Resolve(d, q)
  PROVE  Books'
<1> USE DEF Books
<1>1. TypeOK'
  BY ReturnsAssumption DEF Resolve, TypeOK
<1>2. /\ Asking' /\ Returning' /\ Crediting' /\ StatusTellsProgress'
  BY DEF Resolve, Asking, Requested, Returning, Crediting, Got, InspectionsOf, LinesOf, TaxCredited,
         Credited, CreditUnits, CreditTax, TargetTax, StatusTellsProgress
<1>3. Deciding'
  <2>1. \A i \in Inspection : Disposed(i)' = Disposed(i) /\ DispositionsOf(i)' = DispositionsOf(i)
    BY DEF Resolve, Disposed, DispositionsOf, Quantities
  <2>2. \A e \in Disposition :
          /\ disposition[e].is # "none" => resolved'[e] <= disposition[e].quantity
          /\ disposition[e] = None => resolved'[e] = 0
    BY DEF Resolve, Deciding, TypeOK, None
  <2> QED
    BY <2>1, <2>2 DEF Resolve, Deciding
<1> QED
  BY <1>1, <1>2, <1>3

\* A credit takes the units it gives off what came back, and their tax off what
\* is left of the tax of the units credited before.
LEMMA CreditStep ==
  ASSUME Books, NEW i \in Inspection, NEW q \in 1..MaxUnits, Credit(i, q)
  PROVE  Books'
<1> USE DEF Books
<1> DEFINE l == inspection[i].of[2]
<1>1. /\ q \in Nat \ {0} /\ l \in Line /\ i \in InspectionsOf(l)
      /\ q <= Got[i] /\ credit[i].units = 0 /\ credit[i].tax = 0
  <2>1. q \in Nat \ {0}
    BY ReturnsAssumption
  <2>2. inspection[i].of \in ReturnLine
    BY Rows DEF Credit, InspectionRow
  <2>3. l \in Line /\ i \in InspectionsOf(l)
    BY <2>2 DEF ReturnLine, Credit, InspectionsOf
  <2>4. q <= Got[i] /\ credit[i].units = 0
    BY DEF Credit, Got
  <2> QED
    BY <2>1, <2>3, <2>4 DEF Crediting
<1> DEFINE more == TargetTax(l, Credited(l) + q) - TaxCredited(l)
<1>2. Credited(l) \in Nat /\ TaxCredited(l) \in Nat /\ more \in Nat
      /\ TaxCredited(l) + more = TargetTax(l, Credited(l) + q)
  <2>1. Credited(l) \in Nat /\ TaxCredited(l) \in Nat
    BY <1>1, SumsAreNatural
  <2>2. TaxCredited(l) = TargetTax(l, Credited(l))
    BY <1>1 DEF Crediting
  <2>3. /\ Credited(l) + q \in Nat /\ Credited(l) <= Credited(l) + q
    BY <1>1, <2>1
  <2> HIDE DEF l
  <2>4. /\ TargetTax(l, Credited(l) + q) \in Nat
        /\ TargetTax(l, Credited(l)) <= TargetTax(l, Credited(l) + q)
    BY <1>1, <2>1, <2>3, Taxing
  <2> QED
    BY <2>1, <2>2, <2>4
<1>3. /\ credit'[i] = [units |-> q, tax |-> more]
      /\ \A j \in Inspection \ {i} : credit'[j] = credit[j]
  BY DEF Credit, TypeOK
<1>4. TypeOK'
  <2>1. credit' \in [Inspection -> [units : Nat, tax : Nat]]
    <3> HIDE DEF l, more
    <3>1. [units |-> q, tax |-> more] \in [units : Nat, tax : Nat]
      BY <1>1, <1>2
    <3> QED
      BY <1>3, <3>1 DEF Credit, TypeOK, l, more
  <2> QED
    BY <2>1 DEF Credit, TypeOK
<1>5. /\ Asking' /\ Returning' /\ Deciding' /\ StatusTellsProgress'
  <2>1. Asking' /\ StatusTellsProgress'
    BY DEF Credit, Asking, Requested, LinesOf, StatusTellsProgress
  <2>2. Returning'
    BY DEF Credit, Returning, Got, InspectionsOf, LinesOf
  <2>3. \A j \in Inspection : Disposed(j)' = Disposed(j) /\ DispositionsOf(j)' = DispositionsOf(j)
    BY DEF Credit, Disposed, DispositionsOf, Quantities
  <2>4. Deciding'
    BY <2>3 DEF Credit, Deciding
  <2> QED
    BY <2>1, <2>2, <2>4
<1>6. \A k \in Line : InspectionsOf(k)' = InspectionsOf(k)
  BY DEF Credit, InspectionsOf
<1>7. /\ CreditUnits'[i] = q /\ CreditTax'[i] = more
      /\ CreditUnits[i] = 0 /\ CreditTax[i] = 0
      /\ \A j \in Inspection \ {i} : CreditUnits'[j] = CreditUnits[j] /\ CreditTax'[j] = CreditTax[j]
  BY <1>1, <1>3 DEF CreditUnits, CreditTax
<1>8. \A j \in Inspection :
        credit'[j].units <= Got'[j] /\ (credit'[j].units = 0 => credit'[j].tax = 0)
  <2>1. Got' = Got
    BY DEF Credit, Got
  <2>2. credit'[i].units = q
    BY <1>3
  <2> QED
    BY <1>1, <1>3, <2>1, <2>2 DEF Crediting
<1>9. ASSUME NEW k \in Line PROVE TaxCredited(k)' = TargetTax(k, Credited(k)')
  <2>1. /\ IsFiniteSet(InspectionsOf(k)) /\ InspectionsOf(k) \subseteq Inspection
        /\ \A j \in InspectionsOf(k) : CreditUnits[j] \in Nat /\ CreditTax[j] \in Nat
    BY Summable
  <2>2. CASE k = l
    <3>1. i \in InspectionsOf(k)
      BY <1>1, <2>2
    <3>2. /\ CreditUnits'[i] = (IF i \in InspectionsOf(k) THEN CreditUnits[i] ELSE 0) + q
          /\ CreditTax'[i] = (IF i \in InspectionsOf(k) THEN CreditTax[i] ELSE 0) + more
      BY <1>1, <1>2, <1>7
    <3>3. \A j \in InspectionsOf(k) \ {i} :
            CreditUnits'[j] = CreditUnits[j] /\ CreditTax'[j] = CreditTax[j]
      BY <1>7, <2>1
    <3> HIDE DEF l, more, InspectionsOf, CreditUnits, CreditTax
    <3>4. Sum(InspectionsOf(k), CreditUnits') = Sum(InspectionsOf(k), CreditUnits) + q
      BY <1>1, <2>1, <3>1, <3>2, <3>3, SumAdds
    <3>5. Sum(InspectionsOf(k), CreditTax') = Sum(InspectionsOf(k), CreditTax) + more
      BY <1>2, <2>1, <3>1, <3>2, <3>3, SumAdds
    <3>6. Credited(k)' = Credited(k) + q /\ TaxCredited(k)' = TaxCredited(k) + more
      BY <1>6, <3>4, <3>5 DEF Credited, TaxCredited
    <3> QED
      BY <1>2, <2>2, <3>6
  <2>3. CASE k # l
    <3>1. i \notin InspectionsOf(k)
      BY <2>3 DEF InspectionsOf
    <3>2. \A j \in InspectionsOf(k) : CreditUnits'[j] = CreditUnits[j] /\ CreditTax'[j] = CreditTax[j]
      BY <1>7, <2>1, <3>1
    <3> HIDE DEF InspectionsOf, CreditUnits, CreditTax
    <3>3. /\ Sum(InspectionsOf(k), CreditUnits') = Sum(InspectionsOf(k), CreditUnits)
          /\ Sum(InspectionsOf(k), CreditTax') = Sum(InspectionsOf(k), CreditTax)
      BY <3>2, SumSame
    <3>4. Credited(k)' = Credited(k) /\ TaxCredited(k)' = TaxCredited(k)
      BY <1>6, <3>3 DEF Credited, TaxCredited
    <3> QED
      BY <3>4 DEF Crediting
  <2> QED
    BY <2>2, <2>3
<1>10. Crediting'
  <2>1. \A k \in Line : TaxCredited(k)' = TargetTax(k, Credited(k))'
    BY <1>9 DEF TargetTax
  <2> QED
    BY <1>8, <2>1 DEF Crediting
<1> QED
  BY <1>4, <1>5, <1>10

\* An inspection receives units of a line that were asked for: they are on the
\* shelf or defective, and nothing is credited or decided of them yet.
LEMMA InspectStep ==
  ASSUME Books, NEW i \in Inspection, NEW p \in ReturnLine,
         NEW n \in 0..MaxUnits, NEW bad \in 0..MaxUnits, Inspect(i, p, n, bad)
  PROVE  Books'
<1> USE DEF Books
<1> DEFINE r == p[1]
           l == p[2]
           a == n + bad
<1>1. /\ n \in Nat /\ bad \in Nat /\ a \in Nat \ {0}
      /\ r \in Return /\ l \in Line /\ p = <<r, l>> /\ p \in LinesOf(l)
      /\ inspection[i] = None /\ inspection[i].is # "inspection"
  BY ReturnsAssumption DEF Inspect, ReturnLine, LinesOf, None
<1>2. /\ received[p] \in Nat /\ defective[p] \in Nat /\ restocked[l] \in Nat
      /\ received'[p] = received[p] + a /\ defective'[p] = defective[p] + bad
      /\ restocked'[l] = restocked[l] + n
      /\ received[p] + a <= asked[p]
  BY <1>1 DEF Inspect, TypeOK
<1>3. /\ \A o \in ReturnLine \ {p} : received'[o] = received[o] /\ defective'[o] = defective[o]
      /\ \A k \in Line \ {l} : restocked'[k] = restocked[k]
      /\ \A j \in Inspection \ {i} : inspection'[j] = inspection[j]
      /\ \A s \in Return \ {r} : status'[s] = status[s]
  BY DEF Inspect, TypeOK
<1>4. /\ inspection'[i] = Inspected(p, a, bad)
      /\ inspection'[i] \in InspectionRow
      /\ inspection'[i].is = "inspection" /\ inspection'[i].of = p
      /\ inspection'[i].received = a /\ inspection'[i].defective = bad
  BY <1>1 DEF Inspect, TypeOK, Inspected, InspectionRow
<1>5. status'[r] \in {"inspecting", "inspected"} /\ status[r] # "none"
  BY <1>1 DEF Inspect, TypeOK
<1>6. TypeOK'
  <2>1. received' \in [ReturnLine -> Nat] /\ defective' \in [ReturnLine -> Nat]
    BY <1>1 DEF Inspect, TypeOK
  <2>2. restocked' \in [Line -> Nat]
    BY <1>1 DEF Inspect, TypeOK
  <2>3. inspection' \in [Inspection -> {None} \cup InspectionRow]
    BY <1>4 DEF Inspect, TypeOK, InspectionRow
  <2>4. status' \in [Return -> {"none", "requested", "inspecting", "inspected"}]
    BY DEF Inspect, TypeOK
  <2> QED
    BY <2>1, <2>2, <2>3, <2>4 DEF Inspect, TypeOK, InspectionRow
<1>7. Asking'
  <2>1. \A o \in ReturnLine : received'[o] <= asked[o]
    BY <1>2, <1>3 DEF Asking
  <2>2. \A k \in Line : Requested(k)' = Requested(k)
    BY DEF Inspect, Requested, LinesOf
  <2>3. \A s \in Return : status'[s] = "none" => status[s] = "none"
    BY <1>3, <1>5
  <2> QED
    BY <2>1, <2>2, <2>3 DEF Inspect, Asking
<1>8. \A k \in Line : /\ LinesOf(k)' = LinesOf(k)
                      /\ InspectionsOf(k)' = InspectionsOf(k) \cup (IF k = l THEN {i} ELSE {})
                      /\ i \notin InspectionsOf(k)
  <2>1. \A k \in Line : LinesOf(k)' = LinesOf(k) /\ i \notin InspectionsOf(k)
    BY <1>1 DEF LinesOf, InspectionsOf
  <2>2. ASSUME NEW k \in Line, NEW j \in Inspection
        PROVE  j \in InspectionsOf(k)' <=> j \in InspectionsOf(k) \/ (j = i /\ k = l)
    <3>1. CASE j = i
      BY <1>4, <2>1, <3>1 DEF InspectionsOf
    <3>2. CASE j # i
      BY <1>3, <3>2 DEF InspectionsOf
    <3> QED
      BY <3>1, <3>2
  <2>3. \A k \in Line : InspectionsOf(k)' \subseteq Inspection /\ InspectionsOf(k) \subseteq Inspection
    BY DEF InspectionsOf
  <2> QED
    BY <2>1, <2>2, <2>3
<1>9. /\ Got'[i] = a /\ Got[i] = 0
      /\ \A j \in Inspection \ {i} : Got'[j] = Got[j]
  BY <1>1, <1>3, <1>4 DEF Got
<1>10. /\ CreditUnits' = CreditUnits /\ CreditTax' = CreditTax
       /\ CreditUnits[i] = 0 /\ CreditTax[i] = 0
  <2>1. credit[i].units <= 0 /\ credit[i].units \in Nat
    BY <1>9 DEF Crediting, TypeOK
  <2>2. credit[i].units = 0 /\ credit[i].tax = 0
    BY <2>1 DEF Crediting
  <2> QED
    BY <2>2 DEF Inspect, CreditUnits, CreditTax
<1>11. ASSUME NEW k \in Line
       PROVE  /\ Sum(InspectionsOf(k)', Got') = Sum(LinesOf(k)', received')
              /\ restocked'[k] + Sum(LinesOf(k)', defective') = Sum(LinesOf(k)', received')
              /\ Credited(k)' = Credited(k) /\ TaxCredited(k)' = TaxCredited(k)
  <2>1. /\ IsFiniteSet(LinesOf(k)) /\ LinesOf(k) \subseteq ReturnLine
        /\ IsFiniteSet(InspectionsOf(k)) /\ InspectionsOf(k) \subseteq Inspection
        /\ \A j \in InspectionsOf(k) : Got[j] \in Nat /\ CreditUnits[j] \in Nat /\ CreditTax[j] \in Nat
        /\ \A o \in LinesOf(k) : received[o] \in Nat /\ defective[o] \in Nat
    BY Summable DEF TypeOK
  <2>2. /\ Sum(InspectionsOf(k), Got) = Sum(LinesOf(k), received)
        /\ restocked[k] + Sum(LinesOf(k), defective) = Sum(LinesOf(k), received)
        /\ Sum(LinesOf(k), received) \in Nat /\ Sum(LinesOf(k), defective) \in Nat
    BY SumsAreNatural DEF Returning
  <2>3. CASE k = l
    <3>1. /\ p \in LinesOf(k) /\ i \notin InspectionsOf(k)
          /\ InspectionsOf(k)' = InspectionsOf(k) \cup {i} /\ LinesOf(k)' = LinesOf(k)
      BY <1>1, <1>8, <2>3
    <3>2. /\ received'[p] = (IF p \in LinesOf(k) THEN received[p] ELSE 0) + a
          /\ defective'[p] = (IF p \in LinesOf(k) THEN defective[p] ELSE 0) + bad
      BY <1>2, <3>1
    <3>3. \A o \in LinesOf(k) \ {p} : received'[o] = received[o] /\ defective'[o] = defective[o]
      BY <1>3, <2>1
    <3>4. /\ Got'[i] = (IF i \in InspectionsOf(k) THEN Got[i] ELSE 0) + a
          /\ CreditUnits'[i] = (IF i \in InspectionsOf(k) THEN CreditUnits[i] ELSE 0) + 0
          /\ CreditTax'[i] = (IF i \in InspectionsOf(k) THEN CreditTax[i] ELSE 0) + 0
      BY <1>1, <1>9, <1>10, <3>1
    <3>5. \A j \in InspectionsOf(k)' \ {i} :
            Got'[j] = Got[j] /\ CreditUnits'[j] = CreditUnits[j] /\ CreditTax'[j] = CreditTax[j]
      BY <1>9, <1>10, <2>1, <3>1
    <3> HIDE DEF a, InspectionsOf, LinesOf, Got, CreditUnits, CreditTax
    <3>6. Sum(LinesOf(k), received') = Sum(LinesOf(k), received) + a
      BY <1>1, <2>1, <3>1, <3>2, <3>3, SumAdds
    <3>7. Sum(LinesOf(k), defective') = Sum(LinesOf(k), defective) + bad
      BY <1>1, <2>1, <3>1, <3>2, <3>3, SumAdds
    <3>8. Sum(InspectionsOf(k)', Got') = Sum(InspectionsOf(k), Got) + a
      BY <1>1, <2>1, <3>1, <3>4, <3>5, SumAdds
    <3>9. Sum(InspectionsOf(k)', CreditUnits') = Sum(InspectionsOf(k), CreditUnits) + 0
      BY <1>1, <2>1, <3>1, <3>4, <3>5, SumAdds
    <3>10. Sum(InspectionsOf(k)', CreditTax') = Sum(InspectionsOf(k), CreditTax) + 0
      BY <1>1, <2>1, <3>1, <3>4, <3>5, SumAdds
    <3>11. Credited(k) \in Nat /\ TaxCredited(k) \in Nat
      BY SumsAreNatural
    <3>12. Credited(k)' = Credited(k) /\ TaxCredited(k)' = TaxCredited(k)
      BY <3>9, <3>10, <3>11 DEF Credited, TaxCredited
    <3>13. restocked'[k] = restocked[k] + n /\ restocked[k] \in Nat
      BY <1>2, <2>3
    <3> QED
      BY <1>1, <2>2, <3>1, <3>6, <3>7, <3>8, <3>12, <3>13 DEF a
  <2>4. CASE k # l
    <3>1. InspectionsOf(k)' = InspectionsOf(k) /\ LinesOf(k)' = LinesOf(k) /\ i \notin InspectionsOf(k)
      BY <1>8, <2>4
    <3>2. \A o \in LinesOf(k) : received'[o] = received[o] /\ defective'[o] = defective[o]
      BY <1>1, <1>3, <2>4 DEF LinesOf
    <3>3. \A j \in InspectionsOf(k) : Got'[j] = Got[j]
      BY <1>9, <2>1, <3>1
    <3>4. restocked'[k] = restocked[k]
      BY <1>3, <2>4
    <3> HIDE DEF InspectionsOf, LinesOf, Got, CreditUnits, CreditTax
    <3>5. /\ Sum(LinesOf(k), received') = Sum(LinesOf(k), received)
          /\ Sum(LinesOf(k), defective') = Sum(LinesOf(k), defective)
          /\ Sum(InspectionsOf(k), Got') = Sum(InspectionsOf(k), Got)
      BY <3>2, <3>3, SumSame
    <3>6. Credited(k)' = Credited(k) /\ TaxCredited(k)' = TaxCredited(k)
      BY <1>10, <3>1 DEF Credited, TaxCredited
    <3> QED
      BY <2>2, <3>1, <3>4, <3>5, <3>6
  <2> QED
    BY <2>3, <2>4
<1>12. Returning'
  BY <1>11 DEF Returning
<1>13. Crediting'
  <2>1. \A j \in Inspection : Got[j] <= Got'[j]
    BY <1>1, <1>9, Summable
  <2>2. \A j \in Inspection : credit[j].units <= Got'[j]
    BY <1>9, <1>10, <2>1, Summable DEF Crediting, CreditUnits
  <2>3. \A k \in Line : TaxCredited(k)' = TargetTax(k, Credited(k))'
    BY <1>11 DEF Crediting, TargetTax
  <2> QED
    BY <2>2, <2>3 DEF Inspect, Crediting
<1>14. Deciding'
  <2>1. \A j \in Inspection : Disposed(j)' = Disposed(j) /\ DispositionsOf(j)' = DispositionsOf(j)
    BY DEF Inspect, Disposed, DispositionsOf, Quantities
  <2>2. Disposed(i) = 0
    BY <1>1, SumZero DEF Deciding, Disposed
  <2>3. \A j \in Inspection : inspection'[j].is = "inspection" => Disposed(j) <= inspection'[j].defective
    BY <1>1, <1>3, <1>4, <2>2 DEF Deciding
  <2>4. \A j \in Inspection : inspection'[j] = None => inspection[j] = None
    BY <1>1, <1>3
  <2> QED
    BY <2>1, <2>3, <2>4 DEF Inspect, Deciding
<1>15. StatusTellsProgress'
  <2>0. asked' = asked
    BY DEF Inspect
  <2> SUFFICES ASSUME NEW s \in Return, status'[s] # "none"
               PROVE  /\ status'[s] = "inspected" <=> \A k \in Line : received'[<<s, k>>] = asked[<<s, k>>]
                      /\ status'[s] = "requested" <=> \A k \in Line : received'[<<s, k>>] = 0
    BY <2>0, Zenon DEF StatusTellsProgress
  <2>1. CASE s = r
    <3>1. received'[<<r, l>>] # 0
      BY <1>1, <1>2
    <3>2. status'[r] = "inspected" <=> \A k \in Line : received'[<<r, k>>] = asked[<<r, k>>]
      BY <1>1 DEF Inspect, TypeOK, Complete
    <3>3. status'[r] # "requested"
      BY <1>5
    <3>4. ~(\A k \in Line : received'[<<r, k>>] = 0)
      BY <1>1, <3>1
    <3> HIDE DEF r
    <3> QED
      BY <2>1, <3>2, <3>3, <3>4, Zenon
  <2>2. CASE s # r
    <3>1. \A k \in Line : received'[<<s, k>>] = received[<<s, k>>]
      BY <1>1, <1>3, <2>2 DEF ReturnLine
    <3>2. status'[s] = status[s]
      BY <1>3, <2>2
    <3> QED
      BY <3>1, <3>2 DEF StatusTellsProgress
  <2> QED
    BY <2>1, <2>2
<1> QED
  BY <1>6, <1>7, <1>12, <1>13, <1>14, <1>15

LEMMA BooksStep == Books /\ [Next]_vars => Books'
<1> SUFFICES ASSUME Books, [Next]_vars PROVE Books'
  OBVIOUS
<1>1. ASSUME NEW r \in Return, NEW q \in [Line -> 0..MaxUnits], Request(r, q) PROVE Books'
  BY <1>1, RequestStep
<1>2. ASSUME NEW i \in Inspection, NEW p \in ReturnLine,
             NEW n \in 0..MaxUnits, NEW bad \in 0..MaxUnits, Inspect(i, p, n, bad)
      PROVE  Books'
  BY <1>2, InspectStep
<1>3. ASSUME NEW d \in Disposition, NEW i \in Inspection, NEW q \in 1..MaxUnits,
             NEW what \in {"quarantine", "disposed", "supplier_return"}, Dispose(d, i, q, what)
      PROVE  Books'
  BY <1>3, DisposeStep
<1>4. ASSUME NEW d \in Disposition, NEW q \in 1..MaxUnits, Resolve(d, q) PROVE Books'
  BY <1>4, ResolveStep
<1>5. ASSUME NEW i \in Inspection, NEW q \in 1..MaxUnits, Credit(i, q) PROVE Books'
  BY <1>5, CreditStep
<1>6. CASE UNCHANGED vars
  <2>1. TypeOK' /\ Asking'
    BY <1>6 DEF vars, Books, TypeOK, Asking, Requested, LinesOf
  <2>6. StatusTellsProgress'
    BY <1>6 DEF vars, Books, StatusTellsProgress
  <2>2. Returning'
    BY <1>6 DEF vars, Books, Returning, Got, InspectionsOf, LinesOf
  <2>3. Crediting'
    BY <1>6 DEF vars, Books, Crediting, Got, InspectionsOf, TaxCredited, Credited, CreditUnits,
       CreditTax, TargetTax
  <2>4. \A i \in Inspection : Disposed(i)' = Disposed(i) /\ DispositionsOf(i)' = DispositionsOf(i)
    BY <1>6 DEF vars, Disposed, DispositionsOf, Quantities
  <2>5. Deciding'
    BY <1>6, <2>4 DEF vars, Books, Deciding
  <2> QED
    BY <2>1, <2>2, <2>3, <2>5, <2>6 DEF Books
<1> QED
  BY <1>1, <1>2, <1>3, <1>4, <1>5, <1>6 DEF Next

LEMMA BooksAlways == Spec => []Books
  BY BooksInit, BooksStep, PTL DEF Spec

-----------------------------------------------------------------------------
\* The books of a return have their types (return.service).
THEOREM ReturnsTypes == Spec => []TypeOK
<1>1. Books => TypeOK
  BY DEF Books
<1> QED
  BY <1>1, BooksAlways, PTL

\* No unit is asked for, credited or decided on that is not there: for any number
\* of returns, inspections, decisions and credits (return.service, :70, :133, :193).
THEOREM UnitsAreAccountedFor == Spec => []UnitsAccountedFor
<1>1. Books => UnitsAccountedFor
  <2> SUFFICES ASSUME Books PROVE UnitsAccountedFor
    OBVIOUS
  <2>1. \A l \in Line : Requested(l) <= Shipped[l] /\ Credited(l) <= Sum(LinesOf(l), received)
    BY CreditedWithinShipped DEF Books, Asking
  <2> QED
    BY <2>1 DEF Books, Returning, Deciding, UnitsAccountedFor
<1> QED
  BY <1>1, BooksAlways, PTL

\* The status of a return is what its lines say (return.service, :171-173).
THEOREM StatusIsProgress == Spec => []StatusTellsProgress
<1>1. Books => StatusTellsProgress
  BY DEF Books
<1> QED
  BY <1>1, BooksAlways, PTL

\* The tax of the credits of a line is the rounded tax of the units credited,
\* whatever parts they are credited in: never more than the line has, and all of
\* it with the last unit; no credit takes any (return.service, :198-199).
THEOREM CreditsReturnAllTax == Spec => []CreditsReturnTheTax
<1>1. Books => CreditsReturnTheTax
  <2> SUFFICES ASSUME Books, NEW l \in Line
               PROVE  /\ TaxCredited(l) <= Tax[l]
                      /\ Credited(l) = Shipped[l] => TaxCredited(l) = Tax[l]
    <3>1. Books => \A i \in Inspection : credit[i].tax >= 0
      BY DEF Books, TypeOK
    <3> QED
      BY <3>1 DEF CreditsReturnTheTax
  <2>1. Credited(l) \in Nat /\ Sum(LinesOf(l), received) \in Nat /\ Shipped[l] \in Nat
    BY SumsAreNatural, ReturnsAssumption DEF Books
  <2>2. Credited(l) <= Shipped[l]
    BY <2>1, CreditedWithinShipped
  <2>3. TaxCredited(l) = TargetTax(l, Credited(l))
    BY DEF Books, Crediting
  <2>4. TargetTax(l, Credited(l)) <= TargetTax(l, Shipped[l]) /\ TargetTax(l, Shipped[l]) = Tax[l]
    BY <2>1, <2>2, Taxing
  <2> QED
    BY <2>3, <2>4
<1> QED
  BY <1>1, BooksAlways, PTL

\* What Settlement's Credit assumes of a credit: whatever the unit price of the
\* order line, the credits of a shipment line never come to more than its charge.
CreditsWithinCharge ==
  \A l \in Line, price \in Nat :
    Credited(l) * price + TaxCredited(l) <= Shipped[l] * price + Tax[l]

\* The credits of a shipment line, in whatever parts and with whatever rounding,
\* never exceed what its shipment was charged (return.service, :199).
THEOREM CreditsStayWithinCharge == Spec => []CreditsWithinCharge
<1>1. Books /\ CreditsReturnTheTax => CreditsWithinCharge
  <2> SUFFICES ASSUME Books, CreditsReturnTheTax, NEW l \in Line, NEW price \in Nat
               PROVE  Credited(l) * price + TaxCredited(l) <= Shipped[l] * price + Tax[l]
    BY DEF CreditsWithinCharge
  <2>1. /\ Credited(l) \in Nat /\ Sum(LinesOf(l), received) \in Nat /\ Shipped[l] \in Nat
        /\ TaxCredited(l) \in Nat /\ Tax[l] \in Nat
    BY SumsAreNatural, ReturnsAssumption DEF Books
  <2>2. Credited(l) <= Shipped[l]
    BY <2>1, CreditedWithinShipped
  <2>3. TaxCredited(l) <= Tax[l]
    BY DEF CreditsReturnTheTax
  <2>4. \A a, b \in Nat : a <= b => a * price <= b * price
    <3> SUFFICES ASSUME NEW a \in Nat, NEW b \in Nat, a <= b PROVE a * price <= b * price
      OBVIOUS
    <3>1. (b - a) * price >= 0 /\ (b - a) * price = b * price - a * price
      OBVIOUS
    <3>2. a * price \in Int /\ b * price \in Int
      OBVIOUS
    <3> QED
      BY <3>1, <3>2
  <2>5. Credited(l) * price <= Shipped[l] * price
    BY <2>1, <2>2, <2>4
  <2>6. Credited(l) * price \in Int /\ Shipped[l] * price \in Int
    BY <2>1
  <2> QED
    BY <2>1, <2>3, <2>5, <2>6
<1> QED
  BY <1>1, BooksAlways, CreditsReturnAllTax, PTL

-----------------------------------------------------------------------------
(* The files of a record.                                                  *)

\* Whoever counted the files of a record and found room has its lock, and only
\* contents the scanner passed come that far.
Guarded ==
  /\ AttachmentsTypeOK
  /\ AttachmentsWithinLimit
  /\ \A r \in Record : IsFiniteSet(files[r])
  /\ \A u \in Upload :
       /\ upload[u].at \in {"safe", "counted"} => upload[u].file \notin Infected
       /\ upload[u].at = "counted" =>
            /\ locked[upload[u].record] = u
            /\ Cardinality(files[upload[u].record]) < MaxFiles

LEMMA GuardedInit == NoFiles => Guarded
  BY AttachmentsAssumption, FS_EmptySet
     DEF NoFiles, Guarded, AttachmentsTypeOK, AttachmentsWithinLimit, Waiting

\* An upload that is not waiting is of a content for a record.
LEMMA Uploading ==
  ASSUME AttachmentsTypeOK, NEW u \in Upload, upload[u].at # "waiting"
  PROVE  upload[u] \in [at : {"scanning", "safe", "counted"}, record : Record, file : File]
  BY DEF AttachmentsTypeOK, Waiting

LEMMA GuardedStep == Guarded /\ [AttachmentsNext]_attachmentVars => Guarded'
<1> SUFFICES ASSUME Guarded, [AttachmentsNext]_attachmentVars PROVE Guarded'
  OBVIOUS
<1> USE DEF Guarded
<1>1. ASSUME NEW u \in Upload, NEW r \in Record, NEW f \in File, Receive(u, r, f) PROVE Guarded'
  BY <1>1 DEF Receive, AttachmentsTypeOK, AttachmentsWithinLimit, Waiting
<1>2. ASSUME NEW u \in Upload, NEW heard \in BOOLEAN, Scan(u, heard) PROVE Guarded'
  <2>1. upload[u] \in [at : {"scanning", "safe", "counted"}, record : Record, file : File]
    BY <1>2, Uploading DEF Scan
  <2>2. \A v \in Upload \ {u} : upload'[v] = upload[v]
    BY <1>2 DEF Scan, AttachmentsTypeOK
  <2>3. CASE Passes(upload[u].file, heard)
    <3>1. upload'[u] = [upload[u] EXCEPT !.at = "safe"]
      BY <1>2, <2>3 DEF Scan, AttachmentsTypeOK
    <3> QED
      BY <1>2, <2>1, <2>2, <2>3, <3>1 DEF Scan, Passes, AttachmentsTypeOK, AttachmentsWithinLimit
  <2>4. CASE ~Passes(upload[u].file, heard)
    <3>1. upload'[u] = Waiting
      BY <1>2, <2>4 DEF Scan, AttachmentsTypeOK
    <3> QED
      BY <1>2, <2>2, <3>1 DEF Scan, Waiting, AttachmentsTypeOK, AttachmentsWithinLimit
  <2> QED
    BY <2>3, <2>4
<1>3. ASSUME NEW u \in Upload, Count(u) PROVE Guarded'
  <2>1. upload[u] \in [at : {"scanning", "safe", "counted"}, record : Record, file : File]
    BY <1>3, Uploading DEF Count
  <2>2. \A v \in Upload \ {u} : upload'[v] = upload[v]
    BY <1>3 DEF Count, AttachmentsTypeOK
  <2>3. upload'[u] = [upload[u] EXCEPT !.at = "counted"]
    BY <1>3 DEF Count, AttachmentsTypeOK
  <2>4. /\ locked[upload[u].record] = "unlocked" /\ locked' = [locked EXCEPT ![upload[u].record] = u]
        /\ Cardinality(files[upload[u].record]) < MaxFiles /\ upload[u].at = "safe" /\ files' = files
    BY <1>3 DEF Count
  <2>5. AttachmentsTypeOK' /\ AttachmentsWithinLimit'
    BY <2>1, <2>2, <2>3, <2>4, <1>3 DEF Count, AttachmentsTypeOK, AttachmentsWithinLimit
  <2>6. ASSUME NEW v \in Upload, upload'[v].at = "counted"
        PROVE  /\ locked'[upload'[v].record] = v
               /\ Cardinality(files[upload'[v].record]) < MaxFiles
    <3>1. CASE v = u
      BY <2>1, <2>3, <2>4, <3>1 DEF AttachmentsTypeOK
    <3>2. CASE v # u
      <4>1. upload[v] \in [at : {"scanning", "safe", "counted"}, record : Record, file : File]
        BY <2>2, <2>6, <3>2, Uploading
      <4>2. locked[upload[v].record] = v /\ v # "unlocked"
        BY <2>2, <2>6, <3>2, AttachmentsAssumption
      <4> QED
        BY <2>2, <2>4, <2>6, <3>2, <4>1, <4>2 DEF AttachmentsTypeOK
    <3> QED
      BY <3>1, <3>2
  <2>7. \A v \in Upload : upload'[v].at \in {"safe", "counted"} => upload'[v].file \notin Infected
    BY <2>1, <2>2, <2>3, <2>4
  <2> QED
    BY <2>4, <2>5, <2>6, <2>7
<1>4. ASSUME NEW u \in Upload, Store(u) PROVE Guarded'
  <2>1. upload[u] \in [at : {"scanning", "safe", "counted"}, record : Record, file : File]
    BY <1>4, Uploading DEF Store
  <2> DEFINE r == upload[u].record
             f == upload[u].file
  <2>2. /\ upload'[u] = Waiting /\ \A v \in Upload \ {u} : upload'[v] = upload[v]
        /\ r \in Record /\ f \in File /\ f \notin Infected /\ locked[r] = u
        /\ Cardinality(files[r]) < MaxFiles /\ IsFiniteSet(files[r])
        /\ files'[r] = files[r] \cup {f}
        /\ \A o \in Record \ {r} : files'[o] = files[o] /\ locked'[o] = locked[o]
    BY <1>4, <2>1 DEF Store, AttachmentsTypeOK
  <2> HIDE DEF r, f
  <2>3. AttachmentsTypeOK'
    BY <1>4, <2>2 DEF Store, AttachmentsTypeOK, Waiting, r, f
  <2>4. IsFiniteSet(files'[r]) /\ Cardinality(files'[r]) <= Cardinality(files[r]) + 1
    <3>1. /\ IsFiniteSet(files[r] \cup {f})
          /\ \/ Cardinality(files[r] \cup {f}) = Cardinality(files[r])
             \/ Cardinality(files[r] \cup {f}) = Cardinality(files[r]) + 1
      BY <2>2, FS_AddElement
    <3>2. Cardinality(files[r]) \in Nat
      BY <2>2, FS_CardinalityType
    <3> QED
      BY <2>2, <3>1, <3>2
  <2>5. Cardinality(files'[r]) <= MaxFiles
    <3>1. Cardinality(files[r]) \in Nat /\ Cardinality(files'[r]) \in Nat /\ MaxFiles \in Nat
      BY <2>2, <2>4, FS_CardinalityType, AttachmentsAssumption
    <3>2. Cardinality(files[r]) < MaxFiles
      BY <2>2
    <3> QED
      BY <2>4, <3>1, <3>2
  <2>6. AttachmentsWithinLimit' /\ \A o \in Record : IsFiniteSet(files'[o])
    <3>1. files'[r] \cap Infected = {}
      BY <2>2 DEF AttachmentsWithinLimit
    <3>2. \A o \in Record : Cardinality(files'[o]) <= MaxFiles /\ files'[o] \cap Infected = {}
      BY <2>2, <2>5, <3>1 DEF AttachmentsWithinLimit
    <3>3. \A o \in Record : IsFiniteSet(files'[o])
      BY <2>2, <2>4
    <3> QED
      BY <3>2, <3>3 DEF AttachmentsWithinLimit
  <2>7. ASSUME NEW v \in Upload, upload'[v].at = "counted"
        PROVE  /\ locked'[upload'[v].record] = v
               /\ Cardinality(files'[upload'[v].record]) < MaxFiles
    <3>1. v # u
      BY <2>2, <2>7 DEF Waiting
    <3>2. upload[v] \in [at : {"scanning", "safe", "counted"}, record : Record, file : File]
      BY <2>2, <2>7, <3>1, Uploading
    <3>3. locked[upload[v].record] = v /\ upload[v].record # r
      BY <2>2, <2>7, <3>1
    <3> QED
      BY <2>2, <2>7, <3>1, <3>2, <3>3
  <2>8. \A v \in Upload : upload'[v].at \in {"safe", "counted"} => upload'[v].file \notin Infected
    BY <2>2 DEF Waiting
  <2> QED
    BY <2>3, <2>6, <2>7, <2>8
<1>5. ASSUME NEW u \in Upload, Refuse(u) PROVE Guarded'
  <2>1. /\ upload'[u] = Waiting /\ \A v \in Upload \ {u} : upload'[v] = upload[v]
        /\ files' = files
    BY <1>5 DEF Refuse, AttachmentsTypeOK
  <2>2. AttachmentsTypeOK' /\ AttachmentsWithinLimit'
    BY <1>5 DEF Refuse, AttachmentsTypeOK, AttachmentsWithinLimit
  <2>3. ASSUME NEW v \in Upload, upload'[v].at = "counted"
        PROVE  /\ locked'[upload'[v].record] = v
               /\ Cardinality(files[upload'[v].record]) < MaxFiles
    <3>1. v # u
      BY <2>1, <2>3 DEF Waiting
    <3>2. upload[v] \in [at : {"scanning", "safe", "counted"}, record : Record, file : File]
      BY <2>1, <2>3, <3>1, Uploading
    <3> QED
      BY <1>5, <2>1, <2>3, <3>1, <3>2 DEF Refuse
  <2>4. \A v \in Upload : upload'[v].at \in {"safe", "counted"} => upload'[v].file \notin Infected
    BY <2>1 DEF Waiting
  <2> QED
    BY <2>1, <2>2, <2>3, <2>4
<1>6. CASE UNCHANGED attachmentVars
  BY <1>6 DEF attachmentVars, AttachmentsTypeOK, AttachmentsWithinLimit
<1> QED
  BY <1>1, <1>2, <1>3, <1>4, <1>5, <1>6 DEF AttachmentsNext, Proceed

\* A record never has more files than the limit, nor one with malware, however
\* many uploads run at the same time (attachment.service, :31-59).
THEOREM FilesStayWithinLimit == AttachmentsSpec => []AttachmentsWithinLimit
<1>1. Guarded => AttachmentsWithinLimit
  BY DEF Guarded
<1> QED
  BY <1>1, GuardedInit, GuardedStep, PTL DEF AttachmentsSpec

-----------------------------------------------------------------------------
(* The shelf.                                                              *)

\* A command that found a row to lock holds it, and no count of it begins then.
Holding ==
  /\ ShelfTypeOK
  /\ \A c \in Command :
       command[c] # Idle /\ ~command[c].import /\ command[c].found =>
         /\ holder = c
         /\ command[c].at # "looked" => ~counting
  /\ \A c \in Command : command[c].at = "written" => holder = c

LEMMA HoldingInit == Begin => Holding
<1> SUFFICES ASSUME Begin PROVE Holding
  OBVIOUS
<1>1. row = FALSE /\ counting = FALSE /\ onHand = 0 /\ moved = 0 /\ holder = "nobody"
  BY DEF Begin
<1>2. command = [c \in Command |-> Idle]
  BY DEF Begin
<1>3. row \in BOOLEAN /\ counting \in BOOLEAN
  BY <1>1, Zenon
<1>4. onHand \in 0..MaxStock /\ moved \in Int
  BY <1>1, ShelfAssumption
<1>5. ShelfTypeOK
  BY <1>1, <1>2, <1>3, <1>4 DEF ShelfTypeOK
<1> QED
  BY <1>2, <1>5 DEF Holding, Idle

\* A command that is not idle knows what it looked at.
LEMMA Looking ==
  ASSUME ShelfTypeOK, NEW c \in Command, command[c] # Idle
  PROVE  command[c] \in [at : {"looked", "checked", "written"}, units : 0..MaxStock,
                         found : BOOLEAN, import : BOOLEAN]
  BY DEF ShelfTypeOK

LEMMA HoldingStep == Holding /\ [Step]_shelfVars => Holding'
<1> SUFFICES ASSUME Holding, [Step]_shelfVars PROVE Holding'
  OBVIOUS
<1> USE DEF Holding
<1>0. Idle.at = "idle" /\ "nobody" \notin Command /\ MaxStock \in Nat
  BY ShelfAssumption DEF Idle
<1>1. ASSUME NEW c \in Command, NEW units \in 1..MaxStock, Look(c, units) PROVE Holding'
  <2>1. /\ command'[c] = Looked(units, row, FALSE)
        /\ \A d \in Command \ {c} : command'[d] = command[d]
    BY <1>1 DEF Look, ShelfTypeOK
  <2>2. ShelfTypeOK'
    BY <1>0, <1>1 DEF Look, ShelfTypeOK, Looked
  <2>3. \A d \in Command \ {c} : holder = d => holder' = d
    BY <1>0, <1>1 DEF Look, Free
  <2> QED
    BY <1>1, <2>1, <2>2, <2>3 DEF Look, Looked
<1>2. ASSUME NEW c \in Command, NEW units \in 0..MaxStock, LookToImport(c, units) PROVE Holding'
  <2>1. /\ command'[c] = Looked(units, row, TRUE)
        /\ \A d \in Command \ {c} : command'[d] = command[d]
    BY <1>2 DEF LookToImport, ShelfTypeOK
  <2>2. ShelfTypeOK'
    BY <1>2 DEF LookToImport, ShelfTypeOK, Looked
  <2> QED
    BY <1>2, <2>1, <2>2 DEF LookToImport, Looked
<1>3. ASSUME NEW c \in Command, CheckCount(c) PROVE Holding'
  <2>1. command[c] \in [at : {"looked", "checked", "written"}, units : 0..MaxStock,
                        found : BOOLEAN, import : BOOLEAN] /\ command[c] # Idle
    BY <1>0, <1>3, Looking DEF CheckCount
  <2>2. /\ command'[c] = [command[c] EXCEPT !.at = "checked"]
        /\ \A d \in Command \ {c} : command'[d] = command[d]
    BY <1>3 DEF CheckCount, ShelfTypeOK
  <2>3. ShelfTypeOK'
    BY <1>3, <2>1 DEF CheckCount, ShelfTypeOK
  <2> QED
    BY <1>3, <2>1, <2>2, <2>3 DEF CheckCount
<1>4. ASSUME NEW c \in Command, Write(c) PROVE Holding'
  <2>1. command[c] \in [at : {"looked", "checked", "written"}, units : 0..MaxStock,
                        found : BOOLEAN, import : BOOLEAN] /\ command[c] # Idle
    BY <1>0, <1>4, Looking DEF Write
  <2>2. /\ command'[c] = [command[c] EXCEPT !.at = "written"]
        /\ \A d \in Command \ {c} : command'[d] = command[d]
    BY <1>4 DEF Write, ShelfTypeOK
  <2>3. ShelfTypeOK'
    BY <1>4, <2>1 DEF Write, ShelfTypeOK
  <2>4. \A d \in Command \ {c} : holder # d
    BY <1>0, <1>4 DEF Write, Free
  <2> QED
    BY <1>4, <2>1, <2>2, <2>3, <2>4 DEF Write
<1>5. ASSUME NEW c \in Command, Commit(c) PROVE Holding'
  <2>1. command[c] \in [at : {"looked", "checked", "written"}, units : 0..MaxStock,
                        found : BOOLEAN, import : BOOLEAN] /\ command[c] # Idle
    BY <1>0, <1>5, Looking DEF Commit
  <2>2. command'[c] = Idle /\ \A d \in Command \ {c} : command'[d] = command[d]
    BY <1>5 DEF Commit, ShelfTypeOK
  <2>3. Stored(c) \in 0..MaxStock
    BY <1>0, <1>5, <2>1 DEF Commit, Stored, ShelfTypeOK
  <2>4. ShelfTypeOK'
    BY <1>5, <2>1, <2>3 DEF Commit, ShelfTypeOK
  <2>5. \A d \in Command \ {c} : holder # d
    BY <1>5 DEF Commit
  <2> QED
    BY <1>0, <1>5, <2>2, <2>4, <2>5 DEF Commit
<1>6. ASSUME NEW c \in Command, Rollback(c) PROVE Holding'
  <2>1. command'[c] = Idle /\ \A d \in Command \ {c} : command'[d] = command[d]
    BY <1>6 DEF Rollback, ShelfTypeOK
  <2>2. ShelfTypeOK'
    BY <1>6 DEF Rollback, ShelfTypeOK
  <2> QED
    BY <1>0, <1>6, <2>1, <2>2 DEF Rollback
<1>7. ASSUME NEW delta \in (-MaxStock)..MaxStock, Adjust(delta) PROVE Holding'
  <2>1. onHand' \in 0..MaxStock /\ moved' \in Int
    BY <1>0, <1>7 DEF Adjust, ShelfTypeOK
  <2> QED
    BY <1>7, <2>1 DEF Adjust, ShelfTypeOK
<1>8. ASSUME NEW counted \in 0..MaxStock, FinalizeCount(counted) PROVE Holding'
  <2>1. onHand' \in 0..MaxStock /\ moved' \in Int
    BY <1>0, <1>8 DEF FinalizeCount, ShelfTypeOK
  <2> QED
    BY <1>8, <2>1 DEF FinalizeCount, ShelfTypeOK
<1>9. ASSUME StartCount PROVE Holding'
  BY <1>0, <1>9 DEF StartCount, ShelfTypeOK, Free
<1>10. ASSUME CancelCount PROVE Holding'
  BY <1>0, <1>10 DEF CancelCount, ShelfTypeOK
<1>11. CASE UNCHANGED shelfVars
  BY <1>11 DEF shelfVars, ShelfTypeOK
<1> QED
  BY <1>1, <1>2, <1>3, <1>4, <1>5, <1>6, <1>7, <1>8, <1>9, <1>10, <1>11 DEF Step

\* What one step does to the shelf and the ledger.
LEMMA CommitMoves ==
  ASSUME Holding, NEW c \in Command, Commit(c)
  PROVE  /\ moved' - onHand' # moved - onHand => Importing(c)
         /\ moved' - onHand' >= moved - onHand
         /\ counting /\ counting' /\ onHand' # onHand => Importing(c) \/ Unseen(c)
<1>1. /\ command[c] \in [at : {"looked", "checked", "written"}, units : 0..MaxStock,
                         found : BOOLEAN, import : BOOLEAN] /\ command[c] # Idle
      /\ MaxStock \in Nat /\ onHand \in 0..MaxStock /\ moved \in Int
  BY ShelfAssumption, Looking DEF Commit, Idle, Holding, ShelfTypeOK
<1>2. /\ command[c].at = "written" /\ command'[c] = Idle
      /\ onHand' = Stored(c) /\ moved' = moved + command[c].units
  BY DEF Commit, Holding, ShelfTypeOK
<1>3. CASE command[c].import
  <2>1. Importing(c)
    BY <1>2, <1>3 DEF Importing
  <2>2. moved' - onHand' >= moved - onHand
    BY <1>1, <1>2 DEF Stored
  <2> QED
    BY <2>1, <2>2
<1>4. CASE ~command[c].import
  <2>1. onHand' = onHand + command[c].units
    BY <1>2, <1>4 DEF Stored
  <2>2. moved' - onHand' = moved - onHand
    BY <1>1, <1>2, <2>1
  <2>3. counting => Unseen(c)
    BY <1>1, <1>2, <1>4 DEF Holding, Unseen
  <2> QED
    BY <1>1, <2>2, <2>3
<1> QED
  BY <1>3, <1>4

LEMMA OthersMove ==
  ASSUME Holding, [Step]_shelfVars, \A c \in Command : ~Commit(c)
  PROVE  /\ moved' - onHand' = moved - onHand
         /\ counting /\ counting' => onHand' = onHand
<1>0. MaxStock \in Nat /\ onHand \in Int /\ moved \in Int
  BY ShelfAssumption DEF Holding, ShelfTypeOK
<1>1. ASSUME NEW c \in Command, NEW units, Look(c, units) \/ LookToImport(c, units)
      PROVE  onHand' = onHand /\ moved' = moved
  BY <1>1 DEF Look, LookToImport
<1>2. ASSUME NEW c \in Command, CheckCount(c) \/ Write(c) \/ Rollback(c)
      PROVE  onHand' = onHand /\ moved' = moved
  BY <1>2 DEF CheckCount, Write, Rollback
<1>3. ASSUME NEW delta \in (-MaxStock)..MaxStock, Adjust(delta)
      PROVE  moved' - onHand' = moved - onHand /\ ~counting
  BY <1>0, <1>3 DEF Adjust
<1>4. ASSUME NEW counted \in 0..MaxStock, FinalizeCount(counted)
      PROVE  moved' - onHand' = moved - onHand /\ ~counting'
  BY <1>0, <1>4 DEF FinalizeCount
<1>5. ASSUME StartCount \/ CancelCount \/ UNCHANGED shelfVars
      PROVE  onHand' = onHand /\ moved' = moved
  BY <1>5 DEF StartCount, CancelCount, shelfVars
<1> QED
  BY <1>1, <1>2, <1>3, <1>4, <1>5 DEF Step

\* The shelf changes by what is moved, except where an import writes over it
\* (catalog.service, :147; return.service, :162-169; initial-import.service, :107).
THEOREM LedgerMovesTheShelf == ShelfSpec => ShelfFollowsLedger
<1>1. Holding /\ [Step]_shelfVars =>
        [/\ moved' - onHand' # moved - onHand => \E c \in Command : Importing(c)
         /\ moved' - onHand' >= moved - onHand]_shelfVars
  <2> SUFFICES ASSUME Holding, [Step]_shelfVars
               PROVE  /\ moved' - onHand' # moved - onHand => \E c \in Command : Importing(c)
                      /\ moved' - onHand' >= moved - onHand
    OBVIOUS
  <2>1. CASE \E c \in Command : Commit(c)
    BY <2>1, CommitMoves
  <2>2. CASE \A c \in Command : ~Commit(c)
    <3>1. moved' - onHand' = moved - onHand /\ onHand \in Int /\ moved \in Int
      BY <2>2, OthersMove DEF Holding, ShelfTypeOK
    <3> QED
      BY <3>1
  <2> QED
    BY <2>1, <2>2
<1> QED
  BY <1>1, HoldingInit, HoldingStep, PTL DEF ShelfSpec, ShelfFollowsLedger

\* A count is disturbed only by an import and by a command that found no row to
\* lock (catalog.service, :147; stock-count.service, :45-59).
THEOREM UnseenDisturbCounts == ShelfSpec => OnlyUnseenDisturbCounts
<1>1. Holding /\ [Step]_shelfVars =>
        [counting /\ counting' /\ onHand' # onHand =>
           \E c \in Command : Importing(c) \/ Unseen(c)]_shelfVars
  <2> SUFFICES ASSUME Holding, [Step]_shelfVars, counting, counting', onHand' # onHand
               PROVE  \E c \in Command : Importing(c) \/ Unseen(c)
    OBVIOUS
  <2>1. \E c \in Command : Commit(c)
    BY OthersMove
  <2> QED
    BY <2>1, CommitMoves
<1> QED
  BY <1>1, HoldingInit, HoldingStep, PTL DEF ShelfSpec, OnlyUnseenDisturbCounts

=============================================================================
