----------------------------- MODULE Scaffold_proofs -----------------------------
(***************************************************************************)
(* What the create-* commands leave behind, for any entities, domains and  *)
(* layers, however they are interleaved, repeated and interrupted.         *)
(***************************************************************************)
EXTENDS Scaffold, FiniteSetTheorems, SequenceTheorems, TLAPS

-----------------------------------------------------------------------------
(* Sorting by position *)

\* Every rank from 1 to the size of a finite set of positions is that of exactly
\* one of them, and the highest is that of the last (Rank, ruff's order).
LEMMA RanksAreOneToOne ==
  ASSUME NEW N \in Nat, NEW K \in SUBSET (1 .. N)
  PROVE  /\ IsFiniteSet(K) /\ Cardinality(K) \in Nat
         /\ \A i \in K : Rank(K, i) \in 1 .. Cardinality(K)
         /\ \A i, j \in K : Rank(K, i) = Rank(K, j) => i = j
         /\ \A n \in 1 .. Cardinality(K) : \E i \in K : Rank(K, i) = n
         /\ \A i, j \in K : Rank(K, i) = Cardinality(K) => j <= i
  <1> DEFINE Upto(i) == {j \in K : j <= i}
             r == [i \in K |-> Rank(K, i)]
  <1>1. IsFiniteSet(K) /\ Cardinality(K) \in Nat
    <2>1. IsFiniteSet(1 .. N)
      BY FS_Interval, 1 \in Int, N \in Int
    <2>2. IsFiniteSet(K)
      BY <2>1, FS_Subset
    <2> QED
      BY <2>2, FS_CardinalityType
  <1>2. \A i \in K : /\ Upto(i) \in SUBSET K /\ i \in Upto(i)
                     /\ Rank(K, i) = Cardinality(Upto(i))
    <2> SUFFICES ASSUME NEW i \in K
                 PROVE  /\ Upto(i) \in SUBSET K /\ i \in Upto(i)
                        /\ Rank(K, i) = Cardinality(Upto(i))
      OBVIOUS
    <2>1. Upto(i) \in SUBSET K /\ i \in Upto(i)
      OBVIOUS
    <2>2. Rank(K, i) = Cardinality(Upto(i))
      BY DEF Rank
    <2> QED
      BY <2>1, <2>2
  <1>3. \A i, j \in K : i < j => Upto(i) \in SUBSET Upto(j) /\ j \notin Upto(i)
    <2> SUFFICES ASSUME NEW i \in K, NEW j \in K, i < j
                 PROVE  Upto(i) \in SUBSET Upto(j) /\ j \notin Upto(i)
      OBVIOUS
    <2>1. i \in Int /\ j \in Int /\ ~(j <= i)
      OBVIOUS
    <2>2. ASSUME NEW m \in Upto(i) PROVE m \in Upto(j)
      <3>1. m \in K /\ m \in Int /\ m <= i
        OBVIOUS
      <3> QED
        BY <2>1, <3>1
    <2>3. j \notin Upto(i)
      BY <2>1
    <2> QED
      BY <2>2, <2>3
  <1>4. \A i, j \in K : Upto(i) = K => j <= i
    <2> SUFFICES ASSUME NEW i \in K, NEW j \in K, Upto(i) = K
                 PROVE  j <= i
      OBVIOUS
    <2>1. j \in Upto(i)
      OBVIOUS
    <2> QED
      BY <2>1
  <1> HIDE DEF Upto
  <1>5. \A i \in K : /\ IsFiniteSet(Upto(i)) /\ Rank(K, i) \in 1 .. Cardinality(K)
                     /\ Rank(K, i) = Cardinality(K) => Upto(i) = K
    <2> SUFFICES ASSUME NEW i \in K
                 PROVE  /\ IsFiniteSet(Upto(i)) /\ Rank(K, i) \in 1 .. Cardinality(K)
                        /\ Rank(K, i) = Cardinality(K) => Upto(i) = K
      OBVIOUS
    <2>1. /\ IsFiniteSet(Upto(i)) /\ Cardinality(Upto(i)) <= Cardinality(K)
          /\ Cardinality(Upto(i)) = Cardinality(K) => Upto(i) = K
      BY <1>1, <1>2, FS_Subset
    <2>2. Cardinality(Upto(i)) \in Nat /\ Cardinality(Upto(i)) # 0
      BY <1>2, <2>1, FS_CardinalityType, FS_EmptySet
    <2> QED
      BY <1>1, <1>2, <2>1, <2>2
  <1>6. \A i, j \in K : i < j => Rank(K, i) # Rank(K, j)
    <2> SUFFICES ASSUME NEW i \in K, NEW j \in K, i < j, Rank(K, i) = Rank(K, j)
                 PROVE  FALSE
      OBVIOUS
    <2>1. Upto(i) = Upto(j)
      BY <1>2, <1>3, <1>5, FS_Subset
    <2> QED
      BY <1>2, <1>3, <2>1
  <1>7. \A i, j \in K : Rank(K, i) = Rank(K, j) => i = j
    <2> SUFFICES ASSUME NEW i \in K, NEW j \in K, i # j
                 PROVE  Rank(K, i) # Rank(K, j)
      OBVIOUS
    <2>1. i < j \/ j < i
      OBVIOUS
    <2> QED
      BY <1>6, <2>1
  <1>8. r \in Injection(K, 1 .. Cardinality(K))
    BY <1>5, <1>7 DEF Injection, IsInjective
  <1>9. /\ IsFiniteSet(1 .. Cardinality(K))
        /\ Cardinality(1 .. Cardinality(K)) = Cardinality(K)
    BY <1>1, FS_Interval
  <1>10. r \in Surjection(K, 1 .. Cardinality(K))
    BY <1>8, <1>9, FS_Injection
  <1>11. \A n \in 1 .. Cardinality(K) : \E i \in K : Rank(K, i) = n
    BY <1>10 DEF Surjection
  <1> QED
    BY <1>1, <1>4, <1>5, <1>7, <1>11

\* The domains stand in Order, each at some place.
LEMMA OrderHasDomains ==
  /\ Len(Order) \in Nat
  /\ \A i \in 1 .. Len(Order) : Order[i] \in Domains
  /\ \A d \in Domains : \E i \in 1 .. Len(Order) : d = Order[i]
  <1>1. Order \in Seq(Domains) /\ Elements(Order) = Domains
    BY ScaffoldAssumption
  <1>2. Len(Order) \in Nat /\ \A i \in 1 .. Len(Order) : Order[i] \in Domains
    BY <1>1, LenProperties, ElementOfSeq
  <1> QED
    BY <1>1, <1>2 DEF Elements

\* What a list of imports takes from a domain.
LEMMA NamesAreImported ==
  ASSUME NEW s \in Seq(Statements), NEW d
  PROVE  /\ NamesFrom(s, d) \subseteq Entities
         /\ \A e : e \in NamesFrom(s, d) <=>
              \E i \in 1 .. Len(s) : s[i].from = d /\ e \in s[i].names
  <1>1. \A i \in 1 .. Len(s) : s[i] \in Statements
    BY ElementOfSeq
  <1>2. \A e : e \in NamesFrom(s, d) <=>
          \E i \in 1 .. Len(s) : s[i].from = d /\ e \in s[i].names
    BY DEF NamesFrom
  <1> QED
    BY <1>1, <1>2 DEF Statements

\* What ruff makes of a list of imports: one for every domain that has any, with
\* all of its names, in order.
LEMMA SortedIsMerged ==
  ASSUME NEW s \in Seq(Statements)
  PROVE  /\ Sorted(s) \in Seq(Statements)
         /\ \A i \in 1 .. Len(Sorted(s)) :
              /\ Sorted(s)[i].names # {}
              /\ Sorted(s)[i].names = NamesFrom(s, Sorted(s)[i].from)
         /\ \A d \in Domains : NamesFrom(s, d) # {} =>
              \E i \in 1 .. Len(Sorted(s)) :
                Sorted(s)[i] = [from |-> d, names |-> NamesFrom(s, d)]
         /\ \A p \in 1 .. Len(Order) : NamesFrom(s, Order[p]) # {} =>
              /\ Len(Sorted(s)) \in 1 .. Len(Sorted(s))
              /\ \E q \in p .. Len(Order) : Sorted(s)[Len(Sorted(s))].from = Order[q]
  <1> DEFINE kept == {i \in 1 .. Len(Order) : NamesFrom(s, Order[i]) # {}}
             size == Cardinality(kept)
             at(n) == CHOOSE i \in kept : Rank(kept, i) = n
             line(i) == [from |-> Order[i], names |-> NamesFrom(s, Order[i])]
  <1>1. kept \in SUBSET (1 .. Len(Order)) /\ Len(Order) \in Nat
    BY OrderHasDomains
  <1>2. Sorted(s) = [n \in 1 .. size |-> Merged(s)[at(n)]]
    BY DEF Sorted
  <1>3. \A i \in kept : /\ line(i) \in Statements /\ line(i).names # {}
                        /\ line(i).from = Order[i]
                        /\ line(i).names = NamesFrom(s, Order[i])
    BY OrderHasDomains, NamesAreImported DEF Statements
  <1>4. \A i \in kept : Merged(s)[i] = line(i)
    BY DEF Merged
  <1>5. \A p \in 1 .. Len(Order) : NamesFrom(s, Order[p]) # {} <=> p \in kept
    OBVIOUS
  <1> HIDE DEF kept, line
  <1>6. /\ size \in Nat
        /\ \A i \in kept : Rank(kept, i) \in 1 .. size
        /\ \A i, j \in kept : Rank(kept, i) = Rank(kept, j) => i = j
        /\ \A n \in 1 .. size : \E i \in kept : Rank(kept, i) = n
        /\ \A i, j \in kept : Rank(kept, i) = size => j <= i
    BY <1>1, RanksAreOneToOne
  <1>7. \A n \in 1 .. size : at(n) \in kept /\ Rank(kept, at(n)) = n
    BY <1>6
  <1>8. \A i \in kept : at(Rank(kept, i)) = i
    BY <1>6, <1>7
  <1> HIDE DEF at, size
  <1>9. Sorted(s) = [n \in 1 .. size |-> line(at(n))]
    BY <1>2, <1>4, <1>7
  <1>10. Sorted(s) \in Seq(Statements) /\ Len(Sorted(s)) = size
    <2>1. \A n \in 1 .. size : line(at(n)) \in Statements
      BY <1>3, <1>7
    <2> QED
      BY <1>6, <1>9, <2>1
  <1>11. \A i \in 1 .. size : /\ Sorted(s)[i].names # {}
                              /\ Sorted(s)[i].names = NamesFrom(s, Sorted(s)[i].from)
    BY <1>3, <1>7, <1>9
  <1>12. \A d \in Domains : NamesFrom(s, d) # {} =>
           \E i \in 1 .. size : Sorted(s)[i] = [from |-> d, names |-> NamesFrom(s, d)]
    <2> SUFFICES ASSUME NEW d \in Domains, NamesFrom(s, d) # {}
                 PROVE  \E i \in 1 .. size :
                          Sorted(s)[i] = [from |-> d, names |-> NamesFrom(s, d)]
      OBVIOUS
    <2>1. PICK p \in 1 .. Len(Order) : d = Order[p]
      BY OrderHasDomains
    <2>2. p \in kept /\ Rank(kept, p) \in 1 .. size
      BY <1>5, <1>6, <2>1
    <2>3. Sorted(s)[Rank(kept, p)] = line(p)
      BY <1>8, <1>9, <2>2
    <2> QED
      BY <2>1, <2>2, <2>3 DEF line
  <1>13. \A p \in 1 .. Len(Order) : NamesFrom(s, Order[p]) # {} =>
           /\ size \in 1 .. size
           /\ \E q \in p .. Len(Order) : Sorted(s)[size].from = Order[q]
    <2> SUFFICES ASSUME NEW p \in 1 .. Len(Order), p \in kept
                 PROVE  /\ size \in 1 .. size
                        /\ \E q \in p .. Len(Order) : Sorted(s)[size].from = Order[q]
      BY <1>5
    <2>1. size \in 1 .. size
      BY <1>6
    <2>2. at(size) \in kept /\ p <= at(size)
      BY <1>6, <1>7, <2>1
    <2>3. at(size) \in p .. Len(Order)
      <3>1. at(size) \in 1 .. Len(Order)
        BY <1>1, <2>2
      <3> QED
        BY <1>1, <2>2, <3>1
    <2>4. Sorted(s)[size].from = Order[at(size)]
      BY <1>3, <1>9, <2>1, <2>2
    <2> QED
      BY <2>1, <2>3, <2>4
  <1> QED
    BY <1>10, <1>11, <1>12, <1>13

-----------------------------------------------------------------------------
(* The steps of the commands *)

StepSet ==
  [op : {"packages", "pyproject", "write", "init", "dependencies", "model", "router",
         "format"},
   layer : LayerSet \cup {"none"}]

Commands ==
  {AllSteps, DomainSteps, <<Step("dependencies")>>} \cup {LayerSteps(l) : l \in LayerSet}

\* What generate_all does, place by place.
LEMMA AllStepsAre ==
  LET n == Len(Layers) IN
  /\ n \in Nat /\ \A l \in LayerSet : \E m \in 1 .. n : l = Layers[m]
  /\ AllSteps \in Seq(StepSet) /\ Len(AllSteps) = 2 * n + 6
  /\ AllSteps[1] = Step("packages") /\ AllSteps[2] = Step("pyproject")
  /\ \A m \in 1 .. n : /\ Layers[m] \in LayerSet
                       /\ AllSteps[2 * m + 1] = [op |-> "write", layer |-> Layers[m]]
                       /\ AllSteps[2 * m + 2] = [op |-> "init", layer |-> Layers[m]]
  /\ AllSteps[2 * n + 3] = Step("dependencies") /\ AllSteps[2 * n + 4] = Step("model")
  /\ AllSteps[2 * n + 5] = Step("router") /\ AllSteps[2 * n + 6] = Step("format")
  <1> DEFINE n == Len(Layers)
             wires == <<Step("dependencies"), Step("model"), Step("router"),
                        Step("format")>>
  <1>1. /\ n \in Nat /\ \A m \in 1 .. n : Layers[m] \in LayerSet
        /\ \A l \in LayerSet : \E m \in 1 .. n : l = Layers[m]
    <2>1. Layers \in Seq(LayerSet)
      BY ScaffoldAssumption DEF LayerSet
    <2>2. n \in Nat /\ \A m \in 1 .. n : Layers[m] \in LayerSet
      BY <2>1, LenProperties, ElementOfSeq
    <2> QED
      BY <2>2 DEF LayerSet, Elements
  <1>2. \A m \in 1 .. n :
          /\ 2 * m - 1 \in 1 .. 2 * n
          /\ AllLayerSteps[2 * m - 1] = [op |-> "write", layer |-> Layers[m]]
          /\ 2 * m \in 1 .. 2 * n
          /\ AllLayerSteps[2 * m] = [op |-> "init", layer |-> Layers[m]]
    <2> SUFFICES ASSUME NEW m \in 1 .. n
                 PROVE  /\ 2 * m - 1 \in 1 .. 2 * n
                        /\ AllLayerSteps[2 * m - 1] = [op |-> "write", layer |-> Layers[m]]
                        /\ 2 * m \in 1 .. 2 * n
                        /\ AllLayerSteps[2 * m] = [op |-> "init", layer |-> Layers[m]]
      OBVIOUS
    <2>1. /\ 2 * m - 1 \in 1 .. 2 * n /\ 2 * m \in 1 .. 2 * n
          /\ (2 * m - 1 + 1) \div 2 = m /\ (2 * m + 1) \div 2 = m
          /\ (2 * m - 1) % 2 = 1 /\ (2 * m) % 2 = 0
      BY <1>1
    <2>2. AllLayerSteps[2 * m - 1] = LayerSteps(Layers[m])[1]
      BY <2>1 DEF AllLayerSteps
    <2>3. AllLayerSteps[2 * m] = LayerSteps(Layers[m])[2]
      BY <2>1 DEF AllLayerSteps
    <2> QED
      BY <2>1, <2>2, <2>3 DEF LayerSteps
  <1>3. AllLayerSteps \in Seq(StepSet) /\ Len(AllLayerSteps) = 2 * n
    <2>1. ASSUME NEW i \in 1 .. 2 * n PROVE AllLayerSteps[i] \in StepSet
      <3>1. (i + 1) \div 2 \in 1 .. n
        BY <1>1
      <3>2. \/ AllLayerSteps[i] = LayerSteps(Layers[(i + 1) \div 2])[1]
            \/ AllLayerSteps[i] = LayerSteps(Layers[(i + 1) \div 2])[2]
        BY DEF AllLayerSteps
      <3> QED
        BY <1>1, <3>1, <3>2 DEF LayerSteps, StepSet
    <2>2. 2 * n \in Nat
      BY <1>1
    <2> HIDE DEF n
    <2>3. AllLayerSteps = [i \in 1 .. 2 * n |-> AllLayerSteps[i]]
      BY DEF AllLayerSteps, n
    <2> QED
      BY <2>1, <2>2, <2>3
  <1>4. DomainSteps \in Seq(StepSet) /\ Len(DomainSteps) = 2 /\ wires \in Seq(StepSet)
        /\ Len(wires) = 4
    <2>1. \A op \in {"packages", "pyproject", "dependencies", "model", "router", "format"} :
            Step(op) \in StepSet
      BY DEF Step, StepSet
    <2>2. DomainSteps \in Seq(StepSet) /\ Len(DomainSteps) = 2
      BY <2>1 DEF DomainSteps
    <2>3. wires \in Seq(StepSet) /\ Len(wires) = 4
      BY <2>1
    <2> QED
      BY <2>2, <2>3
  <1> DEFINE front == DomainSteps \o AllLayerSteps
  <1>5. /\ front \in Seq(StepSet) /\ Len(front) = 2 * n + 2
        /\ \A i \in 1 .. 2 * n + 2 :
             front[i] = IF i <= 2 THEN DomainSteps[i] ELSE AllLayerSteps[i - 2]
    <2>1. /\ front \in Seq(StepSet)
          /\ Len(front) = Len(DomainSteps) + Len(AllLayerSteps)
          /\ \A i \in 1 .. Len(DomainSteps) + Len(AllLayerSteps) :
               front[i] = IF i <= Len(DomainSteps) THEN DomainSteps[i]
                          ELSE AllLayerSteps[i - Len(DomainSteps)]
      BY <1>3, <1>4, ConcatProperties
    <2>2. Len(DomainSteps) + Len(AllLayerSteps) = 2 * n + 2
      BY <1>1, <1>3, <1>4
    <2> HIDE DEF front
    <2> QED
      BY <1>4, <2>1, <2>2
  <1>6. AllSteps = front \o wires
    BY DEF AllSteps
  <1> HIDE DEF front, wires
  <1>7. /\ AllSteps \in Seq(StepSet) /\ Len(AllSteps) = 2 * n + 6
        /\ \A i \in 1 .. 2 * n + 6 :
             AllSteps[i] = IF i <= 2 * n + 2 THEN front[i] ELSE wires[i - (2 * n + 2)]
    <2>1. /\ AllSteps \in Seq(StepSet) /\ Len(AllSteps) = Len(front) + Len(wires)
          /\ \A i \in 1 .. Len(front) + Len(wires) :
               AllSteps[i] = IF i <= Len(front) THEN front[i] ELSE wires[i - Len(front)]
      BY <1>4, <1>5, <1>6, ConcatProperties
    <2>2. Len(front) + Len(wires) = 2 * n + 6
      BY <1>1, <1>4, <1>5
    <2> QED
      BY <1>5, <2>1, <2>2
  <1>8. AllSteps[1] = DomainSteps[1] /\ AllSteps[2] = DomainSteps[2]
    BY <1>1, <1>5, <1>7
  <1>9. \A i \in 1 .. 2 * n : AllSteps[i + 2] = AllLayerSteps[i]
    BY <1>1, <1>5, <1>7
  <1>10. \A m \in 1 .. n : AllSteps[2 * m + 1] = AllLayerSteps[2 * m - 1]
                           /\ AllSteps[2 * m + 2] = AllLayerSteps[2 * m]
    <2> SUFFICES ASSUME NEW m \in 1 .. n
                 PROVE  AllSteps[2 * m + 1] = AllLayerSteps[2 * m - 1]
                        /\ AllSteps[2 * m + 2] = AllLayerSteps[2 * m]
      OBVIOUS
    <2>1. 2 * m - 1 + 2 = 2 * m + 1
      OBVIOUS
    <2> QED
      BY <1>2, <1>9, <2>1
  <1>11. \A i \in 1 .. 4 : AllSteps[2 * n + 2 + i] = wires[i]
    BY <1>1, <1>7
  <1>12. AllSteps[2 * n + 3] = wires[1] /\ AllSteps[2 * n + 4] = wires[2]
         /\ AllSteps[2 * n + 5] = wires[3] /\ AllSteps[2 * n + 6] = wires[4]
    <2>1. /\ 2 * n + 2 + 1 = 2 * n + 3 /\ 2 * n + 2 + 2 = 2 * n + 4
          /\ 2 * n + 2 + 3 = 2 * n + 5 /\ 2 * n + 2 + 4 = 2 * n + 6
      BY <1>1
    <2> QED
      BY <1>11, <2>1
  <1> QED
    BY <1>1, <1>2, <1>7, <1>8, <1>10, <1>12 DEF DomainSteps, wires

\* Every place of generate_all is one of these.
LEMMA AllPlaces ==
  LET n == Len(Layers) IN
  \A k \in 1 .. Len(AllSteps) :
    \/ k \in {1, 2} \/ k \in {2 * n + 3, 2 * n + 4, 2 * n + 5, 2 * n + 6}
    \/ \E m \in 1 .. n : k = 2 * m + 1 \/ k = 2 * m + 2
  <1> DEFINE n == Len(Layers)
  <1>1. n \in Nat /\ Len(AllSteps) = 2 * n + 6
    BY AllStepsAre
  <1>2. ASSUME NEW k \in 3 .. 2 * n + 2
        PROVE  \E m \in 1 .. n : k = 2 * m + 1 \/ k = 2 * m + 2
    <2>1. (k - 1) \div 2 \in 1 .. n
      BY <1>1
    <2>2. k = 2 * ((k - 1) \div 2) + 1 \/ k = 2 * ((k - 1) \div 2) + 2
      BY <1>1
    <2> QED
      BY <2>1, <2>2
  <1>3. \A k \in 1 .. 2 * n + 6 : k \in {1, 2} \/ k \in 3 .. 2 * n + 2
          \/ k \in {2 * n + 3, 2 * n + 4, 2 * n + 5, 2 * n + 6}
    BY <1>1
  <1> HIDE DEF n
  <1>4. \A k \in 1 .. Len(AllSteps) :
          \/ k \in {1, 2} \/ k \in {2 * n + 3, 2 * n + 4, 2 * n + 5, 2 * n + 6}
          \/ \E m \in 1 .. n : k = 2 * m + 1 \/ k = 2 * m + 2
    BY <1>1, <1>2, <1>3
  <1> QED
    BY <1>4 DEF n

\* What the order of generate_all and of the single commands guarantees: what a
\* step relies on is the work of an earlier step of the same command.
InOrder(steps, k) ==
  /\ steps[k].op = "pyproject" => \E j \in 1 .. k - 1 : steps[j] = Step("packages")
  /\ steps[k].op \in {"write", "init"} => steps[k].layer \in LayerSet
  /\ steps[k].op = "init" =>
       \E j \in 1 .. k - 1 : steps[j] = [op |-> "write", layer |-> steps[k].layer]
  /\ steps[k].op \in {"router", "format"} =>
       /\ steps = AllSteps
       /\ \A op \in {"pyproject", "dependencies", "model"} :
            \E j \in 1 .. k - 1 : steps[j] = Step(op)
       /\ \A l \in LayerSet : \E j \in 1 .. k - 1 : steps[j] = [op |-> "init", layer |-> l]
  /\ steps[k].op = "router" => k = Len(steps) - 1
  /\ steps[k].op = "format" =>
       k = Len(steps) /\ \E j \in 1 .. k - 1 : steps[j] = Step("router")

\* The steps of create-all are in order.
LEMMA AllStepsAreInOrder == \A k \in 1 .. Len(AllSteps) : InOrder(AllSteps, k)
  <1> DEFINE n == Len(Layers)
  <1>1. /\ n \in Nat /\ \A l \in LayerSet : \E m \in 1 .. n : l = Layers[m]
        /\ Len(AllSteps) = 2 * n + 6
        /\ AllSteps[1] = Step("packages") /\ AllSteps[2] = Step("pyproject")
        /\ \A m \in 1 .. n : /\ Layers[m] \in LayerSet
                             /\ AllSteps[2 * m + 1] = [op |-> "write", layer |-> Layers[m]]
                             /\ AllSteps[2 * m + 2] = [op |-> "init", layer |-> Layers[m]]
        /\ AllSteps[2 * n + 3] = Step("dependencies") /\ AllSteps[2 * n + 4] = Step("model")
        /\ AllSteps[2 * n + 5] = Step("router") /\ AllSteps[2 * n + 6] = Step("format")
    BY AllStepsAre
  <1>2. \A k \in 1 .. Len(AllSteps) :
          \/ k \in {1, 2} \/ k \in {2 * n + 3, 2 * n + 4, 2 * n + 5, 2 * n + 6}
          \/ \E m \in 1 .. n : k = 2 * m + 1 \/ k = 2 * m + 2
    BY AllPlaces
  <1> HIDE DEF n
  <1>3. InOrder(AllSteps, 1) /\ InOrder(AllSteps, 2)
    <2>1. 1 \in 1 .. 2 - 1
      OBVIOUS
    <2> QED
      BY <1>1, <2>1 DEF InOrder, Step
  <1>4. ASSUME NEW m \in 1 .. n
        PROVE  InOrder(AllSteps, 2 * m + 1) /\ InOrder(AllSteps, 2 * m + 2)
    <2>1. 2 * m + 1 \in 1 .. 2 * m + 2 - 1
      BY <1>1
    <2>2. AllSteps[2 * m + 1] = [op |-> "write", layer |-> Layers[m]]
          /\ AllSteps[2 * m + 2] = [op |-> "init", layer |-> Layers[m]]
          /\ Layers[m] \in LayerSet
      BY <1>1
    <2> QED
      BY <2>1, <2>2 DEF InOrder
  <1>5. InOrder(AllSteps, 2 * n + 3) /\ InOrder(AllSteps, 2 * n + 4)
    BY <1>1 DEF InOrder, Step
  <1>6. ASSUME NEW k \in {2 * n + 5, 2 * n + 6}
        PROVE  InOrder(AllSteps, k)
    <2>1. \/ AllSteps[k] = Step("router") /\ k = 2 * n + 5
          \/ AllSteps[k] = Step("format") /\ k = 2 * n + 6
      BY <1>1, k = 2 * n + 5 \/ k = 2 * n + 6
    <2>2. /\ 2 \in 1 .. k - 1 /\ 2 * n + 3 \in 1 .. k - 1 /\ 2 * n + 4 \in 1 .. k - 1
          /\ \A m \in 1 .. n : 2 * m + 2 \in 1 .. k - 1
          /\ k = 2 * n + 6 => 2 * n + 5 \in 1 .. k - 1
          /\ k = 2 * n + 5 => k = Len(AllSteps) - 1
      BY <1>1
    <2>3. \A op \in {"pyproject", "dependencies", "model"} :
            \E j \in 1 .. k - 1 : AllSteps[j] = Step(op)
      BY <1>1, <2>2
    <2>4. \A l \in LayerSet : \E j \in 1 .. k - 1 :
            AllSteps[j] = [op |-> "init", layer |-> l]
      <3> SUFFICES ASSUME NEW l \in LayerSet
                   PROVE  \E j \in 1 .. k - 1 : AllSteps[j] = [op |-> "init", layer |-> l]
        OBVIOUS
      <3>1. PICK m \in 1 .. n : l = Layers[m]
        BY <1>1
      <3>2. 2 * m + 2 \in 1 .. k - 1 /\ AllSteps[2 * m + 2] = [op |-> "init", layer |-> l]
        BY <1>1, <2>2, <3>1
      <3> QED
        BY <3>2
    <2>5. k = 2 * n + 6 => \E j \in 1 .. k - 1 : AllSteps[j] = Step("router")
      BY <1>1, <2>2
    <2>6. \/ AllSteps[k].op = "router" /\ k = 2 * n + 5
          \/ AllSteps[k].op = "format" /\ k = 2 * n + 6 /\ k = Len(AllSteps)
      BY <1>1, <2>1 DEF Step
    <2> QED
      BY <2>2, <2>3, <2>4, <2>5, <2>6 DEF InOrder
  <1> QED
    BY <1>2, <1>3, <1>4, <1>5, <1>6

\* So are those of every command.
LEMMA StepsAreInOrder ==
  ASSUME NEW steps \in Commands
  PROVE  /\ steps \in Seq(StepSet) /\ Len(steps) \in Nat
         /\ \A k \in 1 .. Len(steps) : InOrder(steps, k)
  <1>1. CASE steps = AllSteps
    BY <1>1, AllStepsAre, AllStepsAreInOrder, LenProperties
  <1>2. CASE steps = DomainSteps
    <2>1. /\ DomainSteps \in Seq(StepSet) /\ Len(DomainSteps) = 2
          /\ DomainSteps[1] = Step("packages") /\ DomainSteps[2] = Step("pyproject")
      BY DEF DomainSteps, Step, StepSet
    <2>2. 1 \in 1 .. 2 - 1
      OBVIOUS
    <2>3. InOrder(DomainSteps, 1) /\ InOrder(DomainSteps, 2)
      BY <2>1, <2>2 DEF InOrder, Step
    <2> QED
      BY <1>2, <2>1, <2>3
  <1>3. CASE steps = <<Step("dependencies")>>
    <2>1. steps \in Seq(StepSet) /\ Len(steps) = 1 /\ steps[1] = Step("dependencies")
      BY <1>3 DEF Step, StepSet
    <2> QED
      BY <2>1 DEF InOrder, Step
  <1>4. ASSUME NEW l \in LayerSet, steps = LayerSteps(l)
        PROVE  /\ steps \in Seq(StepSet) /\ Len(steps) \in Nat
               /\ \A k \in 1 .. Len(steps) : InOrder(steps, k)
    <2>1. /\ steps \in Seq(StepSet) /\ Len(steps) = 2
          /\ steps[1] = [op |-> "write", layer |-> l]
          /\ steps[2] = [op |-> "init", layer |-> l]
      BY <1>4 DEF LayerSteps, StepSet
    <2>2. 1 \in 1 .. 2 - 1
      OBVIOUS
    <2>3. InOrder(steps, 1) /\ InOrder(steps, 2)
      BY <2>1, <2>2 DEF InOrder
    <2> QED
      BY <2>1, <2>3
  <1> QED
    BY <1>1, <1>2, <1>3, <1>4 DEF Commands

-----------------------------------------------------------------------------
(* The inductive invariant *)

\* What a step is for has happened to the entity of the command.
Done(st) ==
  /\ st.op = "packages" => DomainOf[entity] \in packages
  /\ st.op = "pyproject" => DomainOf[entity] \in pyproject
  /\ st.op = "write" => <<entity, st.layer>> \in files
  /\ st.op = "init" => <<entity, st.layer>> \in exports
  /\ st.op = "dependencies" => entity \in dependencies
  /\ st.op = "model" => entity \in models
  /\ st.op = "router" => Mounted(entity)

\* A command in progress is at some place, and all before it is done.
At(steps, k) ==
  /\ todo = SubSeq(steps, k, Len(steps))
  /\ \A j \in 1 .. k - 1 : Done(steps[j])

InProgress ==
  todo # <<>> =>
    /\ entity \in Entities \ Given
    /\ \E steps \in Commands : \E k \in 1 .. Len(steps) : At(steps, k)

\* MountedIsComplete without what follows from it for other entities
MountedHasItsParts == \A e \in Elements(mounts) : Complete(e)

\* What the project came with is there as well.
FinishedIsMounted == \A e \in finished \cup Given : Complete(e) /\ Mounted(e)

IInv ==
  /\ TypeOK
  /\ InProgress
  /\ MountedHasItsParts
  /\ FinishedIsMounted

\* Nothing that is there goes away.
Grows ==
  /\ packages \subseteq packages' /\ pyproject \subseteq pyproject'
  /\ files \subseteq files' /\ exports \subseteq exports'
  /\ dependencies \subseteq dependencies' /\ models \subseteq models'
  /\ \A e \in Entities : Mounted(e) => Mounted(e)'

\* The step that a command does next, and the place it leaves it at.
LEMMA NextStep ==
  ASSUME IInv, NEW op, Does(op)
  PROVE  /\ entity \in Entities \ Given /\ entity' = entity
         /\ \E steps \in Commands : \E k \in 1 .. Len(steps) :
              /\ Head(todo) = steps[k] /\ steps[k].op = op /\ steps[k] \in StepSet
              /\ InOrder(steps, k)
              /\ \A j \in 1 .. k - 1 : Done(steps[j])
              /\ todo' = SubSeq(steps, k + 1, Len(steps))
  <1>1. PICK steps \in Commands : \E k \in 1 .. Len(steps) : At(steps, k)
    BY DEF IInv, InProgress, Does
  <1>2. PICK k \in 1 .. Len(steps) : At(steps, k)
    BY <1>1
  <1>3. steps \in Seq(StepSet) /\ Len(steps) \in Nat /\ InOrder(steps, k)
    BY StepsAreInOrder
  <1>4. /\ Head(SubSeq(steps, k, Len(steps))) = steps[k]
        /\ Tail(SubSeq(steps, k, Len(steps))) = SubSeq(steps, k + 1, Len(steps))
    BY <1>3, HeadTailOfSubSeq, Len(steps) \in k .. Len(steps)
  <1>5. steps[k] \in StepSet
    BY <1>3, ElementOfSeq
  <1>6. entity \in Entities \ Given /\ entity' = entity
    BY DEF IInv, InProgress, Does
  <1> QED
    BY <1>2, <1>3, <1>4, <1>5, <1>6 DEF At, Does

\* A step that does what it is for, and undoes nothing, leaves the command in
\* progress or at its end.
LEMMA ProgressIsKept ==
  ASSUME NEW steps \in Commands, NEW k \in 1 .. Len(steps),
         entity \in Entities \ Given, entity' = entity, Grows,
         \A j \in 1 .. k - 1 : Done(steps[j]), Done(steps[k])',
         todo' = SubSeq(steps, k + 1, Len(steps))
  PROVE  InProgress'
  <1>1. steps \in Seq(StepSet) /\ Len(steps) \in Nat
    BY StepsAreInOrder
  <1>2. \A st : Done(st) => Done(st)'
    BY DEF Done, Grows
  <1>3. \A j \in 1 .. k : Done(steps[j])'
    <2>1. \A j \in 1 .. k : j \in 1 .. k - 1 \/ j = k
      OBVIOUS
    <2> QED
      BY <1>2, <2>1
  <1>4. CASE k = Len(steps)
    <2>1. todo' = <<>>
      BY <1>1, <1>4, SubSeqEmpty
    <2> QED
      BY <2>1 DEF InProgress
  <1>5. CASE k # Len(steps)
    <2>1. k + 1 \in 1 .. Len(steps) /\ (k + 1) - 1 = k
      BY <1>1, <1>5
    <2>2. At(steps, k + 1)'
      BY <1>3, <2>1 DEF At
    <2> QED
      BY <2>1, <2>2 DEF InProgress
  <1> QED
    BY <1>4, <1>5

\* A command that starts has all of its steps before it.
LEMMA ProgressStarts ==
  ASSUME NEW steps \in Commands, NEW e \in Entities \ Given,
         todo' = steps, entity' = e
  PROVE  InProgress'
  <1>1. steps \in Seq(StepSet) /\ Len(steps) \in Nat
    BY StepsAreInOrder
  <1>2. CASE steps = <<>>
    BY <1>2 DEF InProgress
  <1>3. CASE steps # <<>>
    <2>1. 1 \in 1 .. Len(steps)
      BY <1>1, <1>3, EmptySeq
    <2>2. SubSeq(steps, 1, Len(steps)) = steps
      BY <1>1, SubSeqFull
    <2>3. At(steps, 1)'
      BY <2>2 DEF At
    <2> QED
      BY <2>1, <2>3 DEF InProgress
  <1> QED
    BY <1>2, <1>3

\* What is complete or mounted stays so.
LEMMA MountedStaysComplete ==
  ASSUME IInv, Grows, Elements(mounts)' = Elements(mounts), finished' = finished
  PROVE  MountedHasItsParts' /\ FinishedIsMounted'
  <1>1. \A e \in Entities : Complete(e) => Complete(e)'
    BY DEF Grows, Complete
  <1>2. finished \cup Given \subseteq Entities
    BY ScaffoldAssumption DEF IInv, TypeOK
  <1>3. Elements(mounts) \subseteq Entities
    BY ElementOfSeq DEF IInv, TypeOK, Elements
  <1> QED
    BY <1>1, <1>2, <1>3 DEF IInv, Grows, MountedHasItsParts, FinishedIsMounted

\* There is one entity at first, and it is wired.
LEMMA InitEstablishes == Init => IInv
  <1> SUFFICES ASSUME Init PROVE IInv
    OBVIOUS
  <1>1. PICK g \in Given : /\ imports = <<[from |-> DomainOf[g], names |-> {g}]>>
                           /\ mounts = <<g>> /\ entity = g
    BY DEF Init
  <1>2. Given = {g}
    <2>1. IsFiniteSet(Given) /\ Cardinality(Given) = 1
      BY ScaffoldAssumption, FS_Subset
    <2> QED
      BY <2>1, FS_Singleton
  <1>3. g \in Entities /\ Given \subseteq Entities
    BY ScaffoldAssumption
  <1>4. TypeOK
    <2>1. [from |-> DomainOf[g], names |-> {g}] \in Statements
      BY <1>3 DEF Statements, Domains
    <2>2. imports \in Seq(Statements) /\ mounts \in Seq(Entities)
          /\ \A i \in 1 .. Len(imports) : imports[i].names # {}
      BY <1>1, <1>3, <2>1
    <2> QED
      BY <1>1, <1>3, <2>2 DEF Init, TypeOK, Domains
  <1>5. InProgress
    BY DEF Init, InProgress
  <1>6. Elements(mounts) = {g} /\ Mounted(g)
    BY <1>1 DEF Elements, Mounted
  <1>7. Complete(g)
    BY <1>2, <1>3 DEF Init, Complete
  <1>8. MountedHasItsParts /\ FinishedIsMounted
    BY <1>2, <1>6, <1>7 DEF Init, MountedHasItsParts, FinishedIsMounted
  <1> QED
    BY <1>4, <1>5, <1>8 DEF IInv

\* A command starts: what it will do is in order.
LEMMA StartsPreserve ==
  ASSUME IInv, NEW e \in Entities \ Given,
         \/ CreateAll(e) \/ CreateDomain(e) \/ CreateDependencies(e)
         \/ \E l \in LayerSet : CreateLayer(e, l)
  PROVE  IInv'
  <1>1. PICK steps \in Commands : todo' = steps
    BY DEF CreateAll, CreateDomain, CreateDependencies, CreateLayer, Starts, Commands
  <1>2. /\ UNCHANGED <<packages, pyproject, files, exports, dependencies, models,
                       imports, mounts, broken, finished>>
        /\ entity' = e /\ touched' = FALSE
    BY DEF CreateAll, CreateDomain, CreateDependencies, CreateLayer, Starts, projectVars
  <1>3. TypeOK'
    BY <1>2 DEF IInv, TypeOK
  <1>4. InProgress'
    BY <1>1, <1>2, ProgressStarts
  <1>5. MountedHasItsParts' /\ FinishedIsMounted'
    BY <1>2 DEF IInv, MountedHasItsParts, FinishedIsMounted, Complete, Mounted
  <1> QED
    BY <1>3, <1>4, <1>5 DEF IInv

\* An interrupted command leaves what it has done.
LEMMA InterruptedPreserves ==
  ASSUME IInv, Interrupted
  PROVE  IInv'
  <1>1. /\ UNCHANGED <<packages, pyproject, files, exports, dependencies, models,
                       imports, mounts, broken, finished, entity, touched>>
        /\ todo' = <<>>
    BY DEF Interrupted, projectVars
  <1>2. TypeOK'
    BY <1>1 DEF IInv, TypeOK
  <1>3. InProgress'
    BY <1>1 DEF InProgress
  <1>4. MountedHasItsParts' /\ FinishedIsMounted'
    BY <1>1 DEF IInv, MountedHasItsParts, FinishedIsMounted, Complete, Mounted
  <1> QED
    BY <1>2, <1>3, <1>4 DEF IInv

\* A step that only adds, what it is for among it, and leaves api_versions.py
\* alone.
LEMMA AdditionPreserves ==
  ASSUME IInv, NEW op, Does(op), Grows, TypeOK', UNCHANGED <<mounts, finished>>,
         \A st : st = Head(todo) => Done(st)'
  PROVE  IInv'
  <1>1. PICK steps \in Commands : \E k \in 1 .. Len(steps) :
          /\ Head(todo) = steps[k]
          /\ \A j \in 1 .. k - 1 : Done(steps[j])
          /\ todo' = SubSeq(steps, k + 1, Len(steps))
    BY NextStep
  <1>2. PICK k \in 1 .. Len(steps) :
          /\ Head(todo) = steps[k]
          /\ \A j \in 1 .. k - 1 : Done(steps[j])
          /\ todo' = SubSeq(steps, k + 1, Len(steps))
    BY <1>1
  <1>3. entity \in Entities \ Given /\ entity' = entity
    BY NextStep
  <1>4. InProgress'
    BY <1>2, <1>3, ProgressIsKept
  <1>5. MountedHasItsParts' /\ FinishedIsMounted'
    BY MountedStaysComplete DEF Elements
  <1> QED
    BY <1>4, <1>5 DEF IInv

\* What the steps before it have done for a step.
LEMMA WhatStepsFind ==
  ASSUME IInv, NEW op, Does(op)
  PROVE  /\ op = "pyproject" => DomainOf[entity] \in packages
         /\ op \in {"write", "init"} => Head(todo).layer \in LayerSet
         /\ op = "init" => <<entity, Head(todo).layer>> \in files
         /\ op \in {"router", "format"} => Complete(entity)
         /\ op = "format" => Mounted(entity)
  <1>1. PICK steps \in Commands : \E k \in 1 .. Len(steps) :
          /\ Head(todo) = steps[k] /\ steps[k].op = op /\ InOrder(steps, k)
          /\ \A j \in 1 .. k - 1 : Done(steps[j])
    BY NextStep
  <1>2. PICK k \in 1 .. Len(steps) :
          /\ Head(todo) = steps[k] /\ steps[k].op = op /\ InOrder(steps, k)
          /\ \A j \in 1 .. k - 1 : Done(steps[j])
    BY <1>1
  <1>3. op = "pyproject" => DomainOf[entity] \in packages
    <2>1. op = "pyproject" => Done(Step("packages"))
      BY <1>2 DEF InOrder
    <2> QED
      BY <2>1 DEF Done, Step
  <1>4. op \in {"write", "init"} => Head(todo).layer \in LayerSet
    BY <1>2 DEF InOrder
  <1>5. op = "init" => <<entity, Head(todo).layer>> \in files
    BY <1>2 DEF InOrder, Done
  <1>6. op \in {"router", "format"} => Complete(entity)
    <2> SUFFICES ASSUME op \in {"router", "format"} PROVE Complete(entity)
      OBVIOUS
    <2>1. \A o \in {"pyproject", "dependencies", "model"} : Done(Step(o))
      BY <1>2 DEF InOrder
    <2>2. \A l \in LayerSet : Done([op |-> "init", layer |-> l])
      BY <1>2 DEF InOrder
    <2>3. {entity} \X LayerSet \subseteq exports
      BY <2>2 DEF Done
    <2> QED
      BY <2>1, <2>3 DEF Complete, Done, Step
  <1>7. op = "format" => Mounted(entity)
    <2>1. op = "format" => Done(Step("router"))
      BY <1>2 DEF InOrder
    <2> QED
      BY <2>1 DEF Done, Step
  <1> QED
    BY <1>3, <1>4, <1>5, <1>6, <1>7

\* The steps that write anything but api_versions.py only add, and what they add
\* to was there: the directories before pyproject.toml lists them, the module
\* before its package imports it.
LEMMA AddsPreserve ==
  ASSUME IInv,
         \/ MakesPackages \/ RegistersPyproject \/ WritesLayer \/ UpdatesInit
         \/ AddsDependencies \/ RegistersModel
  PROVE  IInv'
  <1>1. UNCHANGED <<entity, imports, mounts, broken, touched, finished>>
    BY DEF MakesPackages, RegistersPyproject, WritesLayer, UpdatesInit,
           AddsDependencies, RegistersModel, Does
  <1>2. \A e \in Entities : Mounted(e) => Mounted(e)'
    BY <1>1 DEF Mounted
  <1>3. entity \in Entities /\ DomainOf[entity] \in Domains
    BY DEF IInv, TypeOK, Domains
  <1>4. CASE MakesPackages
    <2>1. Does("packages") /\ Head(todo).op = "packages"
      BY <1>4 DEF MakesPackages, Does
    <2>2. Grows /\ TypeOK'
      BY <1>1, <1>2, <1>3, <1>4 DEF MakesPackages, Grows, IInv, TypeOK
    <2>3. \A st : st = Head(todo) => Done(st)'
      BY <1>1, <1>4, <2>1 DEF MakesPackages, Done
    <2> QED
      BY <1>1, <2>1, <2>2, <2>3, AdditionPreserves
  <1>5. CASE RegistersPyproject
    <2>1. Does("pyproject") /\ Head(todo).op = "pyproject"
      BY <1>5 DEF RegistersPyproject, Does
    <2>2. DomainOf[entity] \in packages
      BY <2>1, WhatStepsFind
    <2>3. Grows /\ TypeOK'
      BY <1>1, <1>2, <1>5, <2>2 DEF RegistersPyproject, Grows, IInv, TypeOK
    <2>4. \A st : st = Head(todo) => Done(st)'
      BY <1>1, <1>5, <2>1 DEF RegistersPyproject, Done
    <2> QED
      BY <1>1, <2>1, <2>3, <2>4, AdditionPreserves
  <1>6. CASE WritesLayer
    <2>1. Does("write") /\ Head(todo).op = "write"
      BY <1>6 DEF WritesLayer, Does
    <2>2. Head(todo).layer \in LayerSet
      BY <2>1, WhatStepsFind
    <2>3. Grows /\ TypeOK'
      BY <1>1, <1>2, <1>3, <1>6, <2>2 DEF WritesLayer, Grows, IInv, TypeOK
    <2>4. \A st : st = Head(todo) => Done(st)'
      BY <1>1, <1>6, <2>1 DEF WritesLayer, Done
    <2> QED
      BY <1>1, <2>1, <2>3, <2>4, AdditionPreserves
  <1>7. CASE UpdatesInit
    <2>1. Does("init") /\ Head(todo).op = "init"
      BY <1>7 DEF UpdatesInit, Does
    <2>2. <<entity, Head(todo).layer>> \in files
      BY <2>1, WhatStepsFind
    <2>3. Grows /\ TypeOK'
      BY <1>1, <1>2, <1>7, <2>2 DEF UpdatesInit, Grows, IInv, TypeOK
    <2>4. \A st : st = Head(todo) => Done(st)'
      BY <1>1, <1>7, <2>1 DEF UpdatesInit, Done
    <2> QED
      BY <1>1, <2>1, <2>3, <2>4, AdditionPreserves
  <1>8. CASE AddsDependencies
    <2>1. Does("dependencies") /\ Head(todo).op = "dependencies"
      BY <1>8 DEF AddsDependencies, Does
    <2>2. Grows /\ TypeOK'
      BY <1>1, <1>2, <1>3, <1>8 DEF AddsDependencies, Grows, IInv, TypeOK
    <2>3. \A st : st = Head(todo) => Done(st)'
      BY <1>1, <1>8, <2>1 DEF AddsDependencies, Done
    <2> QED
      BY <1>1, <2>1, <2>2, <2>3, AdditionPreserves
  <1>9. CASE RegistersModel
    <2>1. Does("model") /\ Head(todo).op = "model"
      BY <1>9 DEF RegistersModel, Does
    <2>2. Grows /\ TypeOK'
      BY <1>1, <1>2, <1>3, <1>9 DEF RegistersModel, Grows, IInv, TypeOK
    <2>3. \A st : st = Head(todo) => Done(st)'
      BY <1>1, <1>9, <2>1 DEF RegistersModel, Done
    <2> QED
      BY <1>1, <2>1, <2>2, <2>3, AdditionPreserves
  <1> QED
    BY <1>4, <1>5, <1>6, <1>7, <1>8, <1>9

-----------------------------------------------------------------------------
(* core/api_versions.py *)

\* What a line at the end adds.
LEMMA AppendAdds ==
  ASSUME NEW S, NEW s \in Seq(S), NEW x \in S
  PROVE  /\ Append(s, x) \in Seq(S) /\ Len(Append(s, x)) = Len(s) + 1
         /\ Elements(Append(s, x)) = Elements(s) \cup {x}
         /\ \A i \in 1 .. Len(s) : Append(s, x)[i] = s[i]
         /\ Append(s, x)[Len(s) + 1] = x
  <1>1. /\ Append(s, x) \in Seq(S) /\ Len(Append(s, x)) = Len(s) + 1
        /\ \A i \in 1 .. Len(s) : Append(s, x)[i] = s[i]
        /\ Append(s, x)[Len(s) + 1] = x
    BY AppendProperties
  <1>2. Len(s) \in Nat /\ \A i \in 1 .. Len(s) + 1 : i \in 1 .. Len(s) \/ i = Len(s) + 1
    BY LenProperties
  <1>3. Elements(Append(s, x)) = Elements(s) \cup {x}
    BY <1>1, <1>2 DEF Elements
  <1> QED
    BY <1>1, <1>3

\* register_router adds the entity to the imports and to the mounts, unless it
\* finds it there.
LEMMA RouterAdds ==
  ASSUME TypeOK, RegistersRouter
  PROVE  /\ mounts' = mounts \/ mounts' = Append(mounts, entity)
         /\ imports' = imports \/ imports' = Append(imports, ImportLine(entity))
         /\ imports' \in Seq(Statements) /\ mounts' \in Seq(Entities)
         /\ \A i \in 1 .. Len(imports') : imports'[i].names # {}
         /\ Elements(imports) \subseteq Elements(imports')
         /\ Elements(mounts') = Elements(mounts) \cup {entity}
         /\ ImportLine(entity) \in Elements(imports')
  <1>1. /\ imports \in Seq(Statements) /\ mounts \in Seq(Entities)
        /\ entity \in Entities /\ ImportLine(entity) \in Statements
        /\ ImportLine(entity).names # {}
    BY DEF TypeOK, ImportLine, Statements, Domains
  <1>2. /\ imports' = imports \/ imports' = Append(imports, ImportLine(entity))
        /\ Imported(entity) \/ imports' = Append(imports, ImportLine(entity))
    BY DEF RegistersRouter
  <1>3. /\ mounts' = mounts \/ mounts' = Append(mounts, entity)
        /\ entity \in Elements(mounts) \/ mounts' = Append(mounts, entity)
    BY DEF RegistersRouter, MountsWith
  <1>4. /\ mounts' \in Seq(Entities)
        /\ Elements(mounts') = Elements(mounts) \cup {entity}
    <2>1. /\ Append(mounts, entity) \in Seq(Entities)
          /\ Elements(Append(mounts, entity)) = Elements(mounts) \cup {entity}
      BY <1>1, AppendAdds
    <2>2. entity \in Elements(mounts) => Elements(mounts) = Elements(mounts) \cup {entity}
      OBVIOUS
    <2> QED
      BY <1>1, <1>3, <2>1, <2>2
  <1>5. /\ Append(imports, ImportLine(entity)) \in Seq(Statements)
        /\ Elements(Append(imports, ImportLine(entity)))
             = Elements(imports) \cup {ImportLine(entity)}
    BY <1>1, AppendAdds
  <1>6. /\ imports' \in Seq(Statements) /\ Elements(imports) \subseteq Elements(imports')
        /\ ImportLine(entity) \in Elements(imports')
    BY <1>1, <1>2, <1>5 DEF Imported
  <1>7. \A st \in Elements(imports') : st.names # {}
    BY <1>1, <1>2, <1>5 DEF TypeOK, Elements
  <1>8. \A i \in 1 .. Len(imports') : imports'[i].names # {}
    BY <1>7 DEF Elements
  <1> QED
    BY <1>2, <1>3, <1>4, <1>6, <1>8

\* register_router mounts an entity all of whose modules are there.
LEMMA RouterPreserves ==
  ASSUME IInv, RegistersRouter
  PROVE  IInv'
  <1>1. /\ Does("router") /\ entity \in Entities \ Given /\ entity' = entity
        /\ Complete(entity) /\ TypeOK
    BY NextStep, WhatStepsFind DEF RegistersRouter, IInv
  <1>2. UNCHANGED <<packages, pyproject, files, exports, dependencies, models, finished>>
    BY DEF RegistersRouter
  <1>3. /\ imports' \in Seq(Statements) /\ mounts' \in Seq(Entities)
        /\ \A i \in 1 .. Len(imports') : imports'[i].names # {}
        /\ Elements(imports) \subseteq Elements(imports')
        /\ Elements(mounts') = Elements(mounts) \cup {entity}
        /\ ImportLine(entity) \in Elements(imports')
    BY <1>1, RouterAdds
  <1>4. TypeOK'
    <2>1. broken' \in BOOLEAN /\ touched' \in BOOLEAN
      BY <1>1 DEF TypeOK, RegistersRouter
    <2> QED
      BY <1>1, <1>2, <1>3, <2>1 DEF TypeOK
  <1>5. \A e : Mounted(e) => Mounted(e)'
    BY <1>3 DEF Mounted
  <1>6. Mounted(entity)'
    BY <1>1, <1>3 DEF Mounted, ImportLine
  <1>7. Grows
    BY <1>2, <1>5 DEF Grows
  <1>8. InProgress'
    <2>1. PICK steps \in Commands : \E k \in 1 .. Len(steps) :
            /\ steps[k].op = "router"
            /\ \A j \in 1 .. k - 1 : Done(steps[j])
            /\ todo' = SubSeq(steps, k + 1, Len(steps))
      BY <1>1, NextStep
    <2>2. PICK k \in 1 .. Len(steps) :
            /\ steps[k].op = "router"
            /\ \A j \in 1 .. k - 1 : Done(steps[j])
            /\ todo' = SubSeq(steps, k + 1, Len(steps))
      BY <2>1
    <2>3. Done(steps[k])'
      BY <1>1, <1>6, <2>2 DEF Done
    <2> QED
      BY <1>1, <1>7, <2>2, <2>3, ProgressIsKept
  <1>9. \A e \in Entities : Complete(e) <=> Complete(e)'
    BY <1>2 DEF Complete
  <1>10. MountedHasItsParts'
    <2>1. Elements(mounts) \subseteq Entities
      BY <1>1, ElementOfSeq DEF TypeOK, Elements
    <2>2. \A e \in Elements(mounts') : Complete(e)'
      BY <1>1, <1>3, <1>9, <2>1 DEF IInv, MountedHasItsParts
    <2> QED
      BY <2>2 DEF MountedHasItsParts, Elements
  <1>11. FinishedIsMounted'
    BY <1>2, <1>5, <1>9, ScaffoldAssumption DEF IInv, TypeOK, FinishedIsMounted
  <1> QED
    BY <1>4, <1>8, <1>10, <1>11 DEF IInv

\* ruff leaves every name that is imported from a domain imported from it, and
\* create-all reports an entity that is there and mounted.
LEMMA FormatsPreserves ==
  ASSUME IInv, Formats
  PROVE  IInv'
  <1>1. /\ Does("format") /\ entity \in Entities \ Given /\ entity' = entity
        /\ Complete(entity) /\ Mounted(entity) /\ TypeOK
    BY NextStep, WhatStepsFind DEF Formats, IInv
  <1>2. /\ UNCHANGED <<packages, pyproject, files, exports, dependencies, models,
                       mounts, broken, touched>>
        /\ imports' = imports \/ imports' = Sorted(imports)
        /\ finished' = finished \cup {entity}
    BY DEF Formats
  <1>3. imports \in Seq(Statements)
    BY <1>1 DEF TypeOK
  <1>4. /\ imports' \in Seq(Statements)
        /\ \A i \in 1 .. Len(imports') : imports'[i].names # {}
    BY <1>1, <1>2, SortedIsMerged DEF TypeOK
  <1>5. TypeOK'
    BY <1>1, <1>2, <1>4 DEF TypeOK
  <1>6. ASSUME NEW e, \E st \in Elements(imports) : st.from = DomainOf[e] /\ e \in st.names
        PROVE  \E st \in Elements(imports') : st.from = DomainOf[e] /\ e \in st.names
    <2>1. PICK j \in 1 .. Len(imports) :
            imports[j].from = DomainOf[e] /\ e \in imports[j].names
      BY <1>6 DEF Elements
    <2>2. e \in NamesFrom(imports, DomainOf[e])
      BY <1>3, <2>1, NamesAreImported
    <2>3. DomainOf[e] \in Domains
      <3>1. imports[j] \in Statements
        BY <1>3, ElementOfSeq
      <3> QED
        BY <2>1, <3>1 DEF Statements
    <2>4. \E i \in 1 .. Len(Sorted(imports)) :
            Sorted(imports)[i] = [from |-> DomainOf[e],
                                  names |-> NamesFrom(imports, DomainOf[e])]
      BY <1>3, <2>2, <2>3, SortedIsMerged
    <2>5. \E st \in Elements(Sorted(imports)) : st.from = DomainOf[e] /\ e \in st.names
      BY <2>2, <2>4 DEF Elements
    <2> QED
      BY <1>2, <1>6, <2>5
  <1>7. \A e : Mounted(e) => Mounted(e)'
    BY <1>2, <1>6 DEF Mounted
  <1>8. Grows
    BY <1>2, <1>7 DEF Grows
  <1>9. InProgress'
    <2>1. PICK steps \in Commands : \E k \in 1 .. Len(steps) :
            /\ steps[k].op = "format"
            /\ \A j \in 1 .. k - 1 : Done(steps[j])
            /\ todo' = SubSeq(steps, k + 1, Len(steps))
      BY <1>1, NextStep
    <2>2. PICK k \in 1 .. Len(steps) :
            /\ steps[k].op = "format"
            /\ \A j \in 1 .. k - 1 : Done(steps[j])
            /\ todo' = SubSeq(steps, k + 1, Len(steps))
      BY <2>1
    <2>3. Done(steps[k])'
      BY <2>2 DEF Done
    <2> QED
      BY <1>1, <1>8, <2>2, <2>3, ProgressIsKept
  <1>10. \A e \in Entities : Complete(e) <=> Complete(e)'
    BY <1>2 DEF Complete
  <1>11. MountedHasItsParts'
    <2>1. Elements(mounts) \subseteq Entities
      BY <1>1, ElementOfSeq DEF TypeOK, Elements
    <2> QED
      BY <1>2, <1>10, <2>1 DEF IInv, MountedHasItsParts, Elements
  <1>12. FinishedIsMounted'
    BY <1>1, <1>2, <1>7, <1>10, ScaffoldAssumption DEF IInv, TypeOK, FinishedIsMounted
  <1> QED
    BY <1>5, <1>9, <1>11, <1>12 DEF IInv

\* Every step of the scaffolding commands keeps the invariant.
LEMMA NextPreserves == IInv /\ [Next]_vars => IInv'
  <1> SUFFICES ASSUME IInv, [Next]_vars PROVE IInv'
    OBVIOUS
  <1>1. ASSUME NEW e \in Entities \ Given,
               \/ CreateAll(e) \/ CreateDomain(e) \/ CreateDependencies(e)
               \/ \E l \in LayerSet : CreateLayer(e, l)
        PROVE  IInv'
    BY <1>1, StartsPreserve
  <1>2. CASE \/ MakesPackages \/ RegistersPyproject \/ WritesLayer \/ UpdatesInit
             \/ AddsDependencies \/ RegistersModel
    BY <1>2, AddsPreserve
  <1>3. CASE RegistersRouter
    BY <1>3, RouterPreserves
  <1>4. CASE Formats
    BY <1>4, FormatsPreserves
  <1>5. CASE Interrupted
    BY <1>5, InterruptedPreserves
  <1>6. CASE UNCHANGED vars
    <2>1. TypeOK'
      BY <1>6 DEF vars, IInv, TypeOK
    <2>2. InProgress'
      BY <1>6 DEF vars, IInv, InProgress, At, Done, Mounted
    <2>3. MountedHasItsParts' /\ FinishedIsMounted'
      BY <1>6 DEF vars, IInv, MountedHasItsParts, FinishedIsMounted, Complete, Mounted
    <2> QED
      BY <2>1, <2>2, <2>3 DEF IInv
  <1> QED
    BY <1>1, <1>2, <1>3, <1>4, <1>5, <1>6 DEF Next

\* The scaffolding commands (create_all.py, generate_all) keep the inductive
\* invariant, whatever is created, repeated or interrupted.
THEOREM Invariance == Spec => []IInv
  BY InitEstablishes, NextPreserves, PTL DEF Spec

\* The files, exports and mounts that the commands write are of the shape that
\* Scaffold declares: a package exports only modules that were written.
THEOREM TypeCorrect == Spec => []TypeOK
  <1>1. IInv => TypeOK
    BY DEF IInv
  <1> QED
    BY <1>1, Invariance, PTL

\* What is imported of an entity that has all its parts finds what it imports.
LEMMA CompleteIsSound ==
  ASSUME TypeOK, NEW e \in Entities, Complete(e)
  PROVE  Sound(e)
  <1>1. \A l \in LayerSet : <<e, l>> \in exports /\ <<e, l>> \in files
    BY DEF TypeOK, Complete
  <1>2. \A l, k : k \in Uses(l) => k \in LayerSet
    BY DEF Uses
  <1>3. \A l, k : k \in Uses(l) => Has(e, k)
    BY <1>1, <1>2 DEF Has
  <1> QED
    BY <1>3 DEF Sound, Complete

\* generate_all wires an entity last: wherever commands are interrupted, the app
\* never includes a router without its own modules, and an entity that keeps it
\* from being imported is not itself included.
THEOREM MountedFailsByUnmounted == Spec => []MountedIsComplete
  <1>1. ASSUME IInv PROVE MountedIsComplete
    <2>1. \A e \in Elements(mounts) : e \in Entities /\ Complete(e)
      BY <1>1 DEF IInv, TypeOK, MountedHasItsParts, Elements
    <2>2. \A e \in Elements(mounts) : Sound(e)
      BY <1>1, <2>1, CompleteIsSound DEF IInv
    <2> QED
      BY <2>1, <2>2 DEF MountedIsComplete, HalfMade
  <1>2. IInv => MountedIsComplete
    BY <1>1
  <1> QED
    BY <1>2, Invariance, PTL

\* What create-all has reported as created has its modules, exports, factories and
\* manifest entries and is included ever after, also when an import that ruff has
\* wrapped was broken: no later command takes a file, an export, a factory or a
\* line of core/api_versions.py away.
THEOREM FinishedStaysMounted == Spec => []FinishedIsMounted
  <1>1. IInv => FinishedIsMounted
    BY DEF IInv
  <1> QED
    BY <1>1, Invariance, PTL

\* Nothing keeps a domain from being imported in which create-all has been seen
\* through for every entity that was begun (the package's __init__ files and
\* dependencies.py import nothing of the others).
LEMMA SeenThroughIsImportable ==
  ASSUME IInv, NEW e \in finished,
         \A x \in Entities : DomainOf[x] = DomainOf[e] /\ Begun(x)
                               => x \in finished \cup Given
  PROVE  Importable(e)
  <1>1. \A x \in finished \cup Given : x \in Entities /\ Complete(x)
    BY ScaffoldAssumption DEF IInv, TypeOK, FinishedIsMounted
  <1>2. \A x \in finished \cup Given : Sound(x)
    BY <1>1, CompleteIsSound DEF IInv
  <1>3. ASSUME NEW x \in Entities, ~Begun(x) PROVE Sound(x)
    <2>1. x \notin dependencies /\ \A l \in LayerSet : <<x, l>> \notin exports
      BY <1>3 DEF Begun
    <2>2. <<x, "routes">> \notin exports
      BY <2>1 DEF IInv, TypeOK
    <2> QED
      BY <2>1, <2>2 DEF Sound
  <1>4. HalfMade(DomainOf[e]) = {}
    BY <1>2, <1>3 DEF HalfMade
  <1> QED
    BY <1>1, <1>4 DEF Importable

-----------------------------------------------------------------------------
(* Where no import has to be wrapped *)

EntitiesOf(d) == {e \in Entities : DomainOf[e] = d}

\* The import that ends up last is that of the domain the project comes with or
\* of one sorted after it, and those are short enough for one line.
TailFits ==
  \A g \in Given : \A i, j \in 1 .. Len(Order) :
    Order[i] = DomainOf[g] /\ i <= j => Cardinality(EntitiesOf(Order[j])) <= Fits

NamesBelong ==
  \A i \in 1 .. Len(imports) : imports[i].names \subseteq EntitiesOf(imports[i].from)

GivenIsImported ==
  \A g \in Given : \E i \in 1 .. Len(imports) : imports[i].from = DomainOf[g]

\* Why register_router finds the end of the imports.
ImportsFit ==
  /\ ~broken /\ ~LastIsWrapped
  /\ NamesBelong
  /\ GivenIsImported

\* Imports that take the same from every domain are sorted alike.
LEMMA SortedAgrees ==
  ASSUME NEW s \in Seq(Statements), NEW t \in Seq(Statements),
         \A d \in Domains : NamesFrom(s, d) = NamesFrom(t, d)
  PROVE  Sorted(s) = Sorted(t)
  <1>1. \A i \in 1 .. Len(Order) : NamesFrom(s, Order[i]) = NamesFrom(t, Order[i])
    BY OrderHasDomains
  <1>2. Merged(s) = Merged(t)
    BY <1>1 DEF Merged
  <1> DEFINE kept(u) == {i \in 1 .. Len(Order) : NamesFrom(u, Order[i]) # {}}
  <1>3. kept(s) = kept(t)
    BY <1>1
  <1>4. \A u : Sorted(u) = [n \in 1 .. Cardinality(kept(u)) |->
                  Merged(u)[CHOOSE i \in kept(u) : Rank(kept(u), i) = n]]
    BY DEF Sorted
  <1> HIDE DEF kept
  <1>5. Sorted(s) = [n \in 1 .. Cardinality(kept(s)) |->
                  Merged(s)[CHOOSE i \in kept(s) : Rank(kept(s), i) = n]]
    BY <1>4
  <1>6. Sorted(t) = [n \in 1 .. Cardinality(kept(s)) |->
                  Merged(s)[CHOOSE i \in kept(s) : Rank(kept(s), i) = n]]
    BY <1>2, <1>3, <1>4
  <1> QED
    BY <1>5, <1>6

\* A line that imports what is imported already makes no difference to ruff.
LEMMA AgainMakesNoDifference ==
  ASSUME NEW s \in Seq(Statements), NEW e \in Entities, e \in NamesFrom(s, DomainOf[e])
  PROVE  Sorted(Append(s, ImportLine(e))) = Sorted(s)
  <1> DEFINE t == Append(s, ImportLine(e))
  <1>1. ImportLine(e) \in Statements
    BY DEF ImportLine, Statements, Domains
  <1>2. /\ t \in Seq(Statements) /\ Len(t) = Len(s) + 1 /\ Len(s) \in Nat
        /\ \A i \in 1 .. Len(s) : t[i] = s[i]
        /\ t[Len(s) + 1] = ImportLine(e)
    BY <1>1, AppendAdds, LenProperties
  <1> HIDE DEF t
  <1>3. ASSUME NEW d \in Domains PROVE NamesFrom(s, d) = NamesFrom(t, d)
    <2>1. \A x : x \in NamesFrom(s, d) <=>
            \E i \in 1 .. Len(s) : s[i].from = d /\ x \in s[i].names
      BY NamesAreImported
    <2>2. \A x : x \in NamesFrom(t, d) <=>
            \E i \in 1 .. Len(t) : t[i].from = d /\ x \in t[i].names
      BY <1>2, NamesAreImported
    <2>3. ASSUME NEW x \in NamesFrom(s, d) PROVE x \in NamesFrom(t, d)
      <3>1. PICK i \in 1 .. Len(s) : s[i].from = d /\ x \in s[i].names
        BY <2>1
      <3>2. i \in 1 .. Len(t) /\ t[i] = s[i]
        BY <1>2
      <3> QED
        BY <2>2, <3>1, <3>2
    <2>4. ASSUME NEW x \in NamesFrom(t, d) PROVE x \in NamesFrom(s, d)
      <3>1. PICK i \in 1 .. Len(t) : t[i].from = d /\ x \in t[i].names
        BY <2>2
      <3>2. CASE i \in 1 .. Len(s)
        BY <1>2, <2>1, <3>1, <3>2
      <3>3. CASE i = Len(s) + 1
        <4>1. d = DomainOf[e] /\ x = e
          BY <1>2, <3>1, <3>3 DEF ImportLine
        <4> QED
          BY <4>1
      <3> QED
        BY <1>2, <3>2, <3>3
    <2> QED
      BY <2>3, <2>4
  <1>4. Sorted(s) = Sorted(t)
    BY <1>2, <1>3, SortedAgrees
  <1> QED
    BY <1>4 DEF t

\* There is one import at first, of one name.
LEMMA InitFits == Init => ImportsFit
  <1> SUFFICES ASSUME Init PROVE ImportsFit
    OBVIOUS
  <1>1. PICK g \in Given : imports = <<[from |-> DomainOf[g], names |-> {g}]>>
    BY DEF Init
  <1>2. Given = {g} /\ g \in Entities
    <2>1. Given \subseteq Entities /\ IsFiniteSet(Given) /\ Cardinality(Given) = 1
      BY ScaffoldAssumption, FS_Subset
    <2> QED
      BY <2>1, FS_Singleton
  <1>3. Len(imports) = 1 /\ imports[1].from = DomainOf[g] /\ imports[1].names = {g}
    BY <1>1
  <1>4. ~LastIsWrapped
    <2>1. Cardinality({g}) = 1
      BY FS_Singleton
    <2> QED
      BY <1>3, <2>1, ScaffoldAssumption DEF LastIsWrapped
  <1>5. NamesBelong /\ GivenIsImported
    BY <1>2, <1>3 DEF NamesBelong, GivenIsImported, EntitiesOf
  <1> QED
    BY <1>4, <1>5 DEF Init, ImportsFit

\* register_router finds the last import on one line, and adds a line of one name.
LEMMA RouterFits ==
  ASSUME IInv, ImportsFit, RegistersRouter
  PROVE  ImportsFit' /\ broken' = FALSE
  <1>1. /\ imports \in Seq(Statements) /\ entity \in Entities
        /\ ImportLine(entity) \in Statements
    BY DEF IInv, TypeOK, ImportLine, Statements, Domains
  <1>2. ~broken' /\ broken' = FALSE
    BY DEF RegistersRouter, ImportsFit, IInv, TypeOK
  <1>3. CASE imports' = imports
    BY <1>2, <1>3 DEF ImportsFit, LastIsWrapped, NamesBelong, GivenIsImported
  <1>4. CASE imports' = Append(imports, ImportLine(entity))
    <2>1. /\ Len(imports') = Len(imports) + 1 /\ Len(imports) \in Nat
          /\ \A i \in 1 .. Len(imports) : imports'[i] = imports[i]
          /\ imports'[Len(imports) + 1] = ImportLine(entity)
      BY <1>1, <1>4, AppendAdds, LenProperties
    <2>2. \A i \in 1 .. Len(imports') : i \in 1 .. Len(imports) \/ i = Len(imports) + 1
      BY <2>1
    <2>3. ~LastIsWrapped'
      <3>1. Cardinality({entity}) = 1
        BY FS_Singleton
      <3>2. imports'[Len(imports')].names = {entity}
        BY <2>1 DEF ImportLine
      <3> QED
        BY <3>1, <3>2, ScaffoldAssumption DEF LastIsWrapped
    <2>4. NamesBelong'
      <3>1. ImportLine(entity).names \subseteq EntitiesOf(ImportLine(entity).from)
        BY <1>1 DEF ImportLine, EntitiesOf
      <3>2. \A i \in 1 .. Len(imports') :
              imports'[i].names \subseteq EntitiesOf(imports'[i].from)
        BY <2>1, <2>2, <3>1 DEF ImportsFit, NamesBelong
      <3> QED
        BY <3>2 DEF NamesBelong
    <2>5. GivenIsImported'
      <3>1. \A i \in 1 .. Len(imports) : i \in 1 .. Len(imports')
        BY <2>1
      <3> QED
        BY <2>1, <3>1 DEF ImportsFit, GivenIsImported
    <2> QED
      BY <1>2, <2>3, <2>4, <2>5 DEF ImportsFit
  <1> QED
    BY <1>3, <1>4 DEF RegistersRouter

\* ruff leaves an import last that fits on one line.
LEMMA FormatsFits ==
  ASSUME TailFits, IInv, ImportsFit, Formats
  PROVE  ImportsFit'
  <1>1. /\ imports \in Seq(Statements) /\ broken' = broken
        /\ \A i \in 1 .. Len(imports) : imports[i].names # {}
    BY DEF IInv, TypeOK, Formats
  <1>2. CASE imports' = imports
    BY <1>1, <1>2 DEF ImportsFit, LastIsWrapped, NamesBelong, GivenIsImported
  <1>3. CASE imports' = Sorted(imports)
    <2>1. \A d : NamesFrom(imports, d) \subseteq EntitiesOf(d)
      BY <1>1, NamesAreImported DEF ImportsFit, NamesBelong
    <2>2. \A g \in Given : NamesFrom(imports, DomainOf[g]) # {} /\ DomainOf[g] \in Domains
      <3> SUFFICES ASSUME NEW g \in Given
                   PROVE  NamesFrom(imports, DomainOf[g]) # {} /\ DomainOf[g] \in Domains
        OBVIOUS
      <3>1. PICK i \in 1 .. Len(imports) : imports[i].from = DomainOf[g]
        BY DEF ImportsFit, GivenIsImported
      <3>2. PICK x : x \in imports[i].names
        BY <1>1
      <3>3. x \in NamesFrom(imports, DomainOf[g])
        BY <1>1, <3>1, <3>2, NamesAreImported
      <3> QED
        BY <3>3, ScaffoldAssumption DEF Domains
    <2>3. NamesBelong'
      <3>1. \A i \in 1 .. Len(Sorted(imports)) :
              Sorted(imports)[i].names = NamesFrom(imports, Sorted(imports)[i].from)
        BY <1>1, SortedIsMerged
      <3>2. \A i \in 1 .. Len(imports') :
              imports'[i].names \subseteq EntitiesOf(imports'[i].from)
        BY <1>3, <2>1, <3>1
      <3> QED
        BY <3>2 DEF NamesBelong
    <2>4. GivenIsImported'
      <3>1. \A g \in Given : \E i \in 1 .. Len(Sorted(imports)) :
              Sorted(imports)[i] = [from |-> DomainOf[g],
                                    names |-> NamesFrom(imports, DomainOf[g])]
        BY <1>1, <2>2, SortedIsMerged
      <3>2. \A g \in Given : \E i \in 1 .. Len(Sorted(imports)) :
              Sorted(imports)[i].from = DomainOf[g]
        <4> SUFFICES ASSUME NEW g \in Given
                     PROVE  \E i \in 1 .. Len(Sorted(imports)) :
                              Sorted(imports)[i].from = DomainOf[g]
          OBVIOUS
        <4>1. PICK i \in 1 .. Len(Sorted(imports)) :
                Sorted(imports)[i] = [from |-> DomainOf[g],
                                      names |-> NamesFrom(imports, DomainOf[g])]
          BY <3>1
        <4>2. Sorted(imports)[i].from = DomainOf[g]
          BY <4>1
        <4> QED
          BY <4>2
      <3> QED
        BY <1>3, <3>2 DEF GivenIsImported
    <2>5. ~LastIsWrapped'
      <3>1. PICK g \in Given : TRUE
        <4>1. IsFiniteSet(Given) /\ Cardinality(Given) = 1
          BY ScaffoldAssumption, FS_Subset
        <4> QED
          BY <4>1, FS_Singleton
      <3>2. PICK p \in 1 .. Len(Order) : DomainOf[g] = Order[p]
        BY <2>2, OrderHasDomains
      <3>3. /\ Len(Sorted(imports)) \in 1 .. Len(Sorted(imports))
            /\ \E q \in p .. Len(Order) :
                 Sorted(imports)[Len(Sorted(imports))].from = Order[q]
        BY <1>1, <2>2, <3>2, SortedIsMerged
      <3>4. PICK q \in p .. Len(Order) :
              Sorted(imports)[Len(Sorted(imports))].from = Order[q]
        BY <3>3
      <3>5. imports'[Len(imports')].names \subseteq EntitiesOf(Order[q])
        <4>1. Sorted(imports)[Len(Sorted(imports))].names = NamesFrom(imports, Order[q])
          BY <1>1, <3>3, <3>4, SortedIsMerged
        <4> QED
          BY <1>3, <2>1, <4>1
      <3>6. Cardinality(EntitiesOf(Order[q])) <= Fits
        <4>1. q \in 1 .. Len(Order) /\ p <= q
          BY <3>2, OrderHasDomains
        <4> QED
          BY <3>2, <4>1 DEF TailFits
      <3>7. IsFiniteSet(EntitiesOf(Order[q]))
        <4>1. EntitiesOf(Order[q]) \subseteq Entities
          BY DEF EntitiesOf
        <4> QED
          BY <4>1, ScaffoldAssumption, FS_Subset
      <3>8. /\ Cardinality(imports'[Len(imports')].names) \in Nat
            /\ Cardinality(EntitiesOf(Order[q])) \in Nat
            /\ Cardinality(imports'[Len(imports')].names)
                 <= Cardinality(EntitiesOf(Order[q]))
        BY <3>5, <3>7, FS_Subset, FS_CardinalityType
      <3> QED
        BY <3>6, <3>8, ScaffoldAssumption DEF LastIsWrapped
    <2> QED
      BY <1>1, <2>3, <2>4, <2>5 DEF ImportsFit
  <1> QED
    BY <1>2, <1>3 DEF Formats

\* The other steps do not touch core/api_versions.py.
LEMMA OthersFit ==
  ASSUME ImportsFit, UNCHANGED <<imports, broken>>
  PROVE  ImportsFit'
  BY DEF ImportsFit, LastIsWrapped, NamesBelong, GivenIsImported

-----------------------------------------------------------------------------
(* Running a command again *)

\* The project as it is but for the imports of core/api_versions.py
ProjectWith(s) ==
  <<packages, pyproject, files, exports, dependencies, models, s, mounts, broken>>

StepsLeft(steps) == \E k \in 1 .. Len(steps) : todo = SubSeq(steps, k, Len(steps))

RepeatsDomain == StepsLeft(DomainSteps) /\ DomainOf[entity] \in pyproject

RepeatsAll(s) == StepsLeft(AllSteps) /\ entity \in finished /\ s = Sorted(s)

\* Between register_router, which does not recognise its line once ruff has joined
\* it with others, and format_paths, which joins it again.
Duplicated(s) ==
  /\ entity \in finished /\ s = Sorted(s) /\ touched
  /\ todo = SubSeq(AllSteps, Len(AllSteps), Len(AllSteps))
  /\ imports = Append(s, ImportLine(entity))
  /\ entity \in NamesFrom(s, DomainOf[entity])

\* All that a repeated command changes on its way is that line.
RepeatKeeps ==
  before # {} =>
    \E s \in Seq(Statements) :
      /\ before = {ProjectWith(s)}
      /\ \/ imports = s /\ (todo = <<>> \/ RepeatsDomain \/ RepeatsAll(s))
         \/ Duplicated(s)

RepeatInv == IInv /\ ImportsFit /\ RepeatKeeps

\* The step of a command that has steps left.
LEMMA StepLeft ==
  ASSUME NEW steps \in Commands, StepsLeft(steps), NEW op, Does(op)
  PROVE  \E k \in 1 .. Len(steps) :
           /\ steps[k].op = op /\ InOrder(steps, k)
           /\ todo' = SubSeq(steps, k + 1, Len(steps))
           /\ todo' = <<>> \/ StepsLeft(steps)'
  <1>1. PICK k \in 1 .. Len(steps) : todo = SubSeq(steps, k, Len(steps))
    BY DEF StepsLeft
  <1>2. steps \in Seq(StepSet) /\ Len(steps) \in Nat /\ InOrder(steps, k)
    BY StepsAreInOrder
  <1>3. /\ Head(SubSeq(steps, k, Len(steps))) = steps[k]
        /\ Tail(SubSeq(steps, k, Len(steps))) = SubSeq(steps, k + 1, Len(steps))
    BY <1>2, HeadTailOfSubSeq, Len(steps) \in k .. Len(steps)
  <1>4. steps[k].op = op /\ todo' = SubSeq(steps, k + 1, Len(steps))
    BY <1>1, <1>3 DEF Does
  <1>5. todo' = <<>> \/ StepsLeft(steps)'
    <2>1. CASE k = Len(steps)
      BY <1>2, <1>4, <2>1, SubSeqEmpty
    <2>2. CASE k # Len(steps)
      <3>1. k + 1 \in 1 .. Len(steps)
        BY <1>2, <2>2
      <3> QED
        BY <1>4, <3>1 DEF StepsLeft
    <2> QED
      BY <2>1, <2>2
  <1> QED
    BY <1>2, <1>4, <1>5

\* What is left while the router's line is there twice is the last step.
LEMMA DuplicatedFormats ==
  ASSUME NEW s, Duplicated(s), NEW op, Does(op)
  PROVE  op = "format" /\ todo' = <<>>
  <1>1. /\ Len(AllSteps) \in 1 .. Len(AllSteps) /\ AllSteps \in Seq(StepSet)
        /\ AllSteps[Len(AllSteps)].op = "format"
    BY AllStepsAre DEF Step
  <1>2. /\ Head(SubSeq(AllSteps, Len(AllSteps), Len(AllSteps))) = AllSteps[Len(AllSteps)]
        /\ Tail(SubSeq(AllSteps, Len(AllSteps), Len(AllSteps)))
             = SubSeq(AllSteps, Len(AllSteps) + 1, Len(AllSteps))
    BY <1>1, HeadTailOfSubSeq, Len(AllSteps) \in Len(AllSteps) .. Len(AllSteps)
  <1>3. SubSeq(AllSteps, Len(AllSteps) + 1, Len(AllSteps)) = <<>>
    BY <1>1, SubSeqEmpty
  <1> QED
    BY <1>1, <1>2, <1>3 DEF Duplicated, Does

\* A command that starts remembers the project only if it has been run before.
LEMMA StartsKeep ==
  ASSUME IInv, NEW e \in Entities \ Given,
         \/ CreateAll(e) \/ CreateDomain(e) \/ CreateDependencies(e)
         \/ \E l \in LayerSet : CreateLayer(e, l)
  PROVE  RepeatKeeps'
  <1>1. /\ UNCHANGED <<packages, pyproject, files, exports, dependencies, models,
                       imports, mounts, broken, finished>>
        /\ entity' = e
    BY DEF CreateAll, CreateDomain, CreateDependencies, CreateLayer, Starts, projectVars
  <1>2. imports \in Seq(Statements) /\ Project = ProjectWith(imports)'
    BY <1>1 DEF IInv, TypeOK, Project, ProjectWith
  <1>3. \A steps \in Commands :
          todo' = steps => (todo' = <<>> \/ StepsLeft(steps)')
    <2> SUFFICES ASSUME NEW steps \in Commands, todo' = steps, todo' # <<>>
                 PROVE  StepsLeft(steps)'
      OBVIOUS
    <2>1. steps \in Seq(StepSet) /\ Len(steps) \in Nat
      BY StepsAreInOrder
    <2>2. 1 \in 1 .. Len(steps)
      BY <2>1, EmptySeq
    <2>3. SubSeq(steps, 1, Len(steps)) = steps
      BY <2>1, SubSeqFull
    <2> QED
      BY <2>2, <2>3 DEF StepsLeft
  <1>4. CASE CreateAll(e)
    <2>1. /\ todo' = AllSteps
          /\ before' = IF e \in finished /\ imports = Sorted(imports) THEN {Project} ELSE {}
      BY <1>4 DEF CreateAll, Starts
    <2>2. todo' = <<>> \/ StepsLeft(AllSteps)'
      BY <1>3, <2>1 DEF Commands
    <2>3. CASE e \in finished /\ imports = Sorted(imports)
      <3>1. todo' = <<>> \/ RepeatsAll(imports)'
        BY <1>1, <2>2, <2>3 DEF RepeatsAll
      <3> QED
        BY <1>1, <1>2, <2>1, <2>3, <3>1 DEF RepeatKeeps
    <2>4. CASE ~(e \in finished /\ imports = Sorted(imports))
      BY <2>1, <2>4 DEF RepeatKeeps
    <2> QED
      BY <2>3, <2>4
  <1>5. CASE CreateDomain(e)
    <2>1. /\ todo' = DomainSteps
          /\ before' = IF DomainOf[e] \in pyproject THEN {Project} ELSE {}
      BY <1>5 DEF CreateDomain, Starts
    <2>2. todo' = <<>> \/ StepsLeft(DomainSteps)'
      BY <1>3, <2>1 DEF Commands
    <2>3. CASE DomainOf[e] \in pyproject
      <3>1. todo' = <<>> \/ RepeatsDomain'
        BY <1>1, <2>2, <2>3 DEF RepeatsDomain
      <3> QED
        BY <1>1, <1>2, <2>1, <2>3, <3>1 DEF RepeatKeeps
    <2>4. CASE DomainOf[e] \notin pyproject
      BY <2>1, <2>4 DEF RepeatKeeps
    <2> QED
      BY <2>3, <2>4
  <1>6. CASE CreateDependencies(e) \/ \E l \in LayerSet : CreateLayer(e, l)
    BY <1>6 DEF CreateDependencies, CreateLayer, Starts, RepeatKeeps
  <1> QED
    BY <1>4, <1>5, <1>6

\* A step that finds its work done changes nothing of the project.
LEMMA AdditionsKeep ==
  ASSUME IInv, RepeatKeeps, NEW op, Does(op), op # "router", op # "format",
         UNCHANGED <<imports, touched, finished>>,
         op \in {"packages", "pyproject"} /\ DomainOf[entity] \in pyproject
           => UNCHANGED projectVars,
         Complete(entity) => UNCHANGED projectVars
  PROVE  RepeatKeeps'
  <1> SUFFICES ASSUME before' # {} PROVE RepeatKeeps'
    BY DEF RepeatKeeps
  <1>1. before' = before /\ entity' = entity /\ todo # <<>>
    BY DEF Does
  <1>2. PICK s \in Seq(Statements) :
          /\ before = {ProjectWith(s)}
          /\ \/ imports = s /\ (todo = <<>> \/ RepeatsDomain \/ RepeatsAll(s))
             \/ Duplicated(s)
    BY <1>1 DEF RepeatKeeps
  <1>3. ~Duplicated(s)
    BY DuplicatedFormats
  <1>4. imports = s /\ imports' = s
    BY <1>2, <1>3
  <1>5. CASE RepeatsDomain
    <2>1. /\ StepsLeft(DomainSteps) /\ DomainSteps \in Commands
          /\ DomainOf[entity] \in pyproject
      BY <1>5 DEF RepeatsDomain, Commands
    <2>2. \E k \in 1 .. Len(DomainSteps) :
            DomainSteps[k].op = op /\ (todo' = <<>> \/ StepsLeft(DomainSteps)')
      BY <2>1, StepLeft
    <2>3. op \in {"packages", "pyproject"} /\ (todo' = <<>> \/ StepsLeft(DomainSteps)')
      BY <2>2 DEF DomainSteps, Step
    <2>4. UNCHANGED projectVars
      BY <2>1, <2>3
    <2>5. ProjectWith(s)' = ProjectWith(s) /\ pyproject' = pyproject
      BY <2>4 DEF ProjectWith, projectVars
    <2>6. todo' = <<>> \/ RepeatsDomain'
      BY <1>1, <2>1, <2>3, <2>5 DEF RepeatsDomain
    <2> QED
      BY <1>1, <1>2, <1>4, <2>5, <2>6 DEF RepeatKeeps
  <1>6. CASE RepeatsAll(s)
    <2>1. /\ StepsLeft(AllSteps) /\ AllSteps \in Commands
          /\ entity \in finished /\ s = Sorted(s)
      BY <1>6 DEF RepeatsAll, Commands
    <2>2. \E k \in 1 .. Len(AllSteps) : todo' = <<>> \/ StepsLeft(AllSteps)'
      BY <2>1, StepLeft
    <2>3. Complete(entity)
      BY <2>1 DEF IInv, FinishedIsMounted
    <2>4. ProjectWith(s)' = ProjectWith(s)
      BY <2>3 DEF ProjectWith, projectVars
    <2>5. todo' = <<>> \/ RepeatsAll(s)'
      BY <1>1, <2>1, <2>2 DEF RepeatsAll
    <2> QED
      BY <1>1, <1>2, <1>4, <2>4, <2>5 DEF RepeatKeeps
  <1> QED
    BY <1>1, <1>2, <1>3, <1>5, <1>6

\* What the steps that write other files find when their work is done.
LEMMA AddsKeep ==
  ASSUME IInv, RepeatKeeps,
         \/ MakesPackages \/ RegistersPyproject \/ WritesLayer \/ UpdatesInit
         \/ AddsDependencies \/ RegistersModel
  PROVE  RepeatKeeps'
  <1>1. UNCHANGED <<imports, mounts, broken, touched, finished>>
    BY DEF MakesPackages, RegistersPyproject, WritesLayer, UpdatesInit,
           AddsDependencies, RegistersModel
  <1>2. pyproject \subseteq packages /\ exports \subseteq files
    BY DEF IInv, TypeOK
  <1>3. CASE MakesPackages
    <2>1. Does("packages") /\ (DomainOf[entity] \in pyproject => UNCHANGED projectVars)
      BY <1>1, <1>2, <1>3 DEF MakesPackages, projectVars
    <2> QED
      BY <1>1, <2>1, AdditionsKeep DEF Complete
  <1>4. CASE RegistersPyproject
    <2>1. Does("pyproject") /\ (DomainOf[entity] \in pyproject => UNCHANGED projectVars)
      BY <1>1, <1>4 DEF RegistersPyproject, projectVars
    <2> QED
      BY <1>1, <2>1, AdditionsKeep DEF Complete
  <1>5. CASE WritesLayer
    <2>1. Does("write") /\ Head(todo).layer \in LayerSet
      BY <1>5, WhatStepsFind DEF WritesLayer
    <2>2. Complete(entity) => <<entity, Head(todo).layer>> \in files
      BY <1>2, <2>1 DEF Complete
    <2>3. Complete(entity) => UNCHANGED projectVars
      BY <1>1, <1>5, <2>2 DEF WritesLayer, projectVars
    <2> QED
      BY <1>1, <2>1, <2>3, AdditionsKeep
  <1>6. CASE UpdatesInit
    <2>1. Does("init") /\ Head(todo).layer \in LayerSet
      BY <1>6, WhatStepsFind DEF UpdatesInit
    <2>2. Complete(entity) => <<entity, Head(todo).layer>> \in exports
      BY <2>1 DEF Complete
    <2>3. Complete(entity) => UNCHANGED projectVars
      BY <1>1, <1>6, <2>2 DEF UpdatesInit, projectVars
    <2> QED
      BY <1>1, <2>1, <2>3, AdditionsKeep
  <1>7. CASE AddsDependencies
    <2>1. Does("dependencies") /\ (Complete(entity) => UNCHANGED projectVars)
      BY <1>1, <1>7 DEF AddsDependencies, Complete, projectVars
    <2> QED
      BY <1>1, <2>1, AdditionsKeep
  <1>8. CASE RegistersModel
    <2>1. Does("model") /\ (Complete(entity) => UNCHANGED projectVars)
      BY <1>1, <1>8 DEF RegistersModel, Complete, projectVars
    <2> QED
      BY <1>1, <2>1, AdditionsKeep
  <1> QED
    BY <1>3, <1>4, <1>5, <1>6, <1>7, <1>8

\* register_router, for an entity that is mounted, adds at most an import line
\* that is there already, and the one step left is ruff's.
LEMMA RouterKeeps ==
  ASSUME IInv, ImportsFit, RepeatKeeps, RegistersRouter
  PROVE  RepeatKeeps'
  <1> SUFFICES ASSUME before' # {} PROVE RepeatKeeps'
    BY DEF RepeatKeeps
  <1>1. Does("router") /\ before' = before /\ entity' = entity /\ todo # <<>>
    BY DEF RegistersRouter, Does
  <1>2. PICK s \in Seq(Statements) :
          /\ before = {ProjectWith(s)}
          /\ \/ imports = s /\ (todo = <<>> \/ RepeatsDomain \/ RepeatsAll(s))
             \/ Duplicated(s)
    BY <1>1 DEF RepeatKeeps
  <1>3. ~Duplicated(s)
    BY <1>1, DuplicatedFormats
  <1>4. ~RepeatsDomain
    <2> SUFFICES ASSUME RepeatsDomain PROVE FALSE
      OBVIOUS
    <2>1. StepsLeft(DomainSteps) /\ DomainSteps \in Commands
      BY DEF RepeatsDomain, Commands
    <2>2. \E k \in 1 .. Len(DomainSteps) : DomainSteps[k].op = "router"
      BY <1>1, <2>1, StepLeft
    <2> QED
      BY <2>2 DEF DomainSteps, Step
  <1>5. imports = s /\ StepsLeft(AllSteps) /\ entity \in finished /\ s = Sorted(s)
    BY <1>1, <1>2, <1>3, <1>4 DEF RepeatsAll
  <1>6. entity \in Elements(mounts) /\ entity \in NamesFrom(imports, DomainOf[entity])
    <2>1. Mounted(entity) /\ imports \in Seq(Statements)
      BY <1>5 DEF IInv, FinishedIsMounted, TypeOK
    <2> QED
      BY <2>1, NamesAreImported DEF Mounted, Elements
  <1>7. UNCHANGED <<packages, pyproject, files, exports, dependencies, models,
                    mounts, broken, finished>>
    <2>1. mounts' = mounts
      BY <1>6 DEF RegistersRouter, MountsWith
    <2>2. broken' = FALSE /\ broken = FALSE
      BY RouterFits DEF ImportsFit, IInv, TypeOK
    <2> QED
      BY <2>1, <2>2 DEF RegistersRouter
  <1>8. ProjectWith(s)' = ProjectWith(s)
    BY <1>7 DEF ProjectWith
  <1>9. AllSteps \in Commands
    BY DEF Commands
  <1>10. PICK k \in 1 .. Len(AllSteps) :
           /\ AllSteps[k].op = "router" /\ InOrder(AllSteps, k)
           /\ todo' = SubSeq(AllSteps, k + 1, Len(AllSteps))
           /\ todo' = <<>> \/ StepsLeft(AllSteps)'
    BY <1>1, <1>5, <1>9, StepLeft
  <1>11. CASE Imported(entity)
    <2>1. imports' = s
      BY <1>5, <1>11 DEF RegistersRouter
    <2>2. todo' = <<>> \/ RepeatsAll(s)'
      BY <1>1, <1>5, <1>7, <1>10 DEF RepeatsAll
    <2> QED
      BY <1>1, <1>2, <1>8, <2>1, <2>2 DEF RepeatKeeps
  <1>12. CASE ~Imported(entity)
    <2>1. imports' = Append(s, ImportLine(entity)) /\ touched' = TRUE
      BY <1>5, <1>12 DEF RegistersRouter
    <2>2. k + 1 = Len(AllSteps)
      BY <1>9, <1>10, StepsAreInOrder DEF InOrder
    <2>3. Duplicated(s)'
      BY <1>1, <1>5, <1>6, <1>7, <1>10, <2>1, <2>2 DEF Duplicated, ImportLine
    <2> QED
      BY <1>1, <1>2, <1>8, <2>3 DEF RepeatKeeps
  <1> QED
    BY <1>11, <1>12

\* ruff joins the line with the import it repeats.
LEMMA FormatsKeeps ==
  ASSUME IInv, ImportsFit, RepeatKeeps, Formats
  PROVE  RepeatKeeps'
  <1> SUFFICES ASSUME before' # {} PROVE RepeatKeeps'
    BY DEF RepeatKeeps
  <1>1. /\ Does("format") /\ before' = before /\ todo # <<>>
        /\ UNCHANGED <<packages, pyproject, files, exports, dependencies, models,
                       mounts, broken>>
        /\ imports' = IF touched /\ ~broken THEN Sorted(imports) ELSE imports
    BY DEF Formats, Does
  <1>2. PICK s \in Seq(Statements) :
          /\ before = {ProjectWith(s)}
          /\ \/ imports = s /\ (todo = <<>> \/ RepeatsDomain \/ RepeatsAll(s))
             \/ Duplicated(s)
    BY <1>1 DEF RepeatKeeps
  <1>3. ProjectWith(s)' = ProjectWith(s)
    BY <1>1 DEF ProjectWith
  <1>4. ~RepeatsDomain
    <2> SUFFICES ASSUME RepeatsDomain PROVE FALSE
      OBVIOUS
    <2>1. StepsLeft(DomainSteps) /\ DomainSteps \in Commands
      BY DEF RepeatsDomain, Commands
    <2>2. \E k \in 1 .. Len(DomainSteps) : DomainSteps[k].op = "format"
      BY <1>1, <2>1, StepLeft
    <2> QED
      BY <2>2 DEF DomainSteps, Step
  <1>5. CASE imports = s /\ RepeatsAll(s)
    <2>1. imports' = s
      BY <1>1, <1>5 DEF RepeatsAll
    <2>2. StepsLeft(AllSteps) /\ AllSteps \in Commands
      BY <1>5 DEF RepeatsAll, Commands
    <2>3. \E k \in 1 .. Len(AllSteps) : /\ AllSteps[k].op = "format" /\ InOrder(AllSteps, k)
                                        /\ todo' = SubSeq(AllSteps, k + 1, Len(AllSteps))
      BY <1>1, <2>2, StepLeft
    <2>4. todo' = SubSeq(AllSteps, Len(AllSteps) + 1, Len(AllSteps))
      BY <2>3 DEF InOrder
    <2>5. todo' = <<>>
      <3>1. AllSteps \in Seq(StepSet) /\ Len(AllSteps) \in Nat
        BY <2>2, StepsAreInOrder
      <3> QED
        BY <2>4, <3>1, SubSeqEmpty
    <2> QED
      BY <1>1, <1>2, <1>3, <2>1, <2>5 DEF RepeatKeeps
  <1>6. CASE Duplicated(s)
    <2>1. todo' = <<>>
      BY <1>1, <1>6, DuplicatedFormats
    <2>2. /\ s = Sorted(s) /\ imports' = Sorted(Append(s, ImportLine(entity)))
          /\ entity \in Entities /\ entity \in NamesFrom(s, DomainOf[entity])
      BY <1>1, <1>6 DEF Duplicated, ImportsFit, IInv, TypeOK
    <2>3. imports' = s
      BY <2>2, AgainMakesNoDifference
    <2> QED
      BY <1>1, <1>2, <1>3, <2>1, <2>3 DEF RepeatKeeps
  <1> QED
    BY <1>1, <1>2, <1>4, <1>5, <1>6

\* Every step keeps the second invariant as well.
LEMMA NextKeeps == TailFits /\ RepeatInv /\ [Next]_vars => RepeatInv'
  <1> SUFFICES ASSUME TailFits, RepeatInv, [Next]_vars PROVE RepeatInv'
    OBVIOUS
  <1>1. IInv /\ ImportsFit /\ RepeatKeeps /\ IInv'
    BY NextPreserves DEF RepeatInv
  <1>2. ASSUME NEW e \in Entities \ Given,
               \/ CreateAll(e) \/ CreateDomain(e) \/ CreateDependencies(e)
               \/ \E l \in LayerSet : CreateLayer(e, l)
        PROVE  RepeatInv'
    <2>1. UNCHANGED <<imports, broken>>
      BY <1>2 DEF CreateAll, CreateDomain, CreateDependencies, CreateLayer, Starts,
                  projectVars
    <2>2. ImportsFit'
      BY <1>1, <2>1, OthersFit
    <2>3. RepeatKeeps'
      BY <1>1, <1>2, StartsKeep
    <2> QED
      BY <1>1, <2>2, <2>3 DEF RepeatInv
  <1>3. CASE \/ MakesPackages \/ RegistersPyproject \/ WritesLayer \/ UpdatesInit
             \/ AddsDependencies \/ RegistersModel
    <2>1. UNCHANGED <<imports, broken>>
      BY <1>3 DEF MakesPackages, RegistersPyproject, WritesLayer, UpdatesInit,
                  AddsDependencies, RegistersModel
    <2>2. ImportsFit'
      BY <1>1, <2>1, OthersFit
    <2>3. RepeatKeeps'
      BY <1>1, <1>3, AddsKeep
    <2> QED
      BY <1>1, <2>2, <2>3 DEF RepeatInv
  <1>4. CASE RegistersRouter
    BY <1>1, <1>4, RouterFits, RouterKeeps DEF RepeatInv
  <1>5. CASE Formats
    BY <1>1, <1>5, FormatsFits, FormatsKeeps DEF RepeatInv
  <1>6. CASE Interrupted
    <2>1. UNCHANGED <<imports, broken>> /\ before' = {}
      BY <1>6 DEF Interrupted, projectVars
    <2>2. ImportsFit'
      BY <1>1, <2>1, OthersFit
    <2>3. RepeatKeeps'
      BY <2>1 DEF RepeatKeeps
    <2> QED
      BY <1>1, <2>2, <2>3 DEF RepeatInv
  <1>7. CASE UNCHANGED vars
    <2>1. ImportsFit'
      BY <1>1, <1>7, OthersFit DEF vars
    <2>2. RepeatKeeps'
      BY <1>1, <1>7
         DEF vars, RepeatKeeps, ProjectWith, StepsLeft, RepeatsDomain, RepeatsAll,
             Duplicated, ImportLine
    <2> QED
      BY <1>1, <2>1, <2>2 DEF RepeatInv
  <1> QED
    BY <1>2, <1>3, <1>4, <1>5, <1>6, <1>7 DEF Next

\* Where the imports that can end up last fit on one line, register_router never
\* writes into an import, and all that a repeated command adds is undone by ruff.
THEOREM RepeatInvariance ==
  ASSUME TailFits
  PROVE  Spec => []RepeatInv
  <1>1. Init => RepeatInv
    BY InitEstablishes, InitFits DEF Init, RepeatInv, RepeatKeeps
  <1>2. RepeatInv /\ [Next]_vars => RepeatInv'
    BY NextKeeps
  <1> QED
    BY <1>1, <1>2, PTL DEF Spec

\* create_all.py:37, "Generate every layer ... and wire it into the app": what
\* create-all has reported keeps its parts and stays mounted in an api_versions.py
\* that is Python, as long as the imports that register_router can find last need
\* no wrapping; and it can be imported while every entity begun in its domain has
\* been seen through.
THEOREM FinishedStaysWired ==
  ASSUME TailFits
  PROVE  Spec => []FinishedIsWired
  <1>1. ASSUME RepeatInv PROVE FinishedIsWired
    <2>1. IInv /\ ~broken
      BY <1>1 DEF RepeatInv, ImportsFit
    <2>2. \A e \in finished : Complete(e) /\ Mounted(e)
      BY <2>1 DEF IInv, FinishedIsMounted
    <2> QED
      BY <2>1, <2>2, SeenThroughIsImportable DEF FinishedIsWired
  <1>2. RepeatInv => FinishedIsWired
    BY <1>1
  <1> QED
    BY <1>2, RepeatInvariance, PTL

\* README.md:298, "Run either command again and it changes nothing": under the
\* same condition create-all and create-domain leave the project as they found
\* it, for every entity and domain that they have created before.
THEOREM RepeatingChangesNothing ==
  ASSUME TailFits
  PROVE  Spec => []SecondRunChangesNothing
  <1>1. ASSUME RepeatInv PROVE SecondRunChangesNothing
    <2> SUFFICES ASSUME todo = <<>> PROVE before \subseteq {Project}
      BY DEF SecondRunChangesNothing
    <2>1. \A s : ~Duplicated(s)
      <3>1. /\ Len(AllSteps) \in 1 .. Len(AllSteps) /\ AllSteps \in Seq(StepSet)
        BY AllStepsAre
      <3>2. SubSeq(AllSteps, Len(AllSteps), Len(AllSteps)) # <<>>
        BY <3>1
      <3> QED
        BY <3>2 DEF Duplicated
    <2>2. CASE before # {}
      <3>1. PICK s \in Seq(Statements) : before = {ProjectWith(s)} /\ imports = s
        BY <1>1, <2>1, <2>2 DEF RepeatInv, RepeatKeeps
      <3> QED
        BY <3>1 DEF ProjectWith, Project
    <2> QED
      BY <2>2
  <1>2. RepeatInv => SecondRunChangesNothing
    BY <1>1
  <1> QED
    BY <1>2, RepeatInvariance, PTL

===============================================================================
