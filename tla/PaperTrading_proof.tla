------------------------ MODULE PaperTrading_proof ------------------------
(***************************************************************************)
(* Proofs about PaperTrading.  The invariant has a part on the tables      *)
(* (TablesOK) and a part on the requests (RequestsOK); Done and Start are  *)
(* shown once to keep the second, so that most actions only have to be     *)
(* looked at for what they write.                                          *)
(***************************************************************************)
EXTENDS PaperTrading, FiniteSetTheorems, WellFoundedInduction,
        NaturalsInduction, TLAPS

(* Finite sums.                                                            *)

(* A set of subsets of a finite set has a smallest member, below which it has no other. *)
LEMMA SmallestSet ==
    ASSUME NEW S, IsFiniteSet(S), NEW Bad, Bad \subseteq SUBSET S, Bad # {}
    PROVE  \E T \in Bad : \A U \in SUBSET T : U # T => U \notin Bad
<1> DEFINE R == StrictSubsetOrdering(S)
<1>1. IsWellFoundedOn(R, SUBSET S)
  BY FS_StrictSubsetOrderingWellFounded, FS_FiniteSubsetsOfFinite
<1>2. \A T \in SUBSET S : \A U \in SUBSET T : U # T => <<U, T>> \in R
  BY DEF StrictSubsetOrdering
<1> HIDE DEF R
<1>3. PICK T \in Bad : \A U \in Bad : ~(<<U, T>> \in R)
  BY <1>1, WFMin
<1> QED
  BY <1>2, <1>3

Choice(s) == CHOOSE x \in s : TRUE

Unfolds(f, S, it) ==
    it = [s \in SUBSET S |->
             IF s = {} THEN 0 ELSE f[Choice(s)] + it[s \ {Choice(s)}]]

Accumulates(f, S, it) ==
    /\ it[{}] = 0
    /\ \A s \in SUBSET S : s # {} => it[s] = f[Choice(s)] + it[s \ {Choice(s)}]

LEMMA ChoiceIn == \A s : s # {} => Choice(s) \in s
  BY DEF Choice

LEMMA UnfoldsAt ==
    ASSUME NEW S, NEW f, NEW it, Unfolds(f, S, it)
    PROVE  \A s \in SUBSET S :
              it[s] = IF s = {} THEN 0 ELSE f[Choice(s)] + it[s \ {Choice(s)}]
  BY DEF Unfolds

LEMMA UnfoldingsAgree ==
    ASSUME NEW S, IsFiniteSet(S), NEW T \in SUBSET S, NEW f, NEW g,
           \A x \in T : f[x] = g[x], NEW a, NEW b, Unfolds(f, S, a), Unfolds(g, T, b)
    PROVE  \A U \in SUBSET T : a[U] = b[U]
<1> DEFINE Bad == {U \in SUBSET T : a[U] # b[U]}
<1> SUFFICES ASSUME Bad # {} PROVE FALSE
  OBVIOUS
<1>0. Bad \subseteq SUBSET S
  OBVIOUS
<1> HIDE DEF Bad
<1>1. PICK U \in Bad : \A V \in SUBSET U : V # U => V \notin Bad
  BY <1>0, SmallestSet
<1> USE DEF Bad
<1>2. /\ a[U] = IF U = {} THEN 0 ELSE f[Choice(U)] + a[U \ {Choice(U)}]
      /\ b[U] = IF U = {} THEN 0 ELSE g[Choice(U)] + b[U \ {Choice(U)}]
  BY <1>1, UnfoldsAt
<1>3. U # {}
  BY <1>1, <1>2
<1>4. Choice(U) \in U
  BY <1>3, ChoiceIn
<1>5. a[U \ {Choice(U)}] = b[U \ {Choice(U)}]
  BY <1>1, <1>4
<1>6. f[Choice(U)] = g[Choice(U)]
  BY <1>1, <1>4
<1> QED
  BY <1>1, <1>2, <1>3, <1>5, <1>6

LEMMA UnfoldingExists ==
    ASSUME NEW S, IsFiniteSet(S), NEW f
    PROVE  \E it : Unfolds(f, S, it)
<1> DEFINE Bad == {T \in SUBSET S : ~\E it : Unfolds(f, T, it)}
<1> SUFFICES ASSUME Bad # {} PROVE FALSE
  OBVIOUS
<1>0. Bad \subseteq SUBSET S
  OBVIOUS
<1> HIDE DEF Bad
<1>1. PICK T \in Bad : \A U \in SUBSET T : U # T => U \notin Bad
  BY <1>0, SmallestSet
<1> USE DEF Bad
<1> DEFINE of(U) == CHOOSE it : Unfolds(f, U, it)
           g(U) == of(U)[U]
           it == [s \in SUBSET T |->
                     IF s = {} THEN 0 ELSE f[Choice(s)] + g(s \ {Choice(s)})]
<1>2. ASSUME NEW U \in SUBSET T, U # T
      PROVE  Unfolds(f, U, of(U))
  <2>1. \E x : Unfolds(f, U, x)
    BY <1>1, <1>2
  <2> QED
    BY <2>1
<1> HIDE DEF of
<1>3. ASSUME NEW U \in SUBSET T, U # T, U # {}
      PROVE  g(U) = f[Choice(U)] + g(U \ {Choice(U)})
  <2> DEFINE V == U \ {Choice(U)}
  <2>1. V \in SUBSET U /\ V # T
    BY <1>3, ChoiceIn
  <2>2. g(U) = f[Choice(U)] + of(U)[V]
    BY <1>2, <1>3, UnfoldsAt
  <2>3. IsFiniteSet(U)
    BY FS_Subset
  <2>4. Unfolds(f, U, of(U)) /\ Unfolds(f, V, of(V))
    BY <1>2, <1>3, <2>1
  <2> HIDE DEF V
  <2>5. PICK a, b : a = of(U) /\ b = of(V)
    OBVIOUS
  <2>6. \A W \in SUBSET V : a[W] = b[W]
    BY <2>1, <2>3, <2>4, <2>5, UnfoldingsAgree
  <2> QED
    BY <2>2, <2>5, <2>6 DEF V
<1>4. g({}) = 0 \/ T = {}
  BY <1>2, UnfoldsAt
<1>5. ASSUME NEW s \in SUBSET T, s # {}
      PROVE  it[s \ {Choice(s)}] = g(s \ {Choice(s)})
  <2> DEFINE U == s \ {Choice(s)}
  <2>1. U \in SUBSET T /\ U # T /\ T # {}
    BY <1>5, ChoiceIn
  <2> HIDE DEF U, g
  <2>2. it[U] = IF U = {} THEN 0 ELSE f[Choice(U)] + g(U \ {Choice(U)})
    BY <2>1
  <2>3. ASSUME U = {} PROVE it[U] = g(U)
    BY <2>1, <2>2, <2>3, <1>4
  <2>4. ASSUME U # {} PROVE it[U] = g(U)
    BY <2>1, <2>2, <2>4, <1>3
  <2> QED
    BY <2>3, <2>4 DEF U
<1> HIDE DEF g
<1>6. Unfolds(f, T, it)
  <2> DEFINE w == [s \in SUBSET T |->
                     IF s = {} THEN 0 ELSE f[Choice(s)] + it[s \ {Choice(s)}]]
  <2>1. \A s \in SUBSET T : it[s] = w[s]
    BY <1>5
  <2>2. it = w
    BY <2>1
  <2> QED
    BY <2>2 DEF Unfolds
<1> QED
  BY <1>1, <1>6

LEMMA SumUnfolds ==
    ASSUME NEW S, IsFiniteSet(S), NEW f, DOMAIN f = S
    PROVE  \E it : Unfolds(f, S, it) /\ Accumulates(f, S, it) /\ SumFunction(f) = it[S]
<1> DEFINE P(it) == Unfolds(f, S, it)
<1>1. SumFunction(f) = (CHOOSE it : P(it))[S]
  BY DEF SumFunction, SumFunctionOnSet, FoldFunctionOnSet, MapThenFoldSet, Unfolds, Choice
<1>2. \E it : P(it)
  BY UnfoldingExists
<1>3. P(CHOOSE it : P(it))
  BY <1>2
<1>4. PICK it : it = CHOOSE x : P(x)
  OBVIOUS
<1>5. Accumulates(f, S, it)
  BY <1>3, <1>4, UnfoldsAt DEF Accumulates
<1> QED
  BY <1>1, <1>3, <1>4, <1>5

(* The sum over a finite set is a number, and any element can be taken out of it. *)
LEMMA SumSplits ==
    ASSUME NEW S, IsFiniteSet(S), NEW f \in [S -> Int]
    PROVE  /\ SumFunction(f) \in Int
           /\ S = {} => SumFunction(f) = 0
           /\ \A x \in S : SumFunction(f) = f[x] + SumFunction(Restrict(f, S \ {x}))
<1>1. DOMAIN f = S
  OBVIOUS
<1>2. PICK it : Unfolds(f, S, it) /\ Accumulates(f, S, it) /\ SumFunction(f) = it[S]
  BY <1>1, SumUnfolds
<1> DEFINE Bad == {T \in SUBSET S : ~(/\ it[T] \in Int
                                      /\ \A x \in T : it[T] = f[x] + it[T \ {x}])}
<1>3. Bad = {}
  <2> SUFFICES ASSUME Bad # {} PROVE FALSE
    OBVIOUS
  <2>0. Bad \subseteq SUBSET S
    OBVIOUS
  <2> HIDE DEF Bad
  <2>1. PICK T \in Bad : \A U \in SUBSET T : U # T => U \notin Bad
    BY <2>0, SmallestSet
  <2> USE DEF Bad
  <2>3. ASSUME T = {} PROVE FALSE
    <3>1. it[T] = 0
      BY <1>2, <2>3 DEF Accumulates
    <3>2. T \notin Bad
      BY <2>3, <3>1
    <3> QED
      BY <3>2
  <2>4. PICK c \in T : c = Choice(T) /\ T # {}
    BY <2>3, ChoiceIn
  <2>5. it[T] = f[c] + it[T \ {c}]
    BY <1>2, <2>1, <2>3, <2>4 DEF Accumulates
  <2>6. ASSUME NEW U \in SUBSET T, U # T
        PROVE  it[U] \in Int /\ \A x \in U : it[U] = f[x] + it[U \ {x}]
    BY <2>1, <2>6
  <2>7. it[T] \in Int
    BY <2>4, <2>5, <2>6
  <2>8. ASSUME NEW x \in T, x # c PROVE it[T] = f[x] + it[T \ {x}]
    <3>1. it[T \ {c}] = f[x] + it[(T \ {c}) \ {x}]
      BY <2>6, <2>8
    <3>2. it[T \ {x}] = f[c] + it[(T \ {x}) \ {c}]
      BY <2>6, <2>8
    <3>3. (T \ {c}) \ {x} = (T \ {x}) \ {c}
      OBVIOUS
    <3>4. PICK r : r = it[(T \ {c}) \ {x}]
      OBVIOUS
    <3>5. r \in Int
      BY <2>4, <2>6, <3>4
    <3>6. f[x] \in Int /\ f[c] \in Int
      OBVIOUS
    <3>7. it[T] = f[c] + (f[x] + r) /\ it[T \ {x}] = f[c] + r
      BY <2>5, <3>1, <3>2, <3>3, <3>4
    <3> QED
      BY <3>5, <3>6, <3>7
  <2> QED
    BY <2>1, <2>5, <2>7, <2>8
<1>4. it[S] \in Int /\ \A x \in S : it[S] = f[x] + it[S \ {x}]
  BY <1>3
<1>5. ASSUME NEW x \in S
      PROVE  it[S \ {x}] = SumFunction(Restrict(f, S \ {x}))
  <2> DEFINE T == S \ {x}
             g == Restrict(f, T)
  <2>1. IsFiniteSet(T) /\ T \in SUBSET S
    BY FS_Subset
  <2>2. DOMAIN g = T /\ \A y \in T : f[y] = g[y]
    BY DEF Restrict
  <2> HIDE DEF g, T
  <2>3. PICK b : Unfolds(g, T, b) /\ SumFunction(g) = b[T]
    BY <2>1, <2>2, SumUnfolds
  <2>4. \A U \in SUBSET T : it[U] = b[U]
    BY <1>2, <2>1, <2>2, <2>3, UnfoldingsAgree
  <2>5. it[T] = SumFunction(g)
    BY <2>3, <2>4
  <2> QED
    BY <2>5 DEF g, T
<1>6. S = {} => it[S] = 0
  BY <1>2 DEF Accumulates
<1> QED
  BY <1>2, <1>4, <1>5, <1>6

(* A sum changes by as much as its one changed term. *)
LEMMA SumChanges ==
    ASSUME NEW S, IsFiniteSet(S), NEW f \in [S -> Int], NEW g \in [S -> Int],
           NEW p \in S, \A x \in S \ {p} : g[x] = f[x]
    PROVE  SumFunction(g) = SumFunction(f) + g[p] - f[p]
<1> DEFINE r == Restrict(f, S \ {p})
<1>1. r = Restrict(g, S \ {p})
  BY DEF Restrict
<1>2. IsFiniteSet(S \ {p}) /\ r \in [S \ {p} -> Int]
  BY FS_RemoveElement DEF Restrict
<1>3. SumFunction(f) = f[p] + SumFunction(r)
  BY SumSplits
<1>4. SumFunction(g) = g[p] + SumFunction(Restrict(g, S \ {p}))
  BY SumSplits
<1>5. SumFunction(r) \in Int
  BY <1>2, SumSplits
<1> HIDE DEF r
<1> QED
  BY <1>1, <1>3, <1>4, <1>5

(* A sum of terms of one sign has that sign; a sum of zeros is zero. *)
LEMMA SumSigns ==
    ASSUME NEW S, IsFiniteSet(S), NEW f \in [S -> Int]
    PROVE  /\ (\A x \in S : f[x] >= 0) => SumFunction(f) >= 0
           /\ (\A x \in S : f[x] = 0) => SumFunction(f) = 0
<1> DEFINE part(T) == [x \in T |-> f[x]]
           Good(T) ==
               /\ (\A x \in S : f[x] >= 0) => SumFunction(part(T)) >= 0
               /\ (\A x \in S : f[x] = 0) => SumFunction(part(T)) = 0
           Bad == {T \in SUBSET S : ~Good(T)}
<1>0. Bad \subseteq SUBSET S
  OBVIOUS
<1>1. Bad = {}
  <2> SUFFICES ASSUME Bad # {} PROVE FALSE
    OBVIOUS
  <2> HIDE DEF Bad
  <2>1. PICK T \in Bad : \A U \in SUBSET T : U # T => U \notin Bad
    BY <1>0, SmallestSet
  <2>2. T \in SUBSET S /\ ~Good(T)
    BY DEF Bad
  <2>3. IsFiniteSet(T) /\ part(T) \in [T -> Int]
    BY <2>2, FS_Subset
  <2>4. T # {}
    BY <2>2, <2>3, SumSplits
  <2>5. PICK c \in T : TRUE
    BY <2>4
  <2>6. SumFunction(part(T)) = part(T)[c] + SumFunction(Restrict(part(T), T \ {c}))
    BY <2>3, SumSplits
  <2>7. Restrict(part(T), T \ {c}) = part(T \ {c})
    BY DEF Restrict
  <2>8. Good(T \ {c})
    BY <2>1, <2>2 DEF Bad
  <2>9. IsFiniteSet(T \ {c}) /\ part(T \ {c}) \in [T \ {c} -> Int]
    BY <2>2, <2>3, FS_Subset
  <2>10. SumFunction(part(T \ {c})) \in Int
    BY <2>9, SumSplits
  <2>11. part(T)[c] = f[c] /\ f[c] \in Int /\ c \in S
    BY <2>2
  <2>12. SumFunction(part(T)) = f[c] + SumFunction(part(T \ {c}))
    BY <2>6, <2>7, <2>11
  <2> HIDE DEF part
  <2> QED
    BY <2>2, <2>8, <2>10, <2>11, <2>12
<1>2. Good(S)
  BY <1>1
<1>3. part(S) = f
  OBVIOUS
<1> QED
  BY <1>2, <1>3

(* The natural numbers are well-ordered. *)
LEMMA LeastNat ==
    ASSUME NEW T, T \subseteq Nat, T # {}
    PROVE  \E x \in T : \A y \in T : x <= y
<1> DEFINE R == OpToRel(<, Nat)
<1>1. IsWellFoundedOn(R, Nat)
  BY NatLessThanWellFounded DEF OpToRel
<1>2. \A x, y \in Nat : <<y, x>> \in R <=> y < x
  BY DEF OpToRel
<1> HIDE DEF R
<1>3. PICK x \in T : \A y \in T : ~(<<y, x>> \in R)
  BY <1>1, WFMin
<1>4. \A y \in T : ~(y < x)
  BY <1>2, <1>3
<1> QED
  BY <1>4

(* A term put before a sequence is added to its sum. *)
LEMMA SumPrepends ==
    ASSUME NEW n \in Nat, NEW f \in [1..n -> Int], NEW g \in [1..(n + 1) -> Int],
           \A i \in 1..n : g[i + 1] = f[i]
    PROVE  SumFunction(g) = g[1] + SumFunction(f)
<1> DEFINE front(k) == [i \in 1..k |-> f[i]]
           back(k) == [i \in 1..(k + 1) |-> g[i]]
           Good(k) == SumFunction(back(k)) = g[1] + SumFunction(front(k))
           Bad == {k \in 0..n : ~Good(k)}
<1>1. ASSUME NEW k \in 0..n
      PROVE  /\ IsFiniteSet(1..k) /\ IsFiniteSet(1..(k + 1))
             /\ front(k) \in [1..k -> Int] /\ back(k) \in [1..(k + 1) -> Int]
  BY FS_Interval
<1>2. ASSUME NEW k \in 0..n
      PROVE  /\ SumFunction(back(k)) = g[k + 1] + SumFunction([i \in 1..k |-> g[i]])
             /\ k > 0 => SumFunction(front(k)) = f[k] + SumFunction(front(k - 1))
             /\ SumFunction(front(k)) \in Int
  <2>1. PICK S, h : S = 1..(k + 1) /\ h = back(k)
    OBVIOUS
  <2>2. IsFiniteSet(S) /\ h \in [S -> Int] /\ k + 1 \in S
    BY <1>1, <2>1
  <2>3. SumFunction(h) = h[k + 1] + SumFunction(Restrict(h, S \ {k + 1}))
    BY <2>2, SumSplits
  <2>4. S \ {k + 1} = 1..k
    BY <2>1
  <2>5. Restrict(h, S \ {k + 1}) = [i \in 1..k |-> g[i]] /\ h[k + 1] = g[k + 1]
    BY <2>1, <2>4 DEF Restrict
  <2>6. PICK V, e : V = 1..k /\ e = front(k)
    OBVIOUS
  <2>7. IsFiniteSet(V) /\ e \in [V -> Int]
    BY <1>1, <2>6
  <2>8. SumFunction(e) \in Int
    BY <2>7, SumSplits
  <2>9. ASSUME k > 0 PROVE SumFunction(e) = f[k] + SumFunction(front(k - 1))
    <3>0. k \in V
      BY <2>6, <2>9
    <3>1. SumFunction(e) = e[k] + SumFunction(Restrict(e, V \ {k}))
      BY <2>7, <3>0, SumSplits
    <3>2. V \ {k} = 1..(k - 1)
      <4>1. k \in Nat
        OBVIOUS
      <4>2. \A i \in Int : i \in V \ {k} <=> i \in 1..(k - 1)
        BY <2>6, <4>1
      <4>3. V \subseteq Int /\ 1..(k - 1) \subseteq Int
        BY <2>6
      <4> QED
        BY <4>2, <4>3
    <3>3. Restrict(e, V \ {k}) = front(k - 1) /\ e[k] = f[k]
      BY <2>6, <3>0, <3>2 DEF Restrict
    <3> QED
      BY <3>1, <3>3
  <2> QED
    BY <2>1, <2>3, <2>5, <2>6, <2>8, <2>9
<1>3. ASSUME NEW k \in 0..n, k > 0 => Good(k - 1) PROVE Good(k)
  <2>1. CASE k = 0
    <3>1. [i \in 1..k |-> g[i]] = front(k)
      BY <2>1
    <3>2. g[k + 1] = g[1]
      BY <2>1
    <3> QED
      BY <1>2, <3>1, <3>2
  <2>2. CASE k > 0
    <3>1. back(k - 1) = [i \in 1..k |-> g[i]]
      BY <2>2
    <3>2. f[k] \in Int /\ g[1] \in Int /\ g[k + 1] = f[k]
      BY <2>2
    <3>3. SumFunction(front(k - 1)) \in Int
      <4>1. k - 1 \in 0..n
        BY <2>2
      <4> HIDE DEF front, back, Good
      <4> QED
        BY <1>2, <4>1
    <3>4. /\ SumFunction(back(k)) = f[k] + SumFunction(back(k - 1))
          /\ SumFunction(front(k)) = f[k] + SumFunction(front(k - 1))
          /\ SumFunction(back(k - 1)) = g[1] + SumFunction(front(k - 1))
      BY <1>2, <1>3, <2>2, <3>1, <3>2
    <3> HIDE DEF front, back
    <3> QED
      BY <3>2, <3>3, <3>4
  <2> QED
    BY <2>1, <2>2
<1>4. Bad = {}
  <2> SUFFICES ASSUME Bad # {} PROVE FALSE
    OBVIOUS
  <2>1. Bad \subseteq Nat
    OBVIOUS
  <2> HIDE DEF Bad
  <2>2. PICK k \in Bad : \A j \in Bad : k <= j
    BY <2>1, LeastNat
  <2> HIDE DEF Good
  <2>3. k \in 0..n /\ ~Good(k)
    BY DEF Bad
  <2>4. k > 0 => Good(k - 1)
    BY <2>2, <2>3 DEF Bad
  <2> QED
    BY <1>3, <2>3, <2>4
<1>5. Good(n)
  <2> HIDE DEF Good
  <2> QED
    BY <1>4
<1>6. front(n) = f /\ back(n) = g
  OBVIOUS
<1> QED
  BY <1>5, <1>6

-----------------------------------------------------------------------------
(* The requests and the tables.                                            *)

Buys == {"pipeline", "order"}

\* What a request at label l must hold.
Fits(l, j) ==
    /\ l = "create" => j.kind = "pipeline" /\ j.decision \in Decisions
    /\ l \in {"upsert", "fill", "save", "journal"} =>
          j.kind \in Buys /\ j.position \in Positions
    /\ l \in {"ensure", "account", "position"} /\ j.kind \in Buys =>
          j.price \in Prices
    /\ l = "commit" => j.kind = "close" /\ j.price \in Prices
    /\ j.kind = "close" => j.position \in Positions
    /\ j.kind \in Buys \cup {"evaluate"} => j.symbol \in Symbols

\* A row that is open has a symbol.
KnownRow(row) == row.status = "open" => row.symbol \in Symbols

TablesOK ==
    /\ kill \in BOOLEAN
    /\ signals \in [Signals -> {"none", "fresh", "old"}]
    /\ decisions \in [Decisions -> {"none", "APPROVED", "REJECTED"}]
    /\ warned \subseteq Decisions
    /\ orders \in [Orders -> OrderRow]
    /\ fills \in [Orders -> Positions \cup {NoId}]
    /\ positions \in [Positions -> PositionRow]
    /\ AccountRow(account)
    /\ \A p \in Positions : KnownRow(positions[p])

RequestsOK ==
    /\ overlap \in BOOLEAN /\ begun \in 0..MaxRequests
    /\ pc \in [Workers -> PCs]
    /\ job \in [Workers -> JobRow]
    /\ acc = [w \in Workers |-> acc[w]]
    /\ \A w \in Workers : AccountRow(acc[w])
    /\ rows \in [Workers -> [Positions -> PositionRow]]
    /\ \A w \in Workers, p \in Positions : KnownRow(rows[w][p])
    /\ \A w \in Workers : Fits(pc[w], job[w])

Inv == TablesOK /\ RequestsOK

-----------------------------------------------------------------------------
LEMMA InvType == Inv => TypeOK
  BY DEF Inv, TablesOK, RequestsOK, TypeOK

LEMMA AbsentRow == Absent \in PositionRow /\ KnownRow(Absent)
  BY DEF Absent, Row, PositionRow, KnownRow

LEMMA NoRowsOK ==
    /\ NoRows \in [Positions -> PositionRow]
    /\ \A p \in Positions : KnownRow(NoRows[p])
  BY AbsentRow DEF NoRows

LEMMA NoJobOK == NoJob \in JobRow /\ Fits("idle", NoJob)
  BY DEF NoJob, Job, JobRow, Kinds, Fits, Buys

LEMMA DefaultAccountOK == AccountRow(DefaultAccount)
  BY DEF DefaultAccount, Account, AccountRow

LEMMA InitInv == Init => Inv
<1> SUFFICES ASSUME Init PROVE Inv
  OBVIOUS
<1>1. NoOrder \in OrderRow
  BY DEF NoOrder, OrderOf, OrderRow, Keys, OrderStates
<1>2. TablesOK
  <2>1. positions \in [Positions -> PositionRow]
        /\ \A p \in Positions : KnownRow(positions[p])
    BY NoRowsOK DEF Init
  <2>2. AccountRow(account)
    BY DefaultAccountOK DEF Init
  <2> QED
    BY <1>1, <2>1, <2>2 DEF Init, TablesOK
<1>3. RequestsOK
  <2>1. begun \in 0..MaxRequests
    BY PaperAssumption DEF Init
  <2>2. overlap \in BOOLEAN
    BY DEF Init
  <2>3. /\ rows \in [Workers -> [Positions -> PositionRow]]
        /\ \A w \in Workers, p \in Positions : KnownRow(rows[w][p])
    BY NoRowsOK DEF Init
  <2>4. /\ acc = [w \in Workers |-> acc[w]]
        /\ \A w \in Workers : AccountRow(acc[w])
    BY DefaultAccountOK DEF Init
  <2>5. /\ pc \in [Workers -> PCs] /\ job \in [Workers -> JobRow]
        /\ \A w \in Workers : Fits(pc[w], job[w])
    BY NoJobOK DEF Init, PCs
  <2> QED
    BY <2>1, <2>2, <2>3, <2>4, <2>5 DEF RequestsOK
<1> QED
  BY <1>2, <1>3 DEF Inv

-----------------------------------------------------------------------------
(* The requests.                                                           *)

\* A request moves to another label, and nothing else of it changes.
LEMMA GotoOK ==
    ASSUME RequestsOK, NEW w \in Workers, NEW l \in PCs, Goto(w, l),
           Fits(l, job[w]), UNCHANGED <<job, acc, rows, overlap, begun>>
    PROVE  RequestsOK'
<1>1. pc' \in [Workers -> PCs]
  BY DEF RequestsOK, Goto
<1>2. \A v \in Workers : Fits(pc'[v], job'[v])
  BY DEF RequestsOK, Goto
<1> QED
  BY <1>1, <1>2 DEF RequestsOK, AccountRow, KnownRow, Fits

\* The end of a request keeps the requests well formed.
LEMMA DoneOK ==
    ASSUME RequestsOK, NEW w \in Workers, Done(w), UNCHANGED <<overlap, begun>>
    PROVE  RequestsOK'
<1>1. pc' \in [Workers -> PCs] /\ job' \in [Workers -> JobRow]
  BY NoJobOK DEF RequestsOK, Done, Goto, PCs
<1>2. acc' = [v \in Workers |-> acc'[v]]
  BY DEF RequestsOK, Done
<1>3. \A v \in Workers : AccountRow(acc'[v])
  BY DefaultAccountOK DEF RequestsOK, Done
<1>4. /\ rows' \in [Workers -> [Positions -> PositionRow]]
      /\ \A v \in Workers, p \in Positions : KnownRow(rows'[v][p])
  BY NoRowsOK DEF RequestsOK, Done
<1>5. \A v \in Workers : Fits(pc'[v], job'[v])
  BY NoJobOK DEF RequestsOK, Done, Goto
<1> QED
  BY <1>1, <1>2, <1>3, <1>4, <1>5 DEF RequestsOK, AccountRow, KnownRow, Fits

LEMMA CountOK ==
    ASSUME RequestsOK, begun < MaxRequests, begun' = begun + 1
    PROVE  begun' \in 0..MaxRequests
  BY PaperAssumption DEF RequestsOK

\* So does the start of a request that fits its label.
LEMMA StartOK ==
    ASSUME RequestsOK, NEW w \in Workers, NEW label \in PCs,
           NEW request \in JobRow, Fits(label, request),
           Start(w, label, request)
    PROVE  RequestsOK'
<1>1. pc' \in [Workers -> PCs] /\ job' \in [Workers -> JobRow]
  BY DEF RequestsOK, Start, Goto
<1>2. \A v \in Workers : Fits(pc'[v], job'[v])
  BY DEF RequestsOK, Start, Goto
<1>3. begun' \in 0..MaxRequests
  BY CountOK DEF Start
<1>4. overlap' \in BOOLEAN
  BY Zenon DEF Start
<1>5. UNCHANGED <<acc, rows>>
  BY DEF Start
<1> QED
  BY <1>1, <1>2, <1>3, <1>4, <1>5 DEF RequestsOK, AccountRow, KnownRow, Fits

LEMMA JobOK ==
    ASSUME NEW k \in Kinds, NEW s \in Signals \cup {NoId},
           NEW y \in Symbols \cup {NoId}, NEW d \in Decisions \cup {NoId},
           NEW o \in Orders \cup {NoId}, NEW p \in Positions \cup {NoId},
           NEW price \in Prices \cup {0}
    PROVE  Job(k, s, y, d, o, p, price) \in JobRow
  BY DEF Job, JobRow

LEMMA AccountOK ==
    ASSUME NEW made \in BOOLEAN, NEW realized \in Int, NEW unrealized
    PROVE  AccountRow(Account(made, realized, unrealized))
  BY DEF Account, AccountRow

\* What the computed rows are, for any row of the table.
LEMMA RowsOK ==
    ASSUME NEW row \in PositionRow, KnownRow(row), NEW price \in Prices
    PROVE  /\ row.status = "open" =>
                /\ IncreasedRow(row, price) \in PositionRow
                /\ KnownRow(IncreasedRow(row, price))
           /\ ClosedRow(row, price) \in PositionRow
           /\ KnownRow(ClosedRow(row, price))
           /\ \A mark \in Prices \cup {0} :
                /\ MarkedRow(row, mark) \in PositionRow
                /\ KnownRow(MarkedRow(row, mark))
           /\ \A y \in Symbols :
                /\ OpenedRow(y, price) \in PositionRow
                /\ KnownRow(OpenedRow(y, price))
           /\ ClosePnl(row, price) \in Int
<1>1. ClosePnl(row, price) \in Int
  BY PaperAssumption DEF ClosePnl, PositionRow
<1>2. ASSUME row.status = "open"
      PROVE  /\ IncreasedRow(row, price) \in PositionRow
             /\ KnownRow(IncreasedRow(row, price))
  BY <1>2, PaperAssumption DEF IncreasedRow, Row, PositionRow, KnownRow
<1>3. ClosedRow(row, price) \in PositionRow /\ KnownRow(ClosedRow(row, price))
  BY <1>1 DEF ClosedRow, Row, PositionRow, KnownRow
<1>4. ASSUME NEW mark \in Prices \cup {0}
      PROVE  /\ MarkedRow(row, mark) \in PositionRow
             /\ KnownRow(MarkedRow(row, mark))
  BY DEF MarkedRow, Row, PositionRow, KnownRow
<1>5. ASSUME NEW y \in Symbols
      PROVE  /\ OpenedRow(y, price) \in PositionRow
             /\ KnownRow(OpenedRow(y, price))
  BY PaperAssumption DEF OpenedRow, Row, PositionRow, KnownRow
<1> QED
  BY <1>1, <1>2, <1>3, <1>4, <1>5

\* A request that has read a row continues with a copy of it.
LEMMA CopyOK ==
    ASSUME RequestsOK, NEW w \in Workers, NEW p \in Positions,
           NEW row \in PositionRow, KnownRow(row),
           rows' = [rows EXCEPT ![w] = [NoRows EXCEPT ![p] = row]]
    PROVE  /\ rows' \in [Workers -> [Positions -> PositionRow]]
           /\ \A v \in Workers, q \in Positions : KnownRow(rows'[v][q])
<1> DEFINE copy == [NoRows EXCEPT ![p] = row]
<1>1. /\ copy \in [Positions -> PositionRow]
      /\ \A q \in Positions : KnownRow(copy[q])
  BY NoRowsOK
<1> HIDE DEF copy
<1>2. rows' = [rows EXCEPT ![w] = copy]
  BY DEF copy
<1> QED
  BY <1>1, <1>2 DEF RequestsOK

LEMMA ReadPositionOK ==
    ASSUME Inv, NEW w \in Workers, ReadPosition(w)
    PROVE  RequestsOK'
<1>1. PICK p \in Positions, row \in PositionRow :
        KnownRow(row) /\ ApplyFill(w, p, row)
  <2>1. job[w].price \in Prices /\ job[w].symbol \in Symbols
    BY DEF Inv, RequestsOK, ReadPosition, Fits, JobRow, Buys
  <2>2. CASE \E p \in Positions :
               /\ Open(p)
               /\ ApplyFill(w, p, IncreasedRow(positions[p], job[w].price))
    BY <2>1, <2>2, RowsOK DEF Inv, TablesOK, Open
  <2>3. CASE \E p \in FreshPositions :
               ApplyFill(w, p, OpenedRow(job[w].symbol, job[w].price))
    BY <2>1, <2>3, RowsOK, AbsentRow DEF FreshPositions
  <2> QED
    BY <2>2, <2>3 DEF ReadPosition
<1>2. job[w] \in JobRow /\ job[w].kind \in Buys /\ job[w].symbol \in Symbols
  BY DEF Inv, RequestsOK, ReadPosition, Fits, Buys
<1> DEFINE j == Job(job[w].kind, job[w].signal, job[w].symbol,
                    job[w].decision, job[w].order, p, job[w].price)
<1>3. j \in JobRow /\ Fits("upsert", j)
  BY <1>2 DEF Job, JobRow, Fits, Buys
<1> HIDE DEF j
<1>4. /\ pc' = [pc EXCEPT ![w] = "upsert"] /\ job' = [job EXCEPT ![w] = j]
      /\ UNCHANGED <<overlap, begun>>
  BY <1>1 DEF ApplyFill, Goto, j
<1>5. /\ pc' \in [Workers -> PCs] /\ job' \in [Workers -> JobRow]
      /\ \A v \in Workers : Fits(pc'[v], job'[v])
  BY <1>3, <1>4 DEF Inv, RequestsOK, PCs
<1> DEFINE a == Account(TRUE, acc[w].realized_pnl, Unrealized(row))
<1>6. AccountRow(a)
  BY AccountOK DEF Inv, RequestsOK, AccountRow
<1> HIDE DEF a
<1>7. acc' = [acc EXCEPT ![w] = a]
  BY <1>1 DEF ApplyFill, a
<1>8. /\ acc' = [v \in Workers |-> acc'[v]]
      /\ \A v \in Workers : AccountRow(acc'[v])
  BY <1>6, <1>7 DEF Inv, RequestsOK
<1>9. /\ rows' \in [Workers -> [Positions -> PositionRow]]
      /\ \A v \in Workers, q \in Positions : KnownRow(rows'[v][q])
  BY <1>1, CopyOK DEF ApplyFill, Inv
<1> QED
  BY <1>4, <1>5, <1>8, <1>9 DEF Inv, RequestsOK

LEMMA InsertApprovalOK ==
    ASSUME Inv, NEW w \in Workers, InsertApproval(w)
    PROVE  RequestsOK'
<1>1. CASE job[w].kind = "pipeline"
  <2>1. PICK d \in Decisions :
          /\ Goto(w, "create")
          /\ job' = [job EXCEPT ![w] =
                       Job("pipeline", job[w].signal, job[w].symbol, d,
                           NoId, NoId, 0)]
          /\ UNCHANGED <<acc, rows, overlap, begun>>
    BY <1>1 DEF InsertApproval, FreeDecisions
  <2> DEFINE j == Job("pipeline", job[w].signal, job[w].symbol, d,
                      NoId, NoId, 0)
  <2>2. j \in JobRow /\ Fits("create", j)
    BY <1>1 DEF Inv, RequestsOK, Job, JobRow, Fits, Buys, Kinds
  <2> HIDE DEF j
  <2>3. job' = [job EXCEPT ![w] = j]
    BY <2>1 DEF j
  <2>4. /\ pc' \in [Workers -> PCs] /\ job' \in [Workers -> JobRow]
        /\ \A v \in Workers : Fits(pc'[v], job'[v])
    BY <2>1, <2>2, <2>3 DEF Goto, Inv, RequestsOK, PCs
  <2> QED
    BY <2>1, <2>4 DEF Inv, RequestsOK, AccountRow, KnownRow
<1>2. CASE job[w].kind # "pipeline"
  BY <1>2, DoneOK DEF InsertApproval, Inv
<1> QED
  BY <1>1, <1>2

LEMMA CreatePipelineOrderOK ==
    ASSUME Inv, NEW w \in Workers, CreatePipelineOrder(w)
    PROVE  RequestsOK'
<1>1. PICK o \in Orders, price \in Prices :
        job' = [job EXCEPT ![w] =
                  Job("pipeline", job[w].signal, job[w].symbol,
                      job[w].decision, o, NoId, price)]
  BY DEF CreatePipelineOrder, FreeOrders
<1> DEFINE j == Job("pipeline", job[w].signal, job[w].symbol,
                    job[w].decision, o, NoId, price)
<1>2. j \in JobRow /\ Fits("ensure", j)
  BY DEF CreatePipelineOrder, Inv, RequestsOK, Job, JobRow, Fits, Buys, Kinds
<1> HIDE DEF j
<1>3. /\ job' = [job EXCEPT ![w] = j] /\ pc' = [pc EXCEPT ![w] = "ensure"]
      /\ UNCHANGED <<acc, rows, overlap, begun>>
  BY <1>1 DEF j, CreatePipelineOrder, Goto
<1>4. /\ pc' \in [Workers -> PCs] /\ job' \in [Workers -> JobRow]
      /\ \A v \in Workers : Fits(pc'[v], job'[v])
  BY <1>2, <1>3 DEF Inv, RequestsOK, PCs
<1> QED
  BY <1>3, <1>4 DEF Inv, RequestsOK, AccountRow, KnownRow

LEMMA WriteBackAccountOK ==
    ASSUME Inv, NEW w \in Workers, WriteBackAccount(w)
    PROVE  RequestsOK'
<1> DEFINE a == Account(TRUE, acc[w].realized_pnl, acc[w].unrealized_pnl)
<1>1. AccountRow(a)
  BY AccountOK DEF Inv, RequestsOK, AccountRow
<1> HIDE DEF a
<1>2. CASE /\ acc' = [acc EXCEPT ![w] = a] /\ Goto(w, "position")
           /\ UNCHANGED <<job, rows>>
  <2>1. /\ pc' \in [Workers -> PCs]
        /\ \A v \in Workers : Fits(pc'[v], job'[v])
    BY <1>2 DEF Goto, WriteBackAccount, Inv, RequestsOK, PCs, Fits
  <2>2. /\ acc' = [v \in Workers |-> acc'[v]]
        /\ \A v \in Workers : AccountRow(acc'[v])
    BY <1>1, <1>2 DEF Inv, RequestsOK
  <2>3. UNCHANGED <<overlap, begun>>
    BY DEF WriteBackAccount
  <2> QED
    BY <1>2, <2>1, <2>2, <2>3 DEF Inv, RequestsOK, KnownRow
<1>3. CASE Done(w)
  BY <1>3, DoneOK DEF WriteBackAccount, Inv
<1> QED
  BY <1>2, <1>3 DEF WriteBackAccount, a

LEMMA ReadAccountOK ==
    ASSUME Inv, NEW w \in Workers, ReadAccount(w)
    PROVE  RequestsOK'
<1>1. PICK l \in {"position", "account"} : pc' = [pc EXCEPT ![w] = l]
  BY DEF ReadAccount, Goto
<1>2. /\ pc' \in [Workers -> PCs]
      /\ \A v \in Workers : Fits(pc'[v], job'[v])
  BY <1>1 DEF ReadAccount, Inv, RequestsOK, PCs, Fits
<1>3. /\ acc' = [v \in Workers |-> acc'[v]]
      /\ \A v \in Workers : AccountRow(acc'[v])
  BY DEF ReadAccount, Inv, RequestsOK, TablesOK
<1>4. UNCHANGED <<job, rows, overlap, begun>>
  BY DEF ReadAccount
<1> QED
  BY <1>2, <1>3, <1>4 DEF Inv, RequestsOK, KnownRow

LEMMA ReadForCloseOK ==
    ASSUME Inv, NEW w \in Workers, ReadForClose(w)
    PROVE  RequestsOK'
<1>1. job[w].position \in Positions
  BY DEF ReadForClose, Inv, RequestsOK, Fits
<1>2. CASE /\ Open(job[w].position)
           /\ \E price \in Prices :
                job' = [job EXCEPT ![w] =
                          Job("close", NoId, NoId, NoId, NoId,
                              job[w].position, price)]
           /\ rows' = [rows EXCEPT ![w] =
                         [NoRows EXCEPT ![job[w].position] =
                                           positions[job[w].position]]]
           /\ Goto(w, "commit")
           /\ UNCHANGED acc
  <2>1. PICK price \in Prices :
          job' = [job EXCEPT ![w] =
                    Job("close", NoId, NoId, NoId, NoId,
                        job[w].position, price)]
    BY <1>2
  <2> DEFINE j == Job("close", NoId, NoId, NoId, NoId, job[w].position, price)
  <2>2. j \in JobRow /\ Fits("commit", j)
    BY <1>1 DEF Job, JobRow, Fits, Buys, Kinds
  <2> HIDE DEF j
  <2>3. job' = [job EXCEPT ![w] = j] /\ UNCHANGED <<overlap, begun>>
    BY <2>1 DEF j, ReadForClose
  <2>4. /\ pc' \in [Workers -> PCs] /\ job' \in [Workers -> JobRow]
        /\ \A v \in Workers : Fits(pc'[v], job'[v])
    BY <1>2, <2>2, <2>3 DEF Goto, Inv, RequestsOK, PCs
  <2>5. /\ rows' \in [Workers -> [Positions -> PositionRow]]
        /\ \A v \in Workers, q \in Positions : KnownRow(rows'[v][q])
    BY <1>1, <1>2, CopyOK DEF Inv, TablesOK
  <2> QED
    BY <1>2, <2>3, <2>4, <2>5 DEF Inv, RequestsOK, AccountRow
<1>3. CASE Done(w)
  BY <1>3, DoneOK DEF ReadForClose, Inv
<1> QED
  BY <1>2, <1>3 DEF ReadForClose

LEMMA MarkPositionsOK ==
    ASSUME Inv, NEW w \in Workers, MarkPositions(w)
    PROVE  RequestsOK'
<1>0. PICK mark \in [Symbols -> Prices \cup {0}] : \E a :
        /\ rows' = [rows EXCEPT ![w] =
                      [p \in Positions |->
                         IF Open(p) THEN MarkedRow(positions[p],
                                              mark[positions[p].symbol])
                         ELSE Absent]]
        /\ acc' = [acc EXCEPT ![w] = Account(TRUE, acc[w].realized_pnl, a)]
  BY DEF MarkPositions
<1>1. PICK a :
        /\ rows' = [rows EXCEPT ![w] =
                      [p \in Positions |->
                         IF Open(p) THEN MarkedRow(positions[p],
                                              mark[positions[p].symbol])
                         ELSE Absent]]
        /\ acc' = [acc EXCEPT ![w] = Account(TRUE, acc[w].realized_pnl, a)]
  BY <1>0
<1> DEFINE marked == [p \in Positions |->
                        IF Open(p) THEN MarkedRow(positions[p],
                                             mark[positions[p].symbol])
                        ELSE Absent]
           b == Account(TRUE, acc[w].realized_pnl, a)
<1>2. ASSUME NEW p \in Positions
      PROVE  marked[p] \in PositionRow /\ KnownRow(marked[p])
  <2>1. CASE Open(p)
    <3>1. positions[p] \in PositionRow /\ positions[p].symbol \in Symbols
      BY <2>1 DEF Inv, TablesOK, KnownRow, Open
    <3>2. mark[positions[p].symbol] \in Prices \cup {0}
      BY <3>1
    <3>3. marked[p] = MarkedRow(positions[p], mark[positions[p].symbol])
      BY <2>1
    <3> HIDE DEF marked
    <3> QED
      BY <3>1, <3>2, <3>3 DEF MarkedRow, Row, PositionRow, KnownRow
  <2>2. CASE ~Open(p)
    BY <2>2, AbsentRow
  <2> QED
    BY <2>1, <2>2
<1>3. AccountRow(b)
  BY AccountOK DEF Inv, RequestsOK, AccountRow
<1>4. marked \in [Positions -> PositionRow]
  BY <1>2
<1> HIDE DEF marked, b
<1>5. rows' = [rows EXCEPT ![w] = marked] /\ acc' = [acc EXCEPT ![w] = b]
  BY <1>1 DEF marked, b
<1>6. /\ rows' \in [Workers -> [Positions -> PositionRow]]
      /\ \A v \in Workers, p \in Positions : KnownRow(rows'[v][p])
  BY <1>2, <1>4, <1>5 DEF Inv, RequestsOK
<1>7. /\ acc' = [v \in Workers |-> acc'[v]]
      /\ \A v \in Workers : AccountRow(acc'[v])
  BY <1>3, <1>5 DEF Inv, RequestsOK
<1>8. /\ pc' \in [Workers -> PCs]
      /\ \A v \in Workers : Fits(pc'[v], job'[v])
      /\ UNCHANGED <<job, overlap, begun>>
  BY DEF MarkPositions, Goto, Inv, RequestsOK, PCs, Fits
<1> QED
  BY <1>6, <1>7, <1>8 DEF Inv, RequestsOK

\* Every step keeps the requests well formed.
LEMMA RequestsStep == Inv /\ [Next]_vars => RequestsOK'
<1> SUFFICES ASSUME Inv, [Next]_vars PROVE RequestsOK'
  OBVIOUS
<1>1. ASSUME NEW w \in Workers, RunPipeline(w) PROVE RequestsOK'
  <2>1. PICK s \in Signals :
          Start(w, "risk", Job("pipeline", s, SymbolOf[s], NoId, NoId, NoId, 0))
    BY <1>1 DEF RunPipeline
  <2> DEFINE j == Job("pipeline", s, SymbolOf[s], NoId, NoId, NoId, 0)
  <2>2. j \in JobRow /\ Fits("risk", j)
    BY PaperAssumption DEF Job, JobRow, Kinds, Fits, Buys
  <2> QED
    BY <2>1, <2>2, StartOK DEF Inv, PCs
<1>2. ASSUME NEW w \in Workers, EvaluateRisk(w) PROVE RequestsOK'
  <2>1. PICK s \in Signals :
          Start(w, "risk", Job("evaluate", s, SymbolOf[s], NoId, NoId, NoId, 0))
    BY <1>2 DEF EvaluateRisk
  <2> DEFINE j == Job("evaluate", s, SymbolOf[s], NoId, NoId, NoId, 0)
  <2>2. j \in JobRow /\ Fits("risk", j)
    BY PaperAssumption DEF Job, JobRow, Kinds, Fits, Buys
  <2> QED
    BY <2>1, <2>2, StartOK DEF Inv, PCs
<1>3. ASSUME NEW w \in Workers, LoadRiskState(w) PROVE RequestsOK'
  <2>1. PICK l \in {"approved", "warned", "rejected"} : Goto(w, l)
    BY <1>3 DEF LoadRiskState, Verdict
  <2>2. Fits(l, job[w])
    BY <1>3 DEF LoadRiskState, Inv, RequestsOK, Fits
  <2>3. UNCHANGED <<job, acc, rows, overlap, begun>>
    BY <1>3 DEF LoadRiskState
  <2> QED
    BY <2>1, <2>2, <2>3, GotoOK DEF Inv, PCs
<1>4. ASSUME NEW w \in Workers, InsertApproval(w) PROVE RequestsOK'
  BY <1>4, InsertApprovalOK
<1>5. ASSUME NEW w \in Workers, InsertRejection(w) PROVE RequestsOK'
  BY <1>5, DoneOK DEF Inv, InsertRejection, dbVars
<1>6. ASSUME NEW w \in Workers, CreatePipelineOrder(w) PROVE RequestsOK'
  BY <1>6, CreatePipelineOrderOK
<1>7. ASSUME NEW w \in Workers, ReusePipelineOrder(w) PROVE RequestsOK'
  BY <1>7, DoneOK DEF Inv, ReusePipelineOrder, dbVars
<1>8. ASSUME NEW w \in Workers, CreateDirectOrder(w) PROVE RequestsOK'
  <2>1. PICK o \in Orders, d \in Decisions, s \in Symbols, price \in Prices :
          Start(w, "ensure", Job("order", NoId, s, d, o, NoId, price))
    BY <1>8 DEF CreateDirectOrder, FreeOrders
  <2> DEFINE j == Job("order", NoId, s, d, o, NoId, price)
  <2>2. j \in JobRow /\ Fits("ensure", j)
    BY DEF Job, JobRow, Kinds, Fits, Buys
  <2> QED
    BY <2>1, <2>2, StartOK DEF Inv, PCs
<1>9. ASSUME NEW w \in Workers, ExpireDirectOrder(w) PROVE RequestsOK'
  <2>1. begun' \in 0..MaxRequests
    BY <1>9, CountOK DEF ExpireDirectOrder, Inv
  <2> QED
    BY <1>9, <2>1 DEF ExpireDirectOrder, Inv, RequestsOK, AccountRow, KnownRow, Fits
<1>10. ASSUME NEW w \in Workers, ReadAccount(w) PROVE RequestsOK'
  BY <1>10, ReadAccountOK
<1>11. ASSUME NEW w \in Workers, WriteBackAccount(w) PROVE RequestsOK'
  BY <1>11, WriteBackAccountOK
<1>12. ASSUME NEW w \in Workers, ReadPosition(w) PROVE RequestsOK'
  BY <1>12, ReadPositionOK
<1>13. ASSUME NEW w \in Workers, UpsertFilled(w) PROVE RequestsOK'
  <2>1. Goto(w, "fill") /\ UNCHANGED <<job, acc, rows, overlap, begun>>
    BY <1>13 DEF UpsertFilled, UpsertPosition
  <2>2. Fits("fill", job[w])
    BY <1>13 DEF UpsertFilled, Inv, RequestsOK, Fits
  <2> QED
    BY <2>1, <2>2, GotoOK DEF Inv, PCs
<1>14. ASSUME NEW w \in Workers, RefuseUpsert(w) PROVE RequestsOK'
  BY <1>14, DoneOK DEF Inv, RefuseUpsert, dbVars
<1>15. ASSUME NEW w \in Workers, InsertFill(w) PROVE RequestsOK'
  <2>1. Goto(w, "save") /\ UNCHANGED <<job, acc, rows, overlap, begun>>
    BY <1>15 DEF InsertFill
  <2>2. Fits("save", job[w])
    BY <1>15 DEF InsertFill, Inv, RequestsOK, Fits
  <2> QED
    BY <2>1, <2>2, GotoOK DEF Inv, PCs
<1>16. ASSUME NEW w \in Workers, SaveAccount(w) PROVE RequestsOK'
  <2>1. Goto(w, "journal") /\ UNCHANGED <<job, acc, rows, overlap, begun>>
    BY <1>16 DEF SaveAccount
  <2>2. Fits("journal", job[w])
    BY <1>16 DEF SaveAccount, Inv, RequestsOK, Fits
  <2> QED
    BY <2>1, <2>2, GotoOK DEF Inv, PCs
<1>17. ASSUME NEW w \in Workers, InsertJournal(w) PROVE RequestsOK'
  BY <1>17, DoneOK DEF Inv, InsertJournal, dbVars
<1>18. ASSUME NEW w \in Workers, RequestClose(w) PROVE RequestsOK'
  <2>1. PICK p \in Positions :
          Start(w, "ensure", Job("close", NoId, NoId, NoId, NoId, p, 0))
    BY <1>18 DEF RequestClose
  <2> DEFINE j == Job("close", NoId, NoId, NoId, NoId, p, 0)
  <2>2. j \in JobRow /\ Fits("ensure", j)
    BY DEF Job, JobRow, Kinds, Fits, Buys
  <2> QED
    BY <2>1, <2>2, StartOK DEF Inv, PCs
<1>19. ASSUME NEW w \in Workers, ReadForClose(w) PROVE RequestsOK'
  BY <1>19, ReadForCloseOK
<1>20. ASSUME NEW w \in Workers, CommitClose(w) PROVE RequestsOK'
  BY <1>20, DoneOK DEF Inv, CommitClose, dbVars
<1>21. ASSUME NEW w \in Workers, RefuseClose(w) PROVE RequestsOK'
  BY <1>21, DoneOK DEF Inv, RefuseClose, dbVars
<1>22. ASSUME NEW w \in Workers, RequestMark(w) PROVE RequestsOK'
  <2> DEFINE j == Job("mark", NoId, NoId, NoId, NoId, NoId, 0)
  <2>1. j \in JobRow /\ Fits("ensure", j)
    BY DEF Job, JobRow, Kinds, Fits, Buys
  <2> QED
    BY <1>22, <2>1, StartOK DEF RequestMark, Inv, PCs
<1>23. ASSUME NEW w \in Workers, MarkPositions(w) PROVE RequestsOK'
  BY <1>23, MarkPositionsOK
<1>24. ASSUME NEW w \in Workers, UpsertMarked(w) PROVE RequestsOK'
  <2>1. PICK p \in Positions :
          rows' = [rows EXCEPT ![w] = [rows[w] EXCEPT ![p] = Absent]]
    BY <1>24 DEF UpsertMarked
  <2> DEFINE left == [rows[w] EXCEPT ![p] = Absent]
  <2>2. /\ left \in [Positions -> PositionRow]
        /\ \A q \in Positions : KnownRow(left[q])
    BY AbsentRow DEF Inv, RequestsOK
  <2> HIDE DEF left
  <2>3. rows' = [rows EXCEPT ![w] = left]
    BY <2>1 DEF left
  <2>4. /\ rows' \in [Workers -> [Positions -> PositionRow]]
        /\ \A v \in Workers, q \in Positions : KnownRow(rows'[v][q])
    BY <2>2, <2>3 DEF Inv, RequestsOK
  <2> QED
    BY <1>24, <2>4 DEF UpsertMarked, UpsertPosition, Inv, RequestsOK, AccountRow, Fits
<1>25. ASSUME NEW w \in Workers, SaveMarkedAccount(w) PROVE RequestsOK'
  BY <1>25, DoneOK DEF Inv, SaveMarkedAccount, dbVars
<1>26. ASSUME NEW w \in Workers, Break(w) PROVE RequestsOK'
  BY <1>26, DoneOK DEF Inv, Break, dbVars
<1>27. CASE SetKillSwitch \/ SignalAges \/ UNCHANGED vars
  BY <1>27 DEF SetKillSwitch, SignalAges, vars, Inv, RequestsOK, AccountRow,
       KnownRow, Fits
<1> QED
  BY <1>1, <1>2, <1>3, <1>4, <1>5, <1>6, <1>7, <1>8, <1>9, <1>10, <1>11,
     <1>12, <1>13, <1>14, <1>15, <1>16, <1>17, <1>18, <1>19, <1>20,
     <1>21, <1>22, <1>23, <1>24, <1>25, <1>26, <1>27 DEF Next

-----------------------------------------------------------------------------
(* The tables.  Only the writers below touch the tables the theorems are   *)
(* about; every other step is quiet.                                       *)

Quiet ==
    /\ UNCHANGED <<decisions, warned, orders, fills, positions, account>>
    /\ kill' \in BOOLEAN
    /\ signals' \in [Signals -> {"none", "fresh", "old"}]

Writer(w) ==
    \/ InsertApproval(w) \/ InsertRejection(w)
    \/ CreatePipelineOrder(w) \/ CreateDirectOrder(w) \/ ExpireDirectOrder(w)
    \/ WriteBackAccount(w) \/ SaveAccount(w) \/ SaveMarkedAccount(w)
    \/ UpsertFilled(w) \/ UpsertMarked(w)
    \/ InsertFill(w)
    \/ CommitClose(w)

LEMMA QuietOrWriter ==
    ASSUME Inv, [Next]_vars
    PROVE  Quiet \/ \E w \in Workers : Writer(w)
<1>1. ASSUME UNCHANGED <<kill, signals, decisions, warned, orders, fills,
                         positions, account>>
      PROVE  Quiet
  BY <1>1 DEF Quiet, Inv, TablesOK
<1>2. ASSUME NEW w \in Workers, RunPipeline(w) PROVE Quiet
  BY <1>2 DEF RunPipeline, Quiet, Inv, TablesOK
<1>3. CASE SetKillSwitch
  <2>1. kill' \in BOOLEAN
    BY <1>3, Zenon DEF SetKillSwitch
  <2> QED
    BY <1>3, <2>1 DEF SetKillSwitch, Quiet, Inv, TablesOK
<1>4. CASE SignalAges
  BY <1>4 DEF SignalAges, Quiet, Inv, TablesOK
<1>5. ASSUME NEW w \in Workers,
             \/ EvaluateRisk(w) \/ LoadRiskState(w) \/ ReusePipelineOrder(w)
             \/ ReadAccount(w) \/ ReadPosition(w) \/ RefuseUpsert(w)
             \/ RequestClose(w) \/ ReadForClose(w) \/ RefuseClose(w)
             \/ RequestMark(w) \/ MarkPositions(w) \/ Break(w)
      PROVE  UNCHANGED dbVars
  <2>1. ASSUME ReadPosition(w) PROVE UNCHANGED dbVars
    BY <2>1 DEF ReadPosition, ApplyFill
  <2> QED
    BY <1>5, <2>1 DEF EvaluateRisk, LoadRiskState, ReusePipelineOrder,
         ReadAccount, RefuseUpsert, RequestClose, ReadForClose, RefuseClose,
         RequestMark, MarkPositions, Break
<1>6. ASSUME NEW w \in Workers, InsertJournal(w) PROVE Quiet
  BY <1>1, <1>6 DEF InsertJournal
<1>7. CASE UNCHANGED vars
  BY <1>1, <1>7 DEF vars
<1>8. ASSUME UNCHANGED dbVars PROVE Quiet
  BY <1>1, <1>8 DEF dbVars
<1> QED
  BY <1>2, <1>3, <1>4, <1>5, <1>6, <1>7, <1>8, Zenon DEF Next, Writer

\* What each writer leaves alone.
LEMMA PlaceOrderOK ==
    ASSUME TablesOK, NEW o \in Orders, NEW d \in Decisions,
           NEW key \in Keys, NEW state \in OrderStates,
           PlaceOrder(o, d, key, state)
    PROVE  TablesOK'
<1>1. OrderOf(state, d, key, NoId) \in OrderRow
  BY DEF OrderRow, OrderOf
<1>2. orders' \in [Orders -> OrderRow]
  BY <1>1 DEF PlaceOrder, TablesOK
<1> QED
  BY <1>2 DEF PlaceOrder, TablesOK, AccountRow, KnownRow

LEMMA CallerKeysOK ==
    ASSUME NEW key \in CallerKeys
    PROVE  key \in Keys
  BY DEF CallerKeys, Keys

LEMMA UpsertOK ==
    ASSUME Inv, NEW w \in Workers, NEW p \in Positions, UpsertPosition(w, p)
    PROVE  TablesOK'
<1>1. /\ positions' \in [Positions -> PositionRow]
      /\ \A q \in Positions : KnownRow(positions'[q])
  BY DEF UpsertPosition, Inv, TablesOK, RequestsOK
<1> QED
  BY <1>1 DEF UpsertPosition, Inv, TablesOK, AccountRow

LEMMA CommitCloseOK ==
    ASSUME Inv, NEW w \in Workers, CommitClose(w)
    PROVE  TablesOK'
<1> DEFINE p == job[w].position
           row == rows[w][p]
           closed == ClosedRow(row, job[w].price)
           updated == Account(TRUE, acc[w].realized_pnl
                                      + ClosePnl(row, job[w].price), 0)
<1>1. p \in Positions /\ job[w].price \in Prices
  BY DEF CommitClose, Inv, RequestsOK, Fits
<1>2. row \in PositionRow /\ KnownRow(row)
  BY <1>1 DEF Inv, RequestsOK
<1>3. /\ closed \in PositionRow /\ KnownRow(closed)
      /\ ClosePnl(row, job[w].price) \in Int
  BY <1>1, <1>2, RowsOK
<1>4. AccountRow(updated)
  <2>1. acc[w].realized_pnl \in Int
    BY DEF Inv, RequestsOK, AccountRow
  <2>2. acc[w].realized_pnl + ClosePnl(row, job[w].price) \in Int
    BY <1>3, <2>1
  <2> QED
    BY <2>2, AccountOK
<1>5. PICK d \in Decisions, o \in Orders :
        /\ decisions' = [decisions EXCEPT ![d] = "APPROVED"]
        /\ orders' = [orders EXCEPT ![o] =
                        OrderOf("PAPER_FILLED", d, <<"close", p>>, p)]
        /\ fills' = [fills EXCEPT ![o] = p]
  BY DEF CommitClose, FreeDecisions, FreeOrders
<1>6. positions' = [positions EXCEPT ![p] = closed] /\ account' = updated
  BY DEF CommitClose
<1>7. kill' = kill /\ signals' = signals /\ warned' = warned
  BY DEF CommitClose
<1>8. OrderOf("PAPER_FILLED", d, <<"close", p>>, p) \in OrderRow
  BY <1>1 DEF OrderRow, OrderOf, OrderStates, Keys
<1>9. /\ decisions' \in [Decisions -> {"none", "APPROVED", "REJECTED"}]
      /\ fills' \in [Orders -> Positions \cup {NoId}]
  BY <1>1, <1>5 DEF Inv, TablesOK
<1>10. orders' \in [Orders -> OrderRow]
  BY <1>5, <1>8 DEF Inv, TablesOK
<1> HIDE DEF closed, updated, p
<1>11. /\ positions' \in [Positions -> PositionRow]
       /\ \A q \in Positions : KnownRow(positions'[q])
  BY <1>1, <1>3, <1>6 DEF Inv, TablesOK
<1>12. AccountRow(account')
  BY <1>4, <1>6
<1> QED
  BY <1>7, <1>9, <1>10, <1>11, <1>12 DEF Inv, TablesOK

\* Every step keeps the tables well formed.
LEMMA TablesStep == Inv /\ [Next]_vars => TablesOK'
<1> SUFFICES ASSUME Inv, [Next]_vars PROVE TablesOK'
  OBVIOUS
<1>1. CASE Quiet
  BY <1>1 DEF Quiet, Inv, TablesOK, AccountRow, KnownRow
<1>2. ASSUME NEW w \in Workers, Writer(w) PROVE TablesOK'
  <2>1. CASE InsertApproval(w) \/ InsertRejection(w)
    <3>1. PICK d \in Decisions, v \in {"APPROVED", "REJECTED"} :
            decisions' = [decisions EXCEPT ![d] = v]
      BY <2>1 DEF InsertApproval, InsertRejection, FreeDecisions
    <3>2. decisions' \in [Decisions -> {"none", "APPROVED", "REJECTED"}]
      BY <3>1 DEF Inv, TablesOK
    <3>3. warned' \subseteq Decisions
      BY <2>1 DEF InsertApproval, InsertRejection, FreeDecisions, Inv, TablesOK
    <3> QED
      BY <2>1, <3>2, <3>3 DEF InsertApproval, InsertRejection, Inv, TablesOK,
           AccountRow, KnownRow
  <2>2. CASE CreatePipelineOrder(w)
    <3>1. job[w].decision \in Decisions
      BY <2>2 DEF CreatePipelineOrder, Inv, RequestsOK, Fits
    <3>2. <<"pass", job[w].decision>> \in Keys
      BY <3>1 DEF Keys
    <3> QED
      BY <2>2, <3>1, <3>2, PlaceOrderOK
         DEF CreatePipelineOrder, FreeOrders, OrderStates, Inv
  <2>3. CASE CreateDirectOrder(w)
    BY <2>3, CallerKeysOK, PlaceOrderOK
       DEF CreateDirectOrder, FreeOrders, OrderStates, Inv
  <2>4. CASE ExpireDirectOrder(w)
    BY <2>4, CallerKeysOK, PlaceOrderOK
       DEF ExpireDirectOrder, FreeOrders, OrderStates, Inv
  <2>5. CASE WriteBackAccount(w) \/ SaveAccount(w) \/ SaveMarkedAccount(w)
    <3>1. AccountRow(Account(TRUE, acc[w].realized_pnl,
                             acc[w].unrealized_pnl))
      BY AccountOK DEF Inv, RequestsOK, AccountRow
    <3>2. AccountRow(acc[w]) /\ AccountRow(account)
      BY DEF Inv, RequestsOK, TablesOK
    <3>3. AccountRow(account')
      BY <2>5, <3>1, <3>2 DEF WriteBackAccount, SaveAccount, SaveMarkedAccount
    <3> QED
      BY <2>5, <3>3 DEF WriteBackAccount, SaveAccount, SaveMarkedAccount,
           Inv, TablesOK, KnownRow
  <2>6. CASE UpsertFilled(w)
    <3>1. job[w].position \in Positions
      BY <2>6 DEF UpsertFilled, Inv, RequestsOK, Fits
    <3> QED
      BY <2>6, <3>1, UpsertOK DEF UpsertFilled
  <2>7. CASE UpsertMarked(w)
    BY <2>7, UpsertOK DEF UpsertMarked
  <2>8. CASE InsertFill(w)
    <3>1. job[w].position \in Positions
      BY <2>8 DEF InsertFill, Inv, RequestsOK, Fits
    <3>2. fills' \in [Orders -> Positions \cup {NoId}]
      BY <2>8, <3>1 DEF InsertFill, Inv, TablesOK
    <3> QED
      BY <2>8, <3>2 DEF InsertFill, Inv, TablesOK, AccountRow, KnownRow
  <2>9. CASE CommitClose(w)
    BY <2>9, CommitCloseOK
  <2> QED
    BY <1>2, <2>1, <2>2, <2>3, <2>4, <2>5, <2>6, <2>7, <2>8, <2>9 DEF Writer
<1> QED
  BY <1>1, <1>2, QuietOrWriter

LEMMA InvHolds == Spec => []Inv
<1>1. Inv /\ [Next]_vars => Inv'
  BY RequestsStep, TablesStep DEF Inv
<1> QED
  BY InitInv, <1>1, PTL DEF Spec

\* Every table row and every working copy of a request keeps its type, in
\* every interleaving of the handlers (TypeOK of the tables in crates/db).
THEOREM TypeCorrect == Spec => []TypeOK
  BY InvHolds, InvType, PTL

-----------------------------------------------------------------------------
(* One open position per symbol.                                           *)

LEMMA UpsertOneOpen ==
    ASSUME Inv, OneOpenPosition, NEW w \in Workers, NEW p \in Positions,
           UpsertPosition(w, p)
    PROVE  OneOpenPosition'
<1>1. /\ positions' = [positions EXCEPT ![p] = rows[w][p]]
      /\ \A q \in Positions \ {p} :
            ~(positions[q].status = "open"
              /\ positions[q].symbol = rows[w][p].symbol)
  BY DEF UpsertPosition, SymbolTaken, Open
<1>2. positions \in [Positions -> PositionRow]
  BY DEF Inv, TablesOK
<1> QED
  BY <1>1, <1>2 DEF OneOpenPosition, Open

LEMMA OneOpenStep == Inv /\ OneOpenPosition /\ [Next]_vars => OneOpenPosition'
<1> SUFFICES ASSUME Inv, OneOpenPosition, [Next]_vars PROVE OneOpenPosition'
  OBVIOUS
<1>1. ASSUME UNCHANGED positions PROVE OneOpenPosition'
  BY <1>1 DEF OneOpenPosition, Open
<1>2. CASE Quiet
  BY <1>1, <1>2 DEF Quiet
<1>3. ASSUME NEW w \in Workers, Writer(w) PROVE OneOpenPosition'
  <2>1. CASE UpsertFilled(w)
    <3>1. job[w].position \in Positions
      BY <2>1 DEF UpsertFilled, Inv, RequestsOK, Fits
    <3> QED
      BY <2>1, <3>1, UpsertOneOpen DEF UpsertFilled
  <2>2. CASE UpsertMarked(w)
    BY <2>2, UpsertOneOpen DEF UpsertMarked
  <2>3. CASE CommitClose(w)
    <3>1. job[w].position \in Positions
      BY <2>3 DEF CommitClose, Inv, RequestsOK, Fits
    <3>2. PICK row : positions' = [positions EXCEPT ![job[w].position] =
                                      ClosedRow(row, job[w].price)]
      BY <2>3 DEF CommitClose
    <3>3. \A q \in Positions :
             positions'[q].status = "open" => positions'[q] = positions[q]
      BY <3>1, <3>2 DEF ClosedRow, Row, Inv, TablesOK
    <3> QED
      BY <3>3 DEF OneOpenPosition, Open
  <2>4. CASE \/ InsertApproval(w) \/ InsertRejection(w)
             \/ CreatePipelineOrder(w) \/ CreateDirectOrder(w)
             \/ ExpireDirectOrder(w) \/ WriteBackAccount(w)
             \/ SaveAccount(w) \/ SaveMarkedAccount(w) \/ InsertFill(w)
    <3>1. UNCHANGED positions
      BY <2>4 DEF InsertApproval, InsertRejection, CreatePipelineOrder,
           CreateDirectOrder, ExpireDirectOrder, PlaceOrder,
           WriteBackAccount, SaveAccount, SaveMarkedAccount, InsertFill
    <3> QED
      BY <1>1, <3>1
  <2> QED
    BY <1>3, <2>1, <2>2, <2>3, <2>4 DEF Writer
<1> QED
  BY <1>2, <1>3, QuietOrWriter

\* However many requests race for however many symbols, upsert_paper_position
\* and the close never leave two open positions of one symbol.
THEOREM OneOpenCorrect == Spec => []OneOpenPosition
<1>1. Init => OneOpenPosition
  BY DEF Init, NoRows, Absent, Row, OneOpenPosition, Open
<1> QED
  BY InvHolds, <1>1, OneOpenStep, PTL DEF Spec

-----------------------------------------------------------------------------
(* The equity is a whole number: the stored account and the copies the     *)
(* requests write there are sums of whole numbers.                         *)

Adds(a) ==
    /\ a.current_equity = InitialEquity + a.realized_pnl + a.unrealized_pnl
    /\ a.unrealized_pnl \in Int

EquityInv == Adds(account) /\ \A w \in Workers : Adds(acc[w])

LEMMA AccountAdds ==
    ASSUME NEW made, NEW realized, NEW unrealized \in Int
    PROVE  Adds(Account(made, realized, unrealized))
  BY DEF Adds, Account

LEMMA DefaultAdds == Adds(DefaultAccount)
<1>1. 0 \in Int
  OBVIOUS
<1> QED
  BY <1>1, AccountAdds DEF DefaultAccount

LEMMA UnrealizedOK ==
    ASSUME NEW row \in PositionRow
    PROVE  Unrealized(row) \in Int
<1>1. row.mark_price \in Int /\ row.quantity \in Int /\ row.cost \in Int
  <2>1. /\ row.mark_price \in Prices \cup {0}
        /\ row.quantity \in Nat /\ row.cost \in Nat
    BY DEF PositionRow
  <2>2. \A x \in Prices : x \in Int
    BY PaperAssumption
  <2>3. 0 \in Int
    OBVIOUS
  <2> QED
    BY <2>1, <2>2, <2>3
<1>2. row.mark_price * row.quantity \in Int
  BY <1>1
<1> QED
  BY <1>1, <1>2 DEF Unrealized

LEMMA CopyAdds ==
    ASSUME Inv, EquityInv, NEW w \in Workers, NEW a, Adds(a),
           acc' = [acc EXCEPT ![w] = a]
    PROVE  \A v \in Workers : Adds(acc'[v])
<1>1. \A v \in Workers : acc'[v] = IF v = w THEN a ELSE acc[v]
  BY DEF Inv, RequestsOK
<1> QED
  BY <1>1 DEF EquityInv

LEMMA DoneAdds ==
    ASSUME Inv, EquityInv, NEW w \in Workers, Done(w)
    PROVE  \A v \in Workers : Adds(acc'[v])
  BY CopyAdds, DefaultAdds DEF Done

LEMMA EquityStep == Inv /\ EquityInv /\ [Next]_vars => EquityInv'
<1> SUFFICES ASSUME Inv, EquityInv, [Next]_vars PROVE EquityInv'
  OBVIOUS
<1>1. \A v \in Workers : Adds(acc'[v])
  <2>1. ASSUME UNCHANGED acc PROVE \A v \in Workers : Adds(acc'[v])
    BY <2>1 DEF EquityInv
  <2>2. ASSUME NEW w \in Workers, ReadAccount(w)
        PROVE  \A v \in Workers : Adds(acc'[v])
    BY <2>2, CopyAdds DEF ReadAccount, EquityInv
  <2>3. ASSUME NEW w \in Workers, WriteBackAccount(w)
        PROVE  \A v \in Workers : Adds(acc'[v])
    <3>1. Adds(Account(TRUE, acc[w].realized_pnl, acc[w].unrealized_pnl))
      BY AccountAdds DEF EquityInv, Adds
    <3> QED
      BY <2>3, <3>1, CopyAdds, DoneAdds DEF WriteBackAccount
  <2>4. ASSUME NEW w \in Workers, ReadPosition(w)
        PROVE  \A v \in Workers : Adds(acc'[v])
    <3>1. PICK p \in Positions : \E row :
            /\ rows' = [rows EXCEPT ![w] = [NoRows EXCEPT ![p] = row]]
            /\ acc' = [acc EXCEPT ![w] =
                          Account(TRUE, acc[w].realized_pnl, Unrealized(row))]
      BY <2>4 DEF ReadPosition, ApplyFill, FreshPositions
    <3>2. PICK row :
            /\ rows' = [rows EXCEPT ![w] = [NoRows EXCEPT ![p] = row]]
            /\ acc' = [acc EXCEPT ![w] =
                          Account(TRUE, acc[w].realized_pnl, Unrealized(row))]
      BY <3>1
    <3>3. rows'[w][p] = row
      BY <3>2 DEF NoRows, Inv, RequestsOK
    <3>4. rows'[w][p] \in PositionRow
      BY RequestsStep DEF RequestsOK
    <3> QED
      BY <3>2, <3>3, <3>4, CopyAdds, AccountAdds, UnrealizedOK
  <2>5. ASSUME NEW w \in Workers, MarkPositions(w)
        PROVE  \A v \in Workers : Adds(acc'[v])
    <3> DEFINE fits(marked) ==
                 /\ rows' = [rows EXCEPT ![w] = marked]
                 /\ acc' = [acc EXCEPT ![w] =
                               Account(TRUE, acc[w].realized_pnl,
                                       SumFunction([p \in Positions |->
                                                      Unrealized(marked[p])]))]
    <3>0. PICK mark \in [Symbols -> Prices \cup {0}] :
            fits([p \in Positions |->
                    IF Open(p) THEN MarkedRow(positions[p],
                                         mark[positions[p].symbol])
                    ELSE Absent])
      BY <2>5 DEF MarkPositions
    <3>1. PICK marked : fits(marked)
      <4> HIDE DEF fits
      <4> QED
        BY <3>0
    <3>2. marked = rows'[w] /\ rows'[w] \in [Positions -> PositionRow]
      BY <3>1, RequestsStep DEF Inv, RequestsOK
    <3>3. [p \in Positions |-> Unrealized(marked[p])] \in [Positions -> Int]
      BY <3>2, UnrealizedOK
    <3>4. SumFunction([p \in Positions |-> Unrealized(marked[p])]) \in Int
      BY <3>3, PaperAssumption, SumSplits
    <3> QED
      BY <3>1, <3>4, CopyAdds, AccountAdds
  <2>6. ASSUME NEW w \in Workers,
               \/ InsertApproval(w) \/ ReadForClose(w)
               \/ InsertRejection(w) \/ ReusePipelineOrder(w)
               \/ RefuseUpsert(w) \/ InsertJournal(w) \/ CommitClose(w)
               \/ RefuseClose(w) \/ SaveMarkedAccount(w) \/ Break(w)
        PROVE  \A v \in Workers : Adds(acc'[v])
    <3>1. Done(w) \/ UNCHANGED acc
      BY <2>6 DEF InsertApproval, ReadForClose, InsertRejection,
           ReusePipelineOrder, RefuseUpsert, InsertJournal, CommitClose,
           RefuseClose, SaveMarkedAccount, Break
    <3> QED
      BY <2>1, <3>1, DoneAdds
  <2>7. ASSUME NEW w \in Workers,
               \/ RunPipeline(w) \/ EvaluateRisk(w) \/ LoadRiskState(w)
               \/ CreatePipelineOrder(w) \/ CreateDirectOrder(w)
               \/ ExpireDirectOrder(w) \/ UpsertFilled(w) \/ InsertFill(w)
               \/ SaveAccount(w) \/ RequestClose(w) \/ RequestMark(w)
               \/ UpsertMarked(w)
        PROVE  UNCHANGED acc
    BY <2>7 DEF RunPipeline, EvaluateRisk, LoadRiskState, Start,
         CreatePipelineOrder, CreateDirectOrder, ExpireDirectOrder,
         UpsertFilled, UpsertMarked, UpsertPosition, InsertFill,
         SaveAccount, RequestClose, RequestMark
  <2>8. CASE SetKillSwitch \/ SignalAges \/ UNCHANGED vars
    BY <2>1, <2>8 DEF SetKillSwitch, SignalAges, vars
  <2> QED
    BY <2>1, <2>2, <2>3, <2>4, <2>5, <2>6, <2>7, <2>8, Zenon DEF Next
<1>2. Adds(account')
  <2>1. ASSUME UNCHANGED account PROVE Adds(account')
    BY <2>1 DEF EquityInv
  <2>2. ASSUME NEW w \in Workers, Writer(w) PROVE Adds(account')
    <3>1. CASE WriteBackAccount(w) \/ SaveAccount(w) \/ SaveMarkedAccount(w)
      <4>1. Adds(Account(TRUE, acc[w].realized_pnl, acc[w].unrealized_pnl))
        BY AccountAdds DEF EquityInv, Adds
      <4>2. Adds(acc[w]) /\ Adds(account)
        BY DEF EquityInv
      <4> QED
        BY <3>1, <4>1, <4>2 DEF WriteBackAccount, SaveAccount,
             SaveMarkedAccount
    <3>2. CASE CommitClose(w)
      <4>1. PICK r : account' = Account(TRUE, r, 0)
        BY <3>2 DEF CommitClose
      <4> QED
        <5>1. 0 \in Int
          OBVIOUS
        <5> QED
          BY <4>1, <5>1, AccountAdds
    <3>3. CASE \/ InsertApproval(w) \/ InsertRejection(w)
               \/ CreatePipelineOrder(w) \/ CreateDirectOrder(w)
               \/ ExpireDirectOrder(w) \/ InsertFill(w)
               \/ UpsertFilled(w) \/ UpsertMarked(w)
      <4>1. UNCHANGED account
        BY <3>3 DEF InsertApproval, InsertRejection, CreatePipelineOrder,
             CreateDirectOrder, ExpireDirectOrder, PlaceOrder, InsertFill,
             UpsertFilled, UpsertMarked, UpsertPosition
      <4> QED
        BY <2>1, <4>1
    <3> QED
      BY <2>2, <3>1, <3>2, <3>3 DEF Writer
  <2>3. CASE Quiet
    BY <2>1, <2>3 DEF Quiet
  <2> QED
    BY <2>2, <2>3, QuietOrWriter
<1> QED
  BY <1>1, <1>2 DEF EquityInv

LEMMA EquityHolds == Spec => []EquityInv
<1>1. Init => EquityInv
  BY DefaultAdds DEF Init, EquityInv
<1> QED
  BY InvHolds, <1>1, EquityStep, PTL DEF Spec

-----------------------------------------------------------------------------
(* The refinement.                                                         *)

\* The request is between the creation of its order and its fill.
Buying(w) ==
    /\ pc[w] \in {"ensure", "account", "position", "upsert", "fill"}
    /\ job[w].kind \in Buys

\* A free order has no row and no fill; the order of a buying request is
\* filled, not booked, and its own.  A sale has the key of its position.
BookInv ==
    /\ \A o \in Orders :
          orders[o].state = "none" => orders[o] = NoOrder /\ fills[o] = NoId
    /\ \A o \in Orders :
          orders[o].sells # NoId => orders[o].key = <<"close", orders[o].sells>>
    /\ \A w \in Workers :
          Buying(w) => /\ job[w].order \in Orders
                       /\ orders[job[w].order].state = "PAPER_FILLED"
                       /\ fills[job[w].order] = NoId
    /\ \A v, w \in Workers :
          Buying(v) /\ Buying(w) /\ job[v].order = job[w].order => v = w

\* No request starts to buy in this step.
SameBuyers ==
    \A v \in Workers :
        Buying(v)' => Buying(v) /\ job'[v].order = job[v].order

LEMMA SameBuyersBook ==
    ASSUME BookInv, SameBuyers, UNCHANGED <<orders, fills>>
    PROVE  BookInv'
  BY DEF BookInv, SameBuyers

LEMMA DoneBuyers ==
    ASSUME Inv, NEW w \in Workers, Done(w)
    PROVE  SameBuyers
<1>1. \A v \in Workers : pc'[v] = IF v = w THEN "idle" ELSE pc[v]
  BY DEF Done, Goto, Inv, RequestsOK
<1>2. \A v \in Workers : v # w => job'[v] = job[v]
  BY DEF Done, Inv, RequestsOK
<1> QED
  BY <1>1, <1>2 DEF SameBuyers, Buying

LEMMA StartBuyers ==
    ASSUME Inv, NEW w \in Workers, NEW l, NEW j, Start(w, l, j),
           j.kind \notin Buys
    PROVE  SameBuyers
<1>1. \A v \in Workers : v # w => pc'[v] = pc[v]
  BY DEF Start, Goto, Inv, RequestsOK
<1>2. \A v \in Workers : job'[v] = IF v = w THEN j ELSE job[v]
  BY DEF Start, Inv, RequestsOK
<1> QED
  BY <1>1, <1>2 DEF SameBuyers, Buying

LEMMA GotoBuyers ==
    ASSUME Inv, NEW w \in Workers, NEW l, Goto(w, l), Buying(w),
           job'[w].order = job[w].order,
           \A v \in Workers : v # w => job'[v] = job[v]
    PROVE  SameBuyers
<1>1. \A v \in Workers : v # w => pc'[v] = pc[v]
  BY DEF Goto, Inv, RequestsOK
<1> QED
  BY <1>1 DEF SameBuyers, Buying

\* A step that buys nothing and writes neither orders nor fills.
LEMMA BystandersBook ==
    ASSUME Inv, BookInv, NEW w \in Workers,
           \/ RunPipeline(w) \/ EvaluateRisk(w) \/ LoadRiskState(w)
           \/ InsertApproval(w) \/ InsertRejection(w)
           \/ ReusePipelineOrder(w) \/ ReadAccount(w)
           \/ WriteBackAccount(w) \/ ReadPosition(w) \/ UpsertFilled(w)
           \/ RefuseUpsert(w) \/ SaveAccount(w) \/ InsertJournal(w)
           \/ RequestClose(w) \/ ReadForClose(w) \/ RefuseClose(w)
           \/ RequestMark(w) \/ MarkPositions(w) \/ UpsertMarked(w)
           \/ SaveMarkedAccount(w) \/ Break(w)
    PROVE  BookInv'
<1> USE DEF dbVars
<1>1. CASE RunPipeline(w) \/ EvaluateRisk(w)
  <2>1. PICK s : \/ /\ RunPipeline(w)
                    /\ Start(w, "risk", Job("pipeline", s, SymbolOf[s], NoId,
                                            NoId, NoId, 0))
                 \/ /\ EvaluateRisk(w)
                    /\ Start(w, "risk", Job("evaluate", s, SymbolOf[s], NoId,
                                            NoId, NoId, 0))
    BY <1>1 DEF RunPipeline, EvaluateRisk
  <2>2. pc' = [pc EXCEPT ![w] = "risk"]
        /\ \A v \in Workers : v # w => job'[v] = job[v]
    BY <2>1 DEF Start, Goto, Inv, RequestsOK
  <2>3. SameBuyers
    BY <2>2 DEF SameBuyers, Buying, Inv, RequestsOK
  <2> QED
    BY <1>1, <2>3, SameBuyersBook DEF RunPipeline, EvaluateRisk
<1>2. CASE LoadRiskState(w)
  <2>1. PICK l \in {"approved", "warned", "rejected"} : Goto(w, l)
    BY <1>2 DEF LoadRiskState, Verdict
  <2>2. SameBuyers
    BY <1>2, <2>1 DEF LoadRiskState, Goto, SameBuyers, Buying, Inv, RequestsOK
  <2> QED
    BY <1>2, <2>2, SameBuyersBook DEF LoadRiskState
<1>3. CASE InsertApproval(w)
  <2>1. CASE job[w].kind = "pipeline"
    <3>1. /\ pc' = [pc EXCEPT ![w] = "create"]
          /\ \A v \in Workers : v # w => job'[v] = job[v]
      BY <1>3, <2>1 DEF InsertApproval, Goto, Inv, RequestsOK
    <3>2. SameBuyers
      BY <3>1 DEF SameBuyers, Buying, Inv, RequestsOK
    <3> QED
      BY <1>3, <3>2, SameBuyersBook DEF InsertApproval
  <2>2. CASE job[w].kind # "pipeline"
    BY <1>3, <2>2, DoneBuyers, SameBuyersBook DEF InsertApproval
  <2> QED
    BY <2>1, <2>2
<1>4. CASE \/ InsertRejection(w) \/ ReusePipelineOrder(w) \/ RefuseUpsert(w)
           \/ InsertJournal(w) \/ RefuseClose(w) \/ SaveMarkedAccount(w)
           \/ Break(w)
  <2>1. Done(w) /\ UNCHANGED <<orders, fills>>
    BY <1>4 DEF InsertRejection, ReusePipelineOrder, RefuseUpsert,
         InsertJournal, RefuseClose, SaveMarkedAccount, Break
  <2> QED
    BY <2>1, DoneBuyers, SameBuyersBook
<1>5. CASE \/ ReadAccount(w) \/ UpsertFilled(w) \/ SaveAccount(w)
           \/ MarkPositions(w) \/ UpsertMarked(w)
  <2>1. UNCHANGED <<job, orders, fills>>
    BY <1>5 DEF ReadAccount, UpsertFilled, UpsertPosition, SaveAccount,
         MarkPositions, UpsertMarked
  <2>2. PICK l : pc' = [pc EXCEPT ![w] = l] \/ UNCHANGED pc
    BY <1>5 DEF ReadAccount, UpsertFilled, SaveAccount, MarkPositions,
         UpsertMarked, Goto
  <2>3. job[w].kind \in Buys =>
           Buying(w) \/ UNCHANGED pc \/ pc' = [pc EXCEPT ![w] = "journal"]
    BY <1>5 DEF ReadAccount, UpsertFilled, SaveAccount, MarkPositions, Buys,
         UpsertMarked, Goto, Buying
  <2>4. SameBuyers
    BY <2>1, <2>2, <2>3 DEF SameBuyers, Buying, Inv, RequestsOK
  <2> QED
    BY <2>1, <2>4, SameBuyersBook
<1>6. CASE WriteBackAccount(w)
  <2>1. CASE Goto(w, "position") /\ UNCHANGED job
    BY <1>6, <2>1, SameBuyersBook
       DEF WriteBackAccount, Goto, SameBuyers, Buying, Inv, RequestsOK
  <2>2. CASE Done(w)
    BY <1>6, <2>2, DoneBuyers, SameBuyersBook DEF WriteBackAccount
  <2> QED
    BY <1>6, <2>1, <2>2 DEF WriteBackAccount
<1>7. CASE ReadPosition(w)
  <2>1. PICK p, row : ApplyFill(w, p, row)
    BY <1>7 DEF ReadPosition
  <2>2. /\ Goto(w, "upsert") /\ Buying(w) /\ UNCHANGED <<orders, fills>>
        /\ job' = [job EXCEPT ![w] =
                     Job(job[w].kind, job[w].signal, job[w].symbol,
                         job[w].decision, job[w].order, p, job[w].price)]
    BY <1>7, <2>1 DEF ApplyFill, ReadPosition, Buying, Buys
  <2>3. /\ job'[w].order = job[w].order
        /\ \A v \in Workers : v # w => job'[v] = job[v]
    BY <2>2 DEF Job, Inv, RequestsOK
  <2> QED
    BY <2>2, <2>3, GotoBuyers, SameBuyersBook
<1>8. CASE RequestClose(w) \/ RequestMark(w)
  <2>1. PICK j : Start(w, "ensure", j) /\ j.kind \notin Buys
    <3>1. \A p : Job("close", NoId, NoId, NoId, NoId, p, 0).kind \notin Buys
      BY DEF Job, Buys
    <3>2. Job("mark", NoId, NoId, NoId, NoId, NoId, 0).kind \notin Buys
      BY DEF Job, Buys
    <3> QED
      BY <1>8, <3>1, <3>2, Zenon DEF RequestClose, RequestMark
  <2> QED
    BY <1>8, <2>1, StartBuyers, SameBuyersBook DEF RequestClose, RequestMark
<1>9. CASE ReadForClose(w)
  <2>1. CASE Done(w)
    BY <1>9, <2>1, DoneBuyers, SameBuyersBook DEF ReadForClose
  <2>2. CASE /\ Goto(w, "commit")
             /\ \E j : job' = [job EXCEPT ![w] = j]
    BY <1>9, <2>2, SameBuyersBook
       DEF ReadForClose, Goto, SameBuyers, Buying, Inv, RequestsOK
  <2> QED
    BY <1>9, <2>1, <2>2 DEF ReadForClose
<1> QED
  BY <1>1, <1>2, <1>3, <1>4, <1>5, <1>6, <1>7, <1>8, <1>9

\* Every other order and every other buyer stays as it was.
LEMMA PlacedBook ==
    ASSUME Inv, BookInv, NEW w \in Workers, NEW o \in FreeOrders,
           NEW row, row.state = "PAPER_FILLED", row.sells = NoId,
           orders' = [orders EXCEPT ![o] = row],
           UNCHANGED fills,
           \A v \in Workers : v # w => pc'[v] = pc[v] /\ job'[v] = job[v],
           job'[w].order = o
    PROVE  BookInv'
<1>1. /\ o \in Orders /\ orders[o].state = "none" /\ fills[o] = NoId
      /\ \A q \in Orders : orders'[q] = IF q = o THEN row ELSE orders[q]
  BY DEF FreeOrders, BookInv, Inv, TablesOK
<1>2. \A v \in Workers : v # w => (Buying(v)' <=> Buying(v))
  BY DEF Buying
<1>3. \A v \in Workers : v # w /\ Buying(v) => job[v].order # o
  BY <1>1 DEF BookInv
<1> QED
  BY <1>1, <1>2, <1>3 DEF BookInv

\* A step that takes a free order and adds no buyer.
LEMMA TakenBook ==
    ASSUME Inv, BookInv, SameBuyers, NEW o \in FreeOrders, NEW row,
           row.state # "none", orders' = [orders EXCEPT ![o] = row],
           row.sells # NoId => row.key = <<"close", row.sells>>,
           \A q \in Orders : q # o => fills'[q] = fills[q]
    PROVE  BookInv'
<1>1. /\ o \in Orders /\ orders[o].state = "none"
      /\ \A q \in Orders : orders'[q] = IF q = o THEN row ELSE orders[q]
  BY DEF FreeOrders, Inv, TablesOK
<1>2. \A v \in Workers : Buying(v) => job[v].order # o
  BY <1>1 DEF BookInv
<1> QED
  BY <1>1, <1>2 DEF BookInv, SameBuyers

LEMMA CreateBook ==
    ASSUME Inv, BookInv, NEW w \in Workers,
           CreatePipelineOrder(w) \/ CreateDirectOrder(w)
    PROVE  BookInv'
<1>0. PICK o \in FreeOrders : \E d, key :
        /\ PlaceOrder(o, d, key, "PAPER_FILLED")
        /\ \E k, sg, y, pr : job' = [job EXCEPT ![w] =
                                       Job(k, sg, y, d, o, NoId, pr)]
        /\ pc' = [pc EXCEPT ![w] = "ensure"]
  <2>1. CASE CreatePipelineOrder(w)
    <3>1. PICK o \in FreeOrders, price \in Prices :
            /\ PlaceOrder(o, job[w].decision, <<"pass", job[w].decision>>,
                          "PAPER_FILLED")
            /\ job' = [job EXCEPT ![w] =
                         Job("pipeline", job[w].signal, job[w].symbol,
                             job[w].decision, o, NoId, price)]
      BY <2>1 DEF CreatePipelineOrder
    <3>2. pc' = [pc EXCEPT ![w] = "ensure"]
      BY <2>1 DEF CreatePipelineOrder, Goto
    <3> QED
      BY <3>1, <3>2, Zenon
  <2>2. CASE CreateDirectOrder(w)
    <3>1. PICK o \in FreeOrders, d \in Decisions, s \in Symbols,
               price \in Prices :
            /\ \E key \in CallerKeys : PlaceOrder(o, d, key, "PAPER_FILLED")
            /\ Start(w, "ensure", Job("order", NoId, s, d, o, NoId, price))
      BY <2>2, Zenon DEF CreateDirectOrder
    <3>2. /\ job' = [job EXCEPT ![w] =
                        Job("order", NoId, s, d, o, NoId, price)]
          /\ pc' = [pc EXCEPT ![w] = "ensure"]
      BY <3>1 DEF Start, Goto
    <3> QED
      BY <3>1, <3>2, Zenon
  <2> QED
    BY <2>1, <2>2
<1>1. PICK d, key :
        /\ PlaceOrder(o, d, key, "PAPER_FILLED")
        /\ \E k, sg, y, pr : job' = [job EXCEPT ![w] =
                                       Job(k, sg, y, d, o, NoId, pr)]
        /\ pc' = [pc EXCEPT ![w] = "ensure"]
  BY <1>0
<1> DEFINE row == OrderOf("PAPER_FILLED", d, key, NoId)
<1>2. /\ orders' = [orders EXCEPT ![o] = row] /\ UNCHANGED fills
      /\ row.state = "PAPER_FILLED" /\ row.sells = NoId
  BY <1>1 DEF PlaceOrder, OrderOf
<1>3. /\ \A v \in Workers : v # w => pc'[v] = pc[v] /\ job'[v] = job[v]
      /\ job'[w].order = o
  BY <1>1 DEF Job, Inv, RequestsOK
<1> HIDE DEF row
<1> QED
  BY <1>2, <1>3, PlacedBook

LEMMA ExpireBook ==
    ASSUME Inv, BookInv, NEW w \in Workers, ExpireDirectOrder(w)
    PROVE  BookInv'
<1>0. PICK o \in FreeOrders : \E d, key : PlaceOrder(o, d, key, "EXPIRED")
  BY DEF ExpireDirectOrder
<1>1. PICK d, key : PlaceOrder(o, d, key, "EXPIRED")
  BY <1>0
<1> DEFINE row == OrderOf("EXPIRED", d, key, NoId)
<1>2. /\ orders' = [orders EXCEPT ![o] = row] /\ UNCHANGED fills
      /\ row.state # "none" /\ row.sells = NoId
  BY <1>1 DEF PlaceOrder, OrderOf
<1>3. SameBuyers
  BY DEF ExpireDirectOrder, SameBuyers, Buying
<1> HIDE DEF row
<1> QED
  BY <1>2, <1>3, TakenBook

LEMMA CommitBook ==
    ASSUME Inv, BookInv, NEW w \in Workers, CommitClose(w)
    PROVE  BookInv'
<1>0. PICK o \in FreeOrders : \E d :
        /\ orders' = [orders EXCEPT ![o] =
                        OrderOf("PAPER_FILLED", d, <<"close", job[w].position>>,
                                job[w].position)]
        /\ fills' = [fills EXCEPT ![o] = job[w].position]
  BY DEF CommitClose
<1>1. PICK d :
        /\ orders' = [orders EXCEPT ![o] =
                        OrderOf("PAPER_FILLED", d, <<"close", job[w].position>>,
                                job[w].position)]
        /\ fills' = [fills EXCEPT ![o] = job[w].position]
  BY <1>0
<1> DEFINE row == OrderOf("PAPER_FILLED", d, <<"close", job[w].position>>,
                          job[w].position)
<1>2. /\ orders' = [orders EXCEPT ![o] = row] /\ row.state # "none"
      /\ row.key = <<"close", row.sells>>
      /\ \A q \in Orders : q # o => fills'[q] = fills[q]
  BY <1>1 DEF OrderOf, Inv, TablesOK
<1>3. SameBuyers
  BY DoneBuyers DEF CommitClose
<1> HIDE DEF row
<1> QED
  BY <1>2, <1>3, TakenBook

LEMMA InsertFillBook ==
    ASSUME Inv, BookInv, NEW w \in Workers, InsertFill(w)
    PROVE  BookInv'
<1>1. /\ Buying(w) /\ job[w].order \in Orders
      /\ orders[job[w].order].state = "PAPER_FILLED"
  BY DEF InsertFill, Buying, BookInv, Inv, RequestsOK, Fits
<1>2. \A v \in Workers : Buying(v)' <=> v # w /\ Buying(v)
  BY DEF InsertFill, Goto, Buying, Inv, RequestsOK
<1>3. \A o \in Orders : o # job[w].order => fills'[o] = fills[o]
  BY DEF InsertFill, Inv, TablesOK
<1>4. \A v \in Workers : v # w /\ Buying(v) => job[v].order # job[w].order
  BY <1>1 DEF BookInv
<1>5. UNCHANGED <<orders, job>>
  BY DEF InsertFill
<1> QED
  BY <1>1, <1>2, <1>3, <1>4, <1>5 DEF BookInv

LEMMA BookStep == Inv /\ BookInv /\ [Next]_vars => BookInv'
<1> SUFFICES ASSUME Inv, BookInv, [Next]_vars PROVE BookInv'
  OBVIOUS
<1>1. CASE SetKillSwitch \/ SignalAges \/ UNCHANGED vars
  <2>1. SameBuyers /\ UNCHANGED <<orders, fills>>
    BY <1>1 DEF SetKillSwitch, SignalAges, vars, SameBuyers, Buying
  <2> QED
    BY <2>1, SameBuyersBook
<1> QED
  BY <1>1, BystandersBook, CreateBook, ExpireBook, CommitBook, InsertFillBook,
     Zenon DEF Next

LEMMA InitBook == Init => BookInv
  BY DEF Init, BookInv, Buying, NoOrder, OrderOf

LEMMA BookHolds == Spec => []BookInv
  BY InvHolds, InitBook, BookStep, PTL DEF Spec

LEMMA InitTrail == Init => Trail!TInit
<1> SUFFICES ASSUME Init PROVE Trail!TInit
  OBVIOUS
<1>1. \A p \in Positions : Sales(p) = {}
  BY PaperAssumption DEF Init, Sales, NoOrder, OrderOf
<1>2. /\ [o \in Orders |-> orders[o].state] = [o \in Orders |-> "none"]
      /\ [o \in Orders |-> orders[o].decision] = [o \in Orders |-> NoId]
  BY DEF Init, NoOrder, OrderOf
<1> QED
  BY <1>1, <1>2 DEF Trail!TInit, Init

\* A step that leaves decisions, orders and fills alone leaves the trail.
LEMMA TrailStutters ==
    ASSUME UNCHANGED <<decisions, orders, fills>>
    PROVE  UNCHANGED Trail!tvars
  BY DEF Trail!tvars, Sales

\* An order that is no sale leaves every sale as it was.
LEMMA PlaceOrderTrail ==
    ASSUME Inv, BookInv, NEW o \in FreeOrders, NEW d \in Decisions,
           NEW key, NEW state \in {"PAPER_FILLED", "EXPIRED"},
           PlaceOrder(o, d, key, state)
    PROVE  Trail!Order(o, d, state)
<1> DEFINE row == OrderOf(state, d, key, NoId)
<1>1. /\ row.state = state /\ row.decision = d /\ row.sells = NoId
      /\ orders' = [orders EXCEPT ![o] = row]
      /\ decisions[d] = "APPROVED" /\ UNCHANGED <<decisions, fills>>
  BY DEF PlaceOrder, OrderOf
<1> HIDE DEF row
<1>2. /\ o \in Orders /\ orders[o].state = "none"
      /\ orders[o].sells = NoId
  BY DEF FreeOrders, BookInv, NoOrder, OrderOf
<1>3. \A q \in Orders : orders'[q] = IF q = o THEN row ELSE orders[q]
  BY <1>1, <1>2 DEF Inv, TablesOK
<1>4. \A p \in Positions : Sales(p)' = Sales(p)
  BY <1>1, <1>2, <1>3, PaperAssumption DEF Sales
<1>5. /\ [q \in Orders |-> orders[q].state]' =
            [[q \in Orders |-> orders[q].state] EXCEPT ![o] = state]
      /\ [q \in Orders |-> orders[q].decision]' =
            [[q \in Orders |-> orders[q].decision] EXCEPT ![o] = d]
  <2>1. /\ \A q \in Orders :
             orders'[q].state = IF q = o THEN state ELSE orders[q].state
        /\ \A q \in Orders :
             orders'[q].decision = IF q = o THEN d ELSE orders[q].decision
    BY <1>1, <1>2, <1>3
  <2>2. [q \in Orders |-> orders'[q].state] =
           [[q \in Orders |-> orders[q].state] EXCEPT ![o] = state]
    BY <2>1
  <2>3. [q \in Orders |-> orders'[q].decision] =
           [[q \in Orders |-> orders[q].decision] EXCEPT ![o] = d]
    BY <2>1
  <2> QED
    BY <2>2, <2>3
<1>6. [p \in Positions |-> Sales(p)]' = [p \in Positions |-> Sales(p)]
  BY <1>4
<1>7. [q \in Orders |-> orders[q].state][o] = "none"
  BY <1>2
<1> QED
  BY <1>1, <1>5, <1>6, <1>7 DEF Trail!Order

LEMMA CommitCloseTrail ==
    ASSUME Inv, BookInv, NEW w \in Workers, CommitClose(w)
    PROVE  Trail!TNext
<1>1. PICK p \in Positions : p = job[w].position
  BY DEF CommitClose, Inv, RequestsOK, Fits
<1>2. PICK d \in FreeDecisions, o \in FreeOrders :
        /\ ~KeyUsed(<<"close", p>>)
        /\ decisions' = [decisions EXCEPT ![d] = "APPROVED"]
        /\ orders' = [orders EXCEPT ![o] =
                        OrderOf("PAPER_FILLED", d, <<"close", p>>, p)]
        /\ fills' = [fills EXCEPT ![o] = p]
  BY <1>1 DEF CommitClose
<1> DEFINE row == OrderOf("PAPER_FILLED", d, <<"close", p>>, p)
<1>3. /\ row.state = "PAPER_FILLED" /\ row.decision = d
      /\ row.sells = p
      /\ orders' = [orders EXCEPT ![o] = row]
  BY <1>2 DEF OrderOf
<1> HIDE DEF row
<1>4. /\ o \in Orders /\ orders[o].state = "none"
      /\ orders[o].sells = NoId
      /\ d \in Decisions /\ decisions[d] = "none"
  BY DEF FreeOrders, FreeDecisions, BookInv, NoOrder, OrderOf
<1>5. \A q \in Orders : orders'[q] = IF q = o THEN row ELSE orders[q]
  BY <1>3, <1>4 DEF Inv, TablesOK
<1>6. Sales(p) = {}
  BY <1>2, PaperAssumption DEF KeyUsed, Sales, BookInv
<1>7. Sales(p)' = {o}
  <2>1. \A q \in Orders : orders'[q].sells = p <=> q = o
    BY <1>3, <1>4, <1>5, <1>6 DEF Sales
  <2> QED
    BY <1>4, <2>1 DEF Sales
<1>8. \A q \in Positions : q # p => Sales(q)' = Sales(q)
  BY <1>3, <1>4, <1>5, PaperAssumption DEF Sales
<1>9. /\ [q \in Orders |-> orders[q].state]' =
            [[q \in Orders |-> orders[q].state] EXCEPT ![o] = "PAPER_FILLED"]
      /\ [q \in Orders |-> orders[q].decision]' =
            [[q \in Orders |-> orders[q].decision] EXCEPT ![o] = d]
  <2>1. /\ \A q \in Orders :
             orders'[q].state = IF q = o THEN "PAPER_FILLED" ELSE orders[q].state
        /\ \A q \in Orders :
             orders'[q].decision = IF q = o THEN d ELSE orders[q].decision
    BY <1>3, <1>4, <1>5
  <2>2. [q \in Orders |-> orders'[q].state] =
           [[q \in Orders |-> orders[q].state] EXCEPT ![o] = "PAPER_FILLED"]
    BY <2>1
  <2>3. [q \in Orders |-> orders'[q].decision] =
           [[q \in Orders |-> orders[q].decision] EXCEPT ![o] = d]
    BY <2>1
  <2> QED
    BY <2>2, <2>3
<1>10. [q \in Positions |-> Sales(q)]' =
          [[q \in Positions |-> Sales(q)] EXCEPT ![p] = {o}]
  BY <1>1, <1>7, <1>8
<1>11. /\ [q \in Orders |-> orders[q].state][o] = "none"
       /\ [q \in Positions |-> Sales(q)][p] = {}
  BY <1>1, <1>4, <1>6
<1>12. Trail!Sell(p, d, o)
  BY <1>2, <1>4, <1>9, <1>10, <1>11 DEF Trail!Sell
<1> QED
  BY <1>1, <1>4, <1>12 DEF Trail!TNext

LEMMA TrailStep ==
    Inv /\ BookInv /\ [Next]_vars => [Trail!TNext]_(Trail!tvars)
<1> SUFFICES ASSUME Inv, BookInv, [Next]_vars
             PROVE  Trail!TNext \/ UNCHANGED Trail!tvars
  OBVIOUS
<1>1. CASE Quiet
  BY <1>1, TrailStutters DEF Quiet
<1>2. ASSUME NEW w \in Workers, Writer(w)
      PROVE  Trail!TNext \/ UNCHANGED Trail!tvars
  <2>1. CASE InsertApproval(w) \/ InsertRejection(w)
    <3>1. PICK d \in FreeDecisions, v \in {"APPROVED", "REJECTED"} :
            decisions' = [decisions EXCEPT ![d] = v]
      BY <2>1 DEF InsertApproval, InsertRejection
    <3>2. UNCHANGED <<orders, fills>>
      BY <2>1 DEF InsertApproval, InsertRejection
    <3>3. Trail!Decide(d, v)
      BY <3>1, <3>2 DEF Trail!Decide, FreeDecisions, Sales
    <3> QED
      BY <3>1, <3>3 DEF Trail!TNext, FreeDecisions
  <2>2. CASE CreatePipelineOrder(w)
    <3>1. job[w].decision \in Decisions
      BY <2>2 DEF CreatePipelineOrder, Inv, RequestsOK, Fits
    <3>3. PICK o \in FreeOrders :
            PlaceOrder(o, job[w].decision, <<"pass", job[w].decision>>,
                       "PAPER_FILLED")
      BY <2>2 DEF CreatePipelineOrder
    <3>4. Trail!Order(o, job[w].decision, "PAPER_FILLED")
      BY <3>1, <3>3, PlaceOrderTrail
    <3> QED
      BY <3>1, <3>4 DEF Trail!TNext, FreeOrders
  <2>3. CASE CreateDirectOrder(w) \/ ExpireDirectOrder(w)
    <3>1. PICK o \in FreeOrders, d \in Decisions,
               state \in {"PAPER_FILLED", "EXPIRED"} :
            \E key \in CallerKeys : PlaceOrder(o, d, key, state)
      BY <2>3, Zenon DEF CreateDirectOrder, ExpireDirectOrder
    <3>3. Trail!Order(o, d, state)
      BY <3>1, PlaceOrderTrail
    <3> QED
      BY <3>1, <3>3 DEF Trail!TNext, FreeOrders
  <2>4. CASE \/ WriteBackAccount(w) \/ SaveAccount(w) \/ SaveMarkedAccount(w)
             \/ UpsertFilled(w) \/ UpsertMarked(w)
    <3>1. UNCHANGED <<decisions, orders, fills>>
      BY <2>4 DEF WriteBackAccount, SaveAccount, SaveMarkedAccount,
           UpsertFilled, UpsertMarked, UpsertPosition
    <3> QED
      BY <3>1, TrailStutters
  <2>5. CASE InsertFill(w)
    <3>1. /\ job[w].order \in Orders /\ fills[job[w].order] = NoId
          /\ orders[job[w].order].state = "PAPER_FILLED"
          /\ job[w].position \in Positions
      BY <2>5 DEF InsertFill, Buying, BookInv, Inv, RequestsOK, Fits
    <3>2. Trail!Book(job[w].order, job[w].position)
      BY <2>5, <3>1 DEF Trail!Book, InsertFill, Sales
    <3> QED
      BY <3>1, <3>2 DEF Trail!TNext
  <2>6. CASE CommitClose(w)
    BY <2>6, CommitCloseTrail
  <2> QED
    BY <1>2, <2>1, <2>2, <2>3, <2>4, <2>5, <2>6 DEF Writer
<1> QED
  BY <1>1, <1>2, QuietOrWriter

\* The handlers implement PaperTrail, whatever they race and wherever they
\* break off: decisions and orders are never revised, every order rests on
\* an approved decision, every fill is booked once, every position sold once.
THEOREM TrailImplemented == Spec => TrailKept
  BY InvHolds, BookHolds, InitTrail, TrailStep, PTL
     DEF Spec, TrailKept, Trail!TSpec



-----------------------------------------------------------------------------
(* The books of a request that is alone.                                   *)

(* The loss of a list of journal rows, and what it is at least. *)
LEMMA GroupLossBounds ==
    ASSUME NEW group \in Seq(Int)
    PROVE  /\ GroupLoss(group) \in Int /\ GroupLoss(group) >= 0
           /\ \A k \in DOMAIN group :
                 group[k] < 0 => GroupLoss(group) >= -group[k]
<1> DEFINE S == Losses(group)
           f == [k \in S |-> -group[k]]
<1>1. S \subseteq 1..Len(group) /\ Len(group) \in Nat
  BY DEF Losses
<1>2. IsFiniteSet(S)
  <2>1. IsFiniteSet(1..Len(group)) /\ S \in SUBSET (1..Len(group))
    BY <1>1, FS_Interval
  <2> HIDE DEF S
  <2> QED
    BY <2>1, FS_Subset
<1>3. f \in [S -> Int] /\ \A k \in S : f[k] >= 0
  BY DEF Losses
<1>4. GroupLoss(group) = SumFunction(f)
  BY DEF GroupLoss
<1> HIDE DEF f
<1>5. SumFunction(f) \in Int /\ SumFunction(f) >= 0
  BY <1>2, <1>3, SumSplits, SumSigns
<1>6. ASSUME NEW k \in DOMAIN group, group[k] < 0
      PROVE  SumFunction(f) >= -group[k]
  <2>1. k \in S /\ f[k] = -group[k]
    BY <1>6 DEF Losses, f
  <2> DEFINE T == S \ {k}
             r == Restrict(f, T)
  <2>2. SumFunction(f) = f[k] + SumFunction(r)
    BY <1>2, <1>3, <2>1, SumSplits
  <2>3. IsFiniteSet(T)
    BY <1>2, FS_RemoveElement
  <2>4. r \in [T -> Int] /\ \A x \in T : r[x] >= 0
    BY <1>3 DEF Restrict
  <2> HIDE DEF r, T, S
  <2>5. SumFunction(r) \in Int /\ SumFunction(r) >= 0
    BY <2>3, <2>4, SumSplits, SumSigns
  <2>6. f[k] \in Int
    BY <1>3, <2>1
  <2> QED
    BY <2>1, <2>2, <2>5, <2>6
<1> QED
  BY <1>4, <1>5, <1>6

LossIn(groups) == SumFunction([i \in DOMAIN groups |-> GroupLoss(groups[i])])

(* The loss of a journal is a number. *)
LEMMA LossInOK ==
    ASSUME NEW groups \in Seq(Seq(Int))
    PROVE  /\ LossIn(groups) \in Int
           /\ groups = <<>> => LossIn(groups) = 0
<1> DEFINE f == [i \in DOMAIN groups |-> GroupLoss(groups[i])]
<1>1. DOMAIN groups = 1..Len(groups) /\ Len(groups) \in Nat
  OBVIOUS
<1>2. IsFiniteSet(DOMAIN groups)
  BY <1>1, FS_Interval
<1>3. \A i \in DOMAIN groups : groups[i] \in Seq(Int)
  OBVIOUS
<1>4. f \in [DOMAIN groups -> Int]
  BY <1>3, GroupLossBounds
<1> HIDE DEF f
<1>5. SumFunction(f) \in Int /\ (DOMAIN groups = {} => SumFunction(f) = 0)
  BY <1>2, <1>4, SumSplits
<1>6. groups = <<>> => DOMAIN groups = {}
  OBVIOUS
<1> QED
  BY <1>5, <1>6 DEF f, LossIn

(* A group put before the journal adds its loss. *)
LEMMA LossInGrows ==
    ASSUME NEW groups \in Seq(Seq(Int)), NEW group \in Seq(Int)
    PROVE  /\ <<group>> \o groups \in Seq(Seq(Int))
           /\ LossIn(<<group>> \o groups) = GroupLoss(group) + LossIn(groups)
<1> DEFINE more == <<group>> \o groups
           n == Len(groups)
           f == [i \in DOMAIN groups |-> GroupLoss(groups[i])]
           g == [i \in DOMAIN more |-> GroupLoss(more[i])]
<1>1. more \in Seq(Seq(Int))
  OBVIOUS
<1>2. n \in Nat /\ DOMAIN groups = 1..n /\ DOMAIN more = 1..(n + 1)
  OBVIOUS
<1>3. more[1] = group /\ \A i \in 1..n : more[i + 1] = groups[i]
  OBVIOUS
<1> HIDE DEF more, n
<1>4. /\ \A i \in DOMAIN groups : groups[i] \in Seq(Int)
      /\ \A i \in DOMAIN more : more[i] \in Seq(Int)
  BY <1>1
<1>5. f \in [1..n -> Int] /\ g \in [1..(n + 1) -> Int]
  BY <1>2, <1>4, GroupLossBounds
<1>6. 1 \in 1..(n + 1) /\ \A i \in 1..n : i + 1 \in 1..(n + 1)
  BY <1>2
<1>7. g[1] = GroupLoss(group) /\ \A i \in 1..n : g[i + 1] = f[i]
  BY <1>2, <1>3, <1>6
<1> HIDE DEF f, g
<1>8. SumFunction(g) = g[1] + SumFunction(f)
  BY <1>2, <1>5, <1>7, SumPrepends
<1> QED
  BY <1>1, <1>7, <1>8 DEF f, g, more, LossIn

(* What a change of one position does to the two sums over positions. *)
RealizedIn(table) == SumFunction([p \in Positions |-> table[p].realized_pnl])
ClosedIn(table) == SumFunction([p \in Positions |-> LossOf(table[p])])

LEMMA TableSums ==
    ASSUME NEW table \in [Positions -> PositionRow]
    PROVE  /\ RealizedIn(table) \in Int /\ ClosedIn(table) \in Int
           /\ (\A p \in Positions : table[p].realized_pnl = 0) =>
                 RealizedIn(table) = 0 /\ ClosedIn(table) = 0
<1> DEFINE f == [p \in Positions |-> table[p].realized_pnl]
           g == [p \in Positions |-> LossOf(table[p])]
<1>1. \A p \in Positions : table[p].realized_pnl \in Int
  BY DEF PositionRow
<1>2. f \in [Positions -> Int] /\ g \in [Positions -> Int]
  BY <1>1 DEF LossOf
<1>3. (\A p \in Positions : table[p].realized_pnl = 0) =>
         \A p \in Positions : f[p] = 0 /\ g[p] = 0
  BY DEF LossOf
<1>4. IsFiniteSet(Positions)
  BY PaperAssumption
<1> HIDE DEF f, g
<1>5. SumFunction(f) \in Int /\ SumFunction(g) \in Int
  BY <1>2, <1>4, SumSplits
<1>6. /\ (\A p \in Positions : f[p] = 0) => SumFunction(f) = 0
      /\ (\A p \in Positions : g[p] = 0) => SumFunction(g) = 0
  BY <1>2, <1>4, SumSigns
<1> QED
  BY <1>3, <1>5, <1>6 DEF f, g, RealizedIn, ClosedIn

LEMMA TableChanges ==
    ASSUME NEW table \in [Positions -> PositionRow], NEW q \in Positions,
           NEW row \in PositionRow, NEW other, other = [table EXCEPT ![q] = row]
    PROVE  /\ RealizedIn(other) =
                 RealizedIn(table) + row.realized_pnl - table[q].realized_pnl
           /\ ClosedIn(other) = ClosedIn(table) + LossOf(row) - LossOf(table[q])
<1> DEFINE f(t) == [p \in Positions |-> t[p].realized_pnl]
           g(t) == [p \in Positions |-> LossOf(t[p])]
<1>1. other \in [Positions -> PositionRow]
  OBVIOUS
<1>2. ASSUME NEW t \in [Positions -> PositionRow]
      PROVE  f(t) \in [Positions -> Int] /\ g(t) \in [Positions -> Int]
  <2>1. \A p \in Positions : t[p].realized_pnl \in Int
    BY DEF PositionRow
  <2> QED
    BY <2>1 DEF LossOf
<1>3. /\ f(other)[q] = row.realized_pnl /\ f(table)[q] = table[q].realized_pnl
      /\ g(other)[q] = LossOf(row) /\ g(table)[q] = LossOf(table[q])
  OBVIOUS
<1>4. \A p \in Positions \ {q} : /\ f(other)[p] = f(table)[p]
                                 /\ g(other)[p] = g(table)[p]
  OBVIOUS
<1>5. IsFiniteSet(Positions)
  BY PaperAssumption
<1>6. PICK a, b, c, d : a = f(table) /\ b = f(other) /\ c = g(table) /\ d = g(other)
  OBVIOUS
<1>7. /\ a \in [Positions -> Int] /\ b \in [Positions -> Int]
      /\ c \in [Positions -> Int] /\ d \in [Positions -> Int]
  BY <1>1, <1>2, <1>6
<1>8. /\ \A p \in Positions \ {q} : b[p] = a[p]
      /\ \A p \in Positions \ {q} : d[p] = c[p]
  BY <1>4, <1>6
<1>9. SumFunction(b) = SumFunction(a) + b[q] - a[q]
  BY <1>5, <1>7, <1>8, SumChanges
<1>10. SumFunction(d) = SumFunction(c) + d[q] - c[q]
  BY <1>5, <1>7, <1>8, SumChanges
<1> QED
  BY <1>3, <1>6, <1>9, <1>10 DEF RealizedIn, ClosedIn

(* Two steps write the journal. *)
LEMMA JournalWriters ==
    ASSUME [Next]_vars
    PROVE  \/ UNCHANGED journal
           \/ \E w \in Workers : InsertJournal(w) \/ CommitClose(w)
<1> USE DEF dbVars
<1>1. ASSUME NEW w \in Workers,
             \/ RunPipeline(w) \/ EvaluateRisk(w) \/ LoadRiskState(w)
             \/ InsertApproval(w) \/ InsertRejection(w)
             \/ CreatePipelineOrder(w) \/ ReusePipelineOrder(w)
             \/ CreateDirectOrder(w) \/ ExpireDirectOrder(w)
             \/ ReadAccount(w) \/ WriteBackAccount(w)
      PROVE  UNCHANGED journal
  BY <1>1 DEF RunPipeline, EvaluateRisk, LoadRiskState, InsertApproval,
       InsertRejection, CreatePipelineOrder, ReusePipelineOrder,
       CreateDirectOrder, ExpireDirectOrder, PlaceOrder, ReadAccount,
       WriteBackAccount
<1>2. ASSUME NEW w \in Workers,
             \/ ReadPosition(w) \/ UpsertFilled(w) \/ RefuseUpsert(w)
             \/ InsertFill(w) \/ SaveAccount(w) \/ RequestClose(w)
             \/ ReadForClose(w) \/ RefuseClose(w) \/ RequestMark(w)
             \/ MarkPositions(w) \/ UpsertMarked(w) \/ SaveMarkedAccount(w)
             \/ Break(w)
      PROVE  UNCHANGED journal
  BY <1>2 DEF ReadPosition, ApplyFill, UpsertFilled, UpsertPosition,
       RefuseUpsert, InsertFill, SaveAccount, RequestClose, ReadForClose,
       RefuseClose, RequestMark, MarkPositions, UpsertMarked,
       SaveMarkedAccount, Break
<1>3. CASE SetKillSwitch \/ SignalAges \/ UNCHANGED vars
  BY <1>3 DEF SetKillSwitch, SignalAges, vars
<1> QED
  BY <1>1, <1>2, <1>3, Zenon DEF Next

(* What the two steps put before the journal is a group of numbers. *)
LEMMA JournalGroups ==
    ASSUME Inv, EquityInv, NEW w \in Workers
    PROVE  /\ InsertJournal(w) =>
                 \E group \in Seq(Int) : journal' = <<group>> \o journal
           /\ CommitClose(w) =>
                 \E group \in Seq(Int) :
                    /\ journal' = <<group>> \o journal
                    /\ 1 \in DOMAIN group
                    /\ group[1] = ClosePnl(rows[w][job[w].position], job[w].price)
<1>1. CASE InsertJournal(w)
  <2> DEFINE a == rows[w][job[w].position].realized_pnl
             b == acc[w].current_equity
  <2>1. job[w].position \in Positions
    BY <1>1 DEF InsertJournal, Inv, RequestsOK, Fits
  <2>2. rows[w][job[w].position] \in PositionRow
    BY <2>1 DEF Inv, RequestsOK
  <2>3. a \in Int
    BY <2>2 DEF PositionRow
  <2>4. b \in Int
    <3>1. acc[w].realized_pnl \in Int /\ acc[w].unrealized_pnl \in Int
      BY DEF Inv, RequestsOK, AccountRow, EquityInv, Adds
    <3> QED
      BY <3>1, PaperAssumption DEF EquityInv, Adds
  <2>5. journal' = <<<<a, b>>>> \o journal
    BY <1>1 DEF InsertJournal
  <2> HIDE DEF a, b
  <2>6. <<a, b>> \in Seq(Int)
    BY <2>3, <2>4
  <2>7. ~CommitClose(w)
    BY <1>1 DEF InsertJournal, CommitClose
  <2> QED
    BY <2>5, <2>6, <2>7
<1>2. CASE CommitClose(w)
  <2> DEFINE a == ClosePnl(rows[w][job[w].position], job[w].price)
             b == Account(TRUE, acc[w].realized_pnl + a, 0).current_equity
  <2>1. job[w].position \in Positions /\ job[w].price \in Prices
    BY <1>2 DEF CommitClose, Inv, RequestsOK, Fits
  <2>2. /\ rows[w][job[w].position] \in PositionRow
        /\ KnownRow(rows[w][job[w].position])
    BY <2>1 DEF Inv, RequestsOK
  <2>3. a \in Int
    BY <2>1, <2>2, RowsOK
  <2>4. b \in Int
    <3>1. acc[w].realized_pnl \in Int
      BY DEF Inv, RequestsOK, AccountRow
    <3> HIDE DEF a
    <3> QED
      BY <2>3, <3>1, PaperAssumption DEF Account
  <2>5. journal' = <<<<a, a, b>>>> \o journal
    BY <1>2 DEF CommitClose
  <2> HIDE DEF a, b
  <2>6. <<a, a, b>> \in Seq(Int) /\ 1 \in DOMAIN <<a, a, b>> /\ <<a, a, b>>[1] = a
    BY <2>3, <2>4
  <2>7. ~InsertJournal(w)
    BY <1>2 DEF InsertJournal, CommitClose
  <2> QED
    BY <2>5, <2>6, <2>7 DEF a
<1> QED
  BY <1>1, <1>2

LEMMA MoneyStep == Inv /\ EquityInv /\ MoneyEvidence /\ [Next]_vars => MoneyEvidence'
<1> SUFFICES ASSUME Inv, EquityInv, MoneyEvidence, [Next]_vars
             PROVE  MoneyEvidence'
  OBVIOUS
<1>1. /\ account'.unrealized_pnl \in Int
      /\ \A w \in Workers : acc'[w].unrealized_pnl \in Int
  BY EquityStep DEF EquityInv, Adds
<1>2. journal' \in Seq(Seq(Int))
  <2>1. journal \in Seq(Seq(Int))
    BY DEF MoneyEvidence
  <2>2. UNCHANGED journal \/ \E group \in Seq(Int) : journal' = <<group>> \o journal
    BY JournalWriters, JournalGroups
  <2> QED
    BY <2>1, <2>2, LossInGrows
<1> QED
  BY <1>1, <1>2 DEF MoneyEvidence

LEMMA InitMoney == Init => MoneyEvidence
<1> SUFFICES ASSUME Init PROVE MoneyEvidence
  OBVIOUS
<1>1. DefaultAccount.unrealized_pnl \in Int
  BY DefaultAdds DEF Adds
<1>2. journal \in Seq(Seq(Int))
  BY DEF Init
<1> QED
  BY <1>1, <1>2 DEF Init, MoneyEvidence

(* Fewer fills are not more. *)
LEMMA FillsCounted ==
    ASSUME NEW p
    PROVE  /\ IsFiniteSet(BuyFills(p)) /\ Cardinality(BuyFills(p)) \in Nat
           /\ BuyFills(p)' \subseteq BuyFills(p) =>
                 /\ Cardinality(BuyFills(p)') \in Nat
                 /\ Cardinality(BuyFills(p)') <= Cardinality(BuyFills(p))
<1>1. IsFiniteSet(Orders) /\ BuyFills(p) \in SUBSET Orders
  BY PaperAssumption DEF BuyFills
<1>2. IsFiniteSet(BuyFills(p)) /\ Cardinality(BuyFills(p)) \in Nat
  BY <1>1, FS_Subset, FS_CardinalityType
<1>3. ASSUME NEW T, T \subseteq BuyFills(p)
      PROVE  Cardinality(T) \in Nat /\ Cardinality(T) <= Cardinality(BuyFills(p))
  BY <1>2, <1>3, FS_Subset, FS_CardinalityType
<1> QED
  BY <1>2, <1>3

\* No position gains a buy fill in this step.
NoNewFills == \A p \in Positions : BuyFills(p)' \subseteq BuyFills(p)

(* A request that is neither copying nor filling has nothing to be current. *)
LEMMA PlainCurrent ==
    ASSUME NEW w \in Workers,
           pc'[w] \in {"idle", "risk", "warned", "rejected", "create", "ensure"}
    PROVE  Current(w)'
  BY DEF Current, Copying, Filling

(* The lone request steps, and the others stay idle. *)
LEMMA AloneSteps ==
    ASSUME AloneEvidence, NEW w \in Workers, pc[w] # "idle",
           \A v \in Workers : v # w => pc'[v] = pc[v], Current(w)'
    PROVE  AloneEvidence'
<1>1. \A v \in Workers : v # w => pc'[v] = "idle"
  BY DEF AloneEvidence
<1>2. \A v \in Workers : Current(v)'
  BY <1>1, PlainCurrent
<1> QED
  BY <1>1, <1>2 DEF AloneEvidence

(* The lone request ends. *)
LEMMA AloneEnds ==
    ASSUME Inv, AloneEvidence, NEW w \in Workers, pc[w] # "idle", Done(w)
    PROVE  AloneEvidence'
<1>1. pc'[w] = "idle" /\ \A v \in Workers : v # w => pc'[v] = pc[v]
  BY DEF Done, Goto, Inv, RequestsOK
<1> QED
  BY <1>1, PlainCurrent, AloneSteps

(* A request that starts without an overlap is alone. *)
LEMMA AloneStarts ==
    ASSUME Inv, NEW w \in Workers, NEW l \in {"risk", "ensure"}, NEW j,
           Start(w, l, j), ~overlap'
    PROVE  ~overlap /\ AloneEvidence'
<1>1. ~overlap /\ \A v \in Workers \ {w} : pc[v] = "idle"
  BY DEF Start
<1>2. pc'[w] = l /\ \A v \in Workers : v # w => pc'[v] = "idle"
  BY <1>1 DEF Start, Goto, Inv, RequestsOK
<1>3. \A v \in Workers : Current(v)'
  BY <1>2, PlainCurrent
<1> QED
  BY <1>1, <1>2, <1>3 DEF AloneEvidence

(* A step that no request takes, which adds no fill. *)
LEMMA AloneStays ==
    ASSUME Inv, AloneEvidence, NoNewFills,
           UNCHANGED <<pc, job, acc, rows, positions, account>>
    PROVE  AloneEvidence'
<1>1. ASSUME NEW w \in Workers PROVE Current(w)'
  <2>1. Current(w)
    BY DEF AloneEvidence
  <2>2. ASSUME NEW q \in Positions, NEW x \in Nat
        PROVE  /\ x >= Cardinality(BuyFills(q)) => x >= Cardinality(BuyFills(q)')
               /\ x > Cardinality(BuyFills(q)) => x > Cardinality(BuyFills(q)')
    BY FillsCounted DEF NoNewFills
  <2>3. \A q \in Positions : rows[w][q].quantity \in Nat /\ positions[q].quantity \in Nat
    BY DEF Inv, RequestsOK, TablesOK, PositionRow
  <2>4. pc[w] \in {"upsert", "fill"} => job[w].position \in Positions
    BY DEF Inv, RequestsOK, Fits
  <2>5. pc[w] \in Copying => acc'[w].realized_pnl = account'.realized_pnl
    BY <2>1 DEF Current
  <2>6. pc[w] \in Filling => acc'[w].made
    BY <2>1 DEF Current
  <2>7. pc[w] \in {"upsert", "mark"} =>
           \A q \in Positions : rows[w][q].status # "absent" =>
              /\ rows[w][q].realized_pnl = positions'[q].realized_pnl
              /\ rows[w][q].quantity >= Cardinality(BuyFills(q)')
    BY <2>1, <2>2, <2>3 DEF Current, Holds
  <2>8. pc[w] = "upsert" =>
           rows[w][job[w].position].quantity > Cardinality(BuyFills(job[w].position)')
    BY <2>1, <2>2, <2>3, <2>4 DEF Current
  <2>9. pc[w] = "fill" =>
           /\ positions'[job[w].position].status # "absent"
           /\ positions'[job[w].position].quantity
                > Cardinality(BuyFills(job[w].position)')
    BY <2>1, <2>2, <2>3, <2>4 DEF Current
  <2>10. pc[w] = "commit" => rows'[w][job'[w].position] = positions'[job'[w].position]
    BY <2>1 DEF Current
  <2>11. pc'[w] = "approved" => BelowLimit'
    BY <2>1 DEF Current, BelowLimit, ClosedLoss
  <2> QED
    BY <2>5, <2>6, <2>7, <2>8, <2>9, <2>10, <2>11 DEF Current, Holds, BuyFills
<1> QED
  BY <1>1 DEF AloneEvidence

(* The books still agree after a step that realizes nothing. *)
LEMMA BooksKept ==
    ASSUME Inv, Inv', MoneyEvidence, MoneyEvidence', BookEvidence,
           \A p \in Positions :
              /\ positions'[p].realized_pnl = positions[p].realized_pnl
              /\ positions'[p].status = "absent" =>
                    /\ positions[p].status = "absent"
                    /\ BuyFills(p)' \subseteq BuyFills(p)
              /\ positions'[p].status = "open" =>
                    positions'[p].quantity >= Cardinality(BuyFills(p)'),
           account'.realized_pnl = account.realized_pnl,
           account.made => account'.made,
           LossIn(journal') >= LossIn(journal)
    PROVE  BookEvidence'
<1>1. /\ ClosedIn(positions') = ClosedIn(positions)
      /\ RealizedIn(positions') = RealizedIn(positions)
  <2>1. [p \in Positions |-> positions'[p].realized_pnl]
           = [p \in Positions |-> positions[p].realized_pnl]
    OBVIOUS
  <2>2. [p \in Positions |-> LossOf(positions'[p])]
           = [p \in Positions |-> LossOf(positions[p])]
    BY DEF LossOf
  <2> QED
    BY <2>1, <2>2 DEF ClosedIn, RealizedIn
<1>2. /\ LossIn(journal) \in Int /\ LossIn(journal') \in Int
      /\ ClosedIn(positions) \in Int
  BY LossInOK, TableSums DEF MoneyEvidence, Inv, TablesOK
<1>3. /\ Realized = RealizedIn(positions) /\ ClosedLoss = ClosedIn(positions)
      /\ JournalLoss = LossIn(journal)
  BY DEF Realized, RealizedIn, ClosedLoss, ClosedIn, JournalLoss, LossIn
<1>4. /\ Realized' = RealizedIn(positions') /\ ClosedLoss' = ClosedIn(positions')
      /\ JournalLoss' = LossIn(journal')
  BY DEF Realized, RealizedIn, ClosedLoss, ClosedIn, JournalLoss, LossIn
<1>5. ClosedLoss' <= JournalLoss'
  BY <1>1, <1>2, <1>3, <1>4 DEF BookEvidence
<1>6. /\ account'.realized_pnl = Realized'
      /\ account'.made \/ ClosedLoss' = 0
  BY <1>1, <1>3, <1>4 DEF BookEvidence
<1>7. \A p \in Positions : positions'[p].status = "absent" =>
         positions'[p].realized_pnl = 0 /\ BuyFills(p)' = {}
  BY DEF BookEvidence
<1> QED
  BY <1>5, <1>6, <1>7 DEF BookEvidence, Open

\* What holds before every step of the ledger, and the types after it.
Ledger ==
    /\ Inv /\ Inv' /\ MoneyEvidence /\ MoneyEvidence'
    /\ BookInv /\ AloneEvidence /\ BookEvidence

LEMMA UnfilledKeep ==
    ASSUME UNCHANGED <<orders, fills>>
    PROVE  NoNewFills
  BY DEF NoNewFills, BuyFills

(* An order that is placed was free: it had no fill. *)
LEMMA PlacedKeep ==
    ASSUME Ledger, NEW o \in FreeOrders, NEW d, NEW key, NEW state,
           PlaceOrder(o, d, key, state)
    PROVE  /\ NoNewFills /\ UNCHANGED <<positions, account, journal>>
<1>1. o \in Orders /\ fills[o] = NoId /\ NoId \notin Positions
  BY PaperAssumption DEF FreeOrders, Ledger, BookInv
<1>2. UNCHANGED <<fills, positions, account, journal>>
  BY DEF PlaceOrder
<1>3. \A x \in Orders : x # o => orders'[x] = orders[x]
  BY DEF PlaceOrder, Ledger, Inv, TablesOK
<1> QED
  BY <1>1, <1>2, <1>3 DEF NoNewFills, BuyFills

LEMMA BooksFramed ==
    ASSUME Ledger, NoNewFills, UNCHANGED <<positions, account>>,
           LossIn(journal') >= LossIn(journal)
    PROVE  BookEvidence'
<1>1. ASSUME NEW p \in Positions
      PROVE  positions'[p].status = "open" =>
                positions'[p].quantity >= Cardinality(BuyFills(p)')
  <2>1. positions[p].quantity \in Nat
    BY DEF Ledger, Inv, TablesOK, PositionRow
  <2> QED
    BY <2>1, FillsCounted DEF NoNewFills, Ledger, BookEvidence, Open
<1> QED
  BY <1>1, BooksKept DEF Ledger, NoNewFills

LEMMA BooksUnwritten ==
    ASSUME Ledger, NoNewFills, UNCHANGED <<positions, account, journal>>
    PROVE  BookEvidence'
<1>1. LossIn(journal) \in Int
  BY LossInOK DEF Ledger, MoneyEvidence
<1>2. LossIn(journal') >= LossIn(journal)
  BY <1>1
<1> QED
  BY <1>2, BooksFramed

(* The steps that start a request. *)
LEMMA StartsLedger ==
    ASSUME Ledger, NEW w \in Workers, ~overlap',
           \/ RunPipeline(w) \/ EvaluateRisk(w) \/ CreateDirectOrder(w)
           \/ RequestClose(w) \/ RequestMark(w)
    PROVE  AloneEvidence' /\ BookEvidence'
<1> USE DEF dbVars
<1>1. \E l \in {"risk", "ensure"} : \E j : Start(w, l, j)
  BY DEF RunPipeline, EvaluateRisk, CreateDirectOrder, RequestClose, RequestMark
<1>2. AloneEvidence'
  BY <1>1, AloneStarts DEF Ledger
<1>3. NoNewFills /\ UNCHANGED <<positions, account, journal>>
  <2>1. CASE CreateDirectOrder(w)
    BY <2>1, PlacedKeep DEF CreateDirectOrder
  <2>2. CASE ~CreateDirectOrder(w)
    BY <2>2, UnfilledKeep DEF RunPipeline, EvaluateRisk, RequestClose, RequestMark
  <2> QED
    BY <2>1, <2>2
<1> QED
  BY <1>2, <1>3, BooksUnwritten

(* The steps no request takes. *)
LEMMA OthersLedger ==
    ASSUME Ledger,
           \/ SetKillSwitch \/ SignalAges \/ UNCHANGED vars
           \/ \E w \in Workers : ExpireDirectOrder(w)
    PROVE  AloneEvidence' /\ BookEvidence'
<1>1. NoNewFills /\ UNCHANGED <<pc, job, acc, rows, positions, account, journal>>
  <2>1. CASE SetKillSwitch \/ SignalAges \/ UNCHANGED vars
    BY <2>1, UnfilledKeep DEF SetKillSwitch, SignalAges, vars
  <2>2. CASE \E w \in Workers : ExpireDirectOrder(w)
    BY <2>2, PlacedKeep DEF ExpireDirectOrder
  <2> QED
    BY <2>1, <2>2
<1> QED
  BY <1>1, AloneStays, BooksUnwritten DEF Ledger

(* The steps before the accounting, and the ends of a request that write *)
(* nothing the books rest on.                                            *)
LEMMA PlainLedger ==
    ASSUME Ledger, NEW w \in Workers,
           \/ InsertApproval(w) \/ InsertRejection(w)
           \/ CreatePipelineOrder(w) \/ ReusePipelineOrder(w)
           \/ RefuseUpsert(w) \/ RefuseClose(w) \/ Break(w)
    PROVE  AloneEvidence' /\ BookEvidence'
<1> USE DEF dbVars
<1>1. pc[w] # "idle" /\ (Done(w) \/ \E l \in {"create", "ensure"} : Goto(w, l))
  BY DEF InsertApproval, InsertRejection, CreatePipelineOrder,
       ReusePipelineOrder, RefuseUpsert, RefuseClose, Break
<1>2. AloneEvidence'
  <2>1. ASSUME NEW l \in {"create", "ensure"}, Goto(w, l)
        PROVE  AloneEvidence'
    <3>1. pc'[w] = l /\ \A v \in Workers : v # w => pc'[v] = pc[v]
      BY <2>1 DEF Goto, Ledger, Inv, RequestsOK
    <3> QED
      BY <1>1, <3>1, PlainCurrent, AloneSteps DEF Ledger
  <2> QED
    BY <1>1, <2>1, AloneEnds DEF Ledger
<1>3. NoNewFills /\ UNCHANGED <<positions, account, journal>>
  <2>1. CASE CreatePipelineOrder(w)
    BY <2>1, PlacedKeep DEF CreatePipelineOrder
  <2>2. CASE ~CreatePipelineOrder(w)
    BY <2>2, UnfilledKeep DEF InsertApproval, InsertRejection,
         ReusePipelineOrder, RefuseUpsert, RefuseClose, Break
  <2> QED
    BY <2>1, <2>2
<1> QED
  BY <1>2, <1>3, BooksUnwritten

(* An approval without a warning has seen a loss below the limit. *)
LEMMA ApprovedBelowLimit ==
    ASSUME NEW context, NEW snapshot \in Snapshots,
           Verdict(context, snapshot) = "approved"
    PROVE  /\ account.made /\ account.current_equity > 0
           /\ ~LossReaches([loss |-> JournalLoss, equity |-> account.current_equity],
                           Config.max_daily_loss_pct)
<1>1. Decision(context, snapshot, Config) = "APPROVED" /\ ~DailyLossWarns(snapshot)
  BY DEF Verdict
<1>2. Reasons(context, snapshot, Config) = {}
  BY <1>1 DEF Decision
<1>3. ~Rejects("MaxWeeklyLossExceeded", context, snapshot, Config)
  BY <1>2 DEF Reasons, RejectionReasons
<1>4. \A pct \in snapshot.daily_loss_pct : ~LossReaches(pct, Config.max_daily_loss_pct)
  BY <1>3, Zenon DEF Rejects
<1>5. snapshot.daily_loss_pct \in {LossPct, {}} /\ snapshot.daily_loss_pct # {}
  BY <1>1 DEF Snapshots, Asked, DailyLossWarns
<1>6. \A pct \in LossPct :
         /\ account.made /\ account.current_equity > 0
         /\ pct = [loss |-> JournalLoss, equity |-> account.current_equity]
  BY DEF LossPct
<1> QED
  BY <1>4, <1>5, <1>6

(* What the positions have lost is no more than what the journal shows. *)
LEMMA JournalCovers ==
    ASSUME Inv, EquityInv, MoneyEvidence, BookEvidence, account.current_equity > 0,
           ~LossReaches([loss |-> JournalLoss, equity |-> account.current_equity],
                        Config.max_daily_loss_pct)
    PROVE  BelowLimit
<1>1. ClosedLoss <= JournalLoss
  BY DEF BookEvidence
<1>2. PICK c, j, e, limit : /\ c = ClosedLoss /\ j = JournalLoss
                            /\ e = account.current_equity
                            /\ limit = Config.max_daily_loss_pct
  OBVIOUS
<1>3. c \in Int /\ j \in Int /\ e \in Int /\ limit \in Nat
  <2>1. ClosedLoss \in Int
    <3>1. ClosedLoss = ClosedIn(positions)
      BY DEF ClosedLoss, ClosedIn
    <3> QED
      BY <3>1, TableSums DEF Inv, TablesOK
  <2>2. JournalLoss \in Int
    <3>1. JournalLoss = LossIn(journal)
      BY DEF JournalLoss, LossIn
    <3> QED
      BY <3>1, LossInOK DEF MoneyEvidence
  <2>3. account.current_equity \in Int
    <3>1. account.realized_pnl \in Int /\ account.unrealized_pnl \in Int
      BY DEF Inv, TablesOK, AccountRow, EquityInv, Adds
    <3> QED
      BY <3>1, PaperAssumption DEF EquityInv, Adds
  <2>4. Config.max_daily_loss_pct \in Nat
    <3>1. ValidRiskConfig(Config)
      BY PaperAssumption
    <3> QED
      BY <3>1 DEF ValidRiskConfig
  <2> QED
    BY <1>2, <2>1, <2>2, <2>3, <2>4
<1>4. limit * e \in Int /\ ~(j * Whole >= limit * e)
  BY <1>2, <1>3 DEF LossReaches
<1>5. ~(c * Whole >= limit * e)
  BY <1>1, <1>2, <1>3, <1>4 DEF Whole
<1> QED
  BY <1>2, <1>5 DEF LossReaches, BelowLimit

(* The risk evaluation of a request that is alone. *)
LEMMA LoadRiskLedger ==
    ASSUME Ledger, EquityInv, NEW w \in Workers, LoadRiskState(w)
    PROVE  AloneEvidence' /\ BookEvidence'
<1>0. PICK context : context = Context(job[w].signal)
  OBVIOUS
<1>1. PICK snapshot \in Snapshots : Goto(w, Verdict(context, snapshot))
  BY <1>0 DEF LoadRiskState
<1> DEFINE l == Verdict(context, snapshot)
<1>2. l \in {"approved", "warned", "rejected"}
  BY DEF Verdict
<1> HIDE DEF l
<1>3. /\ pc'[w] = l /\ pc[w] # "idle"
      /\ \A v \in Workers : v # w => pc'[v] = pc[v]
  BY <1>1 DEF l, LoadRiskState, Goto, Ledger, Inv, RequestsOK
<1>4. UNCHANGED <<positions, account, journal, orders, fills>>
  BY DEF LoadRiskState, dbVars
<1>5. ASSUME l = "approved" PROVE Current(w)'
  <2>1. BelowLimit
    BY <1>5, ApprovedBelowLimit, JournalCovers DEF l, Ledger
  <2>2. BelowLimit'
    BY <1>4, <2>1 DEF BelowLimit, ClosedLoss
  <2> QED
    BY <1>3, <1>5, <2>2 DEF Current, Copying, Filling
<1>6. Current(w)'
  BY <1>2, <1>3, <1>5, PlainCurrent
<1>7. AloneEvidence'
  BY <1>3, <1>6, AloneSteps DEF Ledger
<1> QED
  BY <1>4, <1>7, UnfilledKeep, BooksUnwritten

(* A request reads the account. *)
LEMMA ReadAccountLedger ==
    ASSUME Ledger, NEW w \in Workers, ReadAccount(w)
    PROVE  AloneEvidence' /\ BookEvidence'
<1> USE DEF dbVars
<1>1. PICK l \in {"account", "position"} : Goto(w, l)
  BY DEF ReadAccount
<1>2. /\ pc[w] # "idle" /\ pc'[w] = l /\ \A v \in Workers : v # w => pc'[v] = pc[v]
      /\ acc'[w] = account /\ account' = account
  BY <1>1 DEF ReadAccount, Goto, Ledger, Inv, RequestsOK
<1>3. Current(w)'
  BY <1>2 DEF Current, Filling
<1>4. NoNewFills /\ UNCHANGED <<positions, account, journal>>
  BY UnfilledKeep DEF ReadAccount
<1> QED
  BY <1>2, <1>3, <1>4, AloneSteps, BooksUnwritten DEF Ledger

(* A step that writes an account with the same realized pnl. *)
LEMMA AccountWritten ==
    ASSUME Ledger, UNCHANGED <<positions, journal, orders, fills>>,
           account'.realized_pnl = account.realized_pnl, account'.made
    PROVE  BookEvidence'
<1>1. LossIn(journal) \in Int
  BY LossInOK DEF Ledger, MoneyEvidence
<1>2. LossIn(journal') >= LossIn(journal)
  BY <1>1
<1>3. \A p \in Positions : BuyFills(p)' = BuyFills(p)
  BY DEF BuyFills
<1>4. \A p \in Positions : positions'[p].status = "open" =>
         positions'[p].quantity >= Cardinality(BuyFills(p)')
  BY <1>3 DEF Ledger, BookEvidence, Open
<1> QED
  BY <1>2, <1>3, <1>4, BooksKept DEF Ledger

LEMMA WriteBackLedger ==
    ASSUME Ledger, NEW w \in Workers, WriteBackAccount(w)
    PROVE  AloneEvidence' /\ BookEvidence'
<1>1. pc[w] = "account" /\ UNCHANGED <<positions, journal, orders, fills>>
  BY DEF WriteBackAccount
<1>2. CASE Done(w) /\ UNCHANGED account
  BY <1>1, <1>2, AloneEnds, UnfilledKeep, BooksUnwritten DEF Ledger
<1>3. CASE /\ account' = Account(TRUE, acc[w].realized_pnl, acc[w].unrealized_pnl)
           /\ acc' = [acc EXCEPT ![w] = Account(TRUE, acc[w].realized_pnl,
                                                acc[w].unrealized_pnl)]
           /\ Goto(w, "position")
  <2>1. /\ pc'[w] = "position" /\ \A v \in Workers : v # w => pc'[v] = pc[v]
        /\ acc'[w] = account'
    BY <1>3 DEF Goto, Ledger, Inv, RequestsOK
  <2>2. acc[w].realized_pnl = account.realized_pnl
    BY <1>1 DEF Ledger, AloneEvidence, Current, Copying
  <2>3. account'.realized_pnl = account.realized_pnl /\ account'.made
    BY <1>3, <2>2 DEF Account
  <2>4. Current(w)'
    BY <2>1 DEF Current, Filling
  <2> QED
    BY <1>1, <2>1, <2>3, <2>4, AloneSteps, AccountWritten DEF Ledger
<1> QED
  BY <1>2, <1>3 DEF WriteBackAccount

(* A fill is computed: its row holds one more than what is booked. *)
LEMMA ApplyFillLedger ==
    ASSUME Ledger, NEW w \in Workers, NEW p \in Positions, NEW row,
           ApplyFill(w, p, row), pc[w] = "position",
           row.realized_pnl = positions[p].realized_pnl,
           row.quantity \in Nat, row.quantity > Cardinality(BuyFills(p))
    PROVE  AloneEvidence' /\ BookEvidence'
<1>1. NoNewFills /\ UNCHANGED <<positions, account, journal>>
  BY UnfilledKeep DEF ApplyFill, dbVars
<1>2. /\ pc'[w] = "upsert" /\ \A v \in Workers : v # w => pc'[v] = pc[v]
      /\ rows'[w] = [NoRows EXCEPT ![p] = row]
      /\ acc'[w] = Account(TRUE, acc[w].realized_pnl, Unrealized(row))
      /\ job'[w].position = p
  BY DEF ApplyFill, Goto, Job, Ledger, Inv, RequestsOK
<1>3. acc[w].realized_pnl = account.realized_pnl
  BY DEF Ledger, AloneEvidence, Current, Copying
<1>4. acc'[w].realized_pnl = account'.realized_pnl /\ acc'[w].made
  BY <1>1, <1>2, <1>3 DEF Account
<1>5. rows'[w][p] = row /\ \A q \in Positions : q # p => rows'[w][q].status = "absent"
  BY <1>2 DEF NoRows, Absent, Row
<1>6. \A q \in Positions : BuyFills(q)' = BuyFills(q)
  BY DEF ApplyFill, dbVars, BuyFills
<1>7. Cardinality(BuyFills(p)) \in Nat
  BY FillsCounted
<1>8. \A q \in Positions : rows'[w][q].status # "absent" =>
         /\ rows'[w][q].realized_pnl = positions'[q].realized_pnl
         /\ rows'[w][q].quantity >= Cardinality(BuyFills(q)')
  BY <1>1, <1>5, <1>6, <1>7
<1>9. rows'[w][p].quantity > Cardinality(BuyFills(p)')
  BY <1>5, <1>6
<1>10. Current(w)'
  BY <1>2, <1>4, <1>8, <1>9 DEF Current, Holds, BuyFills
<1> QED
  BY <1>1, <1>2, <1>10, AloneSteps, BooksUnwritten DEF Ledger

LEMMA ReadPositionLedger ==
    ASSUME Ledger, NEW w \in Workers, ReadPosition(w)
    PROVE  AloneEvidence' /\ BookEvidence'
<1>1. \A p \in Positions : /\ positions[p] \in PositionRow
                           /\ positions[p].quantity \in Nat
                           /\ positions[p].realized_pnl \in Int
                           /\ Cardinality(BuyFills(p)) \in Nat
  BY FillsCounted DEF Ledger, Inv, TablesOK, PositionRow
<1>2. ASSUME NEW p \in Positions, Open(p),
             ApplyFill(w, p, IncreasedRow(positions[p], job[w].price))
      PROVE  AloneEvidence' /\ BookEvidence'
  <2> DEFINE row == IncreasedRow(positions[p], job[w].price)
  <2>1. /\ row.realized_pnl = positions[p].realized_pnl
        /\ row.quantity = positions[p].quantity + 1
    BY DEF IncreasedRow, Row
  <2>2. positions[p].quantity >= Cardinality(BuyFills(p))
    BY <1>2 DEF Ledger, BookEvidence
  <2> HIDE DEF row
  <2>3. row.quantity \in Nat /\ row.quantity > Cardinality(BuyFills(p))
    BY <1>1, <2>1, <2>2
  <2>4. ApplyFill(w, p, row)
    BY <1>2 DEF row
  <2> QED
    BY <2>1, <2>3, <2>4, ApplyFillLedger DEF ReadPosition
<1>3. ASSUME NEW p \in FreshPositions,
             ApplyFill(w, p, OpenedRow(job[w].symbol, job[w].price))
      PROVE  AloneEvidence' /\ BookEvidence'
  <2> DEFINE row == OpenedRow(job[w].symbol, job[w].price)
  <2>1. row.realized_pnl = 0 /\ row.quantity = 1
    BY DEF OpenedRow, Row
  <2>2. p \in Positions /\ positions[p].status = "absent"
    BY DEF FreshPositions
  <2>3. positions[p].realized_pnl = 0 /\ Cardinality(BuyFills(p)) = 0
    BY <2>2, FS_EmptySet DEF Ledger, BookEvidence
  <2> HIDE DEF row
  <2>4. row.quantity \in Nat /\ row.quantity > Cardinality(BuyFills(p))
    BY <2>1, <2>3
  <2>5. ApplyFill(w, p, row)
    BY <1>3 DEF row
  <2> QED
    BY <2>1, <2>2, <2>3, <2>4, <2>5, ApplyFillLedger DEF ReadPosition
<1> QED
  BY <1>2, <1>3 DEF ReadPosition

(* A row is written back that holds what its position has. *)
LEMMA UpsertLedger ==
    ASSUME Ledger, NEW w \in Workers, NEW p \in Positions,
           pc[w] \in {"upsert", "mark"}, UpsertPosition(w, p)
    PROVE  /\ BookEvidence'
           /\ \A q \in Positions : BuyFills(q)' = BuyFills(q)
           /\ \A q \in Positions :
                 positions'[q].realized_pnl = positions[q].realized_pnl
           /\ positions'[p] = rows[w][p] /\ rows[w][p].status # "absent"
           /\ account' = account /\ acc' = acc /\ job' = job
<1>1. /\ positions' = [positions EXCEPT ![p] = rows[w][p]]
      /\ rows[w][p].status # "absent"
      /\ UNCHANGED <<orders, fills, account, journal, acc, job>>
  BY DEF UpsertPosition
<1>2. Holds(rows[w][p], p)
  BY <1>1 DEF Ledger, AloneEvidence, Current
<1>3. \A q \in Positions : positions'[q] = IF q = p THEN rows[w][p] ELSE positions[q]
  BY <1>1 DEF Ledger, Inv, TablesOK
<1>4. \A q \in Positions : BuyFills(q)' = BuyFills(q)
  BY <1>1 DEF BuyFills
<1>5. \A q \in Positions : positions'[q].realized_pnl = positions[q].realized_pnl
  BY <1>2, <1>3 DEF Holds
<1>6. \A q \in Positions :
         /\ positions'[q].status = "absent" => positions[q].status = "absent"
         /\ positions'[q].status = "open" =>
               positions'[q].quantity >= Cardinality(BuyFills(q)')
  BY <1>1, <1>2, <1>3, <1>4 DEF Holds, Ledger, BookEvidence, Open
<1>7. LossIn(journal') >= LossIn(journal)
  BY <1>1, LossInOK DEF Ledger, MoneyEvidence
<1>8. BookEvidence'
  BY <1>1, <1>4, <1>5, <1>6, <1>7, BooksKept DEF Ledger
<1> QED
  BY <1>1, <1>3, <1>4, <1>5, <1>8

LEMMA UpsertFilledLedger ==
    ASSUME Ledger, NEW w \in Workers, UpsertFilled(w)
    PROVE  AloneEvidence' /\ BookEvidence'
<1> DEFINE p == job[w].position
<1>1. pc[w] = "upsert" /\ UpsertPosition(w, p)
  BY DEF UpsertFilled
<1>2. p \in Positions
  BY <1>1 DEF Ledger, Inv, RequestsOK, Fits
<1>3. /\ BookEvidence' /\ BuyFills(p)' = BuyFills(p)
      /\ positions'[p] = rows[w][p] /\ rows[w][p].status # "absent"
      /\ account' = account /\ acc' = acc /\ job' = job
  BY <1>1, <1>2, UpsertLedger
<1>4. pc'[w] = "fill" /\ \A v \in Workers : v # w => pc'[v] = pc[v]
  BY DEF UpsertFilled, Goto, Ledger, Inv, RequestsOK
<1>5. /\ acc[w].realized_pnl = account.realized_pnl /\ acc[w].made
      /\ rows[w][p].quantity > Cardinality(BuyFills(p))
  BY <1>1 DEF Ledger, AloneEvidence, Current, Copying, Filling
<1>6. /\ positions'[p].status # "absent"
      /\ positions'[p].quantity > Cardinality(BuyFills(p)')
  BY <1>3, <1>5
<1>7. Current(w)'
  BY <1>3, <1>4, <1>5, <1>6 DEF Current, BuyFills
<1> QED
  BY <1>1, <1>3, <1>4, <1>7, AloneSteps DEF Ledger

(* The fill of the row is booked. *)
LEMMA InsertFillLedger ==
    ASSUME Ledger, NEW w \in Workers, InsertFill(w)
    PROVE  AloneEvidence' /\ BookEvidence'
<1>0. PICK p, o : p = job[w].position /\ o = job[w].order
  OBVIOUS
<1>1. /\ pc[w] = "fill" /\ fills' = [fills EXCEPT ![o] = p]
      /\ UNCHANGED <<orders, positions, account, journal, acc, job>>
  BY <1>0 DEF InsertFill
<1>2. p \in Positions
  BY <1>0, <1>1 DEF Ledger, Inv, RequestsOK, Fits
<1>3. /\ positions[p].status # "absent"
      /\ positions[p].quantity > Cardinality(BuyFills(p))
      /\ acc[w].realized_pnl = account.realized_pnl /\ acc[w].made
  BY <1>0, <1>1 DEF Ledger, AloneEvidence, Current, Copying, Filling
<1>4. BuyFills(p)' \subseteq BuyFills(p) \cup {o}
  BY <1>1 DEF BuyFills, Ledger, Inv, TablesOK
<1>5. \A q \in Positions : q # p => BuyFills(q)' \subseteq BuyFills(q)
  BY <1>1 DEF BuyFills, Ledger, Inv, TablesOK
<1>6. positions[p].quantity >= Cardinality(BuyFills(p)')
  <2>1. PICK T : T = BuyFills(p)'
    OBVIOUS
  <2>2. IsFiniteSet(BuyFills(p)) /\ Cardinality(BuyFills(p)) \in Nat
    BY FillsCounted
  <2>3. /\ IsFiniteSet(BuyFills(p) \cup {o})
        /\ Cardinality(BuyFills(p) \cup {o}) <= Cardinality(BuyFills(p)) + 1
    <3>1. PICK S : S = BuyFills(p)
      OBVIOUS
    <3>2. IsFiniteSet(S) /\ Cardinality(S) \in Nat
      BY <2>2, <3>1
    <3>3. IsFiniteSet(S \cup {o}) /\ Cardinality(S \cup {o}) <= Cardinality(S) + 1
      <4>1. /\ IsFiniteSet(S \cup {o})
            /\ Cardinality(S \cup {o})
                 = IF o \in S THEN Cardinality(S) ELSE Cardinality(S) + 1
        BY <3>2, FS_AddElement, Zenon
      <4> QED
        BY <3>2, <4>1
    <3> QED
      BY <3>1, <3>3
  <2>4. T \in SUBSET (BuyFills(p) \cup {o})
    BY <1>4, <2>1
  <2>5. /\ Cardinality(T) \in Nat /\ Cardinality(BuyFills(p) \cup {o}) \in Nat
        /\ Cardinality(T) <= Cardinality(BuyFills(p) \cup {o})
    BY <2>3, <2>4, FS_Subset, FS_CardinalityType
  <2>6. positions[p].quantity \in Nat
    BY <1>2 DEF Ledger, Inv, TablesOK, PositionRow
  <2> QED
    BY <1>3, <2>1, <2>2, <2>3, <2>5, <2>6
<1>7. \A q \in Positions : positions'[q].status = "open" =>
         positions'[q].quantity >= Cardinality(BuyFills(q)')
  <2>1. ASSUME NEW q \in Positions, q # p, positions[q].status = "open"
        PROVE  positions[q].quantity >= Cardinality(BuyFills(q)')
    <3>1. positions[q].quantity >= Cardinality(BuyFills(q))
      BY <2>1 DEF Ledger, BookEvidence, Open
    <3>2. positions[q].quantity \in Nat
      BY DEF Ledger, Inv, TablesOK, PositionRow
    <3> QED
      BY <1>5, <2>1, <3>1, <3>2, FillsCounted
  <2> QED
    BY <1>1, <1>6, <2>1
<1>8. LossIn(journal') >= LossIn(journal)
  BY <1>1, LossInOK DEF Ledger, MoneyEvidence
<1>9. BookEvidence'
  BY <1>1, <1>3, <1>5, <1>7, <1>8, BooksKept DEF Ledger
<1>10. pc'[w] = "save" /\ \A v \in Workers : v # w => pc'[v] = pc[v]
  BY DEF InsertFill, Goto, Ledger, Inv, RequestsOK
<1>11. Current(w)'
  BY <1>1, <1>3, <1>10 DEF Current
<1> QED
  BY <1>1, <1>9, <1>10, <1>11, AloneSteps DEF Ledger

(* The computed account is written: it realized what the stored one did. *)
LEMMA SaveAccountLedger ==
    ASSUME Ledger, NEW w \in Workers, SaveAccount(w)
    PROVE  AloneEvidence' /\ BookEvidence'
<1>1. /\ pc[w] = "save" /\ account' = acc[w] /\ acc' = acc
      /\ UNCHANGED <<positions, journal, orders, fills>>
  BY DEF SaveAccount
<1>2. acc[w].realized_pnl = account.realized_pnl /\ acc[w].made
  BY <1>1 DEF Ledger, AloneEvidence, Current, Copying, Filling
<1>3. pc'[w] = "journal" /\ \A v \in Workers : v # w => pc'[v] = pc[v]
  BY DEF SaveAccount, Goto, Ledger, Inv, RequestsOK
<1>4. Current(w)'
  BY <1>1, <1>2, <1>3 DEF Current
<1> QED
  BY <1>1, <1>2, <1>3, <1>4, AloneSteps, AccountWritten DEF Ledger

LEMMA SaveMarkedLedger ==
    ASSUME Ledger, NEW w \in Workers, SaveMarkedAccount(w)
    PROVE  AloneEvidence' /\ BookEvidence'
<1>1. /\ pc[w] = "mark" /\ account' = acc[w] /\ Done(w)
      /\ UNCHANGED <<positions, journal, orders, fills>>
  BY DEF SaveMarkedAccount
<1>2. acc[w].realized_pnl = account.realized_pnl /\ acc[w].made
  BY <1>1 DEF Ledger, AloneEvidence, Current, Copying, Filling
<1> QED
  BY <1>1, <1>2, AloneEnds, AccountWritten DEF Ledger

(* The journal of a fill only adds to what the journal has lost. *)
LEMMA InsertJournalLedger ==
    ASSUME Ledger, EquityInv, NEW w \in Workers, InsertJournal(w)
    PROVE  AloneEvidence' /\ BookEvidence'
<1>1. /\ pc[w] = "journal" /\ Done(w)
      /\ UNCHANGED <<positions, account, orders, fills>>
  BY DEF InsertJournal
<1>2. PICK group \in Seq(Int) : journal' = <<group>> \o journal
  BY JournalGroups DEF Ledger
<1>3. /\ GroupLoss(group) \in Int /\ GroupLoss(group) >= 0
      /\ journal \in Seq(Seq(Int))
  BY GroupLossBounds DEF Ledger, MoneyEvidence
<1>4. LossIn(journal) \in Int /\ LossIn(journal') = GroupLoss(group) + LossIn(journal)
  BY <1>2, <1>3, LossInOK, LossInGrows
<1>5. LossIn(journal') >= LossIn(journal)
  BY <1>3, <1>4
<1> QED
  BY <1>1, <1>5, AloneEnds, UnfilledKeep, BooksFramed DEF Ledger

(* The close reads its position. *)
LEMMA ReadForCloseLedger ==
    ASSUME Ledger, NEW w \in Workers, ReadForClose(w)
    PROVE  AloneEvidence' /\ BookEvidence'
<1> USE DEF dbVars
<1>1. /\ pc[w] = "position" /\ NoNewFills
      /\ UNCHANGED <<positions, account, journal>>
  BY UnfilledKeep DEF ReadForClose
<1>2. CASE Done(w)
  BY <1>1, <1>2, AloneEnds, BooksUnwritten DEF Ledger
<1>3. CASE ~Done(w)
  <2>1. PICK p : p = job[w].position
    OBVIOUS
  <2>2. PICK price \in Prices :
           job' = [job EXCEPT ![w] = Job("close", NoId, NoId, NoId, NoId, p, price)]
    BY <1>3, <2>1 DEF ReadForClose
  <2>3. /\ rows' = [rows EXCEPT ![w] = [NoRows EXCEPT ![p] = positions[p]]]
        /\ Goto(w, "commit") /\ UNCHANGED acc
    BY <1>3, <2>1 DEF ReadForClose
  <2>4. p \in Positions
    BY <2>1 DEF ReadForClose, Ledger, Inv, RequestsOK, Fits
  <2>5. /\ job'[w].position = p /\ rows'[w][p] = positions[p]
        /\ pc'[w] = "commit" /\ \A v \in Workers : v # w => pc'[v] = pc[v]
    BY <2>2, <2>3, <2>4 DEF Goto, Job, NoRows, Ledger, Inv, RequestsOK
  <2>6. acc[w].realized_pnl = account.realized_pnl
    BY <1>1 DEF Ledger, AloneEvidence, Current, Copying
  <2>7. Current(w)'
    BY <1>1, <2>3, <2>5, <2>6 DEF Current, Filling
  <2> QED
    BY <1>1, <2>5, <2>7, AloneSteps, BooksUnwritten DEF Ledger
<1> QED
  BY <1>2, <1>3

(* The mark copies the open positions with another price. *)
LEMMA MarkPositionsLedger ==
    ASSUME Ledger, NEW w \in Workers, MarkPositions(w)
    PROVE  AloneEvidence' /\ BookEvidence'
<1> USE DEF dbVars
<1>1. /\ pc[w] = "position" /\ NoNewFills
      /\ UNCHANGED <<positions, account, journal, orders, fills>>
  BY UnfilledKeep DEF MarkPositions
<1>2. pc'[w] = "mark" /\ \A v \in Workers : v # w => pc'[v] = pc[v]
  BY DEF MarkPositions, Goto, Ledger, Inv, RequestsOK
<1>3. \E mark :
         rows' = [rows EXCEPT ![w] =
                    [p \in Positions |->
                       IF Open(p) THEN MarkedRow(positions[p], mark[positions[p].symbol])
                       ELSE Absent]]
  BY DEF MarkPositions
<1>4. PICK mark :
         rows' = [rows EXCEPT ![w] =
                    [p \in Positions |->
                       IF Open(p) THEN MarkedRow(positions[p], mark[positions[p].symbol])
                       ELSE Absent]]
  BY <1>3
<1>5. \A q \in Positions :
         rows'[w][q] = IF Open(q) THEN MarkedRow(positions[q], mark[positions[q].symbol])
                       ELSE Absent
  BY <1>4 DEF Ledger, Inv, RequestsOK
<1>6. \A q \in Positions : rows'[w][q].status # "absent" =>
         /\ Open(q) /\ rows'[w][q].realized_pnl = positions[q].realized_pnl
         /\ rows'[w][q].quantity = positions[q].quantity
  <2>1. /\ Absent.status = "absent"
        /\ \A row, price : /\ MarkedRow(row, price).realized_pnl = row.realized_pnl
                           /\ MarkedRow(row, price).quantity = row.quantity
    BY DEF MarkedRow, Absent, Row
  <2> QED
    BY <1>5, <2>1
<1>7. \A q \in Positions : BuyFills(q)' = BuyFills(q)
  BY <1>1 DEF BuyFills
<1>8. \A q \in Positions : rows'[w][q].status # "absent" => Holds(rows[w][q], q)'
  BY <1>1, <1>6, <1>7 DEF Holds, Ledger, BookEvidence, BuyFills
<1>9. \E u : acc' = [acc EXCEPT ![w] = Account(TRUE, acc[w].realized_pnl, u)]
  BY DEF MarkPositions
<1>10. acc'[w].made /\ acc'[w].realized_pnl = acc[w].realized_pnl
  BY <1>9 DEF Account, Ledger, Inv, RequestsOK
<1>11. acc[w].realized_pnl = account.realized_pnl
  BY <1>1 DEF Ledger, AloneEvidence, Current, Copying
<1>12. Current(w)'
  BY <1>1, <1>2, <1>8, <1>10, <1>11 DEF Current
<1> QED
  BY <1>1, <1>2, <1>12, AloneSteps, BooksUnwritten DEF Ledger

LEMMA UpsertMarkedLedger ==
    ASSUME Ledger, NEW w \in Workers, UpsertMarked(w)
    PROVE  AloneEvidence' /\ BookEvidence'
<1>1. PICK p \in Positions :
         /\ UpsertPosition(w, p)
         /\ rows' = [rows EXCEPT ![w] = [rows[w] EXCEPT ![p] = Absent]]
  BY DEF UpsertMarked
<1>2. pc[w] = "mark" /\ pc' = pc
  BY DEF UpsertMarked
<1>3. /\ BookEvidence' /\ \A q \in Positions : BuyFills(q)' = BuyFills(q)
      /\ \A q \in Positions : positions'[q].realized_pnl = positions[q].realized_pnl
      /\ account' = account /\ acc' = acc /\ job' = job
  BY <1>1, <1>2, UpsertLedger
<1>4. \A q \in Positions : rows'[w][q] = IF q = p THEN Absent ELSE rows[w][q]
  BY <1>1 DEF Ledger, Inv, RequestsOK
<1>5. Current(w)
  BY DEF Ledger, AloneEvidence
<1>6. \A q \in Positions : rows'[w][q].status # "absent" =>
         /\ rows'[w][q].realized_pnl = positions'[q].realized_pnl
         /\ rows'[w][q].quantity >= Cardinality(BuyFills(q)')
  BY <1>2, <1>3, <1>4, <1>5 DEF Current, Holds, Absent, Row
<1>7. Current(w)'
  BY <1>2, <1>3, <1>5, <1>6 DEF Current, Holds, BuyFills
<1> QED
  BY <1>2, <1>3, <1>7, AloneSteps DEF Ledger

(* Requests that have overlapped stay so. *)
LEMMA OverlapStays ==
    ASSUME [Next]_vars, overlap
    PROVE  overlap'
<1> USE DEF dbVars
<1>1. ASSUME NEW w \in Workers,
             \/ RunPipeline(w) \/ EvaluateRisk(w) \/ CreateDirectOrder(w)
             \/ RequestClose(w) \/ RequestMark(w)
      PROVE  overlap'
  <2>1. \E l, j : Start(w, l, j)
    BY <1>1, Zenon DEF RunPipeline, EvaluateRisk, CreateDirectOrder, RequestClose,
         RequestMark
  <2> QED
    BY <2>1, Zenon DEF Start
<1>2. ASSUME NEW w \in Workers,
             \/ LoadRiskState(w) \/ InsertApproval(w) \/ InsertRejection(w)
             \/ CreatePipelineOrder(w) \/ ReusePipelineOrder(w)
             \/ ExpireDirectOrder(w) \/ RefuseUpsert(w) \/ RefuseClose(w)
             \/ Break(w) \/ ReadAccount(w) \/ WriteBackAccount(w)
             \/ ReadPosition(w) \/ UpsertFilled(w) \/ InsertFill(w)
             \/ SaveAccount(w) \/ InsertJournal(w) \/ ReadForClose(w)
             \/ CommitClose(w) \/ MarkPositions(w) \/ UpsertMarked(w)
             \/ SaveMarkedAccount(w)
      PROVE  overlap'
  BY <1>2, Zenon DEF LoadRiskState, InsertApproval, InsertRejection,
       CreatePipelineOrder, ReusePipelineOrder, ExpireDirectOrder,
       RefuseUpsert, RefuseClose, Break, ReadAccount, WriteBackAccount,
       ReadPosition, ApplyFill, UpsertFilled, UpsertPosition, InsertFill,
       SaveAccount, InsertJournal, ReadForClose, CommitClose, MarkPositions,
       UpsertMarked, SaveMarkedAccount
<1>3. CASE SetKillSwitch \/ SignalAges \/ UNCHANGED vars
  BY <1>3 DEF SetKillSwitch, SignalAges, vars
<1> QED
  BY <1>1, <1>2, <1>3, Zenon DEF Next

(* A close adds its pnl to the position and to the account, and its loss to *)
(* the journal.                                                             *)
LEMMA CommitCloseLedger ==
    ASSUME Ledger, EquityInv, NEW w \in Workers, CommitClose(w)
    PROVE  AloneEvidence' /\ BookEvidence'
<1>1. PICK p, price, row, pnl, closed :
         /\ p = job[w].position /\ price = job[w].price /\ row = rows[w][p]
         /\ pnl = ClosePnl(row, price) /\ closed = ClosedRow(row, price)
  OBVIOUS
<1>2. /\ pc[w] = "commit" /\ Done(w)
      /\ positions' = [positions EXCEPT ![p] = closed]
      /\ account' = Account(TRUE, acc[w].realized_pnl + pnl, 0)
  BY <1>1 DEF CommitClose
<1>3. PICK o \in FreeOrders : \E d :
         /\ orders' = [orders EXCEPT ![o] =
                         OrderOf("PAPER_FILLED", d, <<"close", p>>, p)]
         /\ fills' = [fills EXCEPT ![o] = p]
  BY <1>1 DEF CommitClose
<1>4. PICK d :
         /\ orders' = [orders EXCEPT ![o] =
                         OrderOf("PAPER_FILLED", d, <<"close", p>>, p)]
         /\ fills' = [fills EXCEPT ![o] = p]
  BY <1>3
<1>5. PICK group \in Seq(Int) :
         /\ journal' = <<group>> \o journal /\ 1 \in DOMAIN group /\ group[1] = pnl
  BY <1>1, JournalGroups DEF Ledger
<1>6. p \in Positions /\ price \in Prices
  BY <1>1, <1>2 DEF Ledger, Inv, RequestsOK, Fits
<1>7. /\ row = positions[p] /\ acc[w].realized_pnl = account.realized_pnl
  BY <1>1, <1>2 DEF Ledger, AloneEvidence, Current, Copying
<1>8. row \in PositionRow /\ KnownRow(row) /\ row.realized_pnl \in Int
  BY <1>6, <1>7 DEF Ledger, Inv, TablesOK, PositionRow
<1>9. pnl \in Int /\ closed \in PositionRow
  BY <1>1, <1>6, <1>8, RowsOK
<1>10. closed.realized_pnl = row.realized_pnl + pnl /\ closed.status = "closed"
  BY <1>1 DEF ClosedRow, Row
<1>11. AloneEvidence'
  BY <1>2, AloneEnds DEF Ledger
<1>12. NoNewFills
  <2>1. \A x \in Orders : x # o => orders'[x] = orders[x] /\ fills'[x] = fills[x]
    BY <1>4 DEF Ledger, Inv, TablesOK
  <2>2. o \in Orders => orders'[o].sells # NoId
    BY <1>4, <1>6, PaperAssumption DEF OrderOf, Ledger, Inv, TablesOK
  <2> QED
    BY <2>1, <2>2 DEF NoNewFills, BuyFills
<1>13. \A q \in Positions : positions'[q] = IF q = p THEN closed ELSE positions[q]
  BY <1>2 DEF Ledger, Inv, TablesOK
<1>14. ASSUME NEW q \in Positions
       PROVE  /\ positions'[q].status = "absent" =>
                    positions'[q].realized_pnl = 0 /\ BuyFills(q)' = {}
              /\ positions'[q].status = "open" =>
                    positions'[q].quantity >= Cardinality(BuyFills(q)')
  <2>1. positions[q].quantity \in Nat
    BY DEF Ledger, Inv, TablesOK, PositionRow
  <2>2. CASE q = p
    BY <1>10, <1>13, <2>2
  <2>3. CASE q # p
    BY <1>12, <1>13, <2>1, <2>3, FillsCounted
       DEF NoNewFills, Ledger, BookEvidence, Open
  <2> QED
    BY <2>2, <2>3
<1>15. /\ positions \in [Positions -> PositionRow] /\ journal \in Seq(Seq(Int))
       /\ account.realized_pnl \in Int
  BY DEF Ledger, Inv, TablesOK, MoneyEvidence, AccountRow
<1>16. /\ RealizedIn(positions') = RealizedIn(positions) + closed.realized_pnl
                                     - row.realized_pnl
       /\ ClosedIn(positions') = ClosedIn(positions) + LossOf(closed) - LossOf(row)
  BY <1>2, <1>6, <1>7, <1>9, <1>15, TableChanges
<1>17. /\ RealizedIn(positions) \in Int /\ ClosedIn(positions) \in Int
       /\ LossIn(journal) \in Int
  BY <1>15, TableSums, LossInOK
<1>18. /\ LossIn(journal') = GroupLoss(group) + LossIn(journal)
       /\ GroupLoss(group) \in Int /\ GroupLoss(group) >= 0
       /\ pnl < 0 => GroupLoss(group) >= -pnl
  BY <1>5, <1>15, LossInGrows, GroupLossBounds
<1>19. /\ LossOf(closed) \in Int /\ LossOf(row) \in Int
       /\ LossOf(closed) - LossOf(row) <= GroupLoss(group)
  BY <1>8, <1>9, <1>10, <1>18 DEF LossOf
<1>20. /\ Realized = RealizedIn(positions) /\ ClosedLoss = ClosedIn(positions)
       /\ JournalLoss = LossIn(journal)
  BY DEF Realized, RealizedIn, ClosedLoss, ClosedIn, JournalLoss, LossIn
<1>21. /\ Realized' = RealizedIn(positions') /\ ClosedLoss' = ClosedIn(positions')
       /\ JournalLoss' = LossIn(journal')
  BY DEF Realized, RealizedIn, ClosedLoss, ClosedIn, JournalLoss, LossIn
<1>22. ClosedLoss' <= JournalLoss'
  <2>1. ClosedIn(positions) <= LossIn(journal)
    BY <1>20 DEF Ledger, BookEvidence
  <2> QED
    BY <1>16, <1>17, <1>18, <1>19, <1>21, <2>1
<1>23. account'.realized_pnl = Realized' /\ account'.made
  <2>1. account.realized_pnl = RealizedIn(positions)
    BY <1>20 DEF Ledger, BookEvidence
  <2>2. account'.realized_pnl = account.realized_pnl + pnl /\ account'.made
    BY <1>2, <1>7 DEF Account
  <2>3. RealizedIn(positions') = RealizedIn(positions) + pnl
    BY <1>8, <1>9, <1>10, <1>16, <1>17
  <2> QED
    BY <1>21, <2>1, <2>2, <2>3
<1> QED
  BY <1>11, <1>14, <1>22, <1>23 DEF BookEvidence, Open

-----------------------------------------------------------------------------
LEMMA LedgerStep ==
    Inv /\ EquityInv /\ BookInv /\ LedgerInv /\ [Next]_vars => LedgerInv'
<1> SUFFICES ASSUME Inv, EquityInv, BookInv, LedgerInv, [Next]_vars
             PROVE  LedgerInv'
  OBVIOUS
<1>1. Inv' /\ MoneyEvidence /\ MoneyEvidence'
  BY RequestsStep, TablesStep, MoneyStep DEF Inv, LedgerInv
<1>2. ASSUME ~overlap'
      PROVE  AloneEvidence' /\ BookEvidence'
  <2>1. ~overlap
    BY <1>2, OverlapStays
  <2>2. Ledger
    BY <1>1, <2>1 DEF Ledger, LedgerInv
  <2>3. ASSUME NEW w \in Workers,
               \/ RunPipeline(w) \/ EvaluateRisk(w) \/ CreateDirectOrder(w)
               \/ RequestClose(w) \/ RequestMark(w)
        PROVE  AloneEvidence' /\ BookEvidence'
    BY <1>2, <2>2, <2>3, StartsLedger
  <2>4. ASSUME NEW w \in Workers,
               \/ LoadRiskState(w) \/ InsertApproval(w) \/ InsertRejection(w)
               \/ CreatePipelineOrder(w) \/ ReusePipelineOrder(w)
               \/ RefuseUpsert(w) \/ RefuseClose(w) \/ Break(w)
        PROVE  AloneEvidence' /\ BookEvidence'
    BY <2>2, <2>4, PlainLedger, LoadRiskLedger
  <2>5. ASSUME NEW w \in Workers,
               \/ ReadAccount(w) \/ WriteBackAccount(w) \/ ReadPosition(w)
               \/ UpsertFilled(w) \/ InsertFill(w) \/ SaveAccount(w)
               \/ InsertJournal(w)
        PROVE  AloneEvidence' /\ BookEvidence'
    BY <2>2, <2>5, ReadAccountLedger, WriteBackLedger, ReadPositionLedger,
       UpsertFilledLedger, InsertFillLedger, SaveAccountLedger,
       InsertJournalLedger, Zenon
  <2>6. ASSUME NEW w \in Workers,
               \/ ReadForClose(w) \/ CommitClose(w) \/ MarkPositions(w)
               \/ UpsertMarked(w) \/ SaveMarkedAccount(w)
        PROVE  AloneEvidence' /\ BookEvidence'
    BY <2>2, <2>6, ReadForCloseLedger, CommitCloseLedger,
       MarkPositionsLedger, UpsertMarkedLedger, SaveMarkedLedger, Zenon
  <2>7. CASE \/ SetKillSwitch \/ SignalAges \/ UNCHANGED vars
             \/ \E w \in Workers : ExpireDirectOrder(w)
    BY <2>2, <2>7, OthersLedger
  <2> QED
    BY <2>3, <2>4, <2>5, <2>6, <2>7, Zenon DEF Next
<1> QED
  BY <1>1, <1>2 DEF LedgerInv

LEMMA InitLedger == Init => LedgerInv
<1> SUFFICES ASSUME Init PROVE LedgerInv
  OBVIOUS
<1>1. MoneyEvidence /\ Inv
  BY InitMoney, InitInv
<1>2. AloneEvidence
  BY DEF Init, AloneEvidence, Current, Copying, Filling
<1>3. \A p \in Positions : /\ positions[p].status = "absent"
                           /\ positions[p].realized_pnl = 0
  BY DEF Init, NoRows, Absent, Row
<1>4. \A p \in Positions : BuyFills(p) = {}
  BY PaperAssumption DEF Init, BuyFills
<1>5. RealizedIn(positions) = 0 /\ ClosedIn(positions) = 0
  BY <1>1, <1>3, TableSums DEF Inv, TablesOK
<1>6. journal \in Seq(Seq(Int)) /\ journal = <<>>
  BY <1>1 DEF Init, MoneyEvidence
<1>7. LossIn(journal) = 0
  BY <1>6, LossInOK
<1>8. /\ Realized = 0 /\ ClosedLoss = 0 /\ JournalLoss = 0
  BY <1>5, <1>7 DEF Realized, RealizedIn, ClosedLoss, ClosedIn, JournalLoss, LossIn
<1>9. account.realized_pnl = 0
  BY DEF Init, DefaultAccount, Account
<1>10. BookEvidence
  BY <1>3, <1>4, <1>8, <1>9 DEF BookEvidence, Open
<1> QED
  BY <1>1, <1>2, <1>10 DEF LedgerInv

LEMMA LedgerHolds == Spec => []LedgerInv
  BY InvHolds, EquityHolds, BookHolds, InitLedger, LedgerStep, PTL DEF Spec

\* While requests do not overlap, and wherever one of them breaks off between
\* its statements, the account has realized what the positions have, and no
\* booked fill is missing from its position.
THEOREM BooksCorrect == Spec => []BooksAgree
<1>1. LedgerInv => BooksAgree
  BY DEF LedgerInv, BookEvidence, BooksAgree
<1> QED
  BY LedgerHolds, <1>1, PTL

-----------------------------------------------------------------------------
(* The loss limit.                                                         *)

(* Only the end of an evaluation and a close record an approval. *)
LEMMA Approvals ==
    ASSUME Inv, [Next]_vars, NEW d \in Decisions,
           decisions[d] = "none", decisions'[d] = "APPROVED"
    PROVE  \E v \in Workers : InsertApproval(v) \/ CommitClose(v)
<1>1. CASE Quiet
  BY <1>1 DEF Quiet
<1>2. ASSUME NEW v \in Workers, InsertRejection(v) PROVE FALSE
  BY <1>2 DEF InsertRejection, Inv, TablesOK
<1>3. ASSUME NEW v \in Workers,
             \/ CreatePipelineOrder(v) \/ CreateDirectOrder(v)
             \/ ExpireDirectOrder(v) \/ WriteBackAccount(v) \/ SaveAccount(v)
             \/ SaveMarkedAccount(v) \/ UpsertFilled(v) \/ UpsertMarked(v)
             \/ InsertFill(v)
      PROVE  FALSE
  BY <1>3 DEF CreatePipelineOrder, CreateDirectOrder, ExpireDirectOrder,
       PlaceOrder, WriteBackAccount, SaveAccount, SaveMarkedAccount,
       UpsertFilled, UpsertMarked, UpsertPosition, InsertFill
<1> QED
  BY <1>1, <1>2, <1>3, QuietOrWriter, Zenon DEF Writer

\* While requests do not overlap, an approval of an evaluated signal is
\* recorded either with the daily loss rule's warning in its rationale, or on
\* an account with equity whose closed positions have not lost the daily limit:
\* every close has reached the journal that load_risk_state_snapshot sums.
THEOREM LossLimitCorrect == Spec => LossLimitHolds
<1>1. ASSUME Inv, LedgerInv, [Next]_vars, NEW w \in Workers, NEW d \in Decisions,
             ~overlap, pc[w] \in {"approved", "warned"},
             decisions[d] = "none", decisions'[d] = "APPROVED"
      PROVE  d \in warned' \/ BelowLimit
  <2>1. AloneEvidence
    BY <1>1 DEF LedgerInv
  <2>2. PICK v \in Workers : InsertApproval(v) \/ CommitClose(v)
    BY <1>1, Approvals
  <2>3. v = w
    BY <1>1, <2>1, <2>2 DEF InsertApproval, CommitClose, AloneEvidence
  <2>4. InsertApproval(w)
    BY <1>1, <2>2, <2>3 DEF CommitClose
  <2>5. CASE pc[w] = "approved"
    BY <2>1, <2>5 DEF AloneEvidence, Current
  <2>6. CASE pc[w] = "warned"
    <3>1. PICK e \in FreeDecisions :
            /\ decisions' = [decisions EXCEPT ![e] = "APPROVED"]
            /\ warned' = warned \cup {e}
      BY <2>4, <2>6 DEF InsertApproval
    <3>2. e = d
      BY <1>1, <3>1 DEF Inv, TablesOK
    <3> QED
      BY <3>1, <3>2
  <2> QED
    BY <1>1, <2>5, <2>6
<1>2. Inv /\ LedgerInv /\ [Next]_vars =>
         [\A w \in Workers, d \in Decisions :
             /\ ~overlap
             /\ pc[w] \in {"approved", "warned"}
             /\ decisions[d] = "none" /\ decisions'[d] = "APPROVED"
             => d \in warned' \/ BelowLimit]_vars
  BY <1>1
<1> QED
  BY InvHolds, LedgerHolds, <1>2, PTL DEF Spec, LossLimitHolds
=============================================================================
