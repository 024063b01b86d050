---------------------------- MODULE Seeding_proofs ----------------------------
(***************************************************************************)
(* Proofs about Seeding, for any number of runs and years, any people and  *)
(* types that others change, and any data that is in the order its         *)
(* comments say: the script writes nothing before what it refers to, so    *)
(* that whatever was killed before it, a run that ends leaves all of it.   *)
(***************************************************************************)
EXTENDS Seeding, TLAPS, FiniteSetTheorems, SequenceTheorems, WellFoundedInduction

-----------------------------------------------------------------------------
(* Listing a set, and putting lists together *)

\* Of the subsets with a property, one has no smaller one with it.
LEMMA LeastSubset ==
  ASSUME NEW S, IsFiniteSet(S), NEW T, T \subseteq SUBSET S, T # {}
  PROVE  \E s \in T : \A u \in T : u \subseteq s => u = s
<1>1. T \subseteq FiniteSubsetsOf(S)
  BY FS_Subset DEF FiniteSubsetsOf
<1>2. \E s \in T : \A u \in T : ~(<<u, s>> \in StrictSubsetOrdering(S))
  BY <1>1, FS_StrictSubsetOrderingWellFounded, WFMin, Zenon
<1> QED
  BY <1>2 DEF StrictSubsetOrdering

Chosen(s) == CHOOSE x \in s : TRUE

\* f lists every subset of S.
Lister(f, S) ==
  f = [s \in SUBSET S |-> IF s = {} THEN <<>> ELSE Append(f[s \ {Chosen(s)}], Chosen(s))]

\* What is left of a finite set is smaller by one.
LEMMA ChosenRemoved ==
  ASSUME NEW S, IsFiniteSet(S), NEW s \in SUBSET S, s # {}
  PROVE  /\ Chosen(s) \in s /\ IsFiniteSet(s \ {Chosen(s)})
         /\ Cardinality(s) \in Nat /\ Cardinality(s \ {Chosen(s)}) = Cardinality(s) - 1
BY FS_Subset, FS_CardinalityType, FS_RemoveElement DEF Chosen

\* The recursive function of a list exists: a least set it is not defined on
\* would have a smaller one.
LEMMA ListerExists ==
  ASSUME NEW S, IsFiniteSet(S)
  PROVE  \E f : Lister(f, S)
<1> DEFINE Small(n) == {s \in SUBSET S : Cardinality(s) <= n}
           Rec(f, n) == f = [s \in Small(n) |->
             IF s = {} THEN <<>> ELSE Append(f[s \ {Chosen(s)}], Chosen(s))]
           Bad == {k \in SUBSET S : ~\E f : Rec(f, Cardinality(k))}
<1>0. \A s \in SUBSET S : /\ IsFiniteSet(s) /\ Cardinality(s) \in Nat
                          /\ Cardinality(s) <= Cardinality(S)
  BY FS_Subset, FS_CardinalityType
<1>1. \A s \in SUBSET S : s # {} =>
        Chosen(s) \in s /\ Cardinality(s \ {Chosen(s)}) = Cardinality(s) - 1
  BY ChosenRemoved
<1>2. Bad = {}
  <2>1. SUFFICES ASSUME Bad # {} PROVE FALSE
    OBVIOUS
  <2>2. PICK k \in Bad : \A u \in Bad : u \subseteq k => u = k
    <3>1. Bad \subseteq SUBSET S
      OBVIOUS
    <3> HIDE DEF Bad
    <3> QED
      BY <2>1, <3>1, LeastSubset
  <2>3. CASE k = {}
    <3>1. \A s \in Small(0) : s = {}
      BY <1>0, FS_EmptySet
    <3>2. Rec([s \in Small(0) |-> <<>>], 0)
      BY <3>1
    <3> QED
      BY <2>3, <3>2, FS_EmptySet
  <2>4. CASE k # {}
    <3> DEFINE n == Cardinality(k)
    <3>1. n \in Nat /\ Cardinality(k \ {Chosen(k)}) = n - 1 /\ n - 1 \in Nat
      BY <1>0, <1>1, <2>4
    <3>0. k \ {Chosen(k)} \notin Bad /\ k \ {Chosen(k)} \in SUBSET S
      <4>1. k \in SUBSET S
        OBVIOUS
      <4> HIDE DEF Bad
      <4> QED
        BY <1>1, <2>2, <2>4, <4>1
    <3>2. PICK g : Rec(g, n - 1)
      <4> HIDE DEF Rec
      <4> QED
        BY <3>0, <3>1
    <3> DEFINE f == [s \in Small(n) |->
                  IF s = {} THEN <<>> ELSE Append(g[s \ {Chosen(s)}], Chosen(s))]
    <3>3. \A s \in Small(n) :
            s # {} => s \ {Chosen(s)} \in Small(n - 1) /\ s \ {Chosen(s)} \in Small(n)
      <4> SUFFICES ASSUME NEW s \in SUBSET S, Cardinality(s) <= n, s # {}
                   PROVE  /\ s \ {Chosen(s)} \in SUBSET S
                          /\ Cardinality(s \ {Chosen(s)}) <= n - 1
                          /\ Cardinality(s \ {Chosen(s)}) <= n
        OBVIOUS
      <4>1. Cardinality(s) \in Nat /\ Cardinality(s \ {Chosen(s)}) = Cardinality(s) - 1
        BY <1>0, <1>1
      <4> HIDE DEF n
      <4> QED
        BY <3>1, <4>1
    <3>4. \A u \in Small(n - 1) : u \in Small(n)
      BY <1>0, <3>1
    <3> HIDE DEF Small, n
    <3>5. \A u \in Small(n - 1) : f[u] = g[u]
      BY <3>2, <3>4
    <3>6. Rec(f, n)
      BY <3>3, <3>5
    <3> QED
      BY <2>2, <3>6 DEF n
  <2> QED
    BY <2>3, <2>4
<1>3. \E f : Rec(f, Cardinality(S))
  BY <1>2
<1>4. Small(Cardinality(S)) = SUBSET S
  BY <1>0
<1> HIDE DEF Small
<1> QED
  BY <1>3, <1>4 DEF Lister

\* A list of a finite set has its elements and no others.
LEMMA ListedIs ==
  ASSUME NEW S, IsFiniteSet(S)
  PROVE  Listed(S) \in Seq(S) /\ ToSet(Listed(S)) = S
<1>1. \E f : Lister(f, S)
  BY ListerExists
<1>2. PICK f : Lister(f, S) /\ Listed(S) = f[S]
  BY <1>1 DEF Listed, FoldSet, MapThenFoldSet, Lister, Chosen
<1> DEFINE Bad == {s \in SUBSET S : ~(f[s] \in Seq(s) /\ ToSet(f[s]) = s)}
<1>3. SUFFICES ASSUME Bad # {} PROVE FALSE
  BY <1>2
<1>4. PICK s \in Bad : \A u \in Bad : u \subseteq s => u = s
  <2>1. Bad \subseteq SUBSET S
    OBVIOUS
  <2> HIDE DEF Bad
  <2> QED
    BY <1>3, <2>1, LeastSubset
<1>5. f[s] = IF s = {} THEN <<>> ELSE Append(f[s \ {Chosen(s)}], Chosen(s))
  BY <1>2 DEF Lister
<1>6. s # {}
  <2>1. << >> \in Seq({}) /\ ToSet(<< >>) = {}
    BY EmptySeq DEF ToSet
  <2> QED
    BY <1>4, <1>5, <2>1
<1> DEFINE c == Chosen(s)
           rest == s \ {c}
<1>7. c \in s /\ f[rest] \in Seq(rest) /\ ToSet(f[rest]) = rest
  BY <1>4, <1>6 DEF Chosen
<1>8. f[s] = Append(f[rest], c) /\ f[rest] \in Seq(s)
  BY <1>5, <1>6, <1>7, SeqMonotonic
<1> HIDE DEF Bad, c, rest
<1>9. f[s] \in Seq(s) /\ ToSet(f[s]) = ToSet(f[rest]) \union {c}
  <2>1. /\ f[s] \in Seq(s) /\ Len(f[s]) = Len(f[rest]) + 1 /\ Len(f[rest]) \in Nat
        /\ \A i \in 1..Len(f[rest]) : f[s][i] = f[rest][i]
        /\ f[s][Len(f[rest]) + 1] = c
        /\ DOMAIN f[rest] = 1..Len(f[rest]) /\ DOMAIN f[s] = 1..Len(f[rest]) + 1
    BY <1>7, <1>8, AppendProperties, LenProperties
  <2>2. \A i \in DOMAIN f[s] : i \in DOMAIN f[rest] \/ i = Len(f[rest]) + 1
    BY <2>1
  <2>3. \A i \in DOMAIN f[rest] : i \in DOMAIN f[s] /\ f[s][i] = f[rest][i]
    BY <2>1
  <2>4. Len(f[rest]) + 1 \in DOMAIN f[s]
    BY <2>1
  <2>5. \A x \in ToSet(f[s]) : x \in ToSet(f[rest]) \union {c}
    BY <2>1, <2>2, <2>3 DEF ToSet
  <2>6. \A x \in ToSet(f[rest]) \union {c} : x \in ToSet(f[s])
    BY <2>1, <2>3, <2>4 DEF ToSet
  <2> QED
    BY <2>1, <2>5, <2>6
<1> QED
  BY <1>4, <1>7, <1>9 DEF Bad, rest

\* A set of numbers has a least one.
LEMMA LeastNat ==
  ASSUME NEW T, T \subseteq Nat, T # {}
  PROVE  \E n \in T : \A m \in T : n <= m
<1>1. \E n \in T : \A m \in T : ~(<<m, n>> \in OpToRel(<, Nat))
  BY NatLessThanWellFounded, WFMin, Zenon
<1>2. PICK n \in T : \A m \in T : ~(<<m, n>> \in OpToRel(<, Nat))
  BY <1>1
<1>3. \A m \in T : ~(m < n)
  BY <1>2 DEF OpToRel
<1> QED
  BY <1>3

\* f puts together the first of the lists of ss.
Joins(f, ss, n) == f = [i \in 1..n |-> IF i = 1 THEN ss[i] ELSE f[i - 1] \o ss[i]]

\* The recursive function behind FlattenSeq exists.
LEMMA JoinsExist ==
  ASSUME NEW ss, NEW n \in Nat
  PROVE  \E f : Joins(f, ss, n)
<1> DEFINE Bad == {k \in Nat : ~\E f : Joins(f, ss, k)}
<1>1. SUFFICES ASSUME Bad # {} PROVE FALSE
  OBVIOUS
<1>2. PICK k \in Bad : \A m \in Bad : k <= m
  <2> HIDE DEF Bad
  <2>1. Bad \subseteq Nat
    BY DEF Bad
  <2> QED
    BY <1>1, <2>1, LeastNat
<1>3. k # 0
  <2>1. Joins([i \in 1..0 |-> <<>>], ss, 0)
    BY DEF Joins
  <2> QED
    BY <1>2, <2>1
<1>4. k - 1 \in Nat /\ k \in Nat /\ k - 1 \notin Bad
  BY <1>2, <1>3
<1>5. PICK g : Joins(g, ss, k - 1)
  BY <1>4
<1> DEFINE f == [i \in 1..k |-> IF i = 1 THEN ss[i] ELSE g[i - 1] \o ss[i]]
<1> HIDE DEF Bad
<1>6. \A i \in 1..(k - 1) : f[i] = g[i]
  <2> SUFFICES ASSUME NEW i \in 1..(k - 1) PROVE f[i] = g[i]
    OBVIOUS
  <2>1. i \in 1..k
    BY <1>4
  <2>2. g[i] = IF i = 1 THEN ss[i] ELSE g[i - 1] \o ss[i]
    BY <1>5, Zenon DEF Joins
  <2> QED
    BY <2>1, <2>2, Zenon
<1>7. Joins(f, ss, k)
  <2>1. \A i \in 1..k : i # 1 => i - 1 \in 1..(k - 1)
    BY <1>4
  <2>2. \A i \in 1..k : i # 1 => f[i - 1] = g[i - 1]
    BY <1>6, <2>1
  <2>3. f = [i \in 1..k |-> IF i = 1 THEN ss[i] ELSE g[i - 1] \o ss[i]]
    OBVIOUS
  <2> HIDE DEF f
  <2>4. f = [i \in 1..k |-> IF i = 1 THEN ss[i] ELSE f[i - 1] \o ss[i]]
    BY <2>2, <2>3
  <2> QED
    BY <2>4 DEF Joins
<1> QED
  BY <1>2, <1>7 DEF Bad

\* What FlattenSeq gives is the last of the lists put together one by one.
LEMMA FlattenIs ==
  ASSUME NEW T, NEW ss \in Seq(Seq(T))
  PROVE  \/ ss = <<>> /\ FlattenSeq(ss) = <<>>
         \/ /\ Len(ss) \in Nat \ {0}
            /\ \E f : Joins(f, ss, Len(ss)) /\ FlattenSeq(ss) = f[Len(ss)]
<1>1. Len(ss) \in Nat
  BY LenProperties
<1>2. \E f : Joins(f, ss, Len(ss))
  BY <1>1, JoinsExist
<1>3. CASE Len(ss) = 0
  <2>1. ss = <<>>
    BY <1>3, EmptySeq
  <2> QED
    BY <1>3, <2>1 DEF FlattenSeq
<1>4. CASE Len(ss) # 0
  <2>1. \E f : Joins(f, ss, Len(ss)) /\ FlattenSeq(ss) = f[Len(ss)]
    BY <1>2, <1>4 DEF FlattenSeq, Joins
  <2> QED
    BY <1>1, <1>4, <2>1
<1> QED
  BY <1>3, <1>4

\* ToSet of two lists put together.
LEMMA ToSetConcat ==
  ASSUME NEW T, NEW s \in Seq(T), NEW t \in Seq(T)
  PROVE  s \o t \in Seq(T) /\ ToSet(s \o t) = ToSet(s) \union ToSet(t)
<1>1. /\ Len(s) \in Nat /\ Len(t) \in Nat /\ s \o t \in Seq(T)
      /\ DOMAIN s = 1..Len(s) /\ DOMAIN t = 1..Len(t)
      /\ DOMAIN (s \o t) = 1..(Len(s) + Len(t))
      /\ \A i \in 1..(Len(s) + Len(t)) :
           (s \o t)[i] = IF i <= Len(s) THEN s[i] ELSE t[i - Len(s)]
  BY ConcatProperties, LenProperties
<1>2. \A i \in DOMAIN s : i \in DOMAIN (s \o t) /\ (s \o t)[i] = s[i]
  BY <1>1
<1>3. \A i \in DOMAIN t :
        i + Len(s) \in DOMAIN (s \o t) /\ (s \o t)[i + Len(s)] = t[i]
  BY <1>1
<1>4. \A i \in DOMAIN (s \o t) : \/ i \in DOMAIN s /\ (s \o t)[i] = s[i]
                                 \/ i - Len(s) \in DOMAIN t /\ (s \o t)[i] = t[i - Len(s)]
  BY <1>1
<1>5. \A x \in ToSet(s \o t) : x \in ToSet(s) \union ToSet(t)
  BY <1>4 DEF ToSet
<1>6. \A x \in ToSet(s) : x \in ToSet(s \o t)
  BY <1>2 DEF ToSet
<1>7. \A x \in ToSet(t) : x \in ToSet(s \o t)
  BY <1>3 DEF ToSet
<1> QED
  BY <1>1, <1>5, <1>6, <1>7

\* FlattenSeq gives what is in one of the lists.
LEMMA FlattenHas ==
  ASSUME NEW T, NEW ss \in Seq(Seq(T))
  PROVE  /\ FlattenSeq(ss) \in Seq(T)
         /\ ToSet(FlattenSeq(ss)) = UNION {ToSet(ss[i]) : i \in DOMAIN ss}
<1>1. CASE ss = <<>> /\ FlattenSeq(ss) = <<>>
  <2>1. << >> \in Seq(T) /\ DOMAIN << >> = {}
    BY EmptySeq
  <2> QED
    BY <1>1, <2>1 DEF ToSet
<1>2. CASE /\ Len(ss) \in Nat \ {0}
           /\ \E f : Joins(f, ss, Len(ss)) /\ FlattenSeq(ss) = f[Len(ss)]
  <2> DEFINE n == Len(ss)
  <2>1. PICK f : Joins(f, ss, n) /\ FlattenSeq(ss) = f[n]
    BY <1>2
  <2> DEFINE Bad == {k \in 1..n : ~(/\ f[k] \in Seq(T)
                             /\ ToSet(f[k]) = UNION {ToSet(ss[i]) : i \in 1..k})}
  <2>2. n \in Nat \ {0} /\ DOMAIN ss = 1..n /\ \A i \in 1..n : ss[i] \in Seq(T)
    BY <1>2, LenProperties
  <2>3. SUFFICES ASSUME Bad # {} PROVE FALSE
    <3> HIDE DEF n
    <3>1. n \in 1..n
      BY <2>2
    <3> QED
      BY <2>1, <2>2, <3>1
  <2>4. PICK k \in Bad : \A m \in Bad : k <= m
    <3>1. Bad \subseteq Nat
      BY <2>2
    <3> HIDE DEF Bad
    <3> QED
      BY <2>3, <3>1, LeastNat
  <2>5. k \in 1..n /\ f[k] = IF k = 1 THEN ss[k] ELSE f[k - 1] \o ss[k]
    BY <2>1, <2>4 DEF Joins
  <2> HIDE DEF n
  <2>6. CASE k = 1
    <3>1. {ToSet(ss[i]) : i \in 1..1} = {ToSet(ss[1])}
      OBVIOUS
    <3> QED
      BY <2>2, <2>4, <2>5, <2>6, <3>1
  <2>7. CASE k # 1
    <3>1. k - 1 \in 1..n /\ k - 1 \notin Bad
      <4> HIDE DEF Bad
      <4> QED
        BY <2>2, <2>4, <2>5, <2>7
    <3>2. /\ f[k - 1] \in Seq(T)
          /\ ToSet(f[k - 1]) = UNION {ToSet(ss[i]) : i \in 1..(k - 1)}
      BY <3>1
    <3>3. f[k] \in Seq(T) /\ ToSet(f[k]) = ToSet(f[k - 1]) \union ToSet(ss[k])
      BY <2>2, <2>5, <2>7, <3>2, ToSetConcat
    <3>4. 1..k = 1..(k - 1) \union {k}
      BY <2>2, <2>5
    <3>5. ToSet(f[k]) = UNION {ToSet(ss[i]) : i \in 1..k}
      BY <3>2, <3>3, <3>4
    <3> QED
      BY <2>4, <3>3, <3>5
  <2> QED
    BY <2>6, <2>7
<1> QED
  BY <1>1, <1>2, FlattenIs

-----------------------------------------------------------------------------
(* The order of the script *)

TableLines(table, keys) == {[table |-> table, key |-> k] : k \in keys}

\* What may stand in the script: a line of a table and one of its keys.
ScriptLines ==
  UNION { TableLines("permission", PERMISSIONS),
          TableLines("role", DOMAIN ACCESS_ROLES),
          TableLines("grant", UNION {{role} \X ACCESS_ROLES[role] : role \in DOMAIN ACCESS_ROLES}),
          TableLines("title", JOB_TITLES),
          TableLines("department", DOMAIN DEPARTMENTS),
          TableLines("employee", Employees),
          TableLines("entry", UNION {{e} \X DOMAIN EMPLOYEES[e].history : e \in Employees}),
          TableLines("hold", UNION {{e} \X EMPLOYEES[e].accessRoles : e \in Employees}),
          TableLines("head", {e \in Employees : IsHead(e)}),
          TableLines("type", DOMAIN LEAVE_TYPES),
          TableLines("policy", DOMAIN LEAVE_TYPES),
          TableLines("account", Employees) }

\* The managers a history names.
Managers(e) ==
  {EMPLOYEES[e].history[k].terms.manager : k \in DOMAIN EMPLOYEES[e].history} \ {NoOne}

\* The lines a line refers to: the role of a grant or a holder, the parent of a
\* department, the managers of a person, and everyone for a history.
Needs(line) ==
  CASE line.table = "grant" -> TableLines("role", {line.key[1]})
    [] line.table = "hold" -> TableLines("role", {line.key[2]})
    [] line.table = "department" ->
         TableLines("department", {DEPARTMENTS[line.key]} \ {NoDepartment})
    [] line.table = "employee" -> TableLines("employee", Managers(line.key))
    [] line.table = "entry" -> TableLines("employee", Employees)
    [] OTHER -> {}

Before(s, i) == {s[j] : j \in 1..(i - 1)}

\* A line has what it refers to before it, and no person comes after an entry.
Ready(line, before) ==
  /\ Needs(line) \subseteq before
  /\ line.table = "employee" => \A other \in before : other.table # "entry"

\* s may follow the lines of have.
Follows(have, s) ==
  s \in Seq(ScriptLines) /\ \A i \in DOMAIN s : Ready(s[i], have \union Before(s, i))

\* A list that follows have, and one that follows have and the list.
LEMMA FollowsConcat ==
  ASSUME NEW have, NEW s, NEW t, Follows(have, s), Follows(have \union ToSet(s), t)
  PROVE  Follows(have, s \o t) /\ ToSet(s \o t) = ToSet(s) \union ToSet(t)
<1>1. /\ Len(s) \in Nat /\ Len(t) \in Nat /\ s \o t \in Seq(ScriptLines)
      /\ DOMAIN s = 1..Len(s) /\ DOMAIN t = 1..Len(t)
      /\ DOMAIN (s \o t) = 1..(Len(s) + Len(t))
      /\ \A i \in 1..(Len(s) + Len(t)) :
           (s \o t)[i] = IF i <= Len(s) THEN s[i] ELSE t[i - Len(s)]
  BY ConcatProperties, LenProperties DEF Follows
<1>2. ToSet(s \o t) = ToSet(s) \union ToSet(t)
  BY ToSetConcat DEF Follows
<1>3. ASSUME NEW i \in DOMAIN s
      PROVE  Ready((s \o t)[i], have \union Before(s \o t, i))
  <2>1. (s \o t)[i] = s[i] /\ \A j \in 1..(i - 1) : (s \o t)[j] = s[j]
    BY <1>1
  <2>2. Before(s \o t, i) = Before(s, i)
    BY <2>1 DEF Before
  <2> QED
    BY <2>1, <2>2 DEF Follows
<1>4. ASSUME NEW i \in DOMAIN t
      PROVE  Ready((s \o t)[i + Len(s)], have \union Before(s \o t, i + Len(s)))
  <2> DEFINE n == i + Len(s)
  <2>1. (s \o t)[n] = t[i] /\ n \in Nat
    BY <1>1
  <2>2. \A j \in 1..(n - 1) :
          \/ j \in DOMAIN s /\ (s \o t)[j] = s[j]
          \/ j - Len(s) \in 1..(i - 1) /\ (s \o t)[j] = t[j - Len(s)]
    BY <1>1
  <2>3. \A j \in DOMAIN s : j \in 1..(n - 1) /\ (s \o t)[j] = s[j]
    BY <1>1
  <2>4. \A j \in 1..(i - 1) :
          j + Len(s) \in 1..(n - 1) /\ (s \o t)[j + Len(s)] = t[j]
    BY <1>1
  <2> HIDE DEF n
  <2>5. \A x \in Before(s \o t, n) : x \in ToSet(s) \union Before(t, i)
    BY <2>2 DEF Before, ToSet
  <2>6. \A x \in ToSet(s) : x \in Before(s \o t, n)
    BY <2>3 DEF Before, ToSet
  <2>7. \A x \in Before(t, i) : x \in Before(s \o t, n)
    BY <2>4 DEF Before
  <2>8. have \union Before(s \o t, n) = (have \union ToSet(s)) \union Before(t, i)
    BY <2>5, <2>6, <2>7
  <2>9. Ready(t[i], (have \union ToSet(s)) \union Before(t, i))
    BY DEF Follows
  <2> QED
    BY <2>1, <2>8, <2>9 DEF n
<1>5. ASSUME NEW i \in DOMAIN (s \o t)
      PROVE  Ready((s \o t)[i], have \union Before(s \o t, i))
  <2>1. CASE i \in DOMAIN s
    BY <1>3, <2>1
  <2>2. CASE i \notin DOMAIN s
    <3>1. i - Len(s) \in DOMAIN t /\ (i - Len(s)) + Len(s) = i
      BY <1>1, <2>2
    <3> QED
      BY <1>4, <3>1
  <2> QED
    BY <2>1, <2>2
<1> QED
  BY <1>1, <1>2, <1>5 DEF Follows

\* A list of lists each of which may follow have, whatever else is there.
LEMMA FollowsFlatten ==
  ASSUME NEW have, NEW ss \in Seq(Seq(ScriptLines)),
         \A i \in DOMAIN ss : \A more \in SUBSET ScriptLines :
           Follows(have \union more, ss[i])
  PROVE  Follows(have, FlattenSeq(ss))
<1>1. CASE ss = <<>> /\ FlattenSeq(ss) = <<>>
  <2>1. << >> \in Seq(ScriptLines) /\ DOMAIN << >> = {}
    BY EmptySeq
  <2> QED
    BY <1>1, <2>1 DEF Follows
<1>2. CASE /\ Len(ss) \in Nat \ {0}
           /\ \E f : Joins(f, ss, Len(ss)) /\ FlattenSeq(ss) = f[Len(ss)]
  <2> DEFINE n == Len(ss)
  <2>1. PICK f : Joins(f, ss, n) /\ FlattenSeq(ss) = f[n]
    BY <1>2
  <2> DEFINE Bad == {k \in 1..n : ~Follows(have, f[k])}
  <2>2. n \in Nat \ {0} /\ DOMAIN ss = 1..n
    BY <1>2, LenProperties
  <2>3. SUFFICES ASSUME Bad # {} PROVE FALSE
    <3> HIDE DEF n
    <3>1. n \in 1..n
      BY <2>2
    <3> QED
      BY <2>1, <3>1
  <2>4. PICK k \in Bad : \A m \in Bad : k <= m
    <3>1. Bad \subseteq Nat
      BY <2>2
    <3> HIDE DEF Bad
    <3> QED
      BY <2>3, <3>1, LeastNat
  <2>5. k \in 1..n /\ f[k] = IF k = 1 THEN ss[k] ELSE f[k - 1] \o ss[k]
    BY <2>1, <2>4 DEF Joins
  <2> HIDE DEF n
  <2>6. CASE k = 1
    <3>1. Follows(have \union {}, ss[k])
      BY <2>2, <2>5
    <3>2. have \union {} = have
      OBVIOUS
    <3> QED
      BY <2>4, <2>5, <2>6, <3>1, <3>2
  <2>7. CASE k # 1
    <3>1. k - 1 \in 1..n /\ k - 1 \notin Bad
      <4> HIDE DEF Bad
      <4> QED
        BY <2>2, <2>4, <2>5, <2>7
    <3>2. Follows(have, f[k - 1])
      BY <3>1
    <3>3. ToSet(f[k - 1]) \in SUBSET ScriptLines
      BY <3>2, LenProperties DEF Follows, ToSet
    <3>4. Follows(have \union ToSet(f[k - 1]), ss[k])
      BY <2>2, <2>5, <3>3
    <3>5. Follows(have, f[k])
      BY <2>5, <2>7, <3>2, <3>4, FollowsConcat
    <3> QED
      BY <2>4, <3>5
  <2> QED
    BY <2>6, <2>7
<1> QED
  BY <1>1, <1>2, FlattenIs

\* Lines that refer to nothing but what is there.
LEMMA FollowsFreely ==
  ASSUME NEW have, NEW s \in Seq(ScriptLines),
         \A line \in ToSet(s) : Needs(line) \subseteq have /\ line.table # "employee"
  PROVE  Follows(have, s)
BY DEF Follows, Ready, ToSet

\* What a table of seed-data.ts makes in the script.
LEMMA LinesHave ==
  ASSUME NEW T, NEW keys \in Seq(T), NEW table
  PROVE  /\ Lines(table, keys) \in Seq(TableLines(table, T))
         /\ ToSet(Lines(table, keys)) = TableLines(table, ToSet(keys))
         /\ DOMAIN Lines(table, keys) = DOMAIN keys
         /\ \A i \in DOMAIN keys :
              Lines(table, keys)[i] = [table |-> table, key |-> keys[i]]
<1>1. DOMAIN keys = 1..Len(keys) /\ Len(keys) \in Nat
      /\ \A i \in DOMAIN keys : keys[i] \in T
  BY LenProperties
<1>2. Lines(table, keys) \in [1..Len(keys) -> TableLines(table, T)]
  BY <1>1 DEF Lines, TableLines
<1>3. Lines(table, keys) \in Seq(TableLines(table, T))
  BY <1>1, <1>2, SeqDef
<1> QED
  BY <1>3 DEF Lines, ToSet, TableLines

\* A function of the elements of a list is a list.
LEMMA MappedSeq ==
  ASSUME NEW T, NEW keys \in Seq(T), NEW V, NEW ss,
         ss \in [DOMAIN keys -> V]
  PROVE  ss \in Seq(V) /\ DOMAIN ss = DOMAIN keys
<1>1. DOMAIN keys = 1..Len(keys) /\ Len(keys) \in Nat
  BY LenProperties
<1> QED
  BY <1>1, SeqDef

\* Lists that may stand in the script.
LEMMA InScript ==
  ASSUME NEW table, NEW T, TableLines(table, T) \subseteq ScriptLines,
         NEW keys \in Seq(T)
  PROVE  Lines(table, keys) \in Seq(ScriptLines)
BY LinesHave, SeqMonotonic

\* The parts of the script.
ThePermissions == Lines("permission", Listed(PERMISSIONS))
TheRoles == ForEach(Listed(DOMAIN ACCESS_ROLES), RoleLines)
TheTitles == Lines("title", Listed(JOB_TITLES))
TheParents == Lines("department", Listed(Parents))
TheChildren == Lines("department", Listed(DOMAIN DEPARTMENTS \ Parents))
ThePeople == Lines("employee", Order)
TheEntries == Lines("entry", ForEach(Order, Entries))
TheHolders == ForEach(Order, HoldLines)
TheHeads == ForEach(Order, HeadLines)
TheLeave == ForEach(Listed(DOMAIN LEAVE_TYPES), PolicyLines)
TheAccounts == Lines("account", Order)

Granted == UNION {{role} \X ACCESS_ROLES[role] : role \in DOMAIN ACCESS_ROLES}
Recorded == UNION {{e} \X DOMAIN EMPLOYEES[e].history : e \in Employees}
Held == UNION {{e} \X EMPLOYEES[e].accessRoles : e \in Employees}
Heads == {e \in Employees : IsHead(e)}

\* Every table of lines is a part of the lines the script is made of.
LEMMA ScriptLinesAre ==
  /\ TableLines("permission", PERMISSIONS) \subseteq ScriptLines
  /\ TableLines("role", DOMAIN ACCESS_ROLES) \subseteq ScriptLines
  /\ TableLines("grant", Granted) \subseteq ScriptLines
  /\ TableLines("title", JOB_TITLES) \subseteq ScriptLines
  /\ TableLines("department", DOMAIN DEPARTMENTS) \subseteq ScriptLines
  /\ TableLines("employee", Employees) \subseteq ScriptLines
  /\ TableLines("entry", Recorded) \subseteq ScriptLines
  /\ TableLines("hold", Held) \subseteq ScriptLines
  /\ TableLines("head", Heads) \subseteq ScriptLines
  /\ TableLines("type", DOMAIN LEAVE_TYPES) \subseteq ScriptLines
  /\ TableLines("policy", DOMAIN LEAVE_TYPES) \subseteq ScriptLines
  /\ TableLines("account", Employees) \subseteq ScriptLines
BY DEF ScriptLines, Granted, Recorded, Held, Heads

\* The parts that list a table.
LEMMA PlainPart ==
  ASSUME NEW table, NEW T, IsFiniteSet(T), TableLines(table, T) \subseteq ScriptLines
  PROVE  /\ Lines(table, Listed(T)) \in Seq(ScriptLines)
         /\ ToSet(Lines(table, Listed(T))) = TableLines(table, T)
BY ListedIs, LinesHave, InScript

\* The parts in the order of the people.
LEMMA PeoplePart ==
  ASSUME NEW table, TableLines(table, Employees) \subseteq ScriptLines
  PROVE  /\ Lines(table, Order) \in Seq(ScriptLines)
         /\ ToSet(Lines(table, Order)) = TableLines(table, Employees)
<1>1. Order \in Seq(Employees) /\ ToSet(Order) = Employees
  BY ManagersFirst DEF Employees, ToSet
<1> QED
  BY <1>1, LinesHave, InScript

\* One line.
LEMMA OneLine ==
  ASSUME NEW table, NEW key, TableLines(table, {key}) \subseteq ScriptLines
  PROVE  /\ Lines(table, <<key>>) \in Seq(ScriptLines)
         /\ ToSet(Lines(table, <<key>>)) = TableLines(table, {key})
<1>1. <<key>> \in Seq({key}) /\ ToSet(<<key>>) = {key}
  BY DEF ToSet
<1> QED
  BY <1>1, LinesHave, InScript

\* A role comes before its grants, whatever was written so far.
LEMMA RoleLinesFollow ==
  ASSUME NEW role \in DOMAIN ACCESS_ROLES, NEW have
  PROVE  /\ Follows(have, RoleLines(role))
         /\ ToSet(RoleLines(role)) = TableLines("role", {role})
              \union TableLines("grant", {role} \X ACCESS_ROLES[role])
<1> DEFINE first == Lines("role", <<role>>)
           rest == Lines("grant", Listed({role} \X ACCESS_ROLES[role]))
<1>1. first \in Seq(ScriptLines) /\ ToSet(first) = TableLines("role", {role})
  <2>1. TableLines("role", {role}) \subseteq ScriptLines
    BY ScriptLinesAre DEF TableLines
  <2> QED
    BY <2>1, OneLine
<1>2. /\ rest \in Seq(ScriptLines)
      /\ ToSet(rest) = TableLines("grant", {role} \X ACCESS_ROLES[role])
  <2>1. IsFiniteSet({role} \X ACCESS_ROLES[role])
    BY TablesFinite, FS_Product, FS_Singleton
  <2>2. TableLines("grant", {role} \X ACCESS_ROLES[role]) \subseteq ScriptLines
    <3>1. {role} \X ACCESS_ROLES[role] \subseteq Granted
      BY DEF Granted
    <3> QED
      BY <3>1, ScriptLinesAre DEF TableLines
  <2> QED
    BY <2>1, <2>2, PlainPart
<1>3. Follows(have, first)
  BY <1>1, FollowsFreely DEF TableLines, Needs
<1>4. Follows(have \union ToSet(first), rest)
  <2>1. ASSUME NEW line \in ToSet(rest)
        PROVE  line.table = "grant" /\ line.key[1] = role
    <3>1. PICK k \in {role} \X ACCESS_ROLES[role] : line = [table |-> "grant", key |-> k]
      BY <1>2 DEF TableLines
    <3>2. k[1] = role
      OBVIOUS
    <3> QED
      BY <3>1, <3>2
  <2>2. \A line \in ToSet(rest) : Needs(line) \subseteq ToSet(first)
    BY <1>1, <2>1 DEF Needs
  <2> HIDE DEF first, rest
  <2> QED
    BY <1>2, <2>1, <2>2, FollowsFreely
<1>5. RoleLines(role) = first \o rest
  BY DEF RoleLines
<1> HIDE DEF first, rest
<1>6. Follows(have, first \o rest) /\ ToSet(first \o rest) = ToSet(first) \union ToSet(rest)
  BY <1>3, <1>4, FollowsConcat
<1> QED
  BY <1>1, <1>2, <1>5, <1>6

\* The roles and their grants, role by role.
LEMMA RolesFollow ==
  ASSUME NEW have
  PROVE  /\ Follows(have, TheRoles)
         /\ ToSet(TheRoles) = TableLines("role", DOMAIN ACCESS_ROLES)
                                \union TableLines("grant", Granted)
<1> DEFINE keys == Listed(DOMAIN ACCESS_ROLES)
           ss == [i \in DOMAIN keys |-> RoleLines(keys[i])]
<1>1. keys \in Seq(DOMAIN ACCESS_ROLES) /\ ToSet(keys) = DOMAIN ACCESS_ROLES
  BY ListedIs, TablesFinite
<1>2. \A i \in DOMAIN keys : keys[i] \in DOMAIN ACCESS_ROLES
  BY <1>1, LenProperties
<1>3. \A i \in DOMAIN keys : RoleLines(keys[i]) \in Seq(ScriptLines)
  BY <1>2, RoleLinesFollow DEF Follows
<1> HIDE DEF keys
<1>4. ss \in Seq(Seq(ScriptLines)) /\ DOMAIN ss = DOMAIN keys
  <2>1. ss \in [DOMAIN keys -> Seq(ScriptLines)]
    BY <1>3
  <2> HIDE DEF ss
  <2> QED
    BY <1>1, <2>1, MappedSeq
<1>5. TheRoles = FlattenSeq(ss)
  BY DEF TheRoles, ForEach, keys
<1>6. \A i \in DOMAIN ss : ss[i] = RoleLines(keys[i])
  OBVIOUS
<1> HIDE DEF ss
<1>7. Follows(have, TheRoles)
  BY <1>2, <1>4, <1>5, <1>6, RoleLinesFollow, FollowsFlatten
<1>8. ToSet(TheRoles) = UNION {ToSet(ss[i]) : i \in DOMAIN ss}
  BY <1>4, <1>5, FlattenHas
<1>9. \A i \in DOMAIN ss : ToSet(ss[i]) = TableLines("role", {keys[i]})
        \union TableLines("grant", {keys[i]} \X ACCESS_ROLES[keys[i]])
  BY <1>2, <1>4, <1>6, RoleLinesFollow
<1>10. \A x \in ToSet(TheRoles) : x \in TableLines("role", DOMAIN ACCESS_ROLES)
                                \union TableLines("grant", Granted)
  BY <1>2, <1>4, <1>8, <1>9 DEF TableLines, Granted
<1>11. \A x \in TableLines("role", DOMAIN ACCESS_ROLES)
                  \union TableLines("grant", Granted) : x \in ToSet(TheRoles)
  <2>1. \A role \in DOMAIN ACCESS_ROLES : \E i \in DOMAIN ss : keys[i] = role
    BY <1>1, <1>4 DEF ToSet
  <2> QED
    BY <1>8, <1>9, <2>1 DEF TableLines, Granted
<1> QED
  BY <1>7, <1>10, <1>11

\* A leave type comes before its opening version.
LEMMA PoliciesFollow ==
  ASSUME NEW have
  PROVE  /\ Follows(have, TheLeave)
         /\ ToSet(TheLeave) = TableLines("type", DOMAIN LEAVE_TYPES)
                                \union TableLines("policy", DOMAIN LEAVE_TYPES)
<1> DEFINE keys == Listed(DOMAIN LEAVE_TYPES)
           ss == [i \in DOMAIN keys |-> PolicyLines(keys[i])]
<1>1. keys \in Seq(DOMAIN LEAVE_TYPES) /\ ToSet(keys) = DOMAIN LEAVE_TYPES
  BY ListedIs, TablesFinite
<1>2. \A i \in DOMAIN keys : keys[i] \in DOMAIN LEAVE_TYPES
  BY <1>1, LenProperties
<1>3. ASSUME NEW t \in DOMAIN LEAVE_TYPES
      PROVE  /\ PolicyLines(t) \in Seq(ScriptLines)
             /\ ToSet(PolicyLines(t)) = TableLines("type", {t}) \union TableLines("policy", {t})
  <2>1. TableLines("type", {t}) \subseteq ScriptLines /\ TableLines("policy", {t}) \subseteq ScriptLines
    BY ScriptLinesAre DEF TableLines
  <2> QED
    <3>1. /\ Lines("type", <<t>>) \in Seq(ScriptLines)
          /\ ToSet(Lines("type", <<t>>)) = TableLines("type", {t})
          /\ Lines("policy", <<t>>) \in Seq(ScriptLines)
          /\ ToSet(Lines("policy", <<t>>)) = TableLines("policy", {t})
      BY <2>1, OneLine
    <3> QED
      BY <3>1, ToSetConcat DEF PolicyLines
<1> HIDE DEF keys
<1>4. ss \in Seq(Seq(ScriptLines)) /\ DOMAIN ss = DOMAIN keys
  <2>1. ss \in [DOMAIN keys -> Seq(ScriptLines)]
    BY <1>2, <1>3
  <2> HIDE DEF ss
  <2> QED
    BY <1>1, <2>1, MappedSeq
<1>5. TheLeave = FlattenSeq(ss)
  BY DEF TheLeave, ForEach, keys
<1>6. \A i \in DOMAIN ss : ss[i] = PolicyLines(keys[i])
  OBVIOUS
<1> HIDE DEF ss
<1>8. /\ TheLeave \in Seq(ScriptLines)
      /\ ToSet(TheLeave) = UNION {ToSet(ss[i]) : i \in DOMAIN ss}
  BY <1>4, <1>5, FlattenHas
<1>9. \A i \in DOMAIN ss :
        ToSet(ss[i]) = TableLines("type", {keys[i]}) \union TableLines("policy", {keys[i]})
  BY <1>2, <1>3, <1>4, <1>6
<1>10. \A x \in ToSet(TheLeave) : x \in TableLines("type", DOMAIN LEAVE_TYPES)
                                \union TableLines("policy", DOMAIN LEAVE_TYPES)
  BY <1>2, <1>4, <1>8, <1>9 DEF TableLines
<1>11. \A x \in TableLines("type", DOMAIN LEAVE_TYPES)
                  \union TableLines("policy", DOMAIN LEAVE_TYPES) : x \in ToSet(TheLeave)
  <2>1. \A t \in DOMAIN LEAVE_TYPES : \E i \in DOMAIN ss : keys[i] = t
    BY <1>1, <1>4 DEF ToSet
  <2> QED
    BY <1>8, <1>9, <2>1 DEF TableLines
<1>12. Follows(have, TheLeave)
  BY <1>8, <1>10, FollowsFreely DEF TableLines, Needs
<1> QED
  BY <1>10, <1>11, <1>12

\* The lines of the access roles people hold.
LEMMA HoldersPart ==
  TheHolders \in Seq(ScriptLines) /\ ToSet(TheHolders) = TableLines("hold", Held)
<1> DEFINE ss == [i \in DOMAIN Order |-> HoldLines(Order[i])]
<1>1. Order \in Seq(Employees) /\ ToSet(Order) = Employees
  BY ManagersFirst DEF Employees, ToSet
<1>2. \A i \in DOMAIN Order : Order[i] \in Employees
  BY <1>1, LenProperties
<1>3. ASSUME NEW e \in Employees
      PROVE  /\ HoldLines(e) \in Seq(ScriptLines)
             /\ ToSet(HoldLines(e)) = TableLines("hold", {e} \X EMPLOYEES[e].accessRoles)
  <2>1. IsFiniteSet({e} \X EMPLOYEES[e].accessRoles)
    BY TablesFinite, FS_Product, FS_Singleton DEF Employees
  <2>2. TableLines("hold", {e} \X EMPLOYEES[e].accessRoles) \subseteq ScriptLines
    <3>1. {e} \X EMPLOYEES[e].accessRoles \subseteq Held
      BY DEF Held
    <3> QED
      BY <3>1, ScriptLinesAre DEF TableLines
  <2> QED
    BY <2>1, <2>2, PlainPart DEF HoldLines
<1>4. ss \in Seq(Seq(ScriptLines)) /\ DOMAIN ss = DOMAIN Order
  <2>1. ss \in [DOMAIN Order -> Seq(ScriptLines)]
    BY <1>2, <1>3
  <2> HIDE DEF ss
  <2> QED
    BY <1>1, <2>1, MappedSeq
<1>5. TheHolders = FlattenSeq(ss)
  BY DEF TheHolders, ForEach
<1>6. \A i \in DOMAIN ss : ss[i] = HoldLines(Order[i])
  OBVIOUS
<1> HIDE DEF ss
<1>7. /\ TheHolders \in Seq(ScriptLines)
      /\ ToSet(TheHolders) = UNION {ToSet(ss[i]) : i \in DOMAIN ss}
  BY <1>4, <1>5, FlattenHas
<1>8. \A i \in DOMAIN ss :
        ToSet(ss[i]) = TableLines("hold", {Order[i]} \X EMPLOYEES[Order[i]].accessRoles)
  BY <1>2, <1>3, <1>4, <1>6
<1>9. \A e \in Employees : \E i \in DOMAIN ss : Order[i] = e
  BY <1>1, <1>4 DEF ToSet
<1>10. \A x \in ToSet(TheHolders) : x \in TableLines("hold", Held)
  BY <1>2, <1>4, <1>7, <1>8 DEF TableLines, Held
<1>11. \A x \in TableLines("hold", Held) : x \in ToSet(TheHolders)
  BY <1>7, <1>8, <1>9 DEF TableLines, Held
<1> QED
  BY <1>7, <1>10, <1>11

\* The lines of the heads of departments.
LEMMA HeadsPart ==
  TheHeads \in Seq(ScriptLines) /\ ToSet(TheHeads) = TableLines("head", Heads)
<1> DEFINE ss == [i \in DOMAIN Order |-> HeadLines(Order[i])]
<1>1. Order \in Seq(Employees) /\ ToSet(Order) = Employees
  BY ManagersFirst DEF Employees, ToSet
<1>2. \A i \in DOMAIN Order : Order[i] \in Employees
  BY <1>1, LenProperties
<1>3. ASSUME NEW e \in Employees
      PROVE  /\ HeadLines(e) \in Seq(ScriptLines)
             /\ ToSet(HeadLines(e)) = TableLines("head", {e} \intersect Heads)
  <2>1. CASE IsHead(e)
    <3>1. TableLines("head", {e}) \subseteq ScriptLines /\ {e} \intersect Heads = {e}
      BY <2>1, ScriptLinesAre DEF TableLines, Heads
    <3> QED
      BY <2>1, <3>1, OneLine DEF HeadLines
  <2>2. CASE ~IsHead(e)
    <3>1. HeadLines(e) = << >> /\ {e} \intersect Heads = {}
      BY <2>2 DEF HeadLines, Heads
    <3>2. << >> \in Seq(ScriptLines) /\ ToSet(<< >>) = {}
      BY EmptySeq DEF ToSet
    <3>3. TableLines("head", {}) = {}
      BY DEF TableLines
    <3> QED
      BY <3>1, <3>2, <3>3
  <2> QED
    BY <2>1, <2>2
<1>4. ss \in Seq(Seq(ScriptLines)) /\ DOMAIN ss = DOMAIN Order
  <2>1. ss \in [DOMAIN Order -> Seq(ScriptLines)]
    BY <1>2, <1>3
  <2> HIDE DEF ss
  <2> QED
    BY <1>1, <2>1, MappedSeq
<1>5. TheHeads = FlattenSeq(ss)
  BY DEF TheHeads, ForEach
<1>6. \A i \in DOMAIN ss : ss[i] = HeadLines(Order[i])
  OBVIOUS
<1> HIDE DEF ss
<1>7. /\ TheHeads \in Seq(ScriptLines)
      /\ ToSet(TheHeads) = UNION {ToSet(ss[i]) : i \in DOMAIN ss}
  BY <1>4, <1>5, FlattenHas
<1>8. \A i \in DOMAIN ss : ToSet(ss[i]) = TableLines("head", {Order[i]} \intersect Heads)
  BY <1>2, <1>3, <1>4, <1>6
<1>9. \A e \in Employees : \E i \in DOMAIN ss : Order[i] = e
  BY <1>1, <1>4 DEF ToSet
<1>10. \A x \in ToSet(TheHeads) : x \in TableLines("head", Heads)
  BY <1>2, <1>4, <1>7, <1>8 DEF TableLines, Heads
<1>11. \A x \in TableLines("head", Heads) : x \in ToSet(TheHeads)
  BY <1>7, <1>8, <1>9 DEF TableLines, Heads
<1> QED
  BY <1>7, <1>10, <1>11

\* The lines of the histories, entry by entry.
LEMMA EntriesPart ==
  TheEntries \in Seq(ScriptLines) /\ ToSet(TheEntries) = TableLines("entry", Recorded)
<1> DEFINE ss == [i \in DOMAIN Order |-> Entries(Order[i])]
           keys == ForEach(Order, Entries)
<1>1. Order \in Seq(Employees) /\ ToSet(Order) = Employees
  BY ManagersFirst DEF Employees, ToSet
<1>2. \A i \in DOMAIN Order : Order[i] \in Employees
  BY <1>1, LenProperties
<1>3. ASSUME NEW e \in Employees
      PROVE  /\ Entries(e) \in Seq(Recorded)
             /\ ToSet(Entries(e)) = {e} \X DOMAIN EMPLOYEES[e].history
  <2> DEFINE n == Len(EMPLOYEES[e].history)
  <2>1. n \in Nat /\ DOMAIN EMPLOYEES[e].history = 1..n
    BY HistoriesInOrder, LenProperties DEF Employees
  <2>2. Entries(e) = [i \in 1..n |-> <<e, i>>]
    BY <2>1 DEF Entries
  <2>3. Entries(e) \in [1..n -> Recorded]
    BY <2>1, <2>2 DEF Recorded
  <2> HIDE DEF n
  <2>4. Entries(e) \in Seq(Recorded)
    BY <2>1, <2>3, SeqDef
  <2>5. ToSet(Entries(e)) = {<<e, i>> : i \in 1..n}
    BY <2>2 DEF ToSet
  <2>6. {e} \X (1..n) = {<<e, i>> : i \in 1..n}
    OBVIOUS
  <2> QED
    BY <2>1, <2>4, <2>5, <2>6
<1>4. ss \in Seq(Seq(Recorded)) /\ DOMAIN ss = DOMAIN Order
  <2>1. ss \in [DOMAIN Order -> Seq(Recorded)]
    BY <1>2, <1>3
  <2> HIDE DEF ss
  <2> QED
    BY <1>1, <2>1, MappedSeq
<1>5. keys = FlattenSeq(ss)
  BY DEF ForEach
<1>6. \A i \in DOMAIN ss : ss[i] = Entries(Order[i])
  OBVIOUS
<1> HIDE DEF ss, keys
<1>7. keys \in Seq(Recorded) /\ ToSet(keys) = UNION {ToSet(ss[i]) : i \in DOMAIN ss}
  BY <1>4, <1>5, FlattenHas
<1>8. \A i \in DOMAIN ss : ToSet(ss[i]) = {Order[i]} \X DOMAIN EMPLOYEES[Order[i]].history
  BY <1>2, <1>3, <1>4, <1>6
<1>9. \A e \in Employees : \E i \in DOMAIN ss : Order[i] = e
  BY <1>1, <1>4 DEF ToSet
<1>10. ToSet(keys) = Recorded
  <2>1. \A x \in ToSet(keys) : x \in Recorded
    BY <1>2, <1>4, <1>7, <1>8 DEF Recorded
  <2>2. \A x \in Recorded : x \in ToSet(keys)
    BY <1>7, <1>8, <1>9 DEF Recorded
  <2> QED
    BY <2>1, <2>2
<1> QED
  BY <1>7, <1>10, ScriptLinesAre, LinesHave, InScript DEF TheEntries, keys

\* The people come after their managers, and before any entry.
LEMMA PeopleFollow ==
  ASSUME NEW have, \A line \in have : line.table # "entry"
  PROVE  /\ Follows(have, ThePeople)
         /\ ToSet(ThePeople) = TableLines("employee", Employees)
<1>1. /\ ThePeople \in Seq(ScriptLines)
      /\ ToSet(ThePeople) = TableLines("employee", Employees)
  BY PeoplePart, ScriptLinesAre DEF ThePeople
<1>2. /\ Order \in Seq(Employees) /\ DOMAIN ThePeople = DOMAIN Order
      /\ \A i \in DOMAIN Order : ThePeople[i] = [table |-> "employee", key |-> Order[i]]
  BY ManagersFirst, LinesHave DEF ThePeople, Employees
<1>3. ASSUME NEW i \in DOMAIN Order
      PROVE  Ready(ThePeople[i], have \union Before(ThePeople, i))
  <2>1. \A j \in 1..(i - 1) : j \in DOMAIN Order
    BY <1>2, LenProperties
  <2>2. Managers(Order[i]) \subseteq {Order[j] : j \in 1..(i - 1)}
    BY ManagersFirst DEF Managers
  <2>3. \A m \in Managers(Order[i]) : [table |-> "employee", key |-> m] \in Before(ThePeople, i)
    BY <1>2, <2>1, <2>2 DEF Before
  <2>4. Needs(ThePeople[i]) = TableLines("employee", Managers(Order[i]))
    BY <1>2 DEF Needs
  <2>5. Needs(ThePeople[i]) \subseteq Before(ThePeople, i)
    BY <2>3, <2>4 DEF TableLines
  <2>6. \A x \in Before(ThePeople, i) : x.table # "entry"
    BY <1>2, <2>1 DEF Before
  <2> QED
    BY <2>5, <2>6 DEF Ready
<1> QED
  BY <1>1, <1>2, <1>3 DEF Follows

\* Departments above come before those below.
LEMMA DepartmentsFollow ==
  ASSUME NEW have
  PROVE  /\ Follows(have, TheParents)
         /\ ToSet(TheParents) = TableLines("department", Parents)
         /\ ToSet(TheParents) \subseteq have => Follows(have, TheChildren)
         /\ ToSet(TheChildren) = TableLines("department", DOMAIN DEPARTMENTS \ Parents)
<1>1. IsFiniteSet(Parents) /\ IsFiniteSet(DOMAIN DEPARTMENTS \ Parents)
  BY TablesFinite, FS_Subset DEF Parents
<1>2. /\ TableLines("department", Parents) \subseteq ScriptLines
      /\ TableLines("department", DOMAIN DEPARTMENTS \ Parents) \subseteq ScriptLines
  BY ScriptLinesAre DEF TableLines, Parents
<1>3. /\ TheParents \in Seq(ScriptLines) /\ TheChildren \in Seq(ScriptLines)
      /\ ToSet(TheParents) = TableLines("department", Parents)
      /\ ToSet(TheChildren) = TableLines("department", DOMAIN DEPARTMENTS \ Parents)
  BY <1>1, <1>2, PlainPart DEF TheParents, TheChildren
<1>4. \A line \in ToSet(TheParents) : Needs(line) = {} /\ line.table # "employee"
  BY <1>3 DEF TableLines, Needs, Parents
<1>5. \A line \in ToSet(TheChildren) :
        Needs(line) \subseteq ToSet(TheParents) /\ line.table # "employee"
  <2> SUFFICES ASSUME NEW d \in DOMAIN DEPARTMENTS \ Parents,
                      NEW line, line = [table |-> "department", key |-> d]
               PROVE  Needs(line) \subseteq ToSet(TheParents) /\ line.table # "employee"
    BY <1>3 DEF TableLines
  <2>1. DEPARTMENTS[d] \in Parents
    BY DepartmentsInOrder DEF Parents
  <2> QED
    BY <1>3, <2>1 DEF TableLines, Needs
<1> QED
  BY <1>3, <1>4, <1>5, FollowsFreely

\* Every line of the script, once its turn comes, has what it refers to.
LEMMA ScriptFollows ==
  Follows({}, Script) /\ ToSet(Script) = ScriptLines /\ Script # << >>
<1> DEFINE P2 == ThePermissions \o TheRoles
           P3 == P2 \o TheTitles
           P4 == P3 \o TheParents
           P5 == P4 \o TheChildren
           P6 == P5 \o ThePeople
           P7 == P6 \o TheEntries
           P8 == P7 \o TheHolders
           P9 == P8 \o TheHeads
           P10 == P9 \o TheLeave
           P11 == P10 \o TheAccounts
<1>0. Script = P11
  BY DEF Script, ThePermissions, TheRoles, TheTitles, TheParents, TheChildren, ThePeople,
         TheEntries, TheHolders, TheHeads, TheLeave, TheAccounts
<1> DEFINE Has(s, lines) == Follows({}, s) /\ ToSet(s) = lines
           Upto(s, t) == Follows({}, s) /\ Follows(ToSet(s), t)
<1>a. ASSUME NEW s, NEW t, Follows({}, s), Follows(ToSet(s), t)
      PROVE  Follows({}, s \o t) /\ ToSet(s \o t) = ToSet(s) \union ToSet(t)
  <2>1. {} \union ToSet(s) = ToSet(s)
    OBVIOUS
  <2> QED
    BY <1>a, <2>1, FollowsConcat
<1>1. /\ Follows({}, ThePermissions)
      /\ ToSet(ThePermissions) = TableLines("permission", PERMISSIONS)
  <2>1. /\ ThePermissions \in Seq(ScriptLines)
        /\ ToSet(ThePermissions) = TableLines("permission", PERMISSIONS)
    BY ScriptLinesAre, TablesFinite, PlainPart DEF ThePermissions
  <2> QED
    BY <2>1, FollowsFreely DEF TableLines, Needs
<1>2. Follows({}, P2) /\ ToSet(P2) = ToSet(ThePermissions) \union ToSet(TheRoles)
  BY <1>1, <1>a, RolesFollow
<1> HIDE DEF P2
<1>3. Follows({}, P3) /\ ToSet(P3) = ToSet(P2) \union TableLines("title", JOB_TITLES)
  <2>1. TheTitles \in Seq(ScriptLines) /\ ToSet(TheTitles) = TableLines("title", JOB_TITLES)
    BY ScriptLinesAre, TablesFinite, PlainPart DEF TheTitles
  <2>2. Follows(ToSet(P2), TheTitles)
    BY <2>1, FollowsFreely DEF TableLines, Needs
  <2>3. P3 = P2 \o TheTitles
    OBVIOUS
  <2> HIDE DEF P3
  <2>4. /\ Follows({}, P2 \o TheTitles)
        /\ ToSet(P2 \o TheTitles) = ToSet(P2) \union ToSet(TheTitles)
    BY <1>2, <1>a, <2>2
  <2> QED
    BY <2>1, <2>3, <2>4
<1> HIDE DEF P3
<1>4. Follows({}, P4) /\ ToSet(P4) = ToSet(P3) \union ToSet(TheParents)
  BY <1>3, <1>a, DepartmentsFollow
<1> HIDE DEF P4
<1>5. Follows({}, P5) /\ ToSet(P5) = ToSet(P4) \union ToSet(TheChildren)
  BY <1>4, <1>a, DepartmentsFollow
<1> HIDE DEF P5
<1>6. Follows({}, P6) /\ ToSet(P6) = ToSet(P5) \union TableLines("employee", Employees)
  <2>1. \A line \in ToSet(P5) : line.table # "entry"
    BY <1>1, <1>2, <1>3, <1>4, <1>5, RolesFollow, DepartmentsFollow DEF TableLines
  <2> QED
    BY <1>5, <1>a, <2>1, PeopleFollow
<1> HIDE DEF P6
<1>7. Follows({}, P7) /\ ToSet(P7) = ToSet(P6) \union TableLines("entry", Recorded)
  <2>1. \A line \in ToSet(TheEntries) :
          Needs(line) \subseteq ToSet(P6) /\ line.table # "employee"
    BY <1>6, EntriesPart DEF TableLines, Needs
  <2> QED
    BY <1>6, <1>a, <2>1, EntriesPart, FollowsFreely
<1> HIDE DEF P7
<1>8. Follows({}, P8) /\ ToSet(P8) = ToSet(P7) \union TableLines("hold", Held)
  <2>1. \A line \in ToSet(TheHolders) :
          Needs(line) \subseteq ToSet(P7) /\ line.table # "employee"
    <3> SUFFICES ASSUME NEW k \in Held, NEW line, line = [table |-> "hold", key |-> k]
                 PROVE  Needs(line) \subseteq ToSet(P7) /\ line.table # "employee"
      BY HoldersPart DEF TableLines
    <3>1. k[2] \in DOMAIN ACCESS_ROLES
      <4>1. PICK e \in Employees : k \in {e} \X EMPLOYEES[e].accessRoles
        BY DEF Held
      <4>2. k[2] \in EMPLOYEES[e].accessRoles
        BY <4>1
      <4> QED
        BY <4>2, TablesFinite DEF Employees
    <3>2. Needs(line) = TableLines("role", {k[2]})
      BY DEF Needs
    <3>3. TableLines("role", {k[2]}) \subseteq TableLines("role", DOMAIN ACCESS_ROLES)
      BY <3>1 DEF TableLines
    <3> QED
      BY <3>2, <3>3, <1>2, <1>3, <1>4, <1>5, <1>6, <1>7, RolesFollow
  <2> QED
    BY <1>7, <1>a, <2>1, HoldersPart, FollowsFreely
<1> HIDE DEF P8
<1>9. Follows({}, P9) /\ ToSet(P9) = ToSet(P8) \union TableLines("head", Heads)
  <2>1. \A line \in ToSet(TheHeads) : Needs(line) = {} /\ line.table # "employee"
    BY HeadsPart DEF TableLines, Needs
  <2> QED
    BY <1>8, <1>a, <2>1, HeadsPart, FollowsFreely
<1> HIDE DEF P9
<1>10. Follows({}, P10) /\ ToSet(P10) = ToSet(P9) \union ToSet(TheLeave)
  BY <1>9, <1>a, PoliciesFollow
<1> HIDE DEF P10
<1>11. Follows({}, P11) /\ ToSet(P11) = ToSet(P10) \union TableLines("account", Employees)
  <2>1. /\ TheAccounts \in Seq(ScriptLines)
        /\ ToSet(TheAccounts) = TableLines("account", Employees)
    BY PeoplePart, ScriptLinesAre DEF TheAccounts
  <2>2. Follows(ToSet(P10), TheAccounts)
    BY <2>1, FollowsFreely DEF TableLines, Needs
  <2>3. P11 = P10 \o TheAccounts
    OBVIOUS
  <2> HIDE DEF P11
  <2>4. /\ Follows({}, P10 \o TheAccounts)
        /\ ToSet(P10 \o TheAccounts) = ToSet(P10) \union ToSet(TheAccounts)
    BY <1>10, <1>a, <2>2
  <2> QED
    BY <2>1, <2>3, <2>4
<1> HIDE DEF P11
<1>12. TableLines("department", DOMAIN DEPARTMENTS) =
         TableLines("department", Parents) \union
         TableLines("department", DOMAIN DEPARTMENTS \ Parents)
  BY DEF TableLines, Parents
<1>13. ToSet(P11) = ScriptLines
  <2>1. ToSet(TheRoles) = TableLines("role", DOMAIN ACCESS_ROLES) \union TableLines("grant", Granted)
    BY RolesFollow
  <2>2. ToSet(TheLeave) = TableLines("type", DOMAIN LEAVE_TYPES)
                            \union TableLines("policy", DOMAIN LEAVE_TYPES)
    BY PoliciesFollow
  <2>3. /\ ToSet(TheParents) = TableLines("department", Parents)
        /\ ToSet(TheChildren) = TableLines("department", DOMAIN DEPARTMENTS \ Parents)
    BY DepartmentsFollow
  <2>4. ToSet(P5) = UNION {TableLines("permission", PERMISSIONS),
                TableLines("role", DOMAIN ACCESS_ROLES), TableLines("grant", Granted),
                TableLines("title", JOB_TITLES), TableLines("department", DOMAIN DEPARTMENTS)}
    <3>1. ToSet(P3) = UNION {TableLines("permission", PERMISSIONS),
                TableLines("role", DOMAIN ACCESS_ROLES), TableLines("grant", Granted),
                TableLines("title", JOB_TITLES)}
      BY <1>1, <1>2, <1>3, <2>1
    <3>2. ToSet(P5) = ToSet(P3) \union TableLines("department", DOMAIN DEPARTMENTS)
      BY <1>4, <1>5, <1>12, <2>3
    <3> QED
      BY <3>1, <3>2
  <2>5. ToSet(P9) = ToSet(P5) \union UNION {TableLines("employee", Employees),
                TableLines("entry", Recorded), TableLines("hold", Held),
                TableLines("head", Heads)}
    BY <1>6, <1>7, <1>8, <1>9
  <2>6. ToSet(P11) = ToSet(P9) \union UNION {TableLines("type", DOMAIN LEAVE_TYPES),
                TableLines("policy", DOMAIN LEAVE_TYPES), TableLines("account", Employees)}
    BY <1>10, <1>11, <2>2
  <2>7. ScriptLines = UNION {TableLines("permission", PERMISSIONS),
          TableLines("role", DOMAIN ACCESS_ROLES), TableLines("grant", Granted),
          TableLines("title", JOB_TITLES), TableLines("department", DOMAIN DEPARTMENTS),
          TableLines("employee", Employees), TableLines("entry", Recorded),
          TableLines("hold", Held), TableLines("head", Heads),
          TableLines("type", DOMAIN LEAVE_TYPES), TableLines("policy", DOMAIN LEAVE_TYPES),
          TableLines("account", Employees)}
    BY Zenon DEF ScriptLines, Granted, Recorded, Held, Heads
  <2> QED
    BY <2>4, <2>5, <2>6, <2>7
<1>14. ScriptLines # {}
  <2>1. Employees # {}
    BY ManagersFirst, LenProperties, EmptySeq DEF Employees
  <2> QED
    BY <2>1, ScriptLinesAre DEF TableLines
<1>15. ToSet(<< >>) = {}
  BY DEF ToSet
<1> QED
  BY <1>0, <1>11, <1>13, <1>14, <1>15

-----------------------------------------------------------------------------
(* The inductive invariant *)

Rows == [from : Nat, to : Nat, terms : JobTerms]
Policies == [type : DOMAIN LEAVE_TYPES, from : Nat, to : Nat, quotaDays : Nat]

Clock ==
  /\ at \in 0..Len(Script) /\ runs \in 0..MaxRuns
  /\ ended \in {"never", "running", "done", "failed", "killed"}
  /\ (at # 0) <=> (ended = "running")
  /\ year \in FirstYear..LastYear
  /\ numbers \in [DOMAIN LEAVE_TYPES -> Nat]

Tables ==
  /\ permissions \subseteq PERMISSIONS /\ accessRoles \subseteq DOMAIN ACCESS_ROLES
  /\ \A g \in granted : g[1] \in accessRoles /\ g[2][1] \in permissions
  /\ titles \subseteq JOB_TITLES
  /\ departments \in
       [DOMAIN DEPARTMENTS -> {Absent, NoDepartment} \union DOMAIN DEPARTMENTS]
  /\ heads \in [DOMAIN DEPARTMENTS -> {NoOne} \union Employees]
  /\ \A h \in holds : h[1] \in Employees /\ h[2] \in accessRoles
  /\ leaveTypes \subseteq DOMAIN LEAVE_TYPES
  /\ accounts \subseteq Employees

PeopleTyped ==
  /\ DOMAIN copied \subseteq Employees /\ copied \in [DOMAIN copied -> JobTerms]
  /\ career \in [Employees -> SUBSET Rows]
  /\ \A e \in Employees : IsFiniteSet(career[e])
  /\ touched \subseteq Promoted

\* Two open rows of a person are the same one.
OneOpen(e) == \A a, b \in OpenRow(e) : a = b

\* A person nobody changed has rows of their history and its current job; a
\* person who was changed has an open row that starts after that job did.
CareerFits(e) ==
  /\ career[e] # {} => e \in DOMAIN copied
  /\ OneOpen(e)
  /\ e \notin touched =>
       /\ career[e] \subseteq ToSet(EMPLOYEES[e].history)
       /\ e \in DOMAIN copied => copied[e] = Current(e).terms
  /\ e \in touched => \E row \in OpenRow(e) : row.from > Current(e).from

Careers == \A e \in Employees : CareerFits(e)

\* Versions of a type do not overlap, and in the first year each type that has
\* one has the one the seed opens.
VersionsFit ==
  /\ policies \subseteq Policies
  /\ \A a, b \in policies : a # b /\ a.type = b.type => ~Clashes(a, b)
  /\ year = FirstYear =>
       \A p \in policies : \E q \in Versions(p.type) : q.from = FirstYear * 10000 + 101

\* What an entry that was written leaves: the row; or, if the job was changed
\* since, an open row that the person's job agrees with.
EntryDone(e, i) ==
  IF e \notin touched THEN EMPLOYEES[e].history[i] \in career[e]
  ELSE i = Len(EMPLOYEES[e].history) => \A row \in OpenRow(e) : row.terms = copied[e]

\* What a line of the script leaves once it was written.
Done(line) ==
  /\ line.table = "permission" => line.key \in permissions
  /\ line.table = "role" => line.key \in accessRoles
  /\ line.table = "grant" => line.key \in granted
  /\ line.table = "department" => departments[line.key] = DEPARTMENTS[line.key]
  /\ line.table = "employee" => line.key \in DOMAIN copied
  /\ line.table = "entry" => EntryDone(line.key[1], line.key[2])
  /\ line.table = "hold" => line.key \in holds
  /\ line.table = "head" => heads[EMPLOYEES[line.key].headOf] = line.key
  /\ line.table = "policy" => Versions(line.key) # {}
  /\ line.table = "account" => line.key \in accounts

\* A run has written what is before its line, and one that ended well all of it.
LinesDone ==
  /\ \A j \in 1..(at - 1) : Done(Script[j])
  /\ ended = "done" => \A line \in ScriptLines : Done(line)

Refusals == ended = "failed" => touched # {} \/ year > FirstYear

IInv ==
  /\ Clock /\ Tables /\ PeopleTyped /\ Careers /\ VersionsFit /\ LinesDone /\ Refusals

-----------------------------------------------------------------------------
(* Histories, and the line that is written *)

\* The entry that is open is the last; it starts after all others, and no two
\* entries start on the same day.
LEMMA HistoryIs ==
  ASSUME NEW e \in Employees
  PROVE  LET history == EMPLOYEES[e].history
             n == Len(history)
         IN  /\ n \in Nat \ {0} /\ DOMAIN history = 1..n
             /\ \A i \in 1..n : history[i] \in Rows /\ (history[i].to = Open <=> i = n)
             /\ ToSet(history) \subseteq Rows
             /\ Current(e) = history[n] /\ history[n] \in ToSet(history)
             /\ \A x \in ToSet(history) : x.to = Open => x = Current(e)
             /\ \A i \in 1..n : i # n => history[i].from < Current(e).from
             /\ \A i, j \in 1..n : history[i].from = history[j].from => i = j
<1> DEFINE history == EMPLOYEES[e].history
           n == Len(history)
<1>1. /\ history # << >> /\ history \in Seq(Rows)
      /\ \A i \in DOMAIN history :
           /\ history[i].from <= history[i].to
           /\ (history[i].to = Open) <=> (i = n)
           /\ \A j \in DOMAIN history : i < j => history[i].to < history[j].from
  BY HistoriesInOrder DEF Employees, Rows
<1> HIDE DEF history
<1>2. n \in Nat \ {0} /\ DOMAIN history = 1..n /\ \A i \in 1..n : history[i] \in Rows
  BY <1>1, LenProperties, EmptySeq
<1>3. /\ \A i \in 1..n : history[i].from \in Nat /\ history[i].to \in Nat
      /\ n \in 1..n
  BY <1>2 DEF Rows
<1>4. ToSet(history) \subseteq Rows /\ history[n] \in ToSet(history)
  BY <1>2, <1>3 DEF ToSet
<1>6. \A x \in ToSet(history) : x.to = Open => x = history[n]
  BY <1>1, <1>2 DEF ToSet
<1>7. Current(e) = history[n]
  <2>1. Current(e) \in ToSet(history) /\ Current(e).to = Open
    BY <1>1, <1>2, <1>3, <1>4 DEF Current, history
  <2> QED
    BY <1>6, <2>1
<1>8. \A i \in 1..n : i # n => history[i].from < history[n].from
  <2> SUFFICES ASSUME NEW i \in 1..n, i # n PROVE history[i].from < history[n].from
    OBVIOUS
  <2>1. i < n
    <3> HIDE DEF n
    <3> QED
      BY <1>2
  <2>2. history[i].from <= history[i].to /\ history[i].to < history[n].from
    BY <1>1, <1>2, <1>3, <2>1
  <2> QED
    BY <1>3, <2>2
<1>9. \A i, j \in 1..n : i < j => history[i].from < history[j].from
  <2> SUFFICES ASSUME NEW i \in 1..n, NEW j \in 1..n, i < j
               PROVE  history[i].from < history[j].from
    OBVIOUS
  <2>1. history[i].from <= history[i].to /\ history[i].to < history[j].from
    BY <1>1, <1>2
  <2> QED
    BY <1>3, <2>1
<1>10. \A i, j \in 1..n : history[i].from = history[j].from => i = j
  BY <1>2, <1>3, <1>9
<1> QED
  BY <1>1, <1>2, <1>4, <1>6, <1>7, <1>8, <1>10 DEF history

\* When a line's turn comes what it refers to was written.
LEMMA LineAt ==
  ASSUME at \in 1..Len(Script), \A j \in 1..(at - 1) : Done(Script[j])
  PROVE  /\ Script[at] \in ScriptLines
         /\ \A line \in Needs(Script[at]) : Done(line)
         /\ Script[at].table = "employee" =>
              \A j \in 1..(at - 1) : Script[j].table # "entry"
<1>1. /\ Script \in Seq(ScriptLines)
      /\ \A i \in DOMAIN Script : Ready(Script[i], {} \union Before(Script, i))
  BY ScriptFollows DEF Follows
<1>2. at \in DOMAIN Script /\ Script[at] \in ScriptLines
  BY <1>1, LenProperties
<1>3. Ready(Script[at], Before(Script, at))
  <2>1. {} \union Before(Script, at) = Before(Script, at)
    OBVIOUS
  <2> QED
    BY <1>1, <1>2, <2>1
<1> QED
  BY <1>2, <1>3 DEF Ready, Before

\* A line was written, and nothing that was written before it is lost.
LEMMA LineWritten ==
  ASSUME NEW line, Line(line.table, line.key), line \in ScriptLines,
         Clock, LinesDone, GoOn, Done(line)',
         \A j \in 1..(at - 1) : Done(Script[j]) => Done(Script[j])'
  PROVE  Clock' /\ LinesDone' /\ Refusals'
<1>1. /\ Script \in Seq(ScriptLines) /\ Len(Script) \in Nat
      /\ DOMAIN Script = 1..Len(Script) /\ ToSet(Script) = ScriptLines
  BY ScriptFollows, LenProperties DEF Follows
<1>2. at \in 1..Len(Script) /\ ended = "running" /\ Script[at] = line
  <2>1. line = [table |-> line.table, key |-> line.key]
    BY DEF ScriptLines, TableLines
  <2> QED
    BY <1>1, <2>1 DEF Clock, Line
<1>3. \A j \in 1..at : Done(Script[j])'
  <2>1. \A j \in 1..at : j = at \/ j \in 1..(at - 1)
    BY <1>1, <1>2
  <2>2. \A j \in 1..(at - 1) : Done(Script[j])'
    BY DEF LinesDone
  <2>3. \A j : j = at => Done(Script[j])'
    BY <1>2
  <2> QED
    BY <2>1, <2>2, <2>3
<1>4. CASE at < Len(Script)
  <2>1. /\ at' = at + 1 /\ ended' = "running" /\ runs' = runs
        /\ year' = year /\ numbers' = numbers
    BY <1>2, <1>4 DEF GoOn, world
  <2>2. at' - 1 = at /\ at' \in 0..Len(Script) /\ at' # 0
    BY <1>1, <1>2, <1>4, <2>1
  <2> QED
    BY <1>3, <2>1, <2>2 DEF Clock, LinesDone, Refusals
<1>5. CASE ~(at < Len(Script))
  <2>1. /\ at' = 0 /\ ended' = "done" /\ runs' = runs
        /\ year' = year /\ numbers' = numbers
    BY <1>5 DEF GoOn, world
  <2> DEFINE n == Len(Script)
  <2>2. at = n
    <3>1. n \in Nat /\ at \in 1..n /\ ~(at < n)
      BY <1>1, <1>2, <1>5
    <3> HIDE DEF n
    <3> QED
      BY <3>1
  <2>3. \A other \in ScriptLines : Done(other)'
    BY <1>1, <1>3, <2>2 DEF ToSet
  <2>4. \A j \in 1..(0 - 1) : FALSE
    OBVIOUS
  <2> QED
    BY <1>1, <2>1, <2>3, <2>4 DEF Clock, LinesDone, Refusals
<1> QED
  BY <1>4, <1>5

\* A line that was written stays so as long as tables only grow.
LEMMA DoneGrows ==
  ASSUME permissions \subseteq permissions', accessRoles \subseteq accessRoles',
         granted \subseteq granted', holds \subseteq holds', accounts \subseteq accounts',
         policies \subseteq policies', UNCHANGED <<departments, heads, copied, career, touched>>
  PROVE  \A line : Done(line) => Done(line)'
BY DEF Done, EntryDone, OpenRow, Versions

\* The line an action of the script writes, and what was written before it.
LEMMA AtLine ==
  ASSUME NEW table, NEW key, Line(table, key), Clock, LinesDone
  PROVE  LET line == [table |-> table, key |-> key]
         IN  /\ line \in ScriptLines
             /\ \A other \in Needs(line) : Done(other)
             /\ table = "employee" =>
                  \A j \in 1..(at - 1) : Script[j].table # "entry"
<1>1. Len(Script) \in Nat
  BY ScriptFollows, LenProperties DEF Follows
<1>2. at \in 1..Len(Script) /\ Script[at] = [table |-> table, key |-> key]
  BY <1>1 DEF Clock, Line
<1>3. \A j \in 1..(at - 1) : Done(Script[j])
  BY DEF LinesDone
<1>4. /\ Script[at] \in ScriptLines
      /\ \A line \in Needs(Script[at]) : Done(line)
      /\ Script[at].table = "employee" =>
           \A j \in 1..(at - 1) : Script[j].table # "entry"
  BY <1>2, <1>3, LineAt
<1> QED
  BY <1>2, <1>4

\* What a step that leaves the people alone keeps of them.
LEMMA PeopleKept ==
  ASSUME PeopleTyped, Careers, UNCHANGED <<copied, career, touched>>
  PROVE  PeopleTyped' /\ Careers'
BY DEF PeopleTyped, Careers, CareerFits, OneOpen, OpenRow

\* What a step that leaves the policies alone keeps of them.
LEMMA PoliciesKept ==
  ASSUME VersionsFit, UNCHANGED <<policies, year>>
  PROVE  VersionsFit'
BY DEF VersionsFit, Versions, Clashes

\* What a step that leaves the catalogue and its users alone keeps of them.
LEMMA TablesKept ==
  ASSUME Tables, UNCHANGED <<catalogue, structure, holds, leaveTypes, accounts>>
  PROVE  Tables'
BY DEF Tables, catalogue, structure

\* An action of the script that adds a row to one of the tables.
LEMMA RowAdded ==
  ASSUME NEW table, NEW key, Line(table, key), IInv, GoOn,
         Done([table |-> table, key |-> key])', Tables',
         permissions \subseteq permissions', accessRoles \subseteq accessRoles',
         granted \subseteq granted', holds \subseteq holds', accounts \subseteq accounts',
         UNCHANGED <<departments, heads, copied, career, policies>>
  PROVE  IInv'
<1> DEFINE line == [table |-> table, key |-> key]
<1>1. line \in ScriptLines
  BY AtLine DEF IInv
<1>2. UNCHANGED <<touched, year>> /\ policies \subseteq policies'
  BY DEF GoOn, world
<1>3. \A other : Done(other) => Done(other)'
  BY <1>2, DoneGrows
<1>4. Clock' /\ LinesDone' /\ Refusals'
  <2>1. line.table = table /\ line.key = key
    OBVIOUS
  <2>2. Line(line.table, line.key) /\ Done(line)'
    BY <2>1
  <2> HIDE DEF line
  <2> QED
    BY <1>1, <1>3, <2>2, LineWritten DEF IInv
<1> QED
  BY <1>2, <1>4, PeopleKept, PoliciesKept DEF IInv

\* A permission adds a row no other table depends on.
LEMMA PermissionStep ==
  ASSUME IInv, NEW p \in PERMISSIONS, SeedPermission(p)
  PROVE  IInv'
<1>1. Done([table |-> "permission", key |-> p])'
  BY DEF SeedPermission, Done
<1>2. Tables'
  BY DEF SeedPermission, IInv, Tables, structure, people, leave
<1> QED
  BY <1>1, <1>2, RowAdded DEF SeedPermission, structure, people, leave

\* So does an access role, ...
LEMMA RoleStep ==
  ASSUME IInv, NEW role \in DOMAIN ACCESS_ROLES, SeedAccessRole(role)
  PROVE  IInv'
<1>1. Done([table |-> "role", key |-> role])'
  BY DEF SeedAccessRole, Done
<1>2. Tables'
  BY DEF SeedAccessRole, IInv, Tables, structure, people, leave
<1> QED
  BY <1>1, <1>2, RowAdded DEF SeedAccessRole, structure, people, leave

\* The role of a grant was written before it.
LEMMA GrantStep ==
  ASSUME IInv, NEW role \in DOMAIN ACCESS_ROLES, NEW grant \in ACCESS_ROLES[role],
         SeedGrant(role, grant)
  PROVE  IInv'
<1> DEFINE line == [table |-> "grant", key |-> <<role, grant>>]
<1>1. Done(line)'
  BY DEF SeedGrant, Done
<1>2. role \in accessRoles
  <2>1. \A other \in Needs(line) : Done(other)
    BY AtLine DEF IInv, SeedGrant
  <2>2. [table |-> "role", key |-> role] \in Needs(line)
    BY DEF Needs, TableLines
  <2> QED
    BY <2>1, <2>2 DEF Done
<1>3. Tables'
  BY <1>2 DEF SeedGrant, IInv, Tables, structure, people, leave
<1> QED
  BY <1>1, <1>3, RowAdded DEF SeedGrant, structure, people, leave

\* ... a job title, ...
LEMMA TitleStep ==
  ASSUME IInv, NEW t \in JOB_TITLES, SeedTitle(t)
  PROVE  IInv'
<1>1. Done([table |-> "title", key |-> t])'
  BY DEF SeedTitle, Done
<1>2. Tables'
  BY DEF SeedTitle, IInv, Tables, structure, people, leave
<1> QED
  BY <1>1, <1>2, RowAdded DEF SeedTitle, structure, people, leave

\* The role a person is given was written before it.
LEMMA HoldStep ==
  ASSUME IInv, NEW e \in Employees, NEW role \in EMPLOYEES[e].accessRoles, SeedHold(e, role)
  PROVE  IInv'
<1> DEFINE line == [table |-> "hold", key |-> <<e, role>>]
<1>1. Done(line)'
  BY DEF SeedHold, Done
<1>2. role \in accessRoles
  <2>1. \A other \in Needs(line) : Done(other)
    BY AtLine DEF IInv, SeedHold
  <2>2. [table |-> "role", key |-> role] \in Needs(line)
    BY DEF Needs, TableLines
  <2> QED
    BY <2>1, <2>2 DEF Done
<1>3. Tables'
  BY <1>2 DEF SeedHold, IInv, Tables, catalogue, structure, leave
<1> QED
  BY <1>1, <1>3, RowAdded DEF SeedHold, catalogue, structure, leave

\* ... a leave type ...
LEMMA LeaveTypeStep ==
  ASSUME IInv, NEW t \in DOMAIN LEAVE_TYPES, SeedLeaveType(t)
  PROVE  IInv'
<1>1. Done([table |-> "type", key |-> t])'
  BY DEF SeedLeaveType, Done
<1>2. Tables'
  BY DEF SeedLeaveType, IInv, Tables, catalogue, structure, people
<1> QED
  BY <1>1, <1>2, RowAdded DEF SeedLeaveType, catalogue, structure, people

\* ... and an account.
LEMMA AccountStep ==
  ASSUME IInv, NEW e \in Employees, SeedAccount(e)
  PROVE  IInv'
<1>1. Done([table |-> "account", key |-> e])'
  BY DEF SeedAccount, Done
<1>2. Tables'
  BY DEF SeedAccount, IInv, Tables, catalogue, structure, leave
<1> QED
  BY <1>1, <1>2, RowAdded DEF SeedAccount, catalogue, structure, leave

\* What is before the line that is written is a line of the script.
LEMMA EarlierLines ==
  ASSUME Clock
  PROVE  \A j \in 1..(at - 1) : Script[j] \in ScriptLines
<1>1. /\ Script \in Seq(ScriptLines) /\ Len(Script) \in Nat
      /\ \A i \in 1..Len(Script) : Script[i] \in ScriptLines
  BY ScriptFollows, LenProperties DEF Follows
<1> DEFINE n == Len(Script)
<1>2. n \in Nat /\ at \in 0..n
  BY <1>1 DEF Clock
<1> HIDE DEF n
<1>3. \A j \in 1..(at - 1) : j \in 1..n
  BY <1>2
<1> QED
  BY <1>1, <1>3 DEF n

\* The database refused a row.
LEMMA Refused ==
  ASSUME IInv, Fail, touched # {} \/ year > FirstYear
  PROVE  IInv'
<1>1. Clock' /\ LinesDone' /\ Refusals'
  <2>1. Len(Script) \in Nat
    BY ScriptFollows, LenProperties DEF Follows
  <2>2. \A j \in 1..(0 - 1) : FALSE
    OBVIOUS
  <2>3. 0 \in 0..Len(Script)
    BY <2>1
  <2> QED
    BY <2>2, <2>3 DEF Fail, IInv, Clock, LinesDone, Refusals, world
<1>2. PeopleTyped' /\ Careers'
  BY PeopleKept DEF Fail, IInv, people, world
<1>3. VersionsFit' /\ Tables'
  BY PoliciesKept, TablesKept DEF Fail, IInv, leave, world, people
<1> QED
  BY <1>1, <1>2, <1>3 DEF IInv

\* In its first year the script finds the version it would open.
LEMMA NothingClashes ==
  ASSUME IInv, NEW t \in DOMAIN LEAVE_TYPES, year = FirstYear
  PROVE  \A a, b \in WithOpening(t) : a # b /\ a.type = b.type => ~Clashes(a, b)
<1>1. \A a, b \in policies : a # b /\ a.type = b.type => ~Clashes(a, b)
  BY DEF IInv, VersionsFit
<1>2. CASE Versions(t) = {}
  <2>1. \A a \in WithOpening(t) : (a \in policies /\ a.type # t) \/ a = Opening(t)
    BY <1>2 DEF WithOpening, Versions
  <2>2. Opening(t).type = t
    BY DEF Opening
  <2> QED
    BY <1>1, <2>1, <2>2
<1>3. CASE Versions(t) # {}
  <2>1. PICK p \in policies : p.type = t
    BY <1>3 DEF Versions
  <2>2. \E q \in Versions(t) : q.from = FirstYear * 10000 + 101
    BY <2>1 DEF IInv, VersionsFit
  <2>3. Opening(t).from = FirstYear * 10000 + 101
    BY DEF Opening
  <2>4. WithOpening(t) = policies
    BY <2>2, <2>3 DEF WithOpening
  <2> QED
    BY <1>1, <2>4
<1> QED
  BY <1>2, <1>3

\* An opening version is written only where the exclusion constraint lets it.
LEMMA PolicyStep ==
  ASSUME IInv, NEW t \in DOMAIN LEAVE_TYPES, SeedPolicy(t)
  PROVE  IInv'
<1> DEFINE line == [table |-> "policy", key |-> t]
           Clashing == \E a, b \in WithOpening(t) : a # b /\ a.type = b.type /\ Clashes(a, b)
<1>0. year \in FirstYear..LastYear /\ FirstYear \in Nat /\ LastYear \in Int
  BY SeedingAssumption DEF IInv, Clock
<1>1. CASE Clashing
  <2>1. Fail
    BY <1>1 DEF SeedPolicy
  <2>2. year # FirstYear
    BY <1>1, NothingClashes
  <2>3. year > FirstYear
    BY <1>0, <2>2
  <2> QED
    BY <2>1, <2>3, Refused
<1>2. CASE ~Clashing
  <2>1. /\ policies' = WithOpening(t) /\ GoOn
        /\ UNCHANGED <<leaveTypes, catalogue, structure, people>>
        /\ UNCHANGED <<touched, year>>
    BY <1>2 DEF SeedPolicy, GoOn, world
  <2>2. Opening(t) \in Policies /\ Opening(t).from = year * 10000 + 101
        /\ Opening(t).type = t
    <3>1. year * 10000 + 101 \in Nat /\ Open \in Nat
      BY <1>0 DEF Open
    <3>2. numbers[t] \in Nat
      BY DEF IInv, Clock
    <3> QED
      BY <3>1, <3>2 DEF Opening, Policies
  <2>3. policies \subseteq policies' /\ policies' \subseteq policies \union {Opening(t)}
    BY <2>1 DEF WithOpening
  <2>4. VersionsFit'
    <3>1. policies' \subseteq Policies
      BY <2>2, <2>3 DEF IInv, VersionsFit
    <3>2. \A a, b \in policies' : a # b /\ a.type = b.type => ~Clashes(a, b)
      BY <1>2, <2>1
    <3>3. ASSUME year = FirstYear, NEW p \in policies'
          PROVE  \E q \in policies' : q.type = p.type /\ q.from = FirstYear * 10000 + 101
      <4>1. CASE p \in policies
        <5>1. PICK q \in Versions(p.type) : q.from = FirstYear * 10000 + 101
          BY <3>3, <4>1 DEF IInv, VersionsFit
        <5> QED
          BY <2>3, <5>1 DEF Versions
      <4>2. CASE p \notin policies
        BY <2>2, <2>3, <3>3, <4>2
      <4> QED
        BY <4>1, <4>2
    <3> QED
      BY <2>1, <3>1, <3>2, <3>3 DEF VersionsFit, Versions, Clashes
  <2>5. Done(line)'
    <3>1. \E q \in policies' : q.type = t
      <4>1. CASE \E p \in Versions(t) : p.from = Opening(t).from
        BY <2>3, <4>1 DEF Versions
      <4>2. CASE ~\E p \in Versions(t) : p.from = Opening(t).from
        BY <2>1, <2>2, <4>2 DEF WithOpening
      <4> QED
        BY <4>1, <4>2
    <3> QED
      BY <3>1 DEF Done, Versions
  <2>6. \A other : Done(other) => Done(other)'
    BY <2>1, <2>3, DoneGrows DEF catalogue, structure, people
  <2>7. Clock' /\ LinesDone' /\ Refusals'
    <3>1. line \in ScriptLines /\ line.table = "policy" /\ line.key = t
      BY AtLine DEF IInv, SeedPolicy
    <3>2. Line(line.table, line.key)
      BY <3>1 DEF SeedPolicy
    <3> HIDE DEF line
    <3> QED
      BY <2>1, <2>5, <2>6, <3>1, <3>2, LineWritten DEF IInv
  <2>8. PeopleTyped' /\ Careers' /\ Tables'
    BY <2>1, PeopleKept, TablesKept DEF IInv, people
  <2> QED
    BY <2>4, <2>7, <2>8 DEF IInv
<1> QED
  BY <1>1, <1>2

\* A department is written below the one it is part of.
LEMMA DepartmentStep ==
  ASSUME IInv, NEW d \in DOMAIN DEPARTMENTS, SeedDepartment(d)
  PROVE  IInv'
<1> DEFINE line == [table |-> "department", key |-> d]
<1>1. line \in ScriptLines /\ \A other \in Needs(line) : Done(other)
  BY AtLine DEF IInv, SeedDepartment
<1>2. DEPARTMENTS[d] # NoDepartment => departments[DEPARTMENTS[d]] = NoDepartment
  <2> SUFFICES ASSUME DEPARTMENTS[d] # NoDepartment
               PROVE  departments[DEPARTMENTS[d]] = NoDepartment
    OBVIOUS
  <2>1. [table |-> "department", key |-> DEPARTMENTS[d]] \in Needs(line)
    BY DEF Needs, TableLines
  <2>2. departments[DEPARTMENTS[d]] = DEPARTMENTS[DEPARTMENTS[d]]
    BY <1>1, <2>1 DEF Done
  <2> QED
    BY <2>2, DepartmentsInOrder
<1>3. departments' = [departments EXCEPT ![d] = DEPARTMENTS[d]]
  BY <1>2 DEF SeedDepartment, NoDepartment, Absent
<1>4. /\ departments \in [DOMAIN DEPARTMENTS -> {Absent, NoDepartment} \union DOMAIN DEPARTMENTS]
      /\ DEPARTMENTS[d] \in {NoDepartment} \union DOMAIN DEPARTMENTS
  BY DepartmentsInOrder DEF IInv, Tables
<1>5. /\ departments' \in [DOMAIN DEPARTMENTS -> {Absent, NoDepartment} \union DOMAIN DEPARTMENTS]
      /\ departments'[d] = DEPARTMENTS[d]
      /\ \A other \in DOMAIN DEPARTMENTS :
           departments[other] = DEPARTMENTS[other] => departments'[other] = DEPARTMENTS[other]
  BY <1>3, <1>4
<1>6. UNCHANGED <<heads, catalogue, people, leave, world>> /\ GoOn
  BY DEF SeedDepartment, GoOn
<1>7. ASSUME NEW other \in ScriptLines, Done(other)
      PROVE  Done(other)'
  <2>1. other.table = "department" => other.key \in DOMAIN DEPARTMENTS
    BY DEF ScriptLines, TableLines
  <2> QED
    BY <1>5, <1>6, <1>7, <2>1
    DEF Done, EntryDone, OpenRow, Versions, catalogue, people, leave, world
<1>8. Clock' /\ LinesDone' /\ Refusals'
  <2>1. line.table = "department" /\ line.key = d
    OBVIOUS
  <2>2. Line(line.table, line.key) /\ Done(line)'
    BY <1>5, <2>1 DEF SeedDepartment, Done
  <2> HIDE DEF line
  <2> QED
    BY <1>1, <1>6, <1>7, <2>2, LineWritten, EarlierLines DEF IInv
<1>9. PeopleTyped' /\ Careers' /\ VersionsFit'
  BY <1>6, PeopleKept, PoliciesKept DEF IInv, people, leave, world
<1>10. Tables'
  BY <1>5, <1>6 DEF IInv, Tables, catalogue, people, leave
<1> QED
  BY <1>8, <1>9, <1>10 DEF IInv

\* No two people head the same department.
LEMMA HeadStep ==
  ASSUME IInv, NEW e \in Employees, SeedHead(e)
  PROVE  IInv'
<1> DEFINE line == [table |-> "head", key |-> e]
           d == EMPLOYEES[e].headOf
<1>1. line \in ScriptLines
  BY AtLine DEF IInv, SeedHead
<1>2. d \in DOMAIN DEPARTMENTS
  <2>1. IsHead(e)
    <3>1. \A other \in ScriptLines : other.table = "head" => IsHead(other.key)
      BY DEF ScriptLines, TableLines
    <3>2. line.table = "head" /\ line.key = e
      OBVIOUS
    <3> HIDE DEF line
    <3> QED
      BY <1>1, <3>1, <3>2
  <2> QED
    BY <2>1, DepartmentsInOrder DEF IsHead, Employees
<1>3. /\ heads \in [DOMAIN DEPARTMENTS -> {NoOne} \union Employees]
      /\ heads' = [heads EXCEPT ![d] = e]
  BY DEF IInv, Tables, SeedHead
<1> HIDE DEF d
<1>4. /\ heads' \in [DOMAIN DEPARTMENTS -> {NoOne} \union Employees]
      /\ heads'[d] = e /\ \A other \in DOMAIN DEPARTMENTS \ {d} : heads'[other] = heads[other]
  BY <1>2, <1>3
<1>5. UNCHANGED <<departments, catalogue, people, leave, world>> /\ GoOn
  BY DEF SeedHead, GoOn
<1>6. ASSUME NEW other \in ScriptLines, Done(other)
      PROVE  Done(other)'
  <2>1. CASE other.table = "head"
    <3>1. other.key \in Employees /\ IsHead(other.key)
      BY <2>1 DEF ScriptLines, TableLines
    <3>2. EMPLOYEES[other.key].headOf \in DOMAIN DEPARTMENTS
      BY <3>1, DepartmentsInOrder DEF IsHead, Employees
    <3>3. other.key # e => EMPLOYEES[other.key].headOf # d
      BY <3>1, DepartmentsInOrder DEF IsHead, Employees, d
    <3>4. heads[EMPLOYEES[other.key].headOf] = other.key
      BY <1>6, <2>1 DEF Done
    <3>5. heads'[EMPLOYEES[other.key].headOf] = other.key
      <4>1. CASE other.key = e
        BY <1>4, <4>1 DEF d
      <4>2. CASE other.key # e
        BY <1>4, <3>2, <3>3, <3>4, <4>2
      <4> QED
        BY <4>1, <4>2
    <3> QED
      BY <2>1, <3>5 DEF Done
  <2>2. CASE other.table # "head"
    BY <1>5, <1>6, <2>2
    DEF Done, EntryDone, OpenRow, Versions, catalogue, people, leave, world
  <2> QED
    BY <2>1, <2>2
<1>7. Clock' /\ LinesDone' /\ Refusals'
  <2>1. line.table = "head" /\ line.key = e
    OBVIOUS
  <2>2. Line(line.table, line.key) /\ Done(line)'
    BY <1>4, <2>1 DEF SeedHead, Done, d
  <2> HIDE DEF line
  <2> QED
    BY <1>1, <1>5, <1>6, <2>2, LineWritten, EarlierLines DEF IInv
<1>8. PeopleTyped' /\ Careers' /\ VersionsFit'
  BY <1>5, PeopleKept, PoliciesKept DEF IInv, people, leave, world
<1>9. Tables'
  BY <1>4, <1>5 DEF IInv, Tables, catalogue, people, leave
<1> QED
  BY <1>7, <1>8, <1>9 DEF IInv

\* The terms of an entry are taken as they are once its managers are there.
LEMMA ResolvedIs ==
  ASSUME NEW e \in Employees, NEW i \in DOMAIN EMPLOYEES[e].history,
         Managers(e) \subseteq DOMAIN copied
  PROVE  LET entry == EMPLOYEES[e].history[i]
         IN  Resolved(entry.terms) = entry.terms /\ RowOf(entry) = entry
<1> DEFINE entry == EMPLOYEES[e].history[i]
           terms == entry.terms
<1>1. entry \in Rows
  BY HistoryIs
<1>2. terms \in JobTerms
  BY <1>1 DEF Rows
<1>3. terms.manager = NoOne \/ terms.manager \in DOMAIN copied
  BY DEF Managers
<1> HIDE DEF entry
<1>4. Resolved(terms) = terms
  <2>1. Resolved(terms) = [terms EXCEPT !.manager = terms.manager]
    BY <1>3 DEF Resolved
  <2> HIDE DEF terms
  <2> QED
    BY <1>2, <2>1 DEF JobTerms
<1>5. RowOf(entry) = entry
  BY <1>1, <1>4 DEF RowOf, Rows
<1> QED
  BY <1>4, <1>5 DEF entry

\* The managers of a history are people of the company.
LEMMA ManagersKnown ==
  ASSUME NEW e \in Employees
  PROVE  Managers(e) \subseteq Employees
<1>1. PICK i \in DOMAIN Order : Order[i] = e
  BY ManagersFirst DEF Employees
<1>2. Managers(e) \subseteq {Order[j] : j \in 1..(i - 1)}
  BY <1>1, ManagersFirst DEF Managers
<1>3. Len(Order) \in Nat /\ DOMAIN Order = 1..Len(Order)
  BY ManagersFirst, LenProperties
<1>4. \A j \in 1..(i - 1) : j \in DOMAIN Order
  BY <1>3
<1>5. \A j \in DOMAIN Order : Order[j] \in Employees
  BY ManagersFirst DEF Employees
<1> QED
  BY <1>2, <1>4, <1>5

\* A person is written after the managers of their history, before any entry.
LEMMA EmployeeStep ==
  ASSUME IInv, NEW e \in Employees, SeedEmployee(e)
  PROVE  IInv'
<1> DEFINE line == [table |-> "employee", key |-> e]
           job == Current(e).terms
<1>1. /\ line \in ScriptLines /\ \A other \in Needs(line) : Done(other)
      /\ \A j \in 1..(at - 1) : Script[j].table # "entry"
  BY AtLine DEF IInv, SeedEmployee
<1>2. Managers(e) \subseteq DOMAIN copied
  <2>1. \A m \in Managers(e) : [table |-> "employee", key |-> m] \in Needs(line)
    BY DEF Needs, TableLines
  <2> QED
    BY <1>1, <2>1 DEF Done
<1>3. Resolved(Current(e).terms) = job /\ job \in JobTerms
  <2>1. PICK i \in DOMAIN EMPLOYEES[e].history :
          Current(e) = EMPLOYEES[e].history[i] /\ EMPLOYEES[e].history[i] \in Rows
    BY HistoryIs
  <2> QED
    BY <1>2, <2>1, ResolvedIs DEF Rows
<1> HIDE DEF job
<1>4. /\ DOMAIN copied' = DOMAIN copied \union {e} /\ copied'[e] = job
      /\ \A other \in DOMAIN copied \ {e} : copied'[other] = copied[other]
      /\ copied' = [x \in DOMAIN copied \union {e} |-> IF x = e THEN job ELSE copied[x]]
  BY <1>3 DEF SeedEmployee
<1>5. UNCHANGED <<career, holds, accounts, catalogue, structure, leave, world>> /\ GoOn
  BY DEF SeedEmployee, GoOn
<1>6. PeopleTyped'
  <2>1. copied' \in [DOMAIN copied' -> JobTerms] /\ DOMAIN copied' \subseteq Employees
    BY <1>3, <1>4 DEF IInv, PeopleTyped
  <2> QED
    BY <1>5, <2>1 DEF IInv, PeopleTyped, world
<1>7. Careers'
  <2> SUFFICES ASSUME NEW x \in Employees PROVE CareerFits(x)'
    BY DEF Careers
  <2>1. CareerFits(x) /\ career'[x] = career[x] /\ touched' = touched
    BY <1>5 DEF IInv, Careers, world
  <2>2. x \in DOMAIN copied => x \in DOMAIN copied'
    BY <1>4
  <2>3. x \notin touched => (x \in DOMAIN copied' => copied'[x] = Current(x).terms)
    BY <1>4, <2>1 DEF CareerFits, job
  <2> QED
    BY <2>1, <2>2, <2>3 DEF CareerFits, OneOpen, OpenRow
<1>8. ASSUME NEW other, other.table # "entry", Done(other)
      PROVE  Done(other)'
  BY <1>4, <1>5, <1>8 DEF Done, Versions, catalogue, structure, leave
<1>9. Clock' /\ LinesDone' /\ Refusals'
  <2>1. line.table = "employee" /\ line.key = e
    OBVIOUS
  <2>2. Line(line.table, line.key) /\ Done(line)'
    BY <1>4, <2>1 DEF SeedEmployee, Done
  <2> HIDE DEF line
  <2> QED
    BY <1>1, <1>5, <1>8, <2>2, LineWritten DEF IInv
<1>10. VersionsFit' /\ Tables'
  BY <1>5, PoliciesKept, TablesKept DEF IInv, leave, world
<1> QED
  BY <1>6, <1>7, <1>9, <1>10 DEF IInv

\* One row at most, as the index counts them.
LEMMA AtMostOne ==
  ASSUME NEW S, IsFiniteSet(S)
  PROVE  Cardinality(S) <= 1 <=> \A a, b \in S : a = b
<1>1. Cardinality(S) \in Nat
  BY FS_CardinalityType
<1>2. ASSUME Cardinality(S) <= 1 PROVE \A a, b \in S : a = b
  <2>1. CASE Cardinality(S) = 0
    BY <2>1, FS_EmptySet
  <2>2. CASE Cardinality(S) = 1
    BY <2>2, FS_Singleton
  <2> QED
    BY <1>1, <1>2, <2>1, <2>2
<1>3. ASSUME \A a, b \in S : a = b PROVE Cardinality(S) <= 1
  <2>1. CASE S = {}
    BY <2>1, FS_EmptySet
  <2>2. CASE S # {}
    <3>1. PICK a \in S : S = {a}
      BY <1>3, <2>2
    <3> QED
      BY <3>1, FS_Singleton
  <2> QED
    BY <2>1, <2>2
<1> QED
  BY <1>2, <1>3

\* An entry is written over the row that starts that day; a person whose job
\* was changed has an open row that the last entry cannot join.
LEMMA EntryStep ==
  ASSUME IInv, NEW e \in Employees, NEW i \in DOMAIN EMPLOYEES[e].history, SeedEntry(e, i)
  PROVE  IInv'
<1> DEFINE line == [table |-> "entry", key |-> <<e, i>>]
           history == EMPLOYEES[e].history
           entry == history[i]
           rows == Upserted(e, entry)
           n == Len(history)
           open == {row \in rows : row.to = Open}
<1>1. line \in ScriptLines /\ \A other \in Needs(line) : Done(other)
  BY AtLine DEF IInv, SeedEntry
<1>2. DOMAIN copied = Employees
  <2>1. Employees \subseteq DOMAIN copied
    <3>1. \A x \in Employees : [table |-> "employee", key |-> x] \in Needs(line)
      BY DEF Needs, TableLines
    <3> QED
      BY <1>1, <3>1 DEF Done
  <2> QED
    BY <2>1 DEF IInv, PeopleTyped
<1>3. RowOf(entry) = entry
  <2>1. Managers(e) \subseteq DOMAIN copied
    BY <1>2, ManagersKnown
  <2> QED
    BY <2>1, ResolvedIs
<1>4. /\ entry \in Rows /\ entry \in ToSet(history) /\ entry.from <= Current(e).from
      /\ entry.to = Open <=> i = n
      /\ i = n => entry = Current(e)
      /\ \A j \in DOMAIN history : history[j].from = entry.from => history[j] = entry
  <2>1. i \in 1..n /\ n \in 1..n /\ n \in Nat
    BY HistoryIs
  <2>2. entry \in Rows /\ Current(e) \in Rows /\ Current(e) = history[n]
    BY <2>1, HistoryIs
  <2>3. entry.from <= Current(e).from
    <3>1. entry.from \in Nat
      BY <2>2 DEF Rows
    <3>2. i # n => entry.from < Current(e).from
      BY <2>1, HistoryIs
    <3> HIDE DEF entry, n
    <3>3. i = n => entry = Current(e)
      BY <2>2 DEF entry
    <3>4. Current(e).from \in Nat
      BY <2>2 DEF Rows
    <3> QED
      BY <3>1, <3>2, <3>3, <3>4
  <2>4. entry \in ToSet(history)
    BY DEF ToSet
  <2>5. \A j \in DOMAIN history : history[j].from = entry.from => j = i
    BY HistoryIs
  <2>6. entry.to = Open <=> i = n
    BY <2>1, HistoryIs
  <2> QED
    BY <2>2, <2>3, <2>4, <2>5, <2>6
<1>5. career[e] \subseteq Rows /\ IsFiniteSet(career[e])
  BY DEF IInv, PeopleTyped
<1>6. rows \subseteq Rows /\ IsFiniteSet(rows) /\ IsFiniteSet(open)
  <2>1. rows \subseteq career[e] \union {entry}
    BY DEF Upserted
  <2>2. IsFiniteSet(career[e] \union {entry})
    BY <1>5, FS_AddElement
  <2>3. open \subseteq rows
    OBVIOUS
  <2> HIDE DEF rows, open, entry
  <2>4. IsFiniteSet(rows)
    BY <2>1, <2>2, FS_Subset
  <2>5. IsFiniteSet(open)
    BY <2>3, <2>4, FS_Subset
  <2> QED
    BY <1>4, <1>5, <2>1, <2>4, <2>5
<1>7. OneCurrent(rows) <=> \A a, b \in open : a = b
  <2>1. OneCurrent(rows) <=> Cardinality(open) <= 1
    BY DEF OneCurrent
  <2> HIDE DEF open
  <2> QED
    BY <1>6, <2>1, AtMostOne
<1>8. CareerFits(e) /\ e \in DOMAIN copied
  BY <1>2 DEF IInv, Careers
<1>9. IF OneCurrent(rows)
      THEN /\ career' = [career EXCEPT ![e] = rows] /\ GoOn
           /\ UNCHANGED <<copied, holds, accounts, catalogue, structure, leave, world>>
      ELSE Fail
  BY <1>3 DEF SeedEntry, GoOn
<1>10. /\ entry \in rows
       /\ \A old \in career[e] : old.from # entry.from => old \in rows
       /\ rows \subseteq career[e] \union {entry}
  BY DEF Upserted
<1> HIDE DEF rows, entry
<1>11. e \notin touched =>
         /\ rows \subseteq ToSet(history)
         /\ \A a, b \in open : a = b
         /\ \A j \in DOMAIN history : history[j] \in career[e] => history[j] \in rows
  <2> SUFFICES ASSUME e \notin touched
               PROVE  /\ rows \subseteq ToSet(history)
                      /\ \A a, b \in open : a = b
                      /\ \A j \in DOMAIN history : history[j] \in career[e] => history[j] \in rows
    OBVIOUS
  <2>1. rows \subseteq ToSet(history)
    <3>1. career[e] \subseteq ToSet(history)
      BY <1>8 DEF CareerFits
    <3>2. entry \in ToSet(history)
      BY <1>4
    <3> HIDE DEF history
    <3> QED
      BY <1>10, <3>1, <3>2
  <2>2. \A a \in open : a = Current(e)
    BY <2>1, HistoryIs
  <2>3. \A j \in DOMAIN history : history[j] \in career[e] => history[j] \in rows
    BY <1>4, <1>10
  <2> QED
    BY <2>1, <2>2, <2>3
<1>12. e \in touched => \E row \in open : row.from > Current(e).from
  <2> SUFFICES ASSUME e \in touched PROVE \E row \in open : row.from > Current(e).from
    OBVIOUS
  <2>1. PICK row \in career[e] : row.to = Open /\ row.from > Current(e).from
    BY <1>8 DEF CareerFits, OpenRow
  <2>2. row.from # entry.from
    <3>1. row.from \in Nat /\ entry.from \in Nat /\ Current(e).from \in Nat
      BY <1>4, <1>5, HistoryIs DEF Rows
    <3> QED
      BY <1>4, <2>1, <3>1
  <2> QED
    BY <1>10, <2>1, <2>2
<1>13. CASE ~OneCurrent(rows)
  <2>1. touched # {}
    BY <1>7, <1>11, <1>13
  <2> QED
    BY <1>9, <1>13, <2>1, Refused
<1>14. CASE OneCurrent(rows)
  <2>1. /\ career' = [career EXCEPT ![e] = rows] /\ GoOn
        /\ UNCHANGED <<copied, holds, accounts, catalogue, structure, leave, world>>
    BY <1>9, <1>14
  <2>2. career \in [Employees -> SUBSET Rows]
    BY DEF IInv, PeopleTyped
  <2>3. /\ career' \in [Employees -> SUBSET Rows] /\ career'[e] = rows
        /\ \A other \in Employees \ {e} : career'[other] = career[other]
    BY <1>6, <2>1, <2>2
  <2>4. touched' = touched
    BY <2>1 DEF world
  <2>5. PeopleTyped'
    <3>1. \A x \in Employees : IsFiniteSet(career'[x])
      BY <1>6, <2>3 DEF IInv, PeopleTyped
    <3> QED
      BY <2>1, <2>3, <2>4, <3>1 DEF IInv, PeopleTyped
  <2>6. OpenRow(e)' = open
    BY <2>3 DEF OpenRow
  <2>7. e \in touched => i # n
    <3> SUFFICES ASSUME e \in touched, i = n PROVE FALSE
      OBVIOUS
    <3>1. PICK row \in open : row.from > Current(e).from
      BY <1>12
    <3>2. entry \in open /\ entry = Current(e)
      BY <1>4, <1>10
    <3>3. row = entry
      BY <1>7, <1>14, <3>1, <3>2
    <3>4. entry.from \in Nat
      BY <1>4 DEF Rows
    <3> HIDE DEF open
    <3> QED
      BY <3>1, <3>2, <3>3, <3>4
  <2>8. Careers'
    <3> SUFFICES ASSUME NEW x \in Employees PROVE CareerFits(x)'
      BY DEF Careers
    <3>1. CASE x # e
      <4>1. CareerFits(x) /\ career'[x] = career[x] /\ copied' = copied
        BY <2>1, <2>3, <3>1 DEF IInv, Careers
      <4> QED
        BY <2>4, <4>1 DEF CareerFits, OneOpen, OpenRow
    <3>2. CASE x = e
      <4>1. OneOpen(e)'
        BY <1>7, <1>14, <2>6 DEF OneOpen
      <4>2. e \notin touched' => /\ career'[e] \subseteq ToSet(EMPLOYEES[e].history)
                                 /\ e \in DOMAIN copied' => copied'[e] = Current(e).terms
        BY <1>8, <1>11, <2>1, <2>3, <2>4 DEF CareerFits
      <4>3. e \in touched' => \E row \in OpenRow(e)' : row.from > Current(e).from
        BY <1>12, <2>4, <2>6
      <4>4. e \in DOMAIN copied'
        BY <1>8, <2>1
      <4> QED
        BY <3>2, <4>1, <4>2, <4>3, <4>4 DEF CareerFits
    <3> QED
      BY <3>1, <3>2
  <2>9. ASSUME NEW x \in Employees, NEW j \in DOMAIN EMPLOYEES[x].history, EntryDone(x, j)
        PROVE  EntryDone(x, j)'
    <3>1. CASE x # e
      BY <2>1, <2>3, <2>4, <2>9, <3>1 DEF EntryDone, OpenRow
    <3>2. CASE x = e
      <4>1. CASE e \notin touched
        BY <1>11, <2>3, <2>4, <2>9, <3>2, <4>1 DEF EntryDone
      <4>2. CASE e \in touched
        <5>1. open \subseteq OpenRow(e)
          <6>1. entry.to # Open
            BY <1>4, <2>7, <4>2
          <6>2. \A a \in rows : a.to = Open => a \in career[e]
            BY <1>10, <6>1
          <6> QED
            BY <6>2 DEF OpenRow
        <5> QED
          BY <2>1, <2>4, <2>6, <2>9, <3>2, <4>2, <5>1 DEF EntryDone
      <4> QED
        BY <4>1, <4>2
    <3> QED
      BY <3>1, <3>2
  <2>10. ASSUME NEW other \in ScriptLines, Done(other)
         PROVE  Done(other)'
    <3>1. CASE other.table = "entry"
      <4>1. /\ other.key[1] \in Employees
            /\ other.key[2] \in DOMAIN EMPLOYEES[other.key[1]].history
        BY <3>1 DEF ScriptLines, TableLines
      <4> QED
        BY <2>9, <2>10, <3>1, <4>1 DEF Done
    <3>2. CASE other.table # "entry"
      BY <2>1, <2>10, <3>2 DEF Done, Versions, catalogue, structure, leave
    <3> QED
      BY <3>1, <3>2
  <2>11. EntryDone(e, i)'
    BY <1>10, <2>3, <2>4, <2>7 DEF EntryDone, entry
  <2>12. Clock' /\ LinesDone' /\ Refusals'
    <3>1. line.table = "entry" /\ line.key = <<e, i>>
      OBVIOUS
    <3>2. Line(line.table, line.key) /\ Done(line)'
      BY <2>11, <3>1 DEF SeedEntry, Done
    <3> HIDE DEF line
    <3> QED
      BY <1>1, <2>1, <2>10, <3>2, LineWritten, EarlierLines DEF IInv
  <2>13. VersionsFit' /\ Tables'
    BY <2>1, PoliciesKept, TablesKept DEF IInv, leave, world
  <2> QED
    BY <2>5, <2>8, <2>12, <2>13 DEF IInv
<1> QED
  BY <1>13, <1>14

-----------------------------------------------------------------------------
(* What others do to the same database *)

\* The days of a year are before Open, which is the day of no row.
LEMMA DaysAre ==
  ASSUME Clock
  PROVE  /\ year \in Nat /\ FirstYear \in Nat /\ year >= FirstYear /\ year <= 9998
         /\ Open = 99999999
BY SeedingAssumption DEF Clock, Open

\* A person's job is changed: the open row, their current job until now, is
\* closed, and the next one starts after it.
LEMMA ChangeJobStep ==
  ASSUME IInv, NEW e \in Employees, ChangeJob(e)
  PROVE  IInv'
<1> DEFINE day == ChangeDay
<1>1. PICK row \in OpenRow(e) :
        LET next == [from |-> ChangeDay, to |-> Open,
                     terms |-> [row.terms EXCEPT !.role = "RECRUITER"]]
        IN  /\ row.from < ChangeDay
            /\ career' = [career EXCEPT ![e] =
                            (@ \ {row}) \union {[row EXCEPT !.to = ChangeDay - 1], next}]
            /\ copied' = [copied EXCEPT ![e] = next.terms]
  BY Zenon DEF ChangeJob
<1> DEFINE next == [from |-> day, to |-> Open,
                    terms |-> [row.terms EXCEPT !.role = "RECRUITER"]]
           closed == [row EXCEPT !.to = day - 1]
           rows == (career[e] \ {row}) \union {closed, next}
<1>2. /\ e \in Promoted /\ e \notin touched /\ touched' = touched \union {e}
      /\ ended' = Since
      /\ UNCHANGED <<at, runs, catalogue, structure, holds, accounts, leave, year, numbers>>
  BY DEF ChangeJob
<1>3. day \in Nat /\ day - 1 \in Nat /\ day - 1 # Open
  BY DaysAre DEF IInv, ChangeDay
<1>4. CareerFits(e) /\ career[e] \subseteq Rows /\ IsFiniteSet(career[e])
  BY DEF IInv, Careers, PeopleTyped
<1>5. row \in career[e] /\ row.to = Open /\ row \in Rows
  BY <1>4 DEF OpenRow
<1>6. next \in Rows /\ closed \in Rows
  <2>1. row.terms \in JobTerms /\ "RECRUITER" \in JOB_TITLES
    BY <1>5 DEF Rows, JOB_TITLES
  <2>2. [row.terms EXCEPT !.role = "RECRUITER"] \in JobTerms
    BY <2>1 DEF JobTerms
  <2>3. Open \in Nat
    BY DEF Open
  <2> HIDE DEF day
  <2> QED
    BY <1>3, <1>5, <2>2, <2>3 DEF Rows
<1>7. next.from = day /\ next.to = Open /\ closed.to = day - 1
  BY <1>5 DEF Rows
<1>8. e \in DOMAIN copied
  BY <1>4, <1>5 DEF CareerFits
<1> HIDE DEF day, next, closed
<1>9. rows \subseteq Rows /\ IsFiniteSet(rows)
  <2>1. IsFiniteSet(career[e] \ {row})
    BY <1>4, FS_Subset
  <2>2. IsFiniteSet({closed, next})
    <3>1. IsFiniteSet({closed} \union {next})
      BY FS_Singleton, FS_Union
    <3>2. {closed, next} = {closed} \union {next}
      OBVIOUS
    <3> QED
      BY <3>1, <3>2
  <2>3. IsFiniteSet(rows)
    BY <2>1, <2>2, FS_Union
  <2> QED
    BY <1>4, <1>6, <2>3
<1>10. {r \in rows : r.to = Open} = {next}
  <2>1. \A r \in career[e] \ {row} : r.to # Open
    BY <1>4, <1>5 DEF CareerFits, OneOpen, OpenRow
  <2>2. closed.to # Open
    BY <1>3, <1>7
  <2> QED
    BY <1>7, <2>1, <2>2
<1>11. career' = [career EXCEPT ![e] = rows] /\ copied' = [copied EXCEPT ![e] = next.terms]
  BY <1>1 DEF next, closed, day
<1> HIDE DEF rows
<1>12. /\ career' \in [Employees -> SUBSET Rows] /\ career'[e] = rows
       /\ \A x \in Employees \ {e} : career'[x] = career[x]
  BY <1>9, <1>11 DEF IInv, PeopleTyped
<1>13. /\ DOMAIN copied' = DOMAIN copied /\ copied' \in [DOMAIN copied -> JobTerms]
       /\ copied'[e] = next.terms
       /\ \A x \in DOMAIN copied \ {e} : copied'[x] = copied[x]
  <2>1. next.terms \in JobTerms
    BY <1>6 DEF Rows
  <2> QED
    BY <1>8, <1>11, <2>1 DEF IInv, PeopleTyped
<1>14. PeopleTyped'
  <2>1. \A x \in Employees : IsFiniteSet(career'[x])
    BY <1>9, <1>12 DEF IInv, PeopleTyped
  <2> QED
    BY <1>2, <1>12, <1>13, <2>1 DEF IInv, PeopleTyped
<1>15. OpenRow(e)' = {next}
  BY <1>10, <1>12 DEF OpenRow
<1>16. next.from > Current(e).from
  <2>1. row = Current(e)
    <3>1. row \in ToSet(EMPLOYEES[e].history)
      BY <1>2, <1>4, <1>5 DEF CareerFits
    <3> QED
      BY <1>5, <3>1, HistoryIs
  <2>2. row.from < day
    BY <1>1 DEF day
  <2>3. row.from \in Nat /\ day \in Nat
    BY <1>3, <1>5 DEF Rows
  <2> QED
    BY <1>7, <2>1, <2>2, <2>3
<1>17. Careers'
  <2> SUFFICES ASSUME NEW x \in Employees PROVE CareerFits(x)'
    BY DEF Careers
  <2>1. CASE x # e
    <3>1. CareerFits(x) /\ career'[x] = career[x]
      BY <1>12, <2>1 DEF IInv, Careers
    <3>2. x \in DOMAIN copied => x \in DOMAIN copied' /\ copied'[x] = copied[x]
      BY <1>13, <2>1
    <3>3. x \notin touched' <=> x \notin touched
      BY <1>2, <2>1
    <3>4. OpenRow(x)' = OpenRow(x)
      BY <3>1 DEF OpenRow
    <3> QED
      BY <1>13, <3>1, <3>2, <3>3, <3>4 DEF CareerFits, OneOpen
  <2>2. CASE x = e
    <3>1. OneOpen(e)'
      BY <1>15 DEF OneOpen
    <3>2. e \in touched' /\ e \in DOMAIN copied'
      BY <1>2, <1>8, <1>13
    <3>3. \E r \in OpenRow(e)' : r.from > Current(e).from
      BY <1>15, <1>16
    <3> QED
      BY <2>2, <3>1, <3>2, <3>3 DEF CareerFits
  <2> QED
    BY <2>1, <2>2
<1>18. ASSUME NEW x \in Employees, NEW j \in DOMAIN EMPLOYEES[x].history, EntryDone(x, j),
              x \in DOMAIN copied
       PROVE  EntryDone(x, j)'
  <2>1. CASE x # e
    <3>1. career'[x] = career[x] /\ copied'[x] = copied[x] /\ (x \in touched' <=> x \in touched)
      BY <1>2, <1>12, <1>13, <1>18, <2>1
    <3> QED
      BY <1>18, <3>1 DEF EntryDone, OpenRow
  <2>2. CASE x = e
    <3>1. e \in touched' /\ \A r \in OpenRow(e)' : r.terms = copied'[e]
      BY <1>2, <1>13, <1>15
    <3> QED
      BY <2>2, <3>1 DEF EntryDone
  <2> QED
    BY <2>1, <2>2
<1>19. ASSUME NEW line \in ScriptLines, Done(line)
       PROVE  Done(line)'
  <2>1. CASE line.table = "entry"
    <3>1. /\ line.key[1] \in Employees
          /\ line.key[2] \in DOMAIN EMPLOYEES[line.key[1]].history
          /\ EntryDone(line.key[1], line.key[2])
      BY <1>19, <2>1 DEF ScriptLines, TableLines, Done
    <3>2. EntryDone(line.key[1], line.key[2])'
      <4>1. CASE line.key[1] \in DOMAIN copied
        BY <1>18, <3>1, <4>1
      <4>2. CASE line.key[1] \notin DOMAIN copied
        <5> DEFINE x == line.key[1]
        <5>1. career[x] = {} /\ x # e
          BY <1>8, <3>1, <4>2 DEF IInv, Careers, CareerFits
        <5>2. career'[x] = {} /\ (x \in touched' <=> x \in touched)
          BY <1>2, <1>12, <3>1, <5>1
        <5>3. OpenRow(x)' = {}
          BY <5>2 DEF OpenRow
        <5> QED
          BY <3>1, <5>1, <5>2, <5>3 DEF EntryDone
      <4> QED
        BY <4>1, <4>2
    <3> QED
      BY <2>1, <3>2 DEF Done
  <2>2. CASE line.table # "entry"
    BY <1>2, <1>13, <1>19, <2>2 DEF Done, Versions, catalogue, structure, leave
  <2> QED
    BY <2>1, <2>2
<1>20. Clock' /\ LinesDone' /\ Refusals'
  <2>1. (ended' = "running" <=> ended = "running") /\ ended' # "done"
        /\ ended' \in {"never", "running", "done", "failed", "killed"}
    BY <1>2 DEF Since, IInv, Clock
  <2>2. Clock'
    BY <1>2, <2>1 DEF IInv, Clock
  <2>3. LinesDone'
    BY <1>2, <1>19, <2>1, EarlierLines DEF IInv, LinesDone
  <2>4. Refusals'
    BY <1>2 DEF Refusals
  <2> QED
    BY <2>2, <2>3, <2>4
<1>21. VersionsFit' /\ Tables'
  BY <1>2, PoliciesKept, TablesKept DEF IInv, leave
<1> QED
  BY <1>14, <1>17, <1>20, <1>21 DEF IInv

\* A version ends the day before the next one starts.
LEMMA NewVersionStep ==
  ASSUME IInv, NEW t \in DOMAIN LEAVE_TYPES, NewVersion(t)
  PROVE  IInv'
<1>1. PICK row \in Versions(t), day \in VersionDays :
        /\ row.to = Open /\ row.from < day
        /\ policies' = (policies \ {row}) \union
             {[row EXCEPT !.to = day - 1], [row EXCEPT !.from = day, !.quotaDays = @ + 1]}
  BY Zenon DEF NewVersion
<1> DEFINE closed == [row EXCEPT !.to = day - 1]
           next == [row EXCEPT !.from = day, !.quotaDays = @ + 1]
<1>2. /\ ended' = Since
      /\ UNCHANGED <<at, runs, catalogue, structure, people, leaveTypes, world>>
  BY DEF NewVersion
<1>3. day \in Nat /\ day - 1 \in Nat /\ day - 1 < Open
  BY DaysAre DEF IInv, VersionDays
<1>4. row \in policies /\ row \in Policies /\ row.type = t
  BY DEF Versions, IInv, VersionsFit
<1>5. /\ closed \in Policies /\ next \in Policies
      /\ closed.type = t /\ closed.from = row.from /\ closed.to = day - 1
      /\ next.type = t /\ next.from = day /\ next.to = Open
  <2>1. row.quotaDays + 1 \in Nat
    BY <1>4 DEF Policies
  <2>2. closed \in Policies /\ closed.type = t /\ closed.from = row.from /\ closed.to = day - 1
    BY <1>3, <1>4 DEF Policies
  <2>3. next \in Policies /\ next.type = t /\ next.from = day /\ next.to = row.to
    <3>1. PICK q \in Nat : q = row.quotaDays + 1
      BY <2>1
    <3>2. next = [row EXCEPT !.from = day, !.quotaDays = q]
      BY <3>1
    <3> HIDE DEF next
    <3> QED
      BY <1>3, <1>4, <3>2 DEF Policies
  <2> QED
    BY <1>1, <2>2, <2>3
<1>6. policies' = (policies \ {row}) \union {closed, next}
  BY <1>1
<1> HIDE DEF closed, next
<1>7. VersionsFit'
  <2>1. policies' \subseteq Policies
    BY <1>5, <1>6 DEF IInv, VersionsFit
  <2>2. ASSUME NEW a \in policies \ {row}, a.type = t
        PROVE  ~Clashes(a, closed) /\ ~Clashes(closed, a) /\ ~Clashes(a, next) /\ ~Clashes(next, a)
    <3>1. ~Clashes(a, row) /\ a \in Policies
      BY <1>4, <2>2 DEF IInv, VersionsFit
    <3>2. a.from \in Nat /\ a.to \in Nat /\ row.from \in Nat /\ row.to \in Nat
      BY <1>4, <3>1 DEF Policies
    <3>3. row.from < day /\ row.to = Open
      BY <1>1
    <3>4. ~(a.from <= Open /\ row.from <= a.to)
      BY <3>1, <3>3 DEF Clashes
    <3>5. Open \in Nat
      BY DEF Open
    <3>6. /\ ~(a.from <= day - 1 /\ row.from <= a.to)
          /\ ~(a.from <= Open /\ day <= a.to)
      BY <1>3, <3>2, <3>3, <3>4, <3>5
    <3> QED
      BY <1>5, <3>6 DEF Clashes
  <2>3. ~Clashes(closed, next) /\ ~Clashes(next, closed)
    <3>1. ~(day <= day - 1)
      BY <1>3
    <3> QED
      BY <1>5, <3>1 DEF Clashes
  <2>4. \A a, b \in policies' : a # b /\ a.type = b.type => ~Clashes(a, b)
    <3>1. \A a, b \in policies : a # b /\ a.type = b.type => ~Clashes(a, b)
      BY DEF IInv, VersionsFit
    <3> QED
      BY <1>5, <1>6, <2>2, <2>3, <3>1
  <2>5. ASSUME year = FirstYear, NEW p \in policies'
        PROVE  \E q \in policies' : q.type = p.type /\ q.from = FirstYear * 10000 + 101
    <3>1. PICK old \in policies : old.type = p.type
      BY <1>4, <1>5, <1>6
    <3>2. PICK q \in policies : q.type = p.type /\ q.from = FirstYear * 10000 + 101
      BY <2>5, <3>1 DEF IInv, VersionsFit, Versions
    <3>3. CASE q = row
      BY <1>4, <1>5, <1>6, <3>2, <3>3
    <3>4. CASE q # row
      BY <1>6, <3>2, <3>4
    <3> QED
      BY <3>3, <3>4
  <2> QED
    BY <1>2, <2>1, <2>4, <2>5 DEF VersionsFit, Versions, Clashes, world
<1>8. ASSUME NEW other, Versions(other) # {}
      PROVE  Versions(other)' # {}
  <2>1. PICK p \in policies : p.type = other
    BY <1>8 DEF Versions
  <2>2. \E q \in policies' : q.type = other
    BY <1>4, <1>5, <1>6, <2>1
  <2> QED
    BY <2>2 DEF Versions
<1>9. ASSUME NEW line, Done(line)
      PROVE  Done(line)'
  BY <1>2, <1>8, <1>9 DEF Done, EntryDone, OpenRow, catalogue, structure, people, world
<1>10. Clock' /\ LinesDone' /\ Refusals'
  <2>1. (ended' = "running" <=> ended = "running") /\ ended' # "done"
        /\ (ended' = "failed" <=> ended = "failed")
        /\ ended' \in {"never", "running", "done", "failed", "killed"}
    BY <1>2 DEF Since, IInv, Clock
  <2>2. Clock'
    BY <1>2, <2>1 DEF IInv, Clock, world
  <2>3. LinesDone'
    BY <1>2, <1>9, <2>1 DEF IInv, LinesDone
  <2>4. Refusals'
    BY <1>2, <2>1 DEF IInv, Refusals, world
  <2> QED
    BY <2>2, <2>3, <2>4
<1>11. PeopleTyped' /\ Careers' /\ Tables'
  BY <1>2, PeopleKept, TablesKept DEF IInv, people, world
<1> QED
  BY <1>7, <1>10, <1>11 DEF IInv

\* The numbers of seed-data.ts are in no table.
LEMMA EditNumbersStep ==
  ASSUME IInv, NEW t \in DOMAIN LEAVE_TYPES, EditNumbers(t)
  PROVE  IInv'
<1>1. UNCHANGED <<at, runs, ended, catalogue, structure, people, leave, year, touched>>
  BY DEF EditNumbers
<1>2. numbers' \in [DOMAIN LEAVE_TYPES -> Nat]
  <2>1. numbers \in [DOMAIN LEAVE_TYPES -> Nat] /\ numbers[t] + 2 \in Nat
    BY DEF IInv, Clock
  <2> QED
    BY <2>1 DEF EditNumbers
<1>3. Clock' /\ Refusals'
  BY <1>1, <1>2 DEF IInv, Clock, Refusals
<1>4. LinesDone'
  <2>1. \A line : Done(line) => Done(line)'
    BY <1>1, DoneGrows DEF catalogue, structure, people, leave
  <2> QED
    BY <1>1, <2>1 DEF IInv, LinesDone
<1>5. PeopleTyped' /\ Careers' /\ Tables' /\ VersionsFit'
  BY <1>1, PeopleKept, TablesKept, PoliciesKept DEF IInv, people, leave
<1> QED
  BY <1>3, <1>4, <1>5 DEF IInv

\* A year passes between runs; what is written stands.
LEMMA NewYearStep ==
  ASSUME IInv, NewYear
  PROVE  IInv'
<1>1. /\ UNCHANGED <<at, runs, ended, catalogue, structure, people, leave, numbers, touched>>
      /\ year' = year + 1 /\ year < LastYear
  BY DEF NewYear
<1>2. year' \in FirstYear..LastYear /\ year' > FirstYear
  BY <1>1, SeedingAssumption DEF IInv, Clock
<1>3. Clock' /\ Refusals'
  BY <1>1, <1>2 DEF IInv, Clock, Refusals
<1>4. LinesDone'
  <2>1. \A line : Done(line) => Done(line)'
    BY <1>1, DoneGrows DEF catalogue, structure, people, leave
  <2> QED
    BY <1>1, <2>1 DEF IInv, LinesDone
<1>5. VersionsFit'
  <2>1. year' # FirstYear
    BY <1>2, SeedingAssumption
  <2> QED
    BY <1>1, <2>1 DEF IInv, VersionsFit, Clashes, leave
<1>6. PeopleTyped' /\ Careers' /\ Tables'
  BY <1>1, PeopleKept, TablesKept DEF IInv, people, leave
<1> QED
  BY <1>3, <1>4, <1>5, <1>6 DEF IInv

\* A run starts, or is killed.
LEMMA RunStep ==
  ASSUME IInv, Start \/ Kill
  PROVE  IInv'
<1>1. /\ UNCHANGED <<catalogue, structure, people, leave, world>>
      /\ \/ at' = 1 /\ ended' = "running" /\ runs < MaxRuns /\ runs' = runs + 1
         \/ at' = 0 /\ ended' = "killed" /\ runs' = runs
  BY DEF Start, Kill
<1>2. 0 \in 0..Len(Script) /\ 1 \in 0..Len(Script)
  <2>1. Len(Script) \in Nat \ {0}
    BY ScriptFollows, LenProperties, EmptySeq DEF Follows
  <2> QED
    BY <2>1
<1>3. runs' \in 0..MaxRuns
  BY <1>1, SeedingAssumption DEF IInv, Clock
<1>4. Clock' /\ Refusals'
  BY <1>1, <1>2, <1>3 DEF IInv, Clock, Refusals, world
<1>5. LinesDone'
  <2>1. (\A j \in 1..(0 - 1) : FALSE) /\ \A j \in 1..(1 - 1) : FALSE
    OBVIOUS
  <2> QED
    BY <1>1, <2>1 DEF LinesDone
<1>6. PeopleTyped' /\ Careers' /\ Tables' /\ VersionsFit'
  BY <1>1, PeopleKept, TablesKept, PoliciesKept DEF IInv, people, leave, world
<1> QED
  BY <1>4, <1>5, <1>6 DEF IInv

-----------------------------------------------------------------------------
(* The theorems *)

\* The empty database fits.
LEMMA InitHolds == Init => IInv
<1> SUFFICES ASSUME Init PROVE IInv
  OBVIOUS
<1>1. Clock
  <2>1. 0 \in 0..Len(Script)
    <3>1. Len(Script) \in Nat
      BY ScriptFollows, LenProperties DEF Follows
    <3> QED
      BY <3>1
  <2>2. year \in FirstYear..LastYear /\ runs \in 0..MaxRuns
    BY SeedingAssumption DEF Init
  <2>3. numbers \in [DOMAIN LEAVE_TYPES -> Nat]
    BY TablesFinite DEF Init
  <2> QED
    BY <2>1, <2>2, <2>3 DEF Init, Clock
<1>2. Tables
  BY DEF Init, Tables
<1>3. PeopleTyped
  <2>1. DOMAIN copied = {} /\ copied \in [{} -> JobTerms]
    BY EmptySeq DEF Init
  <2>2. \A e \in Employees : career[e] = {}
    BY DEF Init
  <2>3. career \in [Employees -> SUBSET Rows]
    BY DEF Init
  <2>4. \A e \in Employees : IsFiniteSet(career[e])
    BY <2>2, FS_EmptySet
  <2> QED
    BY <2>1, <2>3, <2>4 DEF Init, PeopleTyped
<1>4. Careers
  <2> SUFFICES ASSUME NEW e \in Employees PROVE CareerFits(e)
    BY DEF Careers
  <2>1. career[e] = {} /\ touched = {} /\ e \notin DOMAIN copied
    BY EmptySeq DEF Init
  <2> QED
    BY <2>1 DEF CareerFits, OneOpen, OpenRow
<1>5. VersionsFit
  BY DEF Init, VersionsFit
<1>6. LinesDone
  <2>1. \A j \in 1..(0 - 1) : FALSE
    OBVIOUS
  <2> QED
    BY <2>1 DEF Init, LinesDone
<1>7. Refusals
  BY DEF Init, Refusals
<1> QED
  BY <1>1, <1>2, <1>3, <1>4, <1>5, <1>6, <1>7 DEF IInv

\* One step of the script, of the clock or of the API at a time.
LEMMA NextHolds == IInv /\ [Next]_vars => IInv'
<1> SUFFICES ASSUME IInv, [Next]_vars PROVE IInv'
  OBVIOUS
<1>1. CASE UNCHANGED vars
  <2>1. UNCHANGED <<at, runs, ended, catalogue, structure, people, leave, world>>
    BY <1>1 DEF vars
  <2>2. Clock' /\ Refusals'
    BY <2>1 DEF IInv, Clock, Refusals, world
  <2>3. LinesDone'
    <3>1. \A line : Done(line) => Done(line)'
      BY <2>1, DoneGrows DEF catalogue, structure, people, leave, world
    <3> QED
      BY <2>1, <3>1 DEF IInv, LinesDone
  <2>4. PeopleTyped' /\ Careers' /\ Tables' /\ VersionsFit'
    BY <2>1, PeopleKept, TablesKept, PoliciesKept DEF IInv, people, leave, world
  <2> QED
    BY <2>2, <2>3, <2>4 DEF IInv
<1>2. CASE Start \/ Kill
  BY <1>2, RunStep
<1>3. CASE NewYear
  BY <1>3, NewYearStep
<1>4. ASSUME NEW e \in Employees, ChangeJob(e) PROVE IInv'
  BY <1>4, ChangeJobStep
<1>5. ASSUME NEW t \in DOMAIN LEAVE_TYPES, NewVersion(t) \/ EditNumbers(t) PROVE IInv'
  BY <1>5, NewVersionStep, EditNumbersStep
<1>6. CASE Seed
  <2>1. ASSUME NEW p \in PERMISSIONS, SeedPermission(p) PROVE IInv'
    BY <2>1, PermissionStep
  <2>2. ASSUME NEW role \in DOMAIN ACCESS_ROLES, SeedAccessRole(role) PROVE IInv'
    BY <2>2, RoleStep
  <2>3. ASSUME NEW role \in DOMAIN ACCESS_ROLES, NEW grant \in ACCESS_ROLES[role],
               SeedGrant(role, grant) PROVE IInv'
    BY <2>3, GrantStep
  <2>4. ASSUME NEW t \in JOB_TITLES, SeedTitle(t) PROVE IInv'
    BY <2>4, TitleStep
  <2>5. ASSUME NEW d \in DOMAIN DEPARTMENTS, SeedDepartment(d) PROVE IInv'
    BY <2>5, DepartmentStep
  <2>6. ASSUME NEW e \in Employees, SeedEmployee(e) \/ SeedHead(e) \/ SeedAccount(e) PROVE IInv'
    BY <2>6, EmployeeStep, HeadStep, AccountStep
  <2>7. ASSUME NEW e \in Employees, NEW i \in DOMAIN EMPLOYEES[e].history, SeedEntry(e, i)
        PROVE  IInv'
    BY <2>7, EntryStep
  <2>8. ASSUME NEW e \in Employees, NEW role \in EMPLOYEES[e].accessRoles, SeedHold(e, role)
        PROVE  IInv'
    BY <2>8, HoldStep
  <2>9. ASSUME NEW t \in DOMAIN LEAVE_TYPES, SeedLeaveType(t) \/ SeedPolicy(t) PROVE IInv'
    BY <2>9, LeaveTypeStep, PolicyStep
  <2> QED
    BY <1>6, <2>1, <2>2, <2>3, <2>4, <2>5, <2>6, <2>7, <2>8, <2>9 DEF Seed
<1> QED
  BY <1>1, <1>2, <1>3, <1>4, <1>5, <1>6 DEF Next

\* Whatever is killed, refused or changed in between, what the script has
\* written up to its line is there, and all of it after a run that ends well.
THEOREM InvariantHolds == Spec => []IInv
BY InitHolds, NextHolds, PTL DEF Spec

\* The tables hold what their columns say, grants and holders refer to rows
\* that are there, a person has one open row, and versions do not overlap.
THEOREM TypeCorrect == Spec => []TypeOK
<1>1. ASSUME IInv PROVE TypeOK
  <2>1. \A e \in Employees : Cardinality(OpenRow(e)) <= 1
    <3> SUFFICES ASSUME NEW e \in Employees PROVE Cardinality(OpenRow(e)) <= 1
      OBVIOUS
    <3>1. IsFiniteSet(OpenRow(e))
      <4>1. IsFiniteSet(career[e])
        BY <1>1 DEF IInv, PeopleTyped
      <4> QED
        BY <4>1, FS_Subset DEF OpenRow
    <3>2. OneOpen(e)
      BY <1>1 DEF IInv, Careers, CareerFits
    <3> QED
      BY <3>1, <3>2, AtMostOne DEF OneOpen
  <2>2. \A e \in Employees : e \notin DOMAIN copied => career[e] = {}
    BY <1>1 DEF IInv, Careers, CareerFits
  <2>3. \A d \in DOMAIN DEPARTMENTS :
          departments[d] \in {Absent, NoDepartment} \union DOMAIN DEPARTMENTS
    BY <1>1 DEF IInv, Tables
  <2> QED
    BY <1>1, <2>1, <2>2, <2>3 DEF IInv, Clock, Tables, VersionsFit, TypeOK
<1> QED
  BY <1>1, InvariantHolds, PTL

\* A run that ends well leaves the whole company, whatever runs were killed
\* before it and whatever others changed during it.
THEOREM RunIsWhole == Spec => []RunLeavesItWhole
<1>1. ASSUME IInv, ended = "done"
      PROVE  /\ \A role \in DOMAIN ACCESS_ROLES : {role} \X ACCESS_ROLES[role] \subseteq granted
             /\ departments = DEPARTMENTS
             /\ \A t \in DOMAIN LEAVE_TYPES : Versions(t) # {}
             /\ accounts = Employees
  <2>0. \A line \in ScriptLines : Done(line)
    BY <1>1 DEF IInv, LinesDone
  <2>1. \A role \in DOMAIN ACCESS_ROLES : {role} \X ACCESS_ROLES[role] \subseteq granted
    <3>1. \A g \in Granted : [table |-> "grant", key |-> g] \in ScriptLines
      BY ScriptLinesAre DEF TableLines
    <3>2. Granted \subseteq granted
      BY <2>0, <3>1 DEF Done
    <3> QED
      BY <3>2 DEF Granted
  <2>2. departments = DEPARTMENTS
    <3>1. \A d \in DOMAIN DEPARTMENTS : [table |-> "department", key |-> d] \in ScriptLines
      BY ScriptLinesAre DEF TableLines
    <3>2. \A d \in DOMAIN DEPARTMENTS : departments[d] = DEPARTMENTS[d]
      BY <2>0, <3>1 DEF Done
    <3>3. departments = [d \in DOMAIN DEPARTMENTS |-> departments[d]]
      BY <1>1 DEF IInv, Tables
    <3>4. DEPARTMENTS = [d \in DOMAIN DEPARTMENTS |-> DEPARTMENTS[d]]
      BY DEF DEPARTMENTS
    <3> QED
      BY <3>2, <3>3, <3>4
  <2>3. \A t \in DOMAIN LEAVE_TYPES : Versions(t) # {}
    <3>1. \A t \in DOMAIN LEAVE_TYPES : [table |-> "policy", key |-> t] \in ScriptLines
      BY ScriptLinesAre DEF TableLines
    <3> QED
      BY <2>0, <3>1 DEF Done
  <2>4. accounts = Employees
    <3>1. \A e \in Employees : [table |-> "account", key |-> e] \in ScriptLines
      BY ScriptLinesAre DEF TableLines
    <3>2. Employees \subseteq accounts
      BY <2>0, <3>1 DEF Done
    <3> QED
      BY <1>1, <3>2 DEF IInv, Tables
  <2> QED
    BY <2>1, <2>2, <2>3, <2>4
<1>2. ASSUME IInv, ended = "done", NEW e \in Employees
      PROVE  /\ e \in touched \/ career[e] = ToSet(EMPLOYEES[e].history)
             /\ \A row \in OpenRow(e) : row.terms = copied[e]
             /\ {<<e, role>> : role \in EMPLOYEES[e].accessRoles} \subseteq holds
             /\ EMPLOYEES[e].headOf # NoDepartment => heads[EMPLOYEES[e].headOf] = e
  <2>0. (\A line \in ScriptLines : Done(line)) /\ CareerFits(e)
    BY <1>2 DEF IInv, LinesDone, Careers
  <2>1. \A i \in DOMAIN EMPLOYEES[e].history : EntryDone(e, i)
    <3>1. \A i \in DOMAIN EMPLOYEES[e].history :
            [table |-> "entry", key |-> <<e, i>>] \in ScriptLines
      BY ScriptLinesAre DEF TableLines, Recorded
    <3> QED
      BY <2>0, <3>1 DEF Done
  <2>2. e \in touched \/ career[e] = ToSet(EMPLOYEES[e].history)
    <3> SUFFICES ASSUME e \notin touched PROVE career[e] = ToSet(EMPLOYEES[e].history)
      OBVIOUS
    <3>1. career[e] \subseteq ToSet(EMPLOYEES[e].history)
      BY <2>0 DEF CareerFits
    <3>2. \A x \in ToSet(EMPLOYEES[e].history) : x \in career[e]
      BY <2>1 DEF EntryDone, ToSet
    <3> QED
      BY <3>1, <3>2
  <2>3. \A row \in OpenRow(e) : row.terms = copied[e]
    <3>1. CASE e \in touched
      BY <2>1, <3>1, HistoryIs DEF EntryDone
    <3>2. CASE e \notin touched
      BY <2>0, <3>2, HistoryIs DEF CareerFits, OpenRow
    <3> QED
      BY <3>1, <3>2
  <2>4. {<<e, role>> : role \in EMPLOYEES[e].accessRoles} \subseteq holds
    <3>1. \A role \in EMPLOYEES[e].accessRoles :
            [table |-> "hold", key |-> <<e, role>>] \in ScriptLines
      BY ScriptLinesAre DEF TableLines, Held
    <3> QED
      BY <2>0, <3>1 DEF Done
  <2>5. EMPLOYEES[e].headOf # NoDepartment => heads[EMPLOYEES[e].headOf] = e
    <3>1. IsHead(e) => [table |-> "head", key |-> e] \in ScriptLines
      BY ScriptLinesAre DEF TableLines, Heads
    <3> QED
      BY <2>0, <3>1 DEF Done, IsHead
  <2> QED
    BY <2>2, <2>3, <2>4, <2>5
<1>3. IInv => RunLeavesItWhole
  BY <1>1, <1>2 DEF RunLeavesItWhole
<1> QED
  BY <1>3, InvariantHolds, PTL

\* A run is refused only by a database in which a seeded job has changed, or in
\* a later year than its first.
THEOREM RefusalsExplained == Spec => []RefusedOnlyIfTouched
<1>1. IInv => RefusedOnlyIfTouched
  BY DEF IInv, Refusals, RefusedOnlyIfTouched
<1> QED
  BY <1>1, InvariantHolds, PTL

\* The job on the row of a person nobody changed is the one of their history,
\* at every row of every run.
THEOREM CopyHolds == Spec => []CopyIsCurrent
<1>1. ASSUME IInv, NEW e \in Employees \ touched, NEW row \in OpenRow(e)
      PROVE  row.terms = copied[e]
  <2>1. CareerFits(e) /\ row \in career[e] /\ row.to = Open
    BY <1>1 DEF IInv, Careers, OpenRow
  <2>2. row \in ToSet(EMPLOYEES[e].history) /\ copied[e] = Current(e).terms
    BY <2>1 DEF CareerFits
  <2> QED
    BY <2>1, <2>2, HistoryIs
<1>2. IInv => CopyIsCurrent
  BY <1>1 DEF CopyIsCurrent
<1> QED
  BY <1>2, InvariantHolds, PTL

\* What a recorded version was worth while it was in force is never changed,
\* by the script, the API or an edit of seed-data.ts.
THEOREM PoliciesStand == Spec => VersionsStand
<1> DEFINE Kept(p) == \E q \in policies' :
             /\ q.type = p.type /\ q.from = p.from /\ q.quotaDays = p.quotaDays
             /\ q.to = p.to \/ p.to = Open
<1>1. ASSUME policies \subseteq policies', NEW p \in policies PROVE Kept(p)
  BY <1>1
<1>2. ASSUME NEW t \in DOMAIN LEAVE_TYPES, IInv, NewVersion(t), NEW p \in policies PROVE Kept(p)
  <2>1. PICK row \in Versions(t), day \in VersionDays :
          /\ row.to = Open
          /\ policies' = (policies \ {row}) \union
               {[row EXCEPT !.to = day - 1], [row EXCEPT !.from = day, !.quotaDays = @ + 1]}
    BY <1>2, Zenon DEF NewVersion
  <2> DEFINE closed == [row EXCEPT !.to = day - 1]
  <2>2. row \in Policies
    BY <1>2 DEF IInv, VersionsFit, Versions
  <2>3. closed.type = row.type /\ closed.from = row.from /\ closed.quotaDays = row.quotaDays
    BY <2>2 DEF Policies
  <2>4. closed \in policies'
    BY <2>1
  <2> HIDE DEF closed
  <2>5. CASE p = row
    BY <2>1, <2>3, <2>4, <2>5
  <2>6. CASE p # row
    <3>1. p \in policies'
      BY <2>1, <2>6
    <3> QED
      BY <3>1
  <2> QED
    BY <2>5, <2>6
<1>3. ASSUME NEW t \in DOMAIN LEAVE_TYPES, SeedPolicy(t) PROVE policies \subseteq policies'
  BY <1>3 DEF SeedPolicy, WithOpening, Fail, leave
<1>4. ASSUME Seed, ~\E t \in DOMAIN LEAVE_TYPES : SeedPolicy(t) PROVE policies' = policies
  BY <1>4 DEF Seed, SeedPermission, SeedAccessRole, SeedGrant, SeedTitle, SeedDepartment,
              SeedEmployee, SeedEntry, SeedHold, SeedHead, SeedAccount, SeedLeaveType, Fail, leave
<1>5. ASSUME [Next]_vars, ~Seed, ~\E t \in DOMAIN LEAVE_TYPES : NewVersion(t)
      PROVE  policies' = policies
  BY <1>5 DEF Next, Start, Kill, NewYear, ChangeJob, EditNumbers, leave, vars
<1>6. ASSUME IInv, [Next]_vars, NEW p \in policies PROVE Kept(p)
  BY <1>1, <1>2, <1>3, <1>4, <1>5, <1>6
<1>7. IInv /\ [Next]_vars => [\A p \in policies : Kept(p)]_vars
  BY <1>6
<1> QED
  BY <1>7, InvariantHolds, PTL DEF Spec, VersionsStand
=============================================================================
