---------------------------- MODULE CommandsProofs ----------------------------
(***************************************************************************)
(* What commands do to the state that outlives them, for every instance:   *)
(* the daemon that serves an endpoint and the commands that start, stop    *)
(* and replace it, the files of the configuration, the retirement of the   *)
(* daemons of an earlier layout; what a command is told by a server over   *)
(* one connection, and by many servers at once; and what the line of a     *)
(* call makes of its arguments.                                            *)
(***************************************************************************)
EXTENDS Daemon, ConfigWriting, Migration, McpClient, ToolCommands, FunctionTheorems, FiniteSetTheorems, WellFoundedInduction,
        TLAPS

-----------------------------------------------------------------------------
(* What is computed step by step.                                          *)

(* The least number outside of a set is not the successor of one inside.   *)
LEMMA Induction ==
  ASSUME NEW S, 0 \in S, \A n \in Nat : n \in S => n + 1 \in S
  PROVE  \A n \in Nat : n \in S
<1> DEFINE R == {ss \in Nat \X Nat : ss[1] < ss[2]}
<1>1. SUFFICES ASSUME Nat \ S # {} PROVE FALSE
  OBVIOUS
<1>2. IsWellFoundedOn(R, Nat)
  BY NatLessThanWellFounded DEF OpToRel
<1>3. \E n \in Nat \ S : \A m \in Nat \ S : ~(<<m, n>> \in R)
  <2> HIDE DEF R
  <2>1. Nat \ S \subseteq Nat
    OBVIOUS
  <2>2. QED
    BY <1>1, <1>2, <2>1, WFMin
<1>4. PICK n \in Nat \ S : \A m \in Nat \ S : ~(m < n)
  BY <1>3
<1>5. n # 0
  OBVIOUS
<1>6. n - 1 \in Nat /\ n - 1 < n /\ (n - 1) + 1 = n
  BY <1>5
<1>7. n - 1 \in S
  BY <1>4, <1>6
<1>8. QED
  BY <1>6, <1>7

(* Each result is what a step makes of the result before it.               *)
Steps(f, n, base, step) == f = [k \in 0..n |-> IF k = 0 THEN base ELSE step[k][f[k - 1]]]

LEMMA Stepwise ==
  ASSUME NEW n \in Nat, NEW D, NEW base \in D, NEW step \in [1..n -> [D -> D]]
  PROVE  \E f \in [0..n -> D] : Steps(f, n, base, step)
<1> DEFINE Upto(f, m) == f \in [0..m -> D] /\ f[0] = base /\ \A k \in 1..m : f[k] = step[k][f[k - 1]]
           S == {m \in Nat : m <= n => \E f : Upto(f, m)}
<1>1. 0 \in S
  <2>1. Upto([k \in 0..0 |-> base], 0)
    OBVIOUS
  <2>2. QED
    BY <2>1
<1>2. ASSUME NEW m \in Nat, m \in S PROVE m + 1 \in S
  <2>1. SUFFICES ASSUME m + 1 <= n PROVE \E f : Upto(f, m + 1)
    OBVIOUS
  <2>2. m <= n
    BY <2>1
  <2>3. PICK f : Upto(f, m)
    BY <1>2, <2>2
  <2>4. PICK g : g = [k \in 0..(m + 1) |-> IF k = m + 1 THEN step[m + 1][f[m]] ELSE f[k]]
    OBVIOUS
  <2>5. step[m + 1] \in [D -> D] /\ f[m] \in D
    BY <2>1, <2>3
  <2>6. g \in [0..(m + 1) -> D]
    BY <2>3, <2>4, <2>5
  <2>7. ASSUME NEW k \in 1..(m + 1) PROVE g[k] = step[k][g[k - 1]]
    <3>1. CASE k = m + 1
      BY <2>4, <3>1
    <3>2. CASE k # m + 1
      <4>1. k \in 1..m /\ k - 1 \in 0..m /\ k - 1 # m + 1
        BY <3>2
      <4>2. g[k] = f[k] /\ g[k - 1] = f[k - 1]
        BY <2>4, <3>2, <4>1
      <4>3. QED
        BY <2>3, <4>1, <4>2
    <3>3. QED
      BY <3>1, <3>2
  <2>8. g[0] = base
    BY <2>3, <2>4
  <2>9. Upto(g, m + 1)
    BY <2>6, <2>7, <2>8
  <2>10. QED
    BY <2>9
<1>3. \A m \in Nat : m \in S
  <2> HIDE DEF S
  <2>1. \A m \in Nat : m \in S => m + 1 \in S
    BY <1>2
  <2>2. QED
    BY <1>1, <2>1, Induction
<1>4. PICK f : Upto(f, n)
  <2>1. n \in S
    BY <1>3
  <2>2. QED
    BY <2>1
<1>5. Steps(f, n, base, step)
  <2>1. ASSUME NEW k \in 0..n PROVE f[k] = IF k = 0 THEN base ELSE step[k][f[k - 1]]
    <3>1. k = 0 \/ k \in 1..n
      OBVIOUS
    <3>2. QED
      BY <1>4, <3>1
  <2>2. QED
    BY <1>4, <2>1 DEF Steps
<1>6. QED
  BY <1>4, <1>5

-----------------------------------------------------------------------------
(* Sorting.                                                                *)

(* A finite set whose members have keys of their own is listed in the      *)
(* order of the keys.                                                      *)
LEMMA KeysInOrder ==
  ASSUME NEW S, IsFiniteSet(S), NEW key \in [S -> Int], \A x, y \in S : key[x] = key[y] => x = y
  PROVE  /\ Cardinality(S) \in Nat
         /\ InOrderOf(S, key) \in [1..Cardinality(S) -> S]
         /\ \A x \in S : \E i \in 1..Cardinality(S) : InOrderOf(S, key)[i] = x
         /\ \A i, j \in 1..Cardinality(S) : i < j => key[InOrderOf(S, key)[i]] < key[InOrderOf(S, key)[j]]
<1> DEFINE Below(x) == {y \in S : key[y] < key[x]}
<1>1. PICK n : n = Cardinality(S) /\ n \in Nat
  BY FS_CardinalityType
<1>2. PICK rank : rank = [x \in S |-> Cardinality(Below(x)) + 1]
  OBVIOUS
<1>3. ASSUME NEW x \in S PROVE Cardinality(Below(x)) \in Nat /\ Cardinality(Below(x)) < n
  <2>1. PICK B : B = Below(x) /\ B \subseteq S /\ x \notin B
    <3>1. PICK B : B = {y \in S : key[y] < key[x]}
      OBVIOUS
    <3>2. key[x] \in Int
      OBVIOUS
    <3>3. QED
      BY <3>1, <3>2
  <2>2. IsFiniteSet(B) /\ Cardinality(B) <= n /\ (n = Cardinality(B) => S = B)
    BY <1>1, <2>1, FS_Subset
  <2>3. Cardinality(B) \in Nat
    BY <2>2, FS_CardinalityType
  <2>4. Cardinality(B) # n
    BY <2>1, <2>2
  <2>5. QED
    BY <1>1, <2>1, <2>2, <2>3, <2>4
<1>4. ASSUME NEW x \in S, NEW y \in S, key[x] < key[y] PROVE Cardinality(Below(x)) < Cardinality(Below(y))
  <2>1. PICK B, C : B = Below(x) /\ C = Below(y)
    OBVIOUS
  <2>2. B \subseteq C /\ C \subseteq S /\ x \in C /\ x \notin B
    BY <1>4, <2>1
  <2>3. IsFiniteSet(C)
    BY <2>2, FS_Subset
  <2>4. Cardinality(B) <= Cardinality(C) /\ (Cardinality(C) = Cardinality(B) => C = B)
    BY <2>2, <2>3, FS_Subset
  <2>5. Cardinality(B) \in Nat /\ Cardinality(C) \in Nat
    BY <1>3, <2>1
  <2>6. Cardinality(B) # Cardinality(C)
    BY <2>2, <2>4
  <2>7. QED
    BY <2>1, <2>4, <2>5, <2>6
<1>5. \A x \in S : rank[x] \in 1..n
  BY <1>1, <1>2, <1>3
<1>6. \A x, y \in S : key[x] < key[y] => rank[x] < rank[y]
  <2>1. ASSUME NEW x \in S, NEW y \in S, key[x] < key[y] PROVE rank[x] < rank[y]
    <3>1. PICK a \in Nat, b \in Nat : a = Cardinality(Below(x)) /\ b = Cardinality(Below(y))
      BY <1>3
    <3>2. a < b
      BY <1>4, <2>1, <3>1
    <3>3. rank[x] = a + 1 /\ rank[y] = b + 1
      BY <1>2, <3>1
    <3>4. QED
      BY <3>2, <3>3
  <2>2. QED
    BY <2>1
<1> HIDE DEF Below
<1>7. ASSUME NEW x \in S, NEW y \in S PROVE rank[x] = rank[y] => x = y
  <2>1. key[x] \in Int /\ key[y] \in Int /\ rank[x] \in Int /\ rank[y] \in Int
    BY <1>5
  <2>2. QED
    BY <1>6, <2>1
<1>8. \A i \in 1..n : \E x \in S : rank[x] = i
  <2>1. rank \in Injection(S, 1..n)
    BY <1>2, <1>5, <1>7, Fun_IsInj
  <2>2. IsFiniteSet(1..n) /\ Cardinality(1..n) = n
    BY <1>1, FS_Interval
  <2>3. rank \in Surjection(S, 1..n)
    BY <1>1, <2>1, <2>2, FS_Injection
  <2>4. QED
    BY <2>3 DEF Surjection
<1>9. PICK s : s = InOrderOf(S, key)
  OBVIOUS
<1>10. s = [i \in 1..n |-> CHOOSE x \in S : Cardinality(Below(x)) = i - 1]
  BY <1>1, <1>9 DEF InOrderOf, Below
<1>11. ASSUME NEW i \in 1..n PROVE s[i] \in S /\ rank[s[i]] = i
  <2>1. PICK x \in S : rank[x] = i
    BY <1>8
  <2>2. Cardinality(Below(x)) = i - 1
    BY <1>2, <1>3, <2>1
  <2>3. s[i] \in S /\ Cardinality(Below(s[i])) = i - 1
    BY <1>10, <2>2
  <2>4. QED
    BY <1>2, <2>3
<1>12. s \in [1..n -> S]
  BY <1>10, <1>11
<1>13. ASSUME NEW x \in S PROVE \E i \in 1..n : s[i] = x
  BY <1>5, <1>7, <1>11
<1>14. ASSUME NEW i \in 1..n, NEW j \in 1..n, i < j PROVE key[s[i]] < key[s[j]]
  <2>1. PICK x \in S, y \in S : x = s[i] /\ y = s[j]
    BY <1>11
  <2>2. rank[x] = i /\ rank[y] = j
    BY <1>11, <2>1
  <2>3. key[x] \in Int /\ key[y] \in Int
    OBVIOUS
  <2>4. ~(key[y] < key[x]) /\ x # y
    BY <1>6, <1>14, <2>2
  <2>5. key[x] # key[y]
    BY <2>4
  <2>6. QED
    BY <2>1, <2>3, <2>4, <2>5
<1>15. QED
  BY <1>1, <1>9, <1>12, <1>13, <1>14
-----------------------------------------------------------------------------
(* One call of a tool.                                                     *)

KeyValue == [key : Keys, value : Values]
PartKinds == {"json", "stdin", "flag", "named", "positional", "literal", "badfile"}

(* An option, a name or a positional argument has a value.                 *)
LinePart == {x \in [kind : PartKinds, pairs : Seq(KeyValue)] : x.kind \in {"json", "stdin", "badfile"} \/ x.pairs # <<>>}
NamingKinds == {"json", "stdin", "flag", "named"}

(* An input and its place in the line.                                     *)
PlacedInput == [order : Nat, input : LinePart]

(* Every place of a line that has one of the kinds, once.                  *)
ArePlaces(p, n, line, kinds) ==
  /\ p \in [1..n -> 1..Len(line)]
  /\ \A k \in 1..n : line[p[k]].kind \in kinds
  /\ \A i \in 1..Len(line) : line[i].kind \in kinds => \E k \in 1..n : p[k] = i
  /\ \A j, k \in 1..n : p[j] = p[k] => j = k

LEMMA PlacesOf ==
  ASSUME NEW line \in Seq(LinePart), NEW kinds, NEW last
  PROVE  \E n \in Nat : ArePlaces(PlacesIn(line, kinds, last), n, line, kinds)
<1>1. PICK S : S = {i \in DOMAIN line : line[i].kind \in kinds}
  OBVIOUS
<1>2. DOMAIN line = 1..Len(line) /\ Len(line) \in Nat
  OBVIOUS
<1>3. PICK key : key = [i \in S |-> IF line[i].kind = last THEN Len(line) + i ELSE i]
  OBVIOUS
<1>4. S \subseteq 1..Len(line)
  BY <1>1, <1>2
<1>5. key \in [S -> Int] /\ \A i, j \in S : key[i] = key[j] => i = j
  <2>1. PICK l \in Nat : l = Len(line)
    BY <1>2
  <2>2. \A i \in S : i \in 1..l /\ (key[i] = i \/ key[i] = l + i)
    BY <1>3, <1>4, <2>1
  <2>3. QED
    BY <1>3, <2>2
<1>6. IsFiniteSet(S)
  <2>1. 1 \in Int /\ Len(line) \in Int
    BY <1>2
  <2>2. IsFiniteSet(1..Len(line))
    BY <2>1, FS_Interval
  <2>3. QED
    BY <1>4, <2>2, FS_Subset
<1>7. PICK n, p : n = Cardinality(S) /\ p = InOrderOf(S, key) /\ n \in Nat
  BY <1>6, FS_CardinalityType
<1>8. /\ p \in [1..n -> S] /\ \A x \in S : \E i \in 1..n : p[i] = x
      /\ \A i, j \in 1..n : i < j => key[p[i]] < key[p[j]]
  BY <1>5, <1>6, <1>7, KeysInOrder
<1>9. ASSUME NEW j \in 1..n, NEW k \in 1..n, p[j] = p[k] PROVE j = k
  <2>1. key[p[j]] \in Int /\ key[p[j]] = key[p[k]]
    BY <1>5, <1>8, <1>9
  <2>2. ~(key[p[j]] < key[p[k]]) /\ ~(key[p[k]] < key[p[j]])
    BY <2>1
  <2>3. ~(j < k) /\ ~(k < j)
    BY <1>8, <2>2
  <2>4. QED
    BY <2>3
<1>10. PlacesIn(line, kinds, last) = p
  BY <1>1, <1>3, <1>7 DEF PlacesIn
<1>11. p \in [1..n -> 1..Len(line)] /\ \A k \in 1..n : line[p[k]].kind \in kinds
  BY <1>1, <1>4, <1>8
<1>12. \A i \in 1..Len(line) : line[i].kind \in kinds => \E k \in 1..n : p[k] = i
  BY <1>1, <1>2, <1>8
<1>13. ArePlaces(p, n, line, kinds)
  BY <1>9, <1>11, <1>12 DEF ArePlaces
<1>14. QED
  BY <1>7, <1>10, <1>13

(* The inputs of a line, one after the other as the line has them.         *)
Inputs(inputs, line) ==
  /\ inputs \in Seq(PlacedInput)
  /\ \A k \in 1..Len(inputs) :
       /\ inputs[k].order \in 1..Len(line) /\ inputs[k].input = line[inputs[k].order]
       /\ inputs[k].input.kind \in NamingKinds
  /\ \A i \in 1..Len(line) : line[i].kind \in NamingKinds => \E k \in 1..Len(inputs) : inputs[k].order = i
  /\ \A j, k \in 1..Len(inputs) : j < k => inputs[j].order < inputs[k].order

LEMMA InputsInOrder ==
  ASSUME NEW line \in Seq(LinePart)
  PROVE  Inputs(InOrder(Gathered(line)), line)
<1>1. PICK n \in Nat : ArePlaces(PlacesIn(line, NamingKinds, "named"), n, line, NamingKinds)
  BY PlacesOf
<1>2. PICK p : p = PlacesIn(line, NamingKinds, "named")
  OBVIOUS
<1>3. /\ p \in [1..n -> 1..Len(line)]
      /\ \A k \in 1..n : line[p[k]].kind \in NamingKinds
      /\ \A i \in 1..Len(line) : line[i].kind \in NamingKinds => \E k \in 1..n : p[k] = i
      /\ \A j, k \in 1..n : p[j] = p[k] => j = k
  BY <1>1, <1>2 DEF ArePlaces
<1>4. PICK g : g = [k \in 1..n |-> [order |-> p[k], input |-> line[p[k]]]]
  OBVIOUS
<1>5. Gathered(line) = g
  <2>1. PlacesIn(line, {"json", "stdin", "flag", "named"}, "named") = p /\ DOMAIN p = 1..n
    BY <1>2, <1>3 DEF NamingKinds
  <2>2. QED
    BY <1>4, <2>1 DEF Gathered
<1>6. PICK key : key = [k \in 1..n |-> g[k].order]
  OBVIOUS
<1>7. /\ key \in [1..n -> Int] /\ \A j, k \in 1..n : key[j] = key[k] => j = k
      /\ \A k \in 1..n : key[k] = p[k]
  BY <1>3, <1>4, <1>6
<1>8. PICK q : q = InOrderOf(1..n, key)
  OBVIOUS
<1>9. /\ q \in [1..n -> 1..n] /\ \A x \in 1..n : \E i \in 1..n : q[i] = x
      /\ \A i, j \in 1..n : i < j => key[q[i]] < key[q[j]]
  <2>1. IsFiniteSet(1..n) /\ Cardinality(1..n) = n
    BY FS_Interval
  <2>2. PICK S : S = 1..n
    OBVIOUS
  <2>3. IsFiniteSet(S) /\ key \in [S -> Int] /\ (\A j, k \in S : key[j] = key[k] => j = k) /\ q = InOrderOf(S, key)
        /\ n = Cardinality(S)
    BY <1>7, <1>8, <2>1, <2>2
  <2>4. /\ q \in [1..n -> S] /\ \A x \in S : \E i \in 1..n : q[i] = x
        /\ \A i, j \in 1..n : i < j => key[q[i]] < key[q[j]]
    BY <2>3, KeysInOrder
  <2>5. QED
    BY <2>2, <2>4
<1>10. PICK r : r = [k \in 1..n |-> g[q[k]]]
  OBVIOUS
<1>11. InOrder(Gathered(line)) = r
  <2>1. DOMAIN g = 1..n /\ DOMAIN q = 1..n
    BY <1>4, <1>9
  <2>2. InOrderOf(DOMAIN g, [k \in DOMAIN g |-> g[k].order]) = q
    BY <1>6, <1>8, <2>1
  <2>3. QED
    BY <1>5, <1>10, <2>1, <2>2 DEF InOrder
<1>12. PICK o : o = [k \in 1..n |-> p[q[k]]]
  OBVIOUS
<1>13. \A k \in 1..n : q[k] \in 1..n /\ o[k] = p[q[k]] /\ o[k] = key[q[k]]
  BY <1>7, <1>9, <1>12
<1>14. o \in [1..n -> 1..Len(line)] /\ \A k \in 1..n : line[o[k]].kind \in NamingKinds
  BY <1>3, <1>12, <1>13
<1>15. \A k \in 1..n : r[k] = [order |-> o[k], input |-> line[o[k]]]
  BY <1>4, <1>10, <1>13
<1>16. \A i \in 1..Len(line) : line[i].kind \in NamingKinds => \E k \in 1..n : o[k] = i
  <2>1. ASSUME NEW i \in 1..Len(line), line[i].kind \in NamingKinds PROVE \E k \in 1..n : o[k] = i
    <3>1. PICK x \in 1..n : p[x] = i
      BY <1>3, <2>1
    <3>2. PICK k \in 1..n : q[k] = x
      BY <1>9
    <3>3. o[k] = i
      BY <1>13, <3>1, <3>2
    <3>4. QED
      BY <3>3
  <2>2. QED
    BY <2>1
<1>17. \A j, k \in 1..n : j < k => o[j] < o[k]
  <2>1. ASSUME NEW j \in 1..n, NEW k \in 1..n, j < k PROVE o[j] < o[k]
    <3>1. key[q[j]] < key[q[k]]
      BY <1>9, <2>1
    <3>2. QED
      BY <1>13, <3>1
  <2>2. QED
    BY <2>1
<1>18. \A k \in 1..n : r[k] \in PlacedInput /\ r[k].order = o[k] /\ r[k].input = line[o[k]]
  <2>1. ASSUME NEW k \in 1..n PROVE r[k] \in PlacedInput /\ r[k].order = o[k] /\ r[k].input = line[o[k]]
    <3>1. r[k] = [order |-> o[k], input |-> line[o[k]]]
      BY <1>15
    <3>2. o[k] \in 1..Len(line) /\ line[o[k]] \in LinePart
      BY <1>14
    <3>3. QED
      BY <3>1, <3>2 DEF PlacedInput
  <2>2. QED
    BY <2>1
<1>19. r \in Seq(PlacedInput) /\ Len(r) = n
  <2>1. r \in [1..n -> PlacedInput]
    BY <1>10, <1>18
  <2>2. QED
    BY <2>1
<1>20. QED
  <2>1. \A k \in 1..n : r[k].order \in 1..Len(line) /\ r[k].input = line[r[k].order] /\ r[k].input.kind \in NamingKinds
    BY <1>14, <1>18
  <2>2. \A i \in 1..Len(line) : line[i].kind \in NamingKinds => \E k \in 1..n : r[k].order = i
    BY <1>16, <1>18
  <2>3. \A j, k \in 1..n : j < k => r[j].order < r[k].order
    BY <1>17, <1>18
  <2>4. QED
    BY <1>11, <1>19, <2>1, <2>2, <2>3 DEF Inputs

(* The arguments that a line can give.                                     *)
Arguments == UNION {[names -> Values] : names \in SUBSET Keys}

LEMMA IsArguments ==
  ASSUME NEW names \in SUBSET Keys, NEW a, DOMAIN a = names, a = [k \in names |-> a[k]], \A k \in names : a[k] \in Values
  PROVE  a \in Arguments
<1>1. a \in [names -> Values]
  OBVIOUS
<1>2. QED
  BY <1>1 DEF Arguments

LEMMA ArgumentsTyped ==
  ASSUME NEW a \in Arguments
  PROVE  DOMAIN a \subseteq Keys /\ \A k \in DOMAIN a : a[k] \in Values
<1>1. PICK names \in SUBSET Keys : a \in [names -> Values]
  BY DEF Arguments
<1>2. QED
  BY <1>1

LEMMA NameIsKey ==
  ASSUME NEW key \in Keys, NEW schema
  PROVE  PropertyName(key, schema) \in Keys
BY DEF Keys, PropertyName

(* One argument is given a value; the others stay.                         *)
Puts(r, a, name, value) ==
  /\ r \in Arguments /\ DOMAIN r = DOMAIN a \cup {name} /\ r[name].id = value.id
  /\ \A k \in DOMAIN a \ {name} : r[k] = a[k]

LEMMA InsertedArguments ==
  ASSUME NEW a \in Arguments, NEW key \in Keys, NEW value \in Values, NEW op, NEW schema
  PROVE  Puts(Inserted(a, key, value, op, schema), a, PropertyName(key, schema), value)
<1>1. PICK name : name = PropertyName(key, schema) /\ name \in Keys
  BY NameIsKey
<1>2. PICK placed : placed = (IF schema THEN Hydrated(name, value, op) ELSE value)
  OBVIOUS
<1>3. placed \in Values /\ placed.id = value.id
  BY <1>2 DEF Hydrated, Values
<1>4. PICK r : r = [k \in DOMAIN a \cup {name} |-> IF k = name THEN placed ELSE a[k]]
  OBVIOUS
<1>5. r = Inserted(a, key, value, op, schema)
  BY <1>1, <1>2, <1>4 DEF Inserted
<1>6. DOMAIN a \cup {name} \in SUBSET Keys /\ \A k \in DOMAIN a \cup {name} : r[k] \in Values
  BY <1>1, <1>3, <1>4, ArgumentsTyped
<1>7. r \in Arguments
  BY <1>4, <1>6, IsArguments
<1>8. QED
  BY <1>1, <1>3, <1>4, <1>5, <1>7 DEF Puts

(* Among pairs, those that name a property.                                *)
Names(pairs, p, schema) == \E m \in 1..Len(pairs) : PropertyName(pairs[m].key, schema) = p

GivenBy(value, pairs, p, schema) ==
  \E m \in 1..Len(pairs) : PropertyName(pairs[m].key, schema) = p /\ value.id = pairs[m].value.id

(* What pairs name they change; the other arguments stay.                  *)
TakesPairs(r, a, pairs, schema) ==
  /\ r \in Arguments
  /\ \A p : p \in DOMAIN r <=> p \in DOMAIN a \/ Names(pairs, p, schema)
  /\ \A p \in DOMAIN r :
       \/ GivenBy(r[p], pairs, p, schema)
       \/ p \in DOMAIN a /\ r[p] = a[p] /\ ~Names(pairs, p, schema)

LEMMA PairsApplied ==
  ASSUME NEW a \in Arguments, NEW pairs \in Seq(KeyValue), NEW op, NEW schema
  PROVE  TakesPairs(AppliedPairs(a, pairs, op, schema), a, pairs, schema)
<1> DEFINE Made(x, k) == Inserted(x, pairs[k].key, pairs[k].value, op, schema)
<1>1. PICK n \in Nat : n = Len(pairs)
  OBVIOUS
<1>2. \A k \in 1..n : pairs[k] \in KeyValue /\ pairs[k].key \in Keys /\ pairs[k].value \in Values
  <2>1. \A k \in 1..n : pairs[k] \in KeyValue
    BY <1>1
  <2>2. QED
    BY <2>1 DEF KeyValue
<1>3. PICK name : name = [k \in 1..n |-> PropertyName(pairs[k].key, schema)]
  OBVIOUS
<1>4. ASSUME NEW k \in 1..n, NEW x \in Arguments
      PROVE  Puts(Made(x, k), x, name[k], pairs[k].value)
  <2>1. name[k] = PropertyName(pairs[k].key, schema)
    BY <1>3
  <2>2. QED
    BY <1>2, <2>1, InsertedArguments
<1>5. PICK step : step = [k \in 1..n |-> [x \in Arguments |-> Made(x, k)]]
  OBVIOUS
<1>6. step \in [1..n -> [Arguments -> Arguments]]
  BY <1>4, <1>5 DEF Puts
<1>7. PICK f \in [0..n -> Arguments] : Steps(f, n, a, step)
  BY <1>6, Stepwise
<1>8. f = [k \in 0..n |-> IF k = 0 THEN a ELSE Made(f[k - 1], k)]
  <2>1. ASSUME NEW k \in 0..n PROVE f[k] = IF k = 0 THEN a ELSE Made(f[k - 1], k)
    <3>1. CASE k = 0
      BY <1>7, <3>1 DEF Steps
    <3>2. CASE k # 0
      <4>1. k \in 1..n /\ k - 1 \in 0..n
        BY <3>2
      <4>2. f[k - 1] \in Arguments
        BY <4>1
      <4>3. step[k][f[k - 1]] = Made(f[k - 1], k)
        BY <1>5, <4>1, <4>2
      <4>4. QED
        BY <1>7, <3>2, <4>3 DEF Steps
    <3>3. QED
      BY <3>1, <3>2
  <2> HIDE DEF Made
  <2>2. QED
    BY <1>7, <2>1 DEF Steps
<1>9. PICK g : g = (CHOOSE h : h = [k \in 0..n |-> IF k = 0 THEN a ELSE Made(h[k - 1], k)])
  OBVIOUS
<1>10. g = [k \in 0..n |-> IF k = 0 THEN a ELSE Made(g[k - 1], k)]
  <2> HIDE DEF Made
  <2>1. QED
    BY <1>8, <1>9
<1>11. AppliedPairs(a, pairs, op, schema) = g[n]
  BY <1>1, <1>9 DEF AppliedPairs
<1>12. g[0] = a /\ \A k \in 1..n : g[k] = Made(g[k - 1], k)
  <2> HIDE DEF Made
  <2>1. ASSUME NEW k \in 1..n PROVE k \in 0..n /\ k # 0
    OBVIOUS
  <2>2. QED
    BY <1>10, <2>1
<1> DEFINE Told(k) ==
  /\ g[k] \in Arguments
  /\ \A p : p \in DOMAIN g[k] <=> p \in DOMAIN a \/ \E m \in 1..k : name[m] = p
  /\ \A p \in DOMAIN g[k] :
       \/ \E m \in 1..k : name[m] = p /\ g[k][p].id = pairs[m].value.id
       \/ p \in DOMAIN a /\ g[k][p] = a[p] /\ ~\E m \in 1..k : name[m] = p
<1>13. ASSUME NEW k \in Nat, k + 1 <= n, Told(k) PROVE Told(k + 1)
  <2>1. PICK l : l = k + 1 /\ l \in 1..n /\ l - 1 = k
    BY <1>13
  <2>2. Puts(g[l], g[k], name[l], pairs[l].value)
    BY <1>4, <1>12, <1>13, <2>1
  <2>3. PICK x, y : x = g[k] /\ y = g[l]
    OBVIOUS
  <2>4. /\ y \in Arguments /\ DOMAIN y = DOMAIN x \cup {name[l]} /\ y[name[l]].id = pairs[l].value.id
        /\ \A i \in DOMAIN x \ {name[l]} : y[i] = x[i]
    BY <2>2, <2>3 DEF Puts
  <2>5. \A m \in 1..l : m = l \/ m \in 1..k
    BY <2>1
  <2>6. \A m \in 1..k : m \in 1..l
    BY <2>1
  <2>7. l \in 1..l
    BY <2>1
  <2>8. \A p : p \in DOMAIN y <=> p \in DOMAIN a \/ \E m \in 1..l : name[m] = p
    BY <1>13, <2>3, <2>4, <2>5, <2>6, <2>7
  <2>9. ASSUME NEW p \in DOMAIN y
        PROVE  \/ \E m \in 1..l : name[m] = p /\ y[p].id = pairs[m].value.id
               \/ p \in DOMAIN a /\ y[p] = a[p] /\ ~\E m \in 1..l : name[m] = p
    <3>1. CASE p = name[l]
      BY <2>4, <2>7, <3>1
    <3>2. CASE p # name[l]
      <4>1. p \in DOMAIN x /\ y[p] = x[p]
        BY <2>4, <3>2
      <4>2. \/ \E m \in 1..k : name[m] = p /\ x[p].id = pairs[m].value.id
            \/ p \in DOMAIN a /\ x[p] = a[p] /\ ~\E m \in 1..k : name[m] = p
        BY <1>13, <2>3, <4>1
      <4>3. QED
        BY <2>5, <2>6, <3>2, <4>1, <4>2
    <3>3. QED
      BY <3>1, <3>2
  <2>10. QED
    BY <2>1, <2>3, <2>4, <2>8, <2>9
<1>14. Told(0)
  BY <1>12
<1>15. Told(n)
  <2> DEFINE S == {k \in Nat : k <= n => Told(k)}
  <2>1. 0 \in S
    BY <1>14
  <2>2. ASSUME NEW k \in Nat, k \in S PROVE k + 1 \in S
    <3>1. SUFFICES ASSUME k + 1 <= n PROVE Told(k + 1)
      OBVIOUS
    <3>2. Told(k)
      BY <2>2, <3>1
    <3>3. QED
      BY <1>13, <3>1, <3>2
  <2>3. n \in S
    <3> HIDE DEF S
    <3>1. \A k \in Nat : k \in S => k + 1 \in S
      BY <2>2
    <3>2. QED
      BY <2>1, <3>1, Induction
  <2>4. QED
    BY <2>3
<1>16. PICK r : r = g[n]
  OBVIOUS
<1>17. \A p : Names(pairs, p, schema) <=> \E m \in 1..n : name[m] = p
  BY <1>1, <1>3 DEF Names
<1>18. ASSUME NEW p, NEW m \in 1..n, name[m] = p, r[p].id = pairs[m].value.id PROVE GivenBy(r[p], pairs, p, schema)
  BY <1>1, <1>3, <1>18 DEF GivenBy
<1>19. TakesPairs(r, a, pairs, schema)
  BY <1>15, <1>16, <1>17, <1>18 DEF TakesPairs
<1>20. QED
  BY <1>11, <1>16, <1>19

(* What several inputs name is what the last of them gives.                *)
TakesInputs(r, n, inputs, schema) ==
  /\ r \in Arguments
  /\ \A p : p \in DOMAIN r <=> \E i \in 1..n : Names(inputs[i].input.pairs, p, schema)
  /\ \A p \in DOMAIN r : \E i \in 1..n :
       /\ GivenBy(r[p], inputs[i].input.pairs, p, schema)
       /\ \A j \in 1..n : Names(inputs[j].input.pairs, p, schema) => j <= i

LEMMA InputsApplied ==
  ASSUME NEW inputs \in Seq(PlacedInput), NEW op, NEW schema
  PROVE  TakesInputs(AppliedInputs(inputs, op, schema), Len(inputs), inputs, schema)
<1> DEFINE Made(x, k) == AppliedPairs(x, inputs[k].input.pairs, op, schema)
<1>1. PICK n \in Nat : n = Len(inputs)
  OBVIOUS
<1>2. PICK pairs : pairs = [k \in 1..n |-> inputs[k].input.pairs]
  OBVIOUS
<1>3. \A k \in 1..n : pairs[k] \in Seq(KeyValue) /\ pairs[k] = inputs[k].input.pairs
  <2>1. ASSUME NEW k \in 1..n PROVE pairs[k] \in Seq(KeyValue) /\ pairs[k] = inputs[k].input.pairs
    <3>1. inputs[k] \in PlacedInput
      BY <1>1
    <3>2. inputs[k].input \in LinePart
      BY <3>1 DEF PlacedInput
    <3>3. QED
      BY <1>2, <3>2 DEF LinePart
  <2>2. QED
    BY <2>1
<1>4. ASSUME NEW k \in 1..n, NEW x \in Arguments
      PROVE  TakesPairs(Made(x, k), x, pairs[k], schema)
  BY <1>3, PairsApplied
<1>5. PICK step : step = [k \in 1..n |-> [x \in Arguments |-> Made(x, k)]]
  OBVIOUS
<1>6. step \in [1..n -> [Arguments -> Arguments]]
  BY <1>4, <1>5 DEF TakesPairs
<1>7. PICK a \in Arguments : a = NoArguments
  <2>1. DOMAIN NoArguments = {} /\ NoArguments = [k \in {} |-> NoArguments[k]]
    BY DEF NoArguments
  <2>2. QED
    BY <2>1, IsArguments
<1>8. PICK f \in [0..n -> Arguments] : Steps(f, n, a, step)
  BY <1>6, Stepwise
<1>9. f = [k \in 0..n |-> IF k = 0 THEN a ELSE Made(f[k - 1], k)]
  <2>1. ASSUME NEW k \in 0..n PROVE f[k] = IF k = 0 THEN a ELSE Made(f[k - 1], k)
    <3>1. CASE k = 0
      BY <1>8, <3>1 DEF Steps
    <3>2. CASE k # 0
      <4>1. k \in 1..n /\ k - 1 \in 0..n
        BY <3>2
      <4>2. f[k - 1] \in Arguments
        BY <4>1
      <4>3. step[k][f[k - 1]] = Made(f[k - 1], k)
        BY <1>5, <4>1, <4>2
      <4>4. QED
        BY <1>8, <3>2, <4>3 DEF Steps
    <3>3. QED
      BY <3>1, <3>2
  <2> HIDE DEF Made
  <2>2. QED
    BY <1>8, <2>1 DEF Steps
<1>10. PICK g : g = (CHOOSE h : h = [k \in 0..n |-> IF k = 0 THEN NoArguments ELSE Made(h[k - 1], k)])
  OBVIOUS
<1>11. g = [k \in 0..n |-> IF k = 0 THEN a ELSE Made(g[k - 1], k)]
  <2> HIDE DEF Made
  <2>1. QED
    BY <1>7, <1>9, <1>10
<1>12. AppliedInputs(inputs, op, schema) = g[n]
  BY <1>1, <1>10 DEF AppliedInputs
<1>13. g[0] = a /\ \A k \in 1..n : g[k] = Made(g[k - 1], k)
  <2> HIDE DEF Made
  <2>1. ASSUME NEW k \in 1..n PROVE k \in 0..n /\ k # 0
    OBVIOUS
  <2>2. QED
    BY <1>11, <2>1
<1> DEFINE Told(k) ==
  /\ g[k] \in Arguments
  /\ \A p : p \in DOMAIN g[k] <=> \E i \in 1..k : Names(pairs[i], p, schema)
  /\ \A p \in DOMAIN g[k] : \E i \in 1..k :
       GivenBy(g[k][p], pairs[i], p, schema) /\ \A j \in 1..k : Names(pairs[j], p, schema) => j <= i
<1>14. ASSUME NEW k \in Nat, k + 1 <= n, Told(k) PROVE Told(k + 1)
  <2>1. PICK l : l = k + 1 /\ l \in 1..n /\ l - 1 = k
    BY <1>14
  <2>2. TakesPairs(g[l], g[k], pairs[l], schema)
    BY <1>4, <1>13, <1>14, <2>1
  <2>3. PICK x, y : x = g[k] /\ y = g[l]
    OBVIOUS
  <2>4. /\ y \in Arguments /\ \A p : p \in DOMAIN y <=> p \in DOMAIN x \/ Names(pairs[l], p, schema)
        /\ \A p \in DOMAIN y :
             \/ GivenBy(y[p], pairs[l], p, schema)
             \/ p \in DOMAIN x /\ y[p] = x[p] /\ ~Names(pairs[l], p, schema)
    BY <2>2, <2>3 DEF TakesPairs
  <2>5. \A m \in 1..l : m = l \/ m \in 1..k
    BY <2>1
  <2>6. \A m \in 1..k : m \in 1..l
    BY <2>1
  <2>7. l \in 1..l /\ \A m \in 1..l : m <= l
    BY <2>1
  <2>8. \A p : p \in DOMAIN y <=> \E i \in 1..l : Names(pairs[i], p, schema)
    BY <1>14, <2>3, <2>4, <2>5, <2>6, <2>7
  <2>9. ASSUME NEW p \in DOMAIN y
        PROVE  \E i \in 1..l : GivenBy(y[p], pairs[i], p, schema) /\ \A j \in 1..l : Names(pairs[j], p, schema) => j <= i
    <3>1. CASE GivenBy(y[p], pairs[l], p, schema)
      BY <2>7, <3>1
    <3>2. CASE p \in DOMAIN x /\ y[p] = x[p] /\ ~Names(pairs[l], p, schema)
      <4>1. PICK i \in 1..k : GivenBy(x[p], pairs[i], p, schema) /\ \A j \in 1..k : Names(pairs[j], p, schema) => j <= i
        BY <1>14, <2>3, <3>2
      <4>2. QED
        BY <2>5, <2>6, <3>2, <4>1
    <3>3. QED
      BY <2>4, <3>1, <3>2
  <2>10. QED
    BY <2>1, <2>3, <2>4, <2>8, <2>9
<1>15. Told(0)
  <2>1. DOMAIN a = {}
    BY <1>7 DEF NoArguments
  <2>2. QED
    BY <1>13, <2>1
<1>16. Told(n)
  <2> DEFINE S == {k \in Nat : k <= n => Told(k)}
  <2>1. 0 \in S
    BY <1>15
  <2>2. ASSUME NEW k \in Nat, k \in S PROVE k + 1 \in S
    <3>1. SUFFICES ASSUME k + 1 <= n PROVE Told(k + 1)
      OBVIOUS
    <3>2. Told(k)
      BY <2>2, <3>1
    <3>3. QED
      BY <1>14, <3>1, <3>2
  <2>3. n \in S
    <3> HIDE DEF S
    <3>1. \A k \in Nat : k \in S => k + 1 \in S
      BY <2>2
    <3>2. QED
      BY <2>1, <3>1, Induction
  <2>4. QED
    BY <2>3
<1>17. TakesInputs(g[n], n, inputs, schema)
  BY <1>3, <1>16 DEF TakesInputs
<1>18. QED
  BY <1>1, <1>12, <1>17

(* Parts of a line that give a value without a name.                       *)
Nameless(g, n, line) ==
  /\ g \in [1..n -> LinePart] /\ Len(g) = n
  /\ \A k \in 1..n : \E i \in 1..Len(line) : g[k] = line[i] /\ line[i].kind \in {"positional", "literal"}

LEMMA PositionalsOf ==
  ASSUME NEW line \in Seq(LinePart)
  PROVE  \E n \in Nat : Nameless(Positionals(line), n, line)
<1>1. PICK n \in Nat : ArePlaces(PlacesIn(line, {"positional", "literal"}, "literal"), n, line, {"positional", "literal"})
  BY PlacesOf
<1>2. PICK p : p = PlacesIn(line, {"positional", "literal"}, "literal")
  OBVIOUS
<1>3. p \in [1..n -> 1..Len(line)] /\ \A k \in 1..n : line[p[k]].kind \in {"positional", "literal"}
  BY <1>1, <1>2 DEF ArePlaces
<1>4. PICK g : g = [k \in 1..n |-> line[p[k]]]
  OBVIOUS
<1>5. g = Positionals(line)
  BY <1>2, <1>3, <1>4 DEF Positionals
<1>6. g \in [1..n -> LinePart] /\ \A k \in 1..n : g[k] = line[p[k]] /\ p[k] \in 1..Len(line)
  BY <1>3, <1>4
<1>7. Len(g) = n
  BY <1>6
<1>8. QED
  BY <1>3, <1>5, <1>6, <1>7 DEF Nameless

LEMMA PlacedArgument ==
  ASSUME NEW a \in Arguments, NEW value \in Values, NEW op
  PROVE  Placed(a, value, op) = a \/ \E q \in Keys \ DOMAIN a : Puts(Placed(a, value, op), a, q, value)
<1>1. PICK free : free = {i \in DOMAIN Properties : Properties[i] \notin DOMAIN a}
  OBVIOUS
<1>2. CASE free = {}
  BY <1>1, <1>2 DEF Placed
<1>3. CASE free # {}
  <2>1. free \subseteq {1, 2}
    BY <1>1 DEF Properties
  <2>2. \E i \in free : \A j \in free : i <= j
    <3>1. CASE 1 \in free
      BY <2>1, <3>1
    <3>2. CASE 1 \notin free
      <4>1. free = {2}
        BY <1>3, <2>1, <3>2
      <4>2. QED
        BY <4>1
    <3>3. QED
      BY <3>1, <3>2
  <2>3. PICK i \in free : i = Min(free)
    BY <2>2 DEF Min
  <2>4. PICK q : q = Properties[i]
    OBVIOUS
  <2>5. q \in Keys \ DOMAIN a /\ PropertyName(q, TRUE) = q
    BY <1>1, <2>1, <2>4 DEF Properties, Keys, PropertyName
  <2>6. Placed(a, value, op) = Inserted(a, q, value, op, TRUE)
    BY <1>1, <1>3, <2>3, <2>4 DEF Placed
  <2>7. Puts(Inserted(a, q, value, op, TRUE), a, q, value)
    BY <2>5, InsertedArguments
  <2>8. QED
    BY <2>5, <2>6, <2>7
<1>4. QED
  BY <1>2, <1>3

(* Arguments that had no value have those of nameless parts.               *)
TakesPositionals(r, a, line) ==
  /\ r \in Arguments /\ DOMAIN a \subseteq DOMAIN r
  /\ \A p \in DOMAIN r :
       \/ p \in DOMAIN a /\ r[p] = a[p]
       \/ p \notin DOMAIN a /\ \E i \in 1..Len(line) :
            line[i].kind \in {"positional", "literal"} /\ line[i].pairs[1].value.id = r[p].id

LEMMA PositionalsApplied ==
  ASSUME NEW a \in Arguments, NEW op, op.line \in Seq(LinePart)
  PROVE  TakesPositionals(WithPositionals(a, op), a, op.line)
<1>1. PICK line \in Seq(LinePart) : line = op.line
  OBVIOUS
<1>2. PICK n \in Nat : Nameless(Positionals(line), n, line)
  BY PositionalsOf
<1>3. PICK given : given = Positionals(line)
  OBVIOUS
<1>4. /\ given \in [1..n -> LinePart] /\ Len(given) = n
      /\ \A k \in 1..n : \E i \in 1..Len(line) : given[k] = line[i] /\ line[i].kind \in {"positional", "literal"}
  BY <1>2, <1>3 DEF Nameless
<1>5. PICK value : value = [k \in 1..n |-> given[k].pairs[1].value]
  OBVIOUS
<1>6. ASSUME NEW k \in 1..n
      PROVE  /\ value[k] \in Values
             /\ \E i \in 1..Len(line) : line[i].kind \in {"positional", "literal"} /\ line[i].pairs[1].value = value[k]
  <2>1. PICK i \in 1..Len(line) : given[k] = line[i] /\ line[i].kind \in {"positional", "literal"}
    BY <1>4
  <2>2. PICK x \in LinePart : x = given[k]
    BY <1>4
  <2>3. x.pairs \in Seq(KeyValue) /\ x.pairs # <<>>
    BY <2>1, <2>2 DEF LinePart
  <2>4. x.pairs[1] \in KeyValue
    BY <2>3
  <2>5. value[k] = x.pairs[1].value /\ value[k] \in Values
    BY <1>5, <2>2, <2>4 DEF KeyValue
  <2>6. QED
    BY <2>1, <2>2, <2>5
<1> DEFINE Made(x, k) == Placed(x, given[k].pairs[1].value, op)
<1>7. ASSUME NEW k \in 1..n, NEW x \in Arguments
      PROVE  /\ Made(x, k) \in Arguments
             /\ Made(x, k) = x \/ \E q \in Keys \ DOMAIN x : Puts(Made(x, k), x, q, value[k])
  <2>1. given[k].pairs[1].value = value[k] /\ value[k] \in Values
    BY <1>5, <1>6
  <2>2. PICK y : y = Made(x, k)
    OBVIOUS
  <2>3. y = x \/ \E q \in Keys \ DOMAIN x : Puts(y, x, q, value[k])
    BY <2>1, <2>2, PlacedArgument
  <2>4. y \in Arguments
    BY <2>3 DEF Puts
  <2>5. QED
    BY <2>2, <2>3, <2>4
<1>8. PICK step : step = [k \in 1..n |-> [x \in Arguments |-> Made(x, k)]]
  OBVIOUS
<1>9. step \in [1..n -> [Arguments -> Arguments]]
  <2> HIDE DEF Made
  <2>1. QED
    BY <1>7, <1>8
<1>10. PICK f \in [0..n -> Arguments] : Steps(f, n, a, step)
  BY <1>9, Stepwise
<1>11. f = [k \in 0..n |-> IF k = 0 THEN a ELSE Made(f[k - 1], k)]
  <2>1. ASSUME NEW k \in 0..n PROVE f[k] = IF k = 0 THEN a ELSE Made(f[k - 1], k)
    <3>1. CASE k = 0
      BY <1>10, <3>1 DEF Steps
    <3>2. CASE k # 0
      <4>1. k \in 1..n /\ k - 1 \in 0..n
        BY <3>2
      <4>2. f[k - 1] \in Arguments
        BY <4>1
      <4>3. step[k][f[k - 1]] = Made(f[k - 1], k)
        BY <1>8, <4>1, <4>2
      <4>4. QED
        BY <1>10, <3>2, <4>3 DEF Steps
    <3>3. QED
      BY <3>1, <3>2
  <2> HIDE DEF Made
  <2>2. QED
    BY <1>10, <2>1 DEF Steps
<1>12. PICK g : g = (CHOOSE h : h = [k \in 0..n |-> IF k = 0 THEN a ELSE Made(h[k - 1], k)])
  OBVIOUS
<1>13. g = [k \in 0..n |-> IF k = 0 THEN a ELSE Made(g[k - 1], k)]
  <2> HIDE DEF Made
  <2>1. QED
    BY <1>11, <1>12
<1>14. WithPositionals(a, op) = g[n]
  BY <1>1, <1>3, <1>4, <1>12 DEF WithPositionals
<1>15. g[0] = a /\ \A k \in 1..n : g[k] = Made(g[k - 1], k)
  <2> HIDE DEF Made
  <2>1. ASSUME NEW k \in 1..n PROVE k \in 0..n /\ k # 0
    OBVIOUS
  <2>2. QED
    BY <1>13, <2>1
<1> HIDE DEF Made
<1> DEFINE Told(k) == TakesPositionals(g[k], a, line)
<1>16. ASSUME NEW k \in Nat, k + 1 <= n, Told(k) PROVE Told(k + 1)
  <2>1. PICK l : l = k + 1 /\ l \in 1..n /\ l - 1 = k
    BY <1>16
  <2>2. PICK x, y : x = g[k] /\ y = g[l] /\ x \in Arguments
    BY <1>16 DEF TakesPositionals
  <2>3. y = Made(x, l) /\ y \in Arguments
    BY <1>7, <1>15, <2>1, <2>2
  <2>4. CASE y = x
    BY <1>16, <2>1, <2>2, <2>4
  <2>5. ASSUME NEW q \in Keys \ DOMAIN x, Puts(y, x, q, value[l]) PROVE TakesPositionals(y, a, line)
    <3>1. DOMAIN y = DOMAIN x \cup {q} /\ y[q].id = value[l].id /\ \A i \in DOMAIN x \ {q} : y[i] = x[i]
      BY <2>5 DEF Puts
    <3>2. /\ DOMAIN a \subseteq DOMAIN x
          /\ \A p \in DOMAIN x : \/ p \in DOMAIN a /\ x[p] = a[p]
                                 \/ p \notin DOMAIN a /\ \E i \in 1..Len(line) :
                                      line[i].kind \in {"positional", "literal"} /\ line[i].pairs[1].value.id = x[p].id
      BY <1>16, <2>2 DEF TakesPositionals
    <3>3. q \notin DOMAIN a /\ \E i \in 1..Len(line) : line[i].kind \in {"positional", "literal"}
                                                      /\ line[i].pairs[1].value.id = y[q].id
      BY <1>6, <2>1, <3>1, <3>2
    <3>4. \A p \in DOMAIN y : p = q \/ (p \in DOMAIN x /\ y[p] = x[p])
      BY <3>1
    <3>5. ASSUME NEW p \in DOMAIN y
          PROVE  \/ p \in DOMAIN a /\ y[p] = a[p]
                 \/ p \notin DOMAIN a /\ \E i \in 1..Len(line) :
                      line[i].kind \in {"positional", "literal"} /\ line[i].pairs[1].value.id = y[p].id
      <4>1. CASE p = q
        BY <3>3, <4>1
      <4>2. CASE p \in DOMAIN x /\ y[p] = x[p]
        BY <3>2, <4>2
      <4>3. QED
        BY <3>4, <4>1, <4>2
    <3>6. DOMAIN a \subseteq DOMAIN y
      BY <3>1, <3>2
    <3>7. QED
      BY <2>3, <3>5, <3>6 DEF TakesPositionals
  <2>6. y = x \/ \E q \in Keys \ DOMAIN x : Puts(y, x, q, value[l])
    BY <1>7, <2>1, <2>3
  <2>7. QED
    BY <2>1, <2>2, <2>4, <2>5, <2>6
<1>17. Told(0)
  BY <1>15 DEF TakesPositionals
<1>18. Told(n)
  <2> DEFINE S == {k \in Nat : k <= n => Told(k)}
  <2>1. 0 \in S
    BY <1>17
  <2>2. ASSUME NEW k \in Nat, k \in S PROVE k + 1 \in S
    <3>1. SUFFICES ASSUME k + 1 <= n PROVE Told(k + 1)
      OBVIOUS
    <3>2. Told(k)
      BY <2>2, <3>1
    <3>3. QED
      BY <1>16, <3>1, <3>2
  <2>3. n \in S
    <3> HIDE DEF S
    <3>1. \A k \in Nat : k \in S => k + 1 \in S
      BY <2>2
    <3>2. QED
      BY <2>1, <3>1, Induction
  <2>4. QED
    BY <2>3
<1>19. QED
  BY <1>1, <1>14, <1>18

(* What a command line asks for, and what the server's tools are.          *)
CallRequest ==
  [kind : {"none", "call", "resource"}, selector : {"ok", "missing", "conflict", "unknown"},
   adhoc : [url : BOOLEAN, command : BOOLEAN, persist : BOOLEAN, http : BOOLEAN, stdio : BOOLEAN],
   line : Seq(LinePart), schema : BOOLEAN, raw : BOOLEAN, types : [ToSet(Properties) -> {"any", "number", "text"}],
   ambiguous : BOOLEAN, required : SUBSET Keys, closed : BOOLEAN, tool : STRING, plain : STRING,
   tools : SUBSET [name : STRING, plain : STRING, visible : BOOLEAN], images : BOOLEAN]

(* Once the line has been read and until the arguments are complete.       *)
LineRead == {"selecting", "persisting", "connecting", "listing", "resolving", "hydrating"}
CallFates == {"none", "usage", "unknown", "persist", "connect", "request", "tool error", "tool", "export"}
CallRecord ==
  [at : LineRead \cup {"reading", "calling", "rendering", "exporting", "tailing", "done", "failed"}, op : CallRequest,
   inputs : Seq(PlacedInput), arguments : Arguments, requests : Nat, rendered : BOOLEAN,
   fate : CallFates]

CallInv ==
  /\ call \in CallRecord
  /\ call.at \in LineRead => Inputs(call.inputs, call.op.line)
  /\ LastInputWins

LEMMA CallTyped ==
  ASSUME CallInv
  PROVE  /\ DOMAIN call.arguments \subseteq Keys /\ \A key \in DOMAIN call.arguments : call.arguments[key] \in Values
         /\ call.requests \in Nat /\ call.rendered \in BOOLEAN
         /\ call.at \in {"reading", "selecting", "persisting", "connecting", "listing", "resolving",
                         "hydrating", "calling", "rendering", "exporting", "tailing", "done", "failed"}
<1>1. call \in CallRecord
  BY DEF CallInv
<1>2. call.arguments \in Arguments /\ call.requests \in Nat /\ call.rendered \in BOOLEAN
  BY <1>1 DEF CallRecord
<1>3. QED
  BY <1>1, <1>2, ArgumentsTyped DEF CallRecord, LineRead

(* A step that leaves the line and its inputs alone.                       *)
LEMMA CallMoves ==
  ASSUME CallInv, call' \in CallRecord, call'.op = call.op, call'.inputs = call.inputs,
         call'.at \in LineRead => call.at \in LineRead, call'.at = "calling" => ~call.op.schema
  PROVE  CallInv'
<1>1. LastInputWins'
  BY DEF LastInputWins
<1>2. QED
  BY <1>1 DEF CallInv

(* The places of a line that name a property.                              *)
NamingPlaces(line, p) == {i \in 1..Len(line) : line[i].kind \in NamingKinds /\ Names(line[i].pairs, p, TRUE)}

(* The last of them gives the value, or a nameless part where there is none. *)
LastGives(naming, arguments, line, p) ==
  IF naming # {}
  THEN \E i \in naming : (\A j \in naming : j <= i) /\ GivenBy(arguments[p], line[i].pairs, p, TRUE)
  ELSE p \in DOMAIN arguments =>
         \E i \in 1..Len(line) :
           line[i].kind \in {"positional", "literal"} /\ line[i].pairs[1].value.id = arguments[p].id

LEMMA LastGiven ==
  ASSUME NEW line \in Seq(LinePart), NEW inputs, Inputs(inputs, line), NEW named, NEW arguments,
         TakesInputs(named, Len(inputs), inputs, TRUE), TakesPositionals(arguments, named, line), NEW p
  PROVE  LastGives(NamingPlaces(line, p), arguments, line, p)
<1> DEFINE naming == NamingPlaces(line, p)
<1>1. PICK n \in Nat : n = Len(inputs)
  BY DEF Inputs
<1>2. PICK order : order = [k \in 1..n |-> inputs[k].order]
  OBVIOUS
<1>3. \A k \in 1..n : order[k] \in 1..Len(line) /\ inputs[k].input = line[order[k]] /\ line[order[k]].kind \in NamingKinds
  BY <1>1, <1>2 DEF Inputs
<1>4. \A i \in naming : Names(line[i].pairs, p, TRUE) /\ \E k \in 1..n : order[k] = i
  BY <1>1, <1>2 DEF Inputs, NamingPlaces
<1>5. \A j, k \in 1..n : j < k => order[j] < order[k]
  BY <1>1, <1>2 DEF Inputs
<1>6. /\ \A q : q \in DOMAIN named <=> \E k \in 1..n : Names(line[order[k]].pairs, q, TRUE)
      /\ \A q \in DOMAIN named : \E k \in 1..n :
           GivenBy(named[q], line[order[k]].pairs, q, TRUE)
           /\ \A j \in 1..n : Names(line[order[j]].pairs, q, TRUE) => j <= k
  BY <1>1, <1>3 DEF TakesInputs
<1>7. CASE naming # {}
  <2>1. PICK i \in naming : TRUE
    BY <1>7
  <2>2. p \in DOMAIN named
    BY <1>4, <1>6, <2>1
  <2>3. PICK k \in 1..n : /\ GivenBy(named[p], line[order[k]].pairs, p, TRUE)
                          /\ \A j \in 1..n : Names(line[order[j]].pairs, p, TRUE) => j <= k
    BY <1>6, <2>2
  <2>4. Names(line[order[k]].pairs, p, TRUE)
    BY <2>3 DEF GivenBy, Names
  <2>5. order[k] \in naming
    BY <1>3, <2>4 DEF NamingPlaces
  <2>6. ASSUME NEW j \in naming PROVE j <= order[k]
    <3>1. PICK l \in 1..n : order[l] = j
      BY <1>4
    <3>2. l <= k
      <4>1. Names(line[order[l]].pairs, p, TRUE)
        BY <1>4, <3>1
      <4>2. QED
        BY <2>3, <4>1
    <3>3. order[l] \in Int /\ order[k] \in Int
      BY <1>3
    <3>4. l = k \/ l < k
      BY <3>2
    <3>5. QED
      BY <1>5, <3>1, <3>3, <3>4
  <2>7. arguments[p] = named[p]
    BY <2>2 DEF TakesPositionals
  <2>8. QED
    BY <1>7, <2>3, <2>5, <2>6, <2>7 DEF LastGives
<1>8. CASE naming = {}
  <2>1. p \notin DOMAIN named
    BY <1>3, <1>6, <1>8 DEF NamingPlaces
  <2>2. QED
    BY <1>8, <2>1 DEF TakesPositionals, LastGives
<1>9. QED
  BY <1>7, <1>8

LEMMA ReadLineKeeps ==
  ASSUME CallInv, ReadLine
  PROVE  CallInv'
<1>1. call \in CallRecord /\ call.at = "reading"
  BY DEF CallInv, ReadLine
<1>2. CASE Gives("usage")
  <2>1. call' = [call EXCEPT !.at = "failed", !.fate = "usage"]
    BY <1>2 DEF Gives
  <2>2. /\ call' \in CallRecord /\ call'.op = call.op /\ call'.inputs = call.inputs /\ call'.at = "failed"
    BY <1>1, <2>1 DEF CallRecord, CallFates
  <2>3. QED
    BY <2>2, CallMoves DEF LineRead
<1>3. CASE ~Gives("usage")
  <2>1. PICK line \in Seq(LinePart) : line = call.op.line
    BY <1>1 DEF CallRecord, CallRequest
  <2>2. PICK inputs : inputs = InOrder(Gathered(line)) /\ Inputs(inputs, line)
    BY InputsInOrder
  <2>3. PICK arguments : arguments = AppliedInputs(inputs, call.op, FALSE) /\ arguments \in Arguments
    <3>1. inputs \in Seq(PlacedInput)
      BY <2>2 DEF Inputs
    <3>2. TakesInputs(AppliedInputs(inputs, call.op, FALSE), Len(inputs), inputs, FALSE)
      BY <3>1, InputsApplied
    <3>3. QED
      BY <3>2 DEF TakesInputs
  <2>4. call' = [call EXCEPT !.at = "selecting", !.inputs = inputs, !.arguments = arguments]
    BY <1>3, <2>1, <2>2, <2>3 DEF ReadLine
  <2>5. inputs \in Seq(PlacedInput)
    BY <2>2 DEF Inputs
  <2>6. /\ call' \in CallRecord /\ call'.op = call.op /\ call'.inputs = inputs /\ call'.at = "selecting"
    BY <1>1, <2>3, <2>4, <2>5 DEF CallRecord, LineRead
  <2>7. LastInputWins'
    BY <2>6 DEF LastInputWins
  <2>8. QED
    BY <2>1, <2>2, <2>6, <2>7 DEF CallInv
<1>4. QED
  BY <1>2, <1>3

LEMMA HydrateKeeps ==
  ASSUME CallInv, Hydrate
  PROVE  CallInv'
<1>1. call \in CallRecord /\ call.at = "hydrating"
  BY DEF CallInv, Hydrate
<1>2. CASE Breaks("usage") \/ (~call.op.schema /\ Moves("calling"))
  <2>1. PICK at \in {"rendering", "calling"}, fate \in {"usage", call.fate} :
          call' = [call EXCEPT !.at = at, !.fate = fate] /\ (at = "calling" => ~call.op.schema)
    <3>1. CASE Breaks("usage")
      BY <3>1 DEF Breaks
    <3>2. CASE ~call.op.schema /\ Moves("calling")
      <4>1. call' = [call EXCEPT !.at = "calling", !.fate = call.fate]
        BY <1>1, <3>2 DEF Moves, CallRecord
      <4>2. QED
        BY <3>2, <4>1
    <3>3. QED
      BY <1>2, <3>1, <3>2
  <2>2. call' \in CallRecord /\ call'.op = call.op /\ call'.inputs = call.inputs /\ call'.at = at
    BY <1>1, <2>1 DEF CallRecord, CallFates
  <2>3. QED
    BY <2>1, <2>2, CallMoves DEF LineRead
<1>3. CASE ~(Breaks("usage") \/ (~call.op.schema /\ Moves("calling")))
  <2>1. PICK line, inputs, op : line = op.line /\ inputs = call.inputs /\ op = call.op /\ line \in Seq(LinePart)
    BY <1>1 DEF CallRecord, CallRequest
  <2>2. Inputs(inputs, line) /\ inputs \in Seq(PlacedInput)
    BY <1>1, <2>1 DEF CallInv, LineRead, Inputs
  <2>3. PICK named : named = AppliedInputs(inputs, op, TRUE)
    OBVIOUS
  <2>4. TakesInputs(named, Len(inputs), inputs, TRUE) /\ named \in Arguments
    BY <2>2, <2>3, InputsApplied DEF TakesInputs
  <2>5. PICK arguments : arguments = WithPositionals(named, op)
    OBVIOUS
  <2>6. TakesPositionals(arguments, named, line) /\ arguments \in Arguments
    <3>1. op.line \in Seq(LinePart) /\ line = op.line
      BY <2>1
    <3>2. TakesPositionals(WithPositionals(named, op), named, op.line)
      BY <2>4, <3>1, PositionalsApplied
    <3>3. QED
      BY <2>5, <3>1, <3>2 DEF TakesPositionals
  <2>7. call' = [call EXCEPT !.at = "calling", !.arguments = arguments]
    BY <1>3, <2>1, <2>3, <2>5 DEF Hydrate
  <2>8. /\ call' \in CallRecord /\ call'.op = op /\ call'.at = "calling" /\ call'.arguments = arguments
    BY <1>1, <2>1, <2>6, <2>7 DEF CallRecord
  <2>9. LastInputWins'
    <3>1. SUFFICES ASSUME NEW p \in ToSet(Properties)
                   PROVE  IF Naming(p)' # {}
                          THEN \E i \in Naming(p)' :
                                 /\ \A j \in Naming(p)' : j <= i
                                 /\ \E k \in DOMAIN call'.op.line[i].pairs :
                                      /\ PropertyName(call'.op.line[i].pairs[k].key, TRUE) = p
                                      /\ call'.arguments[p].id = call'.op.line[i].pairs[k].value.id
                          ELSE p \in DOMAIN call'.arguments =>
                                 \E i \in DOMAIN call'.op.line :
                                   /\ call'.op.line[i].kind \in {"positional", "literal"}
                                   /\ call'.op.line[i].pairs[1].value.id = call'.arguments[p].id
      BY DEF LastInputWins
    <3>2. DOMAIN line = 1..Len(line)
      BY <2>1
    <3>3. \A i \in 1..Len(line) : DOMAIN line[i].pairs = 1..Len(line[i].pairs)
      <4>1. ASSUME NEW i \in 1..Len(line) PROVE DOMAIN line[i].pairs = 1..Len(line[i].pairs)
        <5>1. line[i] \in LinePart
          BY <2>1
        <5>2. line[i].pairs \in Seq(KeyValue)
          BY <5>1 DEF LinePart
        <5>3. QED
          BY <5>2
      <4>2. QED
        BY <4>1
    <3>4. PICK naming : naming = NamingPlaces(line, p)
      OBVIOUS
    <3>5. Naming(p)' = naming
      BY <2>1, <2>8, <3>2, <3>3, <3>4 DEF Naming, Names, NamingKinds, NamingPlaces
    <3>6. LastGives(naming, arguments, line, p)
      BY <2>1, <2>2, <2>4, <2>6, <3>4, LastGiven
    <3>7. naming \subseteq 1..Len(line)
      BY <3>4 DEF NamingPlaces
    <3>8. call'.op.line = line /\ call'.arguments = arguments
      BY <2>1, <2>8
    <3>9. CASE naming # {}
      BY <3>2, <3>3, <3>5, <3>6, <3>7, <3>8, <3>9 DEF GivenBy, LastGives
    <3>10. CASE naming = {}
      BY <3>2, <3>5, <3>6, <3>8, <3>10 DEF LastGives
    <3>11. QED
      BY <3>5, <3>9, <3>10
  <2>10. QED
    BY <2>8, <2>9 DEF CallInv, LineRead
<1>4. QED
  BY <1>2, <1>3

(* A step that changes only where the command stands and what it has done. *)
LEMMA CallGoesOn ==
  ASSUME CallInv, NEW at, NEW fate, NEW requests \in Nat, NEW rendered \in BOOLEAN,
         at \in LineRead \cup {"calling", "rendering", "exporting", "tailing", "done", "failed"},
         fate \in CallFates,
         at \in LineRead => call.at \in LineRead, at # "calling",
         call' = [call EXCEPT !.at = at, !.fate = fate, !.requests = requests, !.rendered = rendered]
  PROVE  CallInv'
<1>1. call \in CallRecord
  BY DEF CallInv
<1>2. call' \in CallRecord /\ call'.op = call.op /\ call'.inputs = call.inputs /\ call'.at = at
  BY <1>1 DEF CallRecord
<1>3. QED
  BY <1>2, CallMoves

LEMMA OneMore ==
  ASSUME NEW n \in Nat
  PROVE  n + 1 \in Nat
OBVIOUS

LEMMA CallStepKeeps ==
  ASSUME CallInv, CallStep
  PROVE  CallInv'
<1> DEFINE Ends == LineRead \cup {"rendering", "exporting", "tailing", "done", "failed"}
<1>1. call \in CallRecord /\ call.requests \in Nat /\ call.rendered \in BOOLEAN /\ call.fate \in CallFates
  BY DEF CallInv, CallRecord
<1>2. ASSUME NEW fate \in CallFates, Gives(fate) PROVE CallInv'
  <2>1. call' = [call EXCEPT !.at = "failed", !.fate = fate, !.requests = call.requests, !.rendered = call.rendered]
    BY <1>1, <1>2 DEF Gives, CallRecord
  <2>2. QED
    BY <1>1, <2>1, CallGoesOn DEF LineRead, CallFates
<1>3. ASSUME NEW fate \in CallFates, Breaks(fate) PROVE CallInv'
  <2>1. call' = [call EXCEPT !.at = "rendering", !.fate = fate, !.requests = call.requests, !.rendered = call.rendered]
    BY <1>1, <1>3 DEF Breaks, CallRecord
  <2>2. QED
    BY <1>1, <2>1, CallGoesOn DEF LineRead, CallFates
<1>4. ASSUME NEW at \in Ends, Moves(at), at \in LineRead => call.at \in LineRead PROVE CallInv'
  <2>1. call' = [call EXCEPT !.at = at, !.fate = call.fate, !.requests = call.requests, !.rendered = call.rendered]
    BY <1>1, <1>4 DEF Moves, CallRecord
  <2>2. at \in LineRead \cup {"calling", "rendering", "exporting", "tailing", "done", "failed"} /\ at # "calling"
    BY DEF LineRead
  <2>3. QED
    BY <1>1, <1>4, <2>1, <2>2, CallGoesOn
<1>5. ASSUME NEW fate \in CallFates,
             call' = [call EXCEPT !.at = "rendering", !.requests = call.requests + 1, !.fate = fate]
      PROVE  CallInv'
  <2>1. call' = [call EXCEPT !.at = "rendering", !.fate = fate, !.requests = call.requests + 1, !.rendered = call.rendered]
    BY <1>1, <1>5 DEF CallRecord
  <2>2. call.requests + 1 \in Nat
    BY <1>1, OneMore
  <2>3. QED
    BY <1>1, <2>1, <2>2, CallGoesOn DEF LineRead, CallFates
<1>6. ASSUME NEW at \in {"exporting", "failed", "done"}, call' = [call EXCEPT !.rendered = TRUE, !.at = at] PROVE CallInv'
  <2>1. call' = [call EXCEPT !.at = at, !.fate = call.fate, !.requests = call.requests, !.rendered = TRUE]
    BY <1>1, <1>6 DEF CallRecord
  <2>2. QED
    BY <1>1, <2>1, CallGoesOn DEF LineRead, CallFates
<1> HIDE DEF Ends
<1>7. ASSUME StdinFails \/ SelectServer \/ PersistServer PROVE CallInv'
  BY <1>2, <1>4, <1>7 DEF StdinFails, SelectServer, PersistServer, CallFates, Ends, LineRead
<1>8. ASSUME ConnectServer \/ ListForCall \/ Resolve \/ AnswerQuestion PROVE CallInv'
  <2>1. CASE ConnectServer \/ ListForCall \/ Resolve
    BY <1>3, <1>4, <2>1 DEF ConnectServer, ListForCall, Resolve, CallFates, Ends, LineRead
  <2>2. CASE AnswerQuestion
    <3>1. Breaks("usage") \/ call' = [call EXCEPT !.rendered = TRUE, !.at = "done"]
      BY <1>1, <2>2 DEF AnswerQuestion, CallRecord
    <3>2. QED
      BY <1>3, <1>6, <3>1 DEF CallFates
  <2>3. QED
    BY <1>8, <2>1, <2>2
<1>9. ASSUME ReadResource \/ CallTool PROVE CallInv'
  <2>1. PICK fate \in {"none", "request", "tool error"} :
          call' = [call EXCEPT !.at = "rendering", !.requests = call.requests + 1, !.fate = fate]
    BY <1>9 DEF ReadResource, CallTool
  <2>2. QED
    BY <1>5, <2>1 DEF CallFates
<1>10. ASSUME Render PROVE CallInv'
  BY <1>6, <1>10 DEF Render
<1>11. ASSUME Export \/ TailLog PROVE CallInv'
  BY <1>2, <1>4, <1>11 DEF Export, TailLog, CallFates, Ends, LineRead
<1>12. QED
  BY <1>7, <1>8, <1>9, <1>10, <1>11, ReadLineKeeps, HydrateKeeps DEF CallStep

-----------------------------------------------------------------------------
(* The daemon: the endpoint.                                               *)

DaemonRecord ==
  [at : {"none", "serving", "leaving", "unlinked", "gone"} \cup Binding, again : BOOLEAN,
   inode : 0..MaxDaemons, seen : 0..MaxDaemons, listens : BOOLEAN, pool : {"up", "down"}, runs : BOOLEAN]

(* What a command has left to do is the end of a script.                   *)
Plans ==
  {<<>>, <<"start">>, <<"status">>, <<"check">>, <<"list", "stop">>, <<"stop">>,
   <<"shutdown", "wait">>, <<"wait">>,
   <<"shutdown", "wait", "launch", "poll", "status">>, <<"wait", "launch", "poll", "status">>,
   <<"launch", "poll", "status">>, <<"poll", "status">>}

ClientRecord ==
  [command : Commands, todo : Plans,
   at : {"idle", "going", "launching", "asked", "done", "failed"}, peer : 0..MaxDaemons,
   outcome : {"none", "ok", "running", "refused"},
   reply : {"none", "ok", "running", "refused", "eof", "reset"},
   retried : BOOLEAN, met : SUBSET Daemons]

DaemonShape ==
  /\ directory \in {"missing", "loose", "private", "foreign"}
  /\ file \in [inode : 0..MaxDaemons, owner : 0..MaxDaemons, private : BOOLEAN]
  /\ daemons \in [Daemons -> DaemonRecord]
  /\ clients \in [Clients -> ClientRecord]
  /\ kills \in 0..MaxKills

(* A daemon that has bound the file and not yet removed it.                *)
MadePrivate == {"validate", "serving", "leaving"}
Holding == {"listen", "chmod"} \cup MadePrivate

(* What holds of one daemon by itself.                                     *)
DaemonAlone(d) ==
  /\ d.listens <=> d.at \in {"chmod", "unlinked"} \cup MadePrivate
  /\ d.at \in {"none", "prepare", "bind", "inspect", "probe", "compare", "remove"} => d.inode = 0
  /\ d.at \in Holding => d.inode # 0
  /\ d.at \in {"leaving", "unlinked"} => d.pool = "down"
  /\ d.pool = "down" => ~d.runs

(* The file is there or not, as a whole.                                   *)
FileInv == file.owner = 0 <=> file = NoFile

(* Who has seen a file, and not yet compared it, has seen one that was     *)
(* served; once it has found nobody there, one that is gone.               *)
SeenInv(d, ds) ==
  d.at \in {"probe", "compare"} /\ d.seen # 0 =>
    \E e \in Daemons : /\ ds[e].inode = d.seen
                       /\ ds[e].at \in {"unlinked", "gone"} \cup IF d.at = "probe" THEN MadePrivate ELSE {}

(* As long as nothing disturbs them, the file belongs to the one daemon    *)
(* that has bound it, which alone has made it private, and nobody is about *)
(* to remove it.                                                           *)
EndpointInv ==
  Undisturbed =>
    /\ \A d \in Daemons : daemons[d].at \in Holding => file.owner = d /\ file.inode = daemons[d].inode
    /\ file.owner # 0 => daemons[file.owner].at \in Holding
    /\ file.private <=> file.owner # 0 /\ daemons[file.owner].at \in MadePrivate
    /\ \A d \in Daemons : daemons[d].at # "remove" /\ SeenInv(daemons[d], daemons)

-----------------------------------------------------------------------------
(* The daemon: the commands.                                               *)

Mentions(todo, op) == \E i \in DOMAIN todo : todo[i] = op

(* What a command was told, or will be: a shutdown that was carried out    *)
(* has taken the pool down.                                                *)
AnswerInv(c, ds) ==
  /\ c.at \in {"going", "launching", "asked"} => c.todo # <<>>
  /\ c.at \in {"launching", "asked"} => Head(c.todo) \in Asking
  /\ c.at \in {"idle", "going", "launching", "done"} => c.peer = 0
  /\ c.at \in {"idle", "done"} => c.todo = <<>>
  /\ c.peer = 0 => c.outcome = "none" /\ c.reply = "none"
  /\ c.peer # 0 => c.todo # <<>>
  /\ c.peer # 0 /\ Head(c.todo) = "shutdown" =>
       /\ c.outcome # "running" /\ c.reply # "running"
       /\ "ok" \in {c.outcome, c.reply} => ds[c.peer].pool = "down"

(* The daemons a command has met: all but the one that it asks are down    *)
(* when its request to shut down is on the way, all are when it was        *)
(* carried out, and when it has waited none is at the endpoint.            *)
MetInv(c, ds, calm) ==
  /\ c.at = "idle" => c.met = {}
  /\ \A d \in c.met :
       /\ ds[d].at \in {"serving", "leaving", "unlinked", "gone"}
       /\ ds[d].at # "serving" => ds[d].pool = "down"
  /\ calm /\ c.command \in {"stop", "restart"} /\ c.at \in {"going", "launching", "asked", "done"} =>
       \A d \in c.met :
         /\ c.at = "asked" /\ d # c.peer => ds[d].pool = "down"
         /\ ~Mentions(c.todo, "shutdown") => ds[d].pool = "down"
         /\ ~Mentions(c.todo, "shutdown") /\ ~Mentions(c.todo, "wait") => ds[d].at \in {"unlinked", "gone"}

SoundClient(c, ds, calm) == c \in ClientRecord /\ AnswerInv(c, ds) /\ MetInv(c, ds, calm)

DaemonInv ==
  /\ DaemonShape
  /\ \A d \in Daemons : DaemonAlone(daemons[d])
  /\ FileInv
  /\ EndpointInv
  /\ \A c \in Clients : SoundClient(clients[c], daemons, Undisturbed)

(* What becomes of the daemons: a pool that is down stays down, and one    *)
(* that has left does not come back.                                       *)
DaemonsGoOn(ds, es) ==
  \A d \in Daemons :
    /\ ds[d].pool = "down" => es[d].pool = "down"
    /\ ds[d].at \in {"unlinked", "gone"} => es[d].at \in {"unlinked", "gone"}
    /\ ds[d].at \in {"serving", "leaving", "unlinked", "gone"} =>
         /\ es[d].at \in {"serving", "leaving", "unlinked", "gone"}
         /\ ds[d].at = "serving" /\ es[d].at # "serving" => es[d].pool = "down"

(* A command whose connection ends before it was answered.                 *)
Dropped(c, x) ==
  x = c \/ \E how \in {"eof", "reset"} :
             c.peer # 0 /\ c.reply = "none" /\ x = [c EXCEPT !.reply = how, !.outcome = "none"]

LEMMA MetStays ==
  ASSUME NEW ds, NEW es, DaemonsGoOn(ds, es), NEW calm \in BOOLEAN, NEW still \in BOOLEAN, still => calm,
         NEW c \in ClientRecord, MetInv(c, ds, calm),
         NEW x, x.command = c.command, x.todo = c.todo, x.at = c.at, x.peer = c.peer, x.met = c.met
  PROVE  MetInv(x, es, still)
<1>1. c.met \subseteq Daemons
  BY DEF ClientRecord
<1>2. QED
  BY <1>1 DEF MetInv, DaemonsGoOn

LEMMA ClientStays ==
  ASSUME NEW ds, NEW es, DaemonsGoOn(ds, es), NEW calm \in BOOLEAN, NEW still \in BOOLEAN, still => calm,
         NEW c, SoundClient(c, ds, calm), NEW x, Dropped(c, x)
  PROVE  SoundClient(x, es, still)
<1>1. /\ x \in ClientRecord /\ x.command = c.command /\ x.todo = c.todo /\ x.at = c.at
      /\ x.peer = c.peer /\ x.met = c.met
      /\ \/ x.outcome = c.outcome /\ x.reply = c.reply
         \/ c.peer # 0 /\ x.outcome = "none" /\ x.reply \in {"eof", "reset"}
  <2>1. CASE x = c
    BY <2>1 DEF SoundClient
  <2>2. ASSUME NEW how \in {"eof", "reset"}, c.peer # 0, x = [c EXCEPT !.reply = how, !.outcome = "none"]
        PROVE  /\ x \in ClientRecord /\ x.command = c.command /\ x.todo = c.todo /\ x.at = c.at
               /\ x.peer = c.peer /\ x.met = c.met /\ x.outcome = "none" /\ x.reply = how
    BY <2>2 DEF ClientRecord, SoundClient
  <2>3. QED
    BY <2>1, <2>2 DEF Dropped
<1>2. AnswerInv(x, es)
  <2>1. AnswerInv(c, ds)
    BY DEF SoundClient
  <2>2. c.peer # 0 /\ ds[c.peer].pool = "down" => es[c.peer].pool = "down"
    BY DaemonAssumption DEF DaemonsGoOn, SoundClient, ClientRecord, Daemons
  <2>3. QED
    BY <1>1, <2>1, <2>2 DEF AnswerInv
<1>3. MetInv(x, es, still)
  BY <1>1, MetStays DEF SoundClient
<1>4. QED
  BY <1>1, <1>2, <1>3 DEF SoundClient

LEMMA ClientWaits ==
  ASSUME NEW ds, NEW es, DaemonsGoOn(ds, es), NEW calm \in BOOLEAN, NEW still \in BOOLEAN, still => calm,
         NEW c, SoundClient(c, ds, calm)
  PROVE  SoundClient(c, es, still)
<1>1. Dropped(c, c)
  BY DEF Dropped
<1>2. QED
  BY <1>1, ClientStays

(* The plans: what is done first, and what is left.                        *)
LEMMA PlansGoOn ==
  ASSUME NEW p \in Plans, p # <<>>
  PROVE  /\ Head(p) \in Asking \cup {"wait", "launch"} /\ Tail(p) \in Plans
         /\ Mentions(p, Head(p))
         /\ \A op \in {"shutdown", "wait"} : Mentions(Tail(p), op) => Mentions(p, op)
         /\ Head(p) = "shutdown" => Tail(p) # <<>> /\ Head(Tail(p)) = "wait" /\ ~Mentions(Tail(p), "shutdown")
                                    /\ Mentions(Tail(p), "wait")
         /\ Head(p) = "wait" => ~Mentions(Tail(p), "wait") /\ ~Mentions(Tail(p), "shutdown")
         /\ Head(p) \notin {"shutdown", "wait"} => ~Mentions(p, "wait") /\ ~Mentions(p, "shutdown")
<1>1. p \in {<<"start">>, <<"status">>, <<"check">>, <<"stop">>, <<"wait">>}
      \/ p \in {<<"list", "stop">>, <<"shutdown", "wait">>, <<"poll", "status">>}
      \/ p = <<"launch", "poll", "status">> \/ p = <<"wait", "launch", "poll", "status">>
      \/ p = <<"shutdown", "wait", "launch", "poll", "status">>
  BY DEF Plans
<1>2. CASE p \in {<<"start">>, <<"status">>, <<"check">>, <<"stop">>, <<"wait">>}
  <2>1. PICK a : p = <<a>>
    BY <1>2
  <2>2. Tail(p) = <<>> /\ Head(p) = a /\ DOMAIN p = 1..1
    BY <2>1
  <2>3. QED
    BY <1>2, <2>1, <2>2 DEF Plans, Mentions, Asking
<1>3. CASE p \in {<<"list", "stop">>, <<"shutdown", "wait">>, <<"poll", "status">>}
  <2>1. PICK a, b : p = <<a, b>>
    BY <1>3
  <2>2. Tail(p) = <<b>> /\ Head(p) = a /\ DOMAIN p = 1..2
    BY <2>1
  <2>3. QED
    BY <1>3, <2>1, <2>2 DEF Plans, Mentions, Asking
<1>4. CASE p = <<"launch", "poll", "status">>
  <2>1. Tail(p) = <<"poll", "status">> /\ Head(p) = "launch" /\ DOMAIN p = 1..3
    BY <1>4
  <2>2. QED
    BY <1>4, <2>1 DEF Plans, Mentions, Asking
<1>5. CASE p = <<"wait", "launch", "poll", "status">>
  <2>1. Tail(p) = <<"launch", "poll", "status">> /\ Head(p) = "wait" /\ DOMAIN p = 1..4
    BY <1>5
  <2>2. QED
    BY <1>5, <2>1 DEF Plans, Mentions, Asking
<1>6. CASE p = <<"shutdown", "wait", "launch", "poll", "status">>
  <2>1. Tail(p) = <<"wait", "launch", "poll", "status">> /\ Head(p) = "shutdown" /\ DOMAIN p = 1..5
    BY <1>6
  <2>2. QED
    BY <1>6, <2>1 DEF Plans, Mentions, Asking
<1>7. QED
  BY <1>1, <1>2, <1>3, <1>4, <1>5, <1>6

-----------------------------------------------------------------------------
(* The daemon: one record moves.                                           *)

DaemonsSound ==
  daemons \in [Daemons -> DaemonRecord] /\ \A d \in Daemons : DaemonAlone(daemons[d])

RecordsMove ==
  /\ DaemonsSound'
  /\ DaemonsGoOn(daemons, daemons')
  /\ \A d \in Daemons : daemons[d].inode # 0 => daemons'[d].inode = daemons[d].inode

(* A record after a move of its own.                                       *)
RecordGoesOn(x, y) ==
  /\ y \in DaemonRecord /\ DaemonAlone(y)
  /\ x.pool = "down" => y.pool = "down"
  /\ x.at \in {"unlinked", "gone"} => y.at \in {"unlinked", "gone"}
  /\ x.at \in {"serving", "leaving", "unlinked", "gone"} =>
       /\ y.at \in {"serving", "leaving", "unlinked", "gone"}
       /\ x.at = "serving" /\ y.at # "serving" => y.pool = "down"
  /\ x.inode # 0 => y.inode = x.inode

LEMMA OneRecord ==
  ASSUME DaemonsSound, NEW d \in Daemons, NEW y, RecordGoesOn(daemons[d], y),
         daemons' = [daemons EXCEPT ![d] = y]
  PROVE  RecordsMove
<1>1. daemons' \in [Daemons -> DaemonRecord] /\ \A e \in Daemons : daemons'[e] = IF e = d THEN y ELSE daemons[e]
  BY DEF DaemonsSound, RecordGoesOn
<1>2. \A e \in Daemons : DaemonAlone(daemons'[e])
  BY <1>1 DEF DaemonsSound, RecordGoesOn
<1>3. DaemonsGoOn(daemons, daemons')
  BY <1>1 DEF DaemonsGoOn, RecordGoesOn
<1>4. \A e \in Daemons : daemons[e].inode # 0 => daemons'[e].inode = daemons[e].inode
  BY <1>1 DEF RecordGoesOn
<1>5. QED
  BY <1>1, <1>2, <1>3, <1>4 DEF RecordsMove, DaemonsSound

LEMMA NoRecord ==
  ASSUME DaemonsSound, UNCHANGED daemons
  PROVE  RecordsMove
  BY DEF DaemonsSound, RecordsMove, DaemonsGoOn

(* Where a daemon may be next, with nothing else changed.                  *)
NextAt(x, at) ==
  \/ x.at = "none" /\ at = "prepare"
  \/ x.at = "prepare" /\ at = "bind"
  \/ x.at = "bind" /\ at = "inspect"
  \/ x.at = "chmod" /\ at = "validate"
  \/ x.at = "validate" /\ at = "serving"
  \/ x.at = "probe" /\ at = "compare"
  \/ x.at = "compare" /\ at = "remove"
  \/ x.at = "serving" /\ at = "leaving" /\ x.pool = "down"
  \/ x.at = "leaving" /\ at = "unlinked"

LEMMA BecomeMoves ==
  ASSUME DaemonsSound, NEW d \in Daemons, NEW at, NextAt(daemons[d], at), Become(d, at)
  PROVE  RecordsMove
<1> DEFINE y == [daemons[d] EXCEPT !.at = at]
<1>1. daemons[d] \in DaemonRecord /\ DaemonAlone(daemons[d])
  BY DEF DaemonsSound
<1>2. y \in DaemonRecord
  BY <1>1 DEF NextAt, DaemonRecord, Binding
<1>3. /\ y.at = at /\ y.inode = daemons[d].inode /\ y.listens = daemons[d].listens
      /\ y.pool = daemons[d].pool /\ y.runs = daemons[d].runs
  BY <1>1 DEF DaemonRecord
<1>4. daemons' = [daemons EXCEPT ![d] = y]
  BY <1>1 DEF Become, DaemonsSound
<1> HIDE DEF y
<1>5. RecordGoesOn(daemons[d], y)
  BY <1>1, <1>2, <1>3 DEF NextAt, RecordGoesOn, DaemonAlone, Holding, MadePrivate
<1>6. QED
  BY <1>4, <1>5, OneRecord

LEMMA GoneRecord ==
  ASSUME NEW x \in DaemonRecord, NEW y,
         y = [NoDaemon EXCEPT !.at = "gone", !.inode = x.inode, !.pool = x.pool]
  PROVE  /\ y \in DaemonRecord /\ y.at = "gone" /\ y.inode = x.inode /\ y.pool = x.pool
         /\ y.listens = FALSE /\ y.runs = FALSE
<1>1. PICK r : r = NoDaemon
  OBVIOUS
<1>2. r \in DaemonRecord /\ r.listens = FALSE /\ r.runs = FALSE
  <2>1. 0 \in 0..MaxDaemons
    BY DaemonAssumption
  <2>2. QED
    BY <1>1, <2>1 DEF NoDaemon, DaemonRecord
<1>3. y = [r EXCEPT !.at = "gone", !.inode = x.inode, !.pool = x.pool]
  BY <1>1
<1>4. x.inode \in 0..MaxDaemons /\ x.pool \in {"up", "down"}
  BY DEF DaemonRecord
<1>5. QED
  BY <1>2, <1>3, <1>4 DEF DaemonRecord

LEMMA ExitMoves ==
  ASSUME DaemonsSound, NEW d \in Daemons, daemons' = Exits(d), daemons[d].at \in Binding \cup {"unlinked"}
  PROVE  RecordsMove /\ daemons'[d].at = "gone"
<1> DEFINE y == [NoDaemon EXCEPT !.at = "gone", !.inode = daemons[d].inode, !.pool = daemons[d].pool]
<1>1. daemons[d] \in DaemonRecord /\ DaemonAlone(daemons[d])
  BY DEF DaemonsSound
<1>2. /\ y \in DaemonRecord /\ y.at = "gone" /\ y.inode = daemons[d].inode /\ y.pool = daemons[d].pool
      /\ y.listens = FALSE /\ y.runs = FALSE
  BY <1>1, GoneRecord
<1>3. daemons' = [daemons EXCEPT ![d] = y]
  BY DEF Exits
<1> HIDE DEF y
<1>4. RecordGoesOn(daemons[d], y)
  BY <1>1, <1>2 DEF RecordGoesOn, DaemonAlone, Holding, MadePrivate, Binding
<1>5. daemons'[d] = y
  BY <1>3 DEF DaemonsSound
<1>6. QED
  BY <1>2, <1>3, <1>4, <1>5, OneRecord

(* The commands when a daemon moves.                                       *)
ClientsDropped ==
  /\ clients' \in [Clients -> ClientRecord]
  /\ \A c \in Clients : Dropped(clients[c], clients'[c])

LEMMA AbandonedDrops ==
  ASSUME DaemonShape, NEW d \in Daemons, Abandoned(d)
  PROVE  ClientsDropped
<1> DEFINE asking == {c \in Clients : clients[c].peer = d /\ clients[c].reply = "none"}
<1>1. PICK how \in [asking -> {"eof", "reset"}] :
        clients' = [c \in Clients |->
          IF c \in asking THEN [clients[c] EXCEPT !.reply = how[c], !.outcome = "none"] ELSE clients[c]]
  BY DEF Abandoned
<1>2. d # 0
  BY DEF Daemons
<1>3. ASSUME NEW c \in Clients PROVE Dropped(clients[c], clients'[c]) /\ clients'[c] \in ClientRecord
  <2>1. clients[c] \in ClientRecord
    BY DEF DaemonShape
  <2>2. CASE c \in asking
    <3>1. how[c] \in {"eof", "reset"} /\ clients'[c] = [clients[c] EXCEPT !.reply = how[c], !.outcome = "none"]
      BY <1>1, <2>2
    <3>2. clients[c].peer # 0 /\ clients[c].reply = "none"
      BY <2>2, <1>2
    <3>3. clients'[c] \in ClientRecord
      BY <2>1, <3>1 DEF ClientRecord
    <3>4. QED
      BY <3>1, <3>2, <3>3 DEF Dropped
  <2>3. CASE c \notin asking
    BY <1>1, <2>1, <2>3 DEF Dropped
  <2>4. QED
    BY <2>2, <2>3
<1>4. QED
  BY <1>1, <1>3 DEF ClientsDropped

LEMMA NobodyDropped ==
  ASSUME DaemonShape, UNCHANGED clients
  PROVE  ClientsDropped
  BY DEF DaemonShape, ClientsDropped, Dropped

-----------------------------------------------------------------------------
(* The daemon: the endpoint after each step.                               *)

FileTyped == file \in [inode : 0..MaxDaemons, owner : 0..MaxDaemons, private : BOOLEAN]

LEMMA CalmBefore ==
  ASSUME RecordsMove, kills' = 0 => kills = 0, Undisturbed'
  PROVE  Undisturbed
<1>1. kills = 0 /\ \A d, e \in Daemons : daemons'[d].inode # 0 /\ daemons'[d].inode = daemons'[e].inode => d = e
  BY DEF Undisturbed, Distinct
<1>2. ASSUME NEW d \in Daemons, NEW e \in Daemons, daemons[d].inode # 0, daemons[d].inode = daemons[e].inode
      PROVE  d = e
  BY <1>1, <1>2 DEF RecordsMove
<1>3. QED
  BY <1>1, <1>2 DEF Undisturbed, Distinct

(* A daemon that moves within what the endpoint tells apart.               *)
SameStanding(x, y) ==
  /\ y.at \in Holding <=> x.at \in Holding
  /\ y.at \in MadePrivate <=> x.at \in MadePrivate
  /\ y.at \in {"probe", "compare"} => y.at = x.at /\ y.seen = x.seen
  /\ y.at = "remove" => x.at = "remove"

LEMMA EndpointStays ==
  ASSUME DaemonsSound, FileTyped, EndpointInv, RecordsMove, file' = file, kills' = 0 => kills = 0,
         \A e \in Daemons : SameStanding(daemons[e], daemons'[e])
  PROVE  EndpointInv'
<1> SUFFICES ASSUME Undisturbed'
             PROVE  /\ \A d \in Daemons : daemons'[d].at \in Holding => file'.owner = d /\ file'.inode = daemons'[d].inode
                    /\ file'.owner # 0 => daemons'[file'.owner].at \in Holding
                    /\ file'.private <=> file'.owner # 0 /\ daemons'[file'.owner].at \in MadePrivate
                    /\ \A d \in Daemons : daemons'[d].at # "remove" /\ SeenInv(daemons'[d], daemons')
  BY DEF EndpointInv
<1>1. Undisturbed
  BY CalmBefore
<1>2. /\ \A d \in Daemons : daemons[d].at \in Holding => file.owner = d /\ file.inode = daemons[d].inode
      /\ file.owner # 0 => daemons[file.owner].at \in Holding
      /\ file.private <=> file.owner # 0 /\ daemons[file.owner].at \in MadePrivate
      /\ \A d \in Daemons : daemons[d].at # "remove" /\ SeenInv(daemons[d], daemons)
  BY <1>1 DEF EndpointInv
<1>3. \A d \in Daemons : daemons[d].at \in Holding => daemons[d].inode # 0
  BY DEF DaemonsSound, DaemonAlone
<1>4. \A d \in Daemons : daemons[d].inode # 0 => daemons'[d].inode = daemons[d].inode
  BY DEF RecordsMove
<1>5. file.owner # 0 => file.owner \in Daemons
  BY DaemonAssumption DEF FileTyped, Daemons
<1>6. ASSUME NEW d \in Daemons, daemons'[d].at \in {"probe", "compare"}, daemons'[d].seen # 0
      PROVE  \E e \in Daemons :
               /\ daemons'[e].inode = daemons'[d].seen
               /\ daemons'[e].at \in {"unlinked", "gone"} \cup IF daemons'[d].at = "probe" THEN MadePrivate ELSE {}
  <2>1. daemons'[d].at = daemons[d].at /\ daemons'[d].seen = daemons[d].seen
    BY <1>6 DEF SameStanding
  <2>2. PICK e \in Daemons :
               /\ daemons[e].inode = daemons[d].seen
               /\ daemons[e].at \in {"unlinked", "gone"} \cup IF daemons[d].at = "probe" THEN MadePrivate ELSE {}
    BY <1>2, <1>6, <2>1 DEF SeenInv
  <2>3. daemons'[e].inode = daemons'[d].seen
    BY <1>4, <1>6, <2>1, <2>2
  <2>4. /\ daemons[e].at \in {"unlinked", "gone"} => daemons'[e].at \in {"unlinked", "gone"}
        /\ daemons[e].at \in MadePrivate => daemons'[e].at \in MadePrivate
    BY DEF RecordsMove, DaemonsGoOn, SameStanding
  <2>5. QED
    BY <2>1, <2>2, <2>3, <2>4
<1>7. QED
  BY <1>2, <1>3, <1>4, <1>5, <1>6 DEF SameStanding, SeenInv

(* A record replaced: the others are as they were.                         *)
LEMMA Standing ==
  ASSUME NEW d \in Daemons, \A e \in Daemons \ {d} : daemons'[e] = daemons[e],
         SameStanding(daemons[d], daemons'[d])
  PROVE  \A e \in Daemons : SameStanding(daemons[e], daemons'[e])
<1>1. ASSUME NEW e \in Daemons PROVE SameStanding(daemons[e], daemons'[e])
  <2>1. CASE e = d
    BY <2>1
  <2>2. CASE e # d
    BY <2>2 DEF SameStanding
  <2>3. QED
    BY <2>1, <2>2
<1>2. QED
  BY <1>1

(* What a step of the daemons leaves behind.                               *)
DaemonsStepped ==
  /\ RecordsMove /\ ClientsDropped /\ FileTyped' /\ FileInv' /\ EndpointInv'
  /\ directory' \in {"missing", "loose", "private", "foreign"}
  /\ kills' \in 0..MaxKills /\ (kills' = 0 => kills = 0)

Founded == DaemonShape /\ DaemonsSound /\ FileInv /\ EndpointInv

LEMMA EndpointQuiet ==
  ASSUME Founded, RecordsMove, ClientsDropped, file' = file, kills' = kills,
         directory' \in {"missing", "loose", "private", "foreign"},
         NEW d \in Daemons, \A e \in Daemons \ {d} : daemons'[e] = daemons[e],
         SameStanding(daemons[d], daemons'[d])
  PROVE  DaemonsStepped
<1>1. \A e \in Daemons : SameStanding(daemons[e], daemons'[e])
  BY Standing
<1>2. EndpointInv'
  BY <1>1, EndpointStays DEF Founded, DaemonShape, FileTyped
<1>3. QED
  BY <1>2 DEF DaemonsStepped, Founded, DaemonShape, FileTyped, FileInv, NoFile

LEMMA BecomeChanges ==
  ASSUME DaemonsSound, NEW d \in Daemons, NEW at, Become(d, at)
  PROVE  /\ \A e \in Daemons \ {d} : daemons'[e] = daemons[e]
         /\ daemons'[d].at = at /\ daemons'[d].seen = daemons[d].seen /\ daemons'[d].inode = daemons[d].inode
         /\ daemons'[d].pool = daemons[d].pool /\ daemons'[d].listens = daemons[d].listens
<1>1. daemons[d] \in DaemonRecord
  BY DEF DaemonsSound
<1>2. daemons'[d] = [daemons[d] EXCEPT !.at = at] /\ \A e \in Daemons \ {d} : daemons'[e] = daemons[e]
  BY DEF Become, DaemonsSound
<1>3. QED
  BY <1>1, <1>2 DEF DaemonRecord

LEMMA RefuseSteps ==
  ASSUME Founded, NEW d \in Daemons, daemons[d].at \in (Binding \ Holding) \cup {"unlinked"}, Refuse(d),
         UNCHANGED <<directory, file, kills>>
  PROVE  DaemonsStepped
<1>1. RecordsMove /\ daemons'[d].at = "gone"
  BY ExitMoves DEF Refuse, Founded
<1>2. ClientsDropped
  BY AbandonedDrops DEF Refuse, Founded
<1>3. \A e \in Daemons \ {d} : daemons'[e] = daemons[e]
  BY DEF Refuse, Exits, Founded, DaemonsSound
<1>4. SameStanding(daemons[d], daemons'[d])
  BY <1>1 DEF SameStanding, Holding, MadePrivate, Binding
<1>5. QED
  BY <1>1, <1>2, <1>3, <1>4, EndpointQuiet DEF Founded, DaemonShape

LEMMA GoOnSteps ==
  ASSUME Founded, NEW d \in Daemons, NEW at, GoOn(d, at), NextAt(daemons[d], at),
         at \notin {"probe", "compare", "remove", "validate", "unlinked"}, UNCHANGED <<file, kills>>,
         directory' \in {"missing", "loose", "private", "foreign"}
  PROVE  DaemonsStepped
<1>1. RecordsMove
  BY BecomeMoves DEF GoOn, Founded
<1>2. ClientsDropped
  BY NobodyDropped DEF GoOn, Founded
<1>3. \A e \in Daemons \ {d} : daemons'[e] = daemons[e]
  BY BecomeChanges DEF GoOn, Founded
<1>4. SameStanding(daemons[d], daemons'[d])
  BY BecomeChanges DEF SameStanding, Holding, MadePrivate, NextAt, GoOn, Founded
<1>5. QED
  BY <1>1, <1>2, <1>3, <1>4, EndpointQuiet

LEMMA PrepareSteps ==
  ASSUME Founded, NEW d \in Daemons, Prepare(d)
  PROVE  DaemonsStepped
<1>1. GoOn(d, "bind") /\ NextAt(daemons[d], "bind") /\ UNCHANGED <<file, kills>> /\ directory' = "private"
  BY DEF Prepare, NextAt
<1>2. QED
  BY <1>1, GoOnSteps

(* The file of a daemon that binds it is the only one.                     *)
LEMMA BindSteps ==
  ASSUME Founded, NEW d \in Daemons, Bind(d)
  PROVE  DaemonsStepped
<1>1. daemons[d].at = "bind" /\ UNCHANGED <<directory, kills>> /\ directory' \in {"missing", "loose", "private", "foreign"}
  BY DEF Bind, Founded, DaemonShape
<1>2. CASE GoOn(d, "inspect") /\ UNCHANGED file
  BY <1>1, <1>2, GoOnSteps DEF NextAt
<1>3. CASE Refuse(d) /\ UNCHANGED file
  BY <1>1, <1>3, RefuseSteps DEF Binding, Holding, MadePrivate
<1>4. CASE /\ file = NoFile /\ UNCHANGED clients
           /\ \E i \in Numbered(d) :
                /\ daemons' = [daemons EXCEPT ![d].at = "listen", ![d].inode = i]
                /\ file' = [inode |-> i, owner |-> d, private |-> FALSE]
  <2>1. PICK i \in Numbered(d) : /\ daemons' = [daemons EXCEPT ![d].at = "listen", ![d].inode = i]
                                 /\ file' = [inode |-> i, owner |-> d, private |-> FALSE]
    BY <1>4
  <2>2. DaemonsSound /\ daemons[d] \in DaemonRecord /\ DaemonAlone(daemons[d]) /\ FileTyped /\ EndpointInv
    BY DEF Founded, DaemonsSound, DaemonShape, FileTyped
  <2>3. i \in 1..MaxDaemons /\ d \in 1..MaxDaemons
    <3>1. \A e \in Daemons : daemons[e].inode \in 0..MaxDaemons
      BY <2>2 DEF DaemonsSound, DaemonRecord
    <3>2. QED
      BY <3>1, DaemonAssumption DEF Numbered, Daemons
  <2>4. PICK y : y = [daemons[d] EXCEPT !.at = "listen", !.inode = i]
    OBVIOUS
  <2>5. /\ y \in DaemonRecord /\ y.at = "listen" /\ y.inode = i /\ y.listens = daemons[d].listens
        /\ y.pool = daemons[d].pool /\ y.runs = daemons[d].runs
    <3>1. i \in 0..MaxDaemons
      BY <2>3, DaemonAssumption
    <3>2. QED
      BY <2>2, <2>4, <3>1 DEF DaemonRecord, Binding
  <2>6. daemons' = [daemons EXCEPT ![d] = y]
    BY <2>1, <2>2, <2>4 DEF DaemonsSound
  <2>7. RecordGoesOn(daemons[d], y)
    BY <1>1, <2>2, <2>3, <2>5 DEF RecordGoesOn, DaemonAlone, Holding, MadePrivate
  <2>8. RecordsMove
    BY <2>2, <2>6, <2>7, OneRecord
  <2>9. daemons'[d] = y /\ \A e \in Daemons \ {d} : daemons'[e] = daemons[e]
    BY <2>2, <2>6 DEF DaemonsSound
  <2>10. FileTyped' /\ FileInv' /\ file'.owner = d /\ file'.inode = i /\ file'.private = FALSE
    BY <2>1, <2>3 DEF FileTyped, FileInv, NoFile
  <2>11. ClientsDropped
    BY <1>4, NobodyDropped DEF Founded
  <2>12. ASSUME Undisturbed'
         PROVE  /\ \A e \in Daemons : daemons'[e].at \in Holding => file'.owner = e /\ file'.inode = daemons'[e].inode
                /\ file'.owner # 0 => daemons'[file'.owner].at \in Holding
                /\ file'.private <=> file'.owner # 0 /\ daemons'[file'.owner].at \in MadePrivate
                /\ \A e \in Daemons : daemons'[e].at # "remove" /\ SeenInv(daemons'[e], daemons')
    <3>1. Undisturbed
      BY <1>1, <2>8, <2>12, CalmBefore
    <3>2. \A e \in Daemons : daemons[e].at \notin Holding
      <4>1. file.owner = 0
        BY <1>4 DEF NoFile
      <4>2. QED
        BY <2>2, <3>1, <4>1, DaemonAssumption DEF EndpointInv, Daemons
    <3>3. y.at \in Holding /\ y.at \notin MadePrivate /\ y.at \notin {"remove", "probe", "compare"}
      BY <2>5 DEF Holding, MadePrivate
    <3>4. ASSUME NEW e \in Daemons, e # d PROVE daemons'[e].at # "remove" /\ SeenInv(daemons'[e], daemons')
      <4>1. daemons'[e] = daemons[e] /\ daemons[e].at # "remove" /\ SeenInv(daemons[e], daemons)
        BY <2>2, <2>9, <3>1, <3>4 DEF EndpointInv
      <4>2. ASSUME NEW g \in Daemons, daemons[g].inode = daemons[e].seen, daemons[e].seen # 0
            PROVE  daemons'[g] = daemons[g]
        <5>1. daemons[d].inode = 0
          BY <1>1, <2>2 DEF DaemonAlone
        <5>2. QED
          BY <2>9, <4>2, <5>1
      <4>3. QED
        BY <4>1, <4>2 DEF SeenInv
    <3>5. QED
      BY <2>5, <2>9, <2>10, <3>2, <3>3, <3>4 DEF SeenInv
  <2>13. EndpointInv'
    BY <2>12 DEF EndpointInv
  <2>14. QED
    BY <1>1, <2>8, <2>10, <2>11, <2>13 DEF DaemonsStepped, Founded, DaemonShape
<1>5. QED
  BY <1>2, <1>3, <1>4 DEF Bind

LEMMA ListenSteps ==
  ASSUME Founded, NEW d \in Daemons, Listen(d)
  PROVE  DaemonsStepped
<1>1. /\ daemons[d].at = "listen" /\ UNCHANGED <<clients, directory, file, kills>>
      /\ directory' \in {"missing", "loose", "private", "foreign"}
      /\ daemons' = [daemons EXCEPT ![d].at = "chmod", ![d].listens = TRUE]
  BY DEF Listen, Founded, DaemonShape
<1>2. DaemonsSound /\ daemons[d] \in DaemonRecord /\ DaemonAlone(daemons[d])
  BY DEF Founded, DaemonsSound
<1>3. PICK y : y = [daemons[d] EXCEPT !.at = "chmod", !.listens = TRUE]
  OBVIOUS
<1>4. /\ y \in DaemonRecord /\ y.at = "chmod" /\ y.inode = daemons[d].inode /\ y.listens = TRUE
      /\ y.pool = daemons[d].pool /\ y.runs = daemons[d].runs
  BY <1>2, <1>3 DEF DaemonRecord, Binding
<1>5. daemons' = [daemons EXCEPT ![d] = y]
  BY <1>1, <1>2, <1>3 DEF DaemonsSound
<1>6. RecordGoesOn(daemons[d], y)
  BY <1>1, <1>2, <1>4 DEF RecordGoesOn, DaemonAlone, Holding, MadePrivate
<1>7. RecordsMove
  BY <1>2, <1>5, <1>6, OneRecord
<1>8. daemons'[d] = y /\ \A e \in Daemons \ {d} : daemons'[e] = daemons[e]
  BY <1>2, <1>5 DEF DaemonsSound
<1>9. SameStanding(daemons[d], daemons'[d])
  BY <1>1, <1>4, <1>8 DEF SameStanding, Holding, MadePrivate
<1>10. ClientsDropped
  BY <1>1, NobodyDropped DEF Founded
<1>11. QED
  BY <1>1, <1>7, <1>8, <1>9, <1>10, EndpointQuiet

(* A daemon that exits when that cannot happen undisturbed.                *)
LEMMA RefuseDisturbed ==
  ASSUME Founded, NEW d \in Daemons, daemons[d].at \in Binding \cup {"unlinked"}, Refuse(d),
         UNCHANGED <<directory, kills>>, FileTyped', FileInv', ~Undisturbed'
  PROVE  DaemonsStepped
<1>1. RecordsMove
  BY ExitMoves DEF Refuse, Founded
<1>2. ClientsDropped
  BY AbandonedDrops DEF Refuse, Founded
<1>3. QED
  BY <1>1, <1>2 DEF DaemonsStepped, Founded, DaemonShape, EndpointInv

LEMMA MakePrivateSteps ==
  ASSUME Founded, NEW d \in Daemons, MakePrivate(d)
  PROVE  DaemonsStepped
<1>1. /\ daemons[d].at = "chmod" /\ UNCHANGED <<directory, kills>>
      /\ directory' \in {"missing", "loose", "private", "foreign"}
  BY DEF MakePrivate, Founded, DaemonShape
<1>2. DaemonsSound /\ FileTyped /\ FileInv /\ EndpointInv
  BY DEF Founded, DaemonShape, FileTyped
<1>3. CASE file = NoFile /\ Refuse(d) /\ UNCHANGED file
  <2>1. RecordsMove
    BY <1>1, <1>3, ExitMoves DEF Refuse, Founded, Binding
  <2>2. ASSUME Undisturbed' PROVE FALSE
    <3>1. Undisturbed
      BY <1>1, <2>1, <2>2, CalmBefore
    <3>2. file.owner = d
      BY <1>1, <1>2, <3>1 DEF EndpointInv, Holding
    <3>3. QED
      BY <1>3, <3>2 DEF NoFile, Daemons
  <2>3. QED
    BY <1>1, <1>2, <1>3, <2>2, RefuseDisturbed DEF Binding, FileTyped, FileInv, NoFile
<1>4. CASE file # NoFile /\ GoOn(d, "validate") /\ file' = [file EXCEPT !.private = TRUE]
  <2>1. RecordsMove
    BY <1>1, <1>2, <1>4, BecomeMoves DEF GoOn, NextAt
  <2>2. ClientsDropped
    BY <1>4, NobodyDropped DEF GoOn, Founded
  <2>3. /\ file'.owner = file.owner /\ file'.inode = file.inode /\ file'.private = TRUE /\ FileTyped'
        /\ file.owner # 0
    BY <1>2, <1>4 DEF FileTyped, FileInv
  <2>4. FileInv'
    BY <2>3 DEF FileInv, NoFile
  <2>5. /\ daemons'[d].at = "validate" /\ daemons'[d].inode = daemons[d].inode
        /\ \A e \in Daemons \ {d} : daemons'[e] = daemons[e]
    BY <1>2, <1>4, BecomeChanges DEF GoOn
  <2>6. ASSUME Undisturbed'
        PROVE  /\ \A e \in Daemons : daemons'[e].at \in Holding => file'.owner = e /\ file'.inode = daemons'[e].inode
               /\ file'.owner # 0 => daemons'[file'.owner].at \in Holding
               /\ file'.private <=> file'.owner # 0 /\ daemons'[file'.owner].at \in MadePrivate
               /\ \A e \in Daemons : daemons'[e].at # "remove" /\ SeenInv(daemons'[e], daemons')
    <3>1. Undisturbed
      BY <1>1, <2>1, <2>6, CalmBefore
    <3>2. /\ \A e \in Daemons : daemons[e].at \in Holding => file.owner = e /\ file.inode = daemons[e].inode
          /\ \A e \in Daemons : daemons[e].at # "remove" /\ SeenInv(daemons[e], daemons)
      BY <1>2, <3>1 DEF EndpointInv
    <3>3. file.owner = d /\ file.inode = daemons[d].inode
      BY <1>1, <3>2 DEF Holding
    <3>4. daemons'[d].at \in Holding /\ daemons'[d].at \in MadePrivate
      BY <2>5 DEF Holding, MadePrivate
    <3>5. ASSUME NEW e \in Daemons PROVE SeenInv(daemons'[e], daemons')
      <4>1. CASE e = d
        BY <2>5, <4>1 DEF SeenInv
      <4>2. CASE e # d
        <5>1. daemons'[e] = daemons[e] /\ SeenInv(daemons[e], daemons)
          BY <2>5, <3>2, <4>2
        <5>2. \A g \in Daemons : daemons'[g].inode = daemons[g].inode
          BY <2>5
        <5>3. \A g \in Daemons : daemons[g].at \in {"unlinked", "gone"} \cup MadePrivate => daemons'[g] = daemons[g]
          BY <1>1, <2>5 DEF MadePrivate
        <5>4. QED
          BY <5>1, <5>2, <5>3 DEF SeenInv
      <4>3. QED
        BY <4>1, <4>2
    <3>6. QED
      BY <2>3, <2>5, <3>2, <3>3, <3>4, <3>5
  <2>7. EndpointInv'
    BY <2>6 DEF EndpointInv
  <2>8. QED
    BY <1>1, <2>1, <2>2, <2>3, <2>4, <2>7 DEF DaemonsStepped, Founded, DaemonShape
<1>5. QED
  BY <1>3, <1>4 DEF MakePrivate

LEMMA ValidateSteps ==
  ASSUME Founded, NEW d \in Daemons, Validate(d)
  PROVE  DaemonsStepped
<1>1. /\ daemons[d].at = "validate" /\ UNCHANGED <<directory, file, kills>>
      /\ directory' \in {"missing", "loose", "private", "foreign"}
  BY DEF Validate, Founded, DaemonShape
<1>2. CASE GoOn(d, "serving")
  BY <1>1, <1>2, GoOnSteps DEF NextAt
<1>3. CASE ~(file # NoFile /\ file.private) /\ Refuse(d)
  <2>1. RecordsMove
    BY <1>1, <1>3, ExitMoves DEF Refuse, Founded, Binding
  <2>2. ASSUME Undisturbed' PROVE FALSE
    <3>1. Undisturbed
      BY <1>1, <2>1, <2>2, CalmBefore
    <3>2. file.owner = d /\ file.private
      BY <1>1, <3>1 DEF EndpointInv, Holding, MadePrivate, Founded, Daemons
    <3>3. QED
      BY <1>3, <3>2 DEF NoFile, Daemons
  <2>3. QED
    BY <1>1, <1>3, <2>2, RefuseDisturbed DEF Binding, FileTyped, FileInv, NoFile, Founded, DaemonShape
<1>4. QED
  BY <1>2, <1>3 DEF Validate

(* Who inspects the file sees the number of a daemon that serves it.       *)
LEMMA InspectSteps ==
  ASSUME Founded, NEW d \in Daemons, Inspect(d)
  PROVE  DaemonsStepped
<1>1. /\ daemons[d].at = "inspect" /\ UNCHANGED <<directory, file, kills>>
      /\ directory' \in {"missing", "loose", "private", "foreign"}
  BY DEF Inspect, Founded, DaemonShape
<1>2. DaemonsSound /\ daemons[d] \in DaemonRecord /\ DaemonAlone(daemons[d]) /\ FileTyped /\ FileInv /\ EndpointInv
  BY DEF Founded, DaemonsSound, DaemonShape, FileTyped
<1>3. CASE Refuse(d)
  BY <1>1, <1>3, RefuseSteps DEF Binding, Holding, MadePrivate
<1>4. CASE /\ ~(file # NoFile /\ ~file.private) /\ UNCHANGED clients
           /\ daemons' = [daemons EXCEPT ![d].at = "probe", ![d].seen = file.inode]
  <2>1. PICK y : y = [daemons[d] EXCEPT !.at = "probe", !.seen = file.inode]
    OBVIOUS
  <2>2. /\ y \in DaemonRecord /\ y.at = "probe" /\ y.seen = file.inode /\ y.inode = daemons[d].inode
        /\ y.listens = daemons[d].listens /\ y.pool = daemons[d].pool /\ y.runs = daemons[d].runs
    BY <1>2, <2>1 DEF DaemonRecord, Binding, FileTyped
  <2>3. daemons' = [daemons EXCEPT ![d] = y]
    BY <1>2, <1>4, <2>1 DEF DaemonsSound
  <2>4. RecordGoesOn(daemons[d], y)
    BY <1>1, <1>2, <2>2 DEF RecordGoesOn, DaemonAlone, Holding, MadePrivate
  <2>5. RecordsMove
    BY <1>2, <2>3, <2>4, OneRecord
  <2>6. daemons'[d] = y /\ \A e \in Daemons \ {d} : daemons'[e] = daemons[e]
    BY <1>2, <2>3 DEF DaemonsSound
  <2>7. ClientsDropped
    BY <1>4, NobodyDropped DEF Founded
  <2>8. ASSUME Undisturbed'
        PROVE  /\ \A e \in Daemons : daemons'[e].at \in Holding => file'.owner = e /\ file'.inode = daemons'[e].inode
               /\ file'.owner # 0 => daemons'[file'.owner].at \in Holding
               /\ file'.private <=> file'.owner # 0 /\ daemons'[file'.owner].at \in MadePrivate
               /\ \A e \in Daemons : daemons'[e].at # "remove" /\ SeenInv(daemons'[e], daemons')
    <3>1. Undisturbed
      BY <1>1, <2>5, <2>8, CalmBefore
    <3>2. /\ \A e \in Daemons : daemons[e].at \in Holding => file.owner = e /\ file.inode = daemons[e].inode
          /\ file.owner # 0 => daemons[file.owner].at \in Holding
          /\ file.private <=> file.owner # 0 /\ daemons[file.owner].at \in MadePrivate
          /\ \A e \in Daemons : daemons[e].at # "remove" /\ SeenInv(daemons[e], daemons)
      BY <1>2, <3>1 DEF EndpointInv
    <3>3. daemons[d].at \notin Holding /\ daemons'[d].at \notin Holding /\ daemons'[d].at \notin MadePrivate
      BY <1>1, <2>2, <2>6 DEF Holding, MadePrivate
    <3>4. file.owner # d /\ (file.owner # 0 => file.owner \in Daemons \ {d})
      <4>1. file.owner # d
        BY <3>2, <3>3 DEF Daemons
      <4>2. QED
        BY <1>2, <4>1, DaemonAssumption DEF FileTyped, Daemons
    <3>5. ASSUME NEW e \in Daemons \ {d} PROVE SeenInv(daemons'[e], daemons')
      <4>1. daemons'[e] = daemons[e] /\ SeenInv(daemons[e], daemons)
        BY <2>6, <3>2
      <4>2. \A g \in Daemons : daemons'[g].inode = daemons[g].inode
        BY <2>2, <2>6
      <4>3. \A g \in Daemons : daemons[g].at \in {"unlinked", "gone"} \cup MadePrivate => daemons'[g] = daemons[g]
        BY <1>1, <2>6 DEF MadePrivate
      <4>4. QED
        BY <4>1, <4>2, <4>3 DEF SeenInv
    <3>6. SeenInv(daemons'[d], daemons')
      <4>1. CASE file.inode = 0
        BY <2>2, <2>6, <4>1 DEF SeenInv
      <4>2. CASE file.inode # 0
        <5>1. file # NoFile /\ file.private
          BY <1>4, <4>2 DEF NoFile
        <5>2. file.owner \in Daemons \ {d} /\ daemons[file.owner].at \in MadePrivate
          BY <3>2, <3>4, <5>1
        <5>3. daemons'[file.owner] = daemons[file.owner] /\ daemons[file.owner].inode = file.inode
          BY <2>6, <3>2, <5>2 DEF Holding
        <5>4. QED
          BY <2>2, <2>6, <5>2, <5>3 DEF SeenInv
      <4>3. QED
        BY <4>1, <4>2
    <3>7. daemons'[d].at # "remove"
      BY <2>2, <2>6
    <3>8. QED
      BY <1>1, <2>6, <3>2, <3>3, <3>4, <3>5, <3>6, <3>7
  <2>9. EndpointInv'
    BY <2>8 DEF EndpointInv
  <2>10. QED
    BY <1>1, <1>2, <2>5, <2>7, <2>9 DEF DaemonsStepped, Founded, DaemonShape, FileTyped, FileInv, NoFile
<1>5. QED
  BY <1>3, <1>4 DEF Inspect

(* Who then finds nobody there has seen the file of one that is gone.      *)
LEMMA ProbeSteps ==
  ASSUME Founded, NEW d \in Daemons, Probe(d)
  PROVE  DaemonsStepped
<1>1. /\ daemons[d].at = "probe" /\ UNCHANGED <<directory, file, kills>>
      /\ directory' \in {"missing", "loose", "private", "foreign"}
  BY DEF Probe, Founded, DaemonShape
<1>2. DaemonsSound /\ FileTyped /\ FileInv /\ EndpointInv
  BY DEF Founded, DaemonShape, FileTyped
<1>3. CASE Refuse(d)
  BY <1>1, <1>3, RefuseSteps DEF Binding, Holding, MadePrivate
<1>4. CASE ~(file # NoFile /\ daemons[file.owner].listens) /\ GoOn(d, "compare")
  <2>1. RecordsMove
    BY <1>1, <1>2, <1>4, BecomeMoves DEF GoOn, NextAt
  <2>2. ClientsDropped
    BY <1>4, NobodyDropped DEF GoOn, Founded
  <2>3. /\ daemons'[d].at = "compare" /\ daemons'[d].inode = daemons[d].inode
        /\ daemons'[d].seen = daemons[d].seen /\ \A e \in Daemons \ {d} : daemons'[e] = daemons[e]
    BY <1>2, <1>4, BecomeChanges DEF GoOn
  <2>4. ASSUME Undisturbed'
        PROVE  /\ \A e \in Daemons : daemons'[e].at \in Holding => file'.owner = e /\ file'.inode = daemons'[e].inode
               /\ file'.owner # 0 => daemons'[file'.owner].at \in Holding
               /\ file'.private <=> file'.owner # 0 /\ daemons'[file'.owner].at \in MadePrivate
               /\ \A e \in Daemons : daemons'[e].at # "remove" /\ SeenInv(daemons'[e], daemons')
    <3>1. Undisturbed
      BY <1>1, <2>1, <2>4, CalmBefore
    <3>2. /\ \A e \in Daemons : daemons[e].at \in Holding => file.owner = e /\ file.inode = daemons[e].inode
          /\ file.owner # 0 => daemons[file.owner].at \in Holding
          /\ file.private <=> file.owner # 0 /\ daemons[file.owner].at \in MadePrivate
          /\ \A e \in Daemons : daemons[e].at # "remove" /\ SeenInv(daemons[e], daemons)
      BY <1>2, <3>1 DEF EndpointInv
    <3>3. daemons[d].at \notin Holding /\ daemons'[d].at \notin Holding /\ daemons'[d].at \notin MadePrivate
      BY <1>1, <2>3 DEF Holding, MadePrivate
    <3>4. file.owner # d /\ (file.owner # 0 => file.owner \in Daemons \ {d})
      <4>1. file.owner # d
        BY <3>2, <3>3 DEF Daemons
      <4>2. QED
        BY <1>2, <4>1, DaemonAssumption DEF FileTyped, Daemons
    <3>5. \A g \in Daemons : /\ daemons'[g].inode = daemons[g].inode
                             /\ daemons[g].at \in {"unlinked", "gone"} \cup MadePrivate => daemons'[g] = daemons[g]
      BY <1>1, <2>3 DEF MadePrivate
    <3>6. ASSUME NEW e \in Daemons \ {d} PROVE SeenInv(daemons'[e], daemons')
      BY <2>3, <3>2, <3>5 DEF SeenInv
    <3>7. SeenInv(daemons'[d], daemons')
      <4> SUFFICES ASSUME daemons[d].seen # 0
                   PROVE  \E e \in Daemons : /\ daemons'[e].inode = daemons[d].seen
                                             /\ daemons'[e].at \in {"unlinked", "gone"}
        BY <2>3 DEF SeenInv
      <4>1. PICK e \in Daemons : /\ daemons[e].inode = daemons[d].seen
                                 /\ daemons[e].at \in {"unlinked", "gone"} \cup MadePrivate
        BY <1>1, <3>2 DEF SeenInv
      <4>2. daemons[e].at \notin MadePrivate
        <5>1. SUFFICES ASSUME daemons[e].at \in MadePrivate PROVE FALSE
          OBVIOUS
        <5>2. file.owner = e /\ daemons[e].listens
          BY <1>2, <3>2, <5>1 DEF Holding, DaemonsSound, DaemonAlone
        <5>3. QED
          BY <1>4, <5>2 DEF NoFile, Daemons
      <4>3. daemons[e].at \in {"unlinked", "gone"}
        BY <4>1, <4>2
      <4>4. daemons'[e] = daemons[e]
        BY <3>5, <4>1
      <4>5. QED
        BY <4>1, <4>3, <4>4
    <3>8. QED
      BY <1>1, <2>3, <3>2, <3>3, <3>4, <3>6, <3>7
  <2>5. EndpointInv'
    BY <2>4 DEF EndpointInv
  <2>6. QED
    BY <1>1, <1>2, <2>1, <2>2, <2>5 DEF DaemonsStepped, Founded, DaemonShape, FileTyped, FileInv, NoFile
<1>5. QED
  BY <1>3, <1>4 DEF Probe

LEMMA RebindSteps ==
  ASSUME Founded, NEW d \in Daemons, daemons[d].at \in {"compare", "remove"}, Rebind(d),
         UNCHANGED <<directory, kills>>
  PROVE  /\ RecordsMove /\ ClientsDropped
         /\ \A e \in Daemons \ {d} : daemons'[e] = daemons[e]
         /\ SameStanding(daemons[d], daemons'[d])
<1>1. DaemonsSound /\ daemons[d] \in DaemonRecord /\ DaemonAlone(daemons[d])
  BY DEF Founded, DaemonsSound
<1>2. PICK y : y = [daemons[d] EXCEPT !.at = "bind", !.again = TRUE]
  OBVIOUS
<1>3. /\ y \in DaemonRecord /\ y.at = "bind" /\ y.inode = daemons[d].inode
      /\ y.listens = daemons[d].listens /\ y.pool = daemons[d].pool /\ y.runs = daemons[d].runs
  BY <1>1, <1>2 DEF DaemonRecord, Binding
<1>4. daemons' = [daemons EXCEPT ![d] = y]
  BY <1>1, <1>2 DEF Rebind, DaemonsSound
<1>5. RecordGoesOn(daemons[d], y)
  BY <1>1, <1>3 DEF RecordGoesOn, DaemonAlone, Holding, MadePrivate
<1>6. daemons'[d] = y /\ \A e \in Daemons \ {d} : daemons'[e] = daemons[e]
  BY <1>1, <1>4 DEF DaemonsSound
<1>7. SameStanding(daemons[d], daemons'[d])
  BY <1>3, <1>6 DEF SameStanding, Holding, MadePrivate
<1>8. ClientsDropped
  BY NobodyDropped DEF Founded, Rebind
<1>9. QED
  BY <1>1, <1>4, <1>5, <1>6, <1>7, <1>8, OneRecord

(* The file that is there was not the one seen, since no number is given   *)
(* again.                                                                  *)
LEMMA CompareSteps ==
  ASSUME Founded, NEW d \in Daemons, Compare(d)
  PROVE  DaemonsStepped
<1>1. /\ daemons[d].at = "compare" /\ UNCHANGED <<directory, file, kills>>
      /\ directory' \in {"missing", "loose", "private", "foreign"}
  BY DEF Compare, Founded, DaemonShape
<1>2. DaemonsSound /\ FileTyped /\ FileInv /\ EndpointInv
  BY DEF Founded, DaemonShape, FileTyped
<1>3. CASE Rebind(d)
  BY <1>1, <1>3, RebindSteps, EndpointQuiet
<1>4. CASE Refuse(d)
  BY <1>1, <1>4, RefuseSteps DEF Binding, Holding, MadePrivate
<1>5. CASE daemons[d].seen # 0 /\ file # NoFile /\ file.inode = daemons[d].seen /\ GoOn(d, "remove")
  <2>1. RecordsMove
    BY <1>1, <1>2, <1>5, BecomeMoves DEF GoOn, NextAt
  <2>2. ClientsDropped
    BY <1>5, NobodyDropped DEF GoOn, Founded
  <2>3. ASSUME Undisturbed' PROVE FALSE
    <3>1. Undisturbed
      BY <1>1, <2>1, <2>3, CalmBefore
    <3>2. PICK e \in Daemons : daemons[e].inode = daemons[d].seen /\ daemons[e].at \in {"unlinked", "gone"}
      BY <1>1, <1>2, <1>5, <3>1 DEF EndpointInv, SeenInv
    <3>3. file.owner \in Daemons /\ daemons[file.owner].at \in Holding
      <4>1. file.owner # 0
        BY <1>2, <1>5 DEF FileInv
      <4>2. file.owner \in Daemons
        BY <1>2, <4>1, DaemonAssumption DEF FileTyped, Daemons
      <4>3. QED
        BY <1>2, <3>1, <4>1, <4>2 DEF EndpointInv
    <3>4. daemons[file.owner].inode = daemons[e].inode /\ daemons[e].inode # 0
      BY <1>2, <1>5, <3>1, <3>2, <3>3 DEF EndpointInv
    <3>5. file.owner = e
      BY <3>1, <3>3, <3>4 DEF Undisturbed, Distinct
    <3>6. QED
      BY <3>2, <3>3, <3>5 DEF Holding, MadePrivate
  <2>4. QED
    BY <1>1, <1>2, <2>1, <2>2, <2>3 DEF DaemonsStepped, Founded, DaemonShape, EndpointInv, FileTyped, FileInv, NoFile
<1>6. QED
  BY <1>3, <1>4, <1>5 DEF Compare

LEMMA RemoveEndpointSteps ==
  ASSUME Founded, NEW d \in Daemons, RemoveEndpoint(d)
  PROVE  DaemonsStepped
<1>1. /\ daemons[d].at = "remove" /\ UNCHANGED <<directory, kills>> /\ file' = NoFile
      /\ directory' \in {"missing", "loose", "private", "foreign"}
  BY DEF RemoveEndpoint, Founded, DaemonShape
<1>2. DaemonsSound /\ EndpointInv
  BY DEF Founded, DaemonShape
<1>3. FileTyped' /\ FileInv'
  BY <1>1, DaemonAssumption DEF FileTyped, FileInv, NoFile
<1>4. RecordsMove /\ ClientsDropped
  <2>1. CASE Refuse(d)
    BY <1>1, <2>1, ExitMoves, AbandonedDrops DEF Refuse, Founded, Binding
  <2>2. CASE Rebind(d)
    BY <1>1, <2>2, RebindSteps
  <2>3. QED
    BY <2>1, <2>2 DEF RemoveEndpoint
<1>5. ASSUME Undisturbed' PROVE FALSE
  <2>1. Undisturbed
    BY <1>1, <1>4, <1>5, CalmBefore
  <2>2. QED
    BY <1>1, <1>2, <2>1 DEF EndpointInv
<1>6. QED
  BY <1>1, <1>3, <1>4, <1>5 DEF DaemonsStepped, Founded, DaemonShape, EndpointInv

(* A daemon that leaves unlinks its own file.                              *)
LEMMA UnlinkSteps ==
  ASSUME Founded, NEW d \in Daemons, Unlink(d)
  PROVE  DaemonsStepped
<1>1. /\ daemons[d].at = "leaving" /\ UNCHANGED <<directory, clients, kills>> /\ file' = NoFile
      /\ Become(d, "unlinked") /\ directory' \in {"missing", "loose", "private", "foreign"}
  BY DEF Unlink, Founded, DaemonShape
<1>2. DaemonsSound /\ EndpointInv
  BY DEF Founded, DaemonShape
<1>3. FileTyped' /\ FileInv' /\ file'.owner = 0 /\ file'.private = FALSE
  BY <1>1, DaemonAssumption DEF FileTyped, FileInv, NoFile
<1>4. RecordsMove
  BY <1>1, <1>2, BecomeMoves DEF NextAt
<1>5. ClientsDropped
  BY <1>1, NobodyDropped DEF Founded
<1>6. /\ daemons'[d].at = "unlinked" /\ daemons'[d].inode = daemons[d].inode
      /\ \A e \in Daemons \ {d} : daemons'[e] = daemons[e]
  BY <1>1, <1>2, BecomeChanges
<1>7. ASSUME Undisturbed'
      PROVE  /\ \A e \in Daemons : daemons'[e].at \notin Holding
             /\ \A e \in Daemons : daemons'[e].at # "remove" /\ SeenInv(daemons'[e], daemons')
  <2>1. Undisturbed
    BY <1>1, <1>4, <1>7, CalmBefore
  <2>2. /\ \A e \in Daemons : daemons[e].at \in Holding => file.owner = e /\ file.inode = daemons[e].inode
        /\ \A e \in Daemons : daemons[e].at # "remove" /\ SeenInv(daemons[e], daemons)
    BY <1>2, <2>1 DEF EndpointInv
  <2>3. \A e \in Daemons : daemons'[e].at \notin Holding
    BY <1>1, <1>6, <2>2 DEF Holding, MadePrivate
  <2>4. \A g \in Daemons : /\ daemons'[g].inode = daemons[g].inode
                           /\ daemons[g].at \in {"unlinked", "gone"} => daemons'[g].at \in {"unlinked", "gone"}
                           /\ daemons[g].at \in MadePrivate => daemons'[g].at \in {"unlinked"} \cup MadePrivate
    BY <1>1, <1>6
  <2>5. ASSUME NEW e \in Daemons PROVE SeenInv(daemons'[e], daemons')
    <3>1. CASE e = d
      BY <1>6, <3>1 DEF SeenInv
    <3>2. CASE e # d
      <4>1. daemons'[e] = daemons[e] /\ SeenInv(daemons[e], daemons)
        BY <1>6, <2>2, <3>2
      <4>2. SUFFICES ASSUME daemons[e].at \in {"probe", "compare"}, daemons[e].seen # 0
                     PROVE  \E g \in Daemons :
                              /\ daemons'[g].inode = daemons[e].seen
                              /\ daemons'[g].at \in {"unlinked", "gone"} \cup
                                                     IF daemons[e].at = "probe" THEN MadePrivate ELSE {}
        BY <4>1 DEF SeenInv
      <4>3. PICK g \in Daemons :
              /\ daemons[g].inode = daemons[e].seen
              /\ daemons[g].at \in {"unlinked", "gone"} \cup IF daemons[e].at = "probe" THEN MadePrivate ELSE {}
        BY <4>1, <4>2 DEF SeenInv
      <4>4. daemons'[g].inode = daemons[e].seen
        BY <2>4, <4>3
      <4>5. daemons[g].at \in {"unlinked", "gone"} => daemons'[g].at \in {"unlinked", "gone"}
        BY <2>4
      <4>6. daemons[g].at \in MadePrivate => daemons'[g].at \in {"unlinked"} \cup MadePrivate
        BY <2>4
      <4>7. QED
        BY <4>3, <4>4, <4>5, <4>6
    <3>3. QED
      BY <3>1, <3>2
  <2>6. \A e \in Daemons : daemons'[e].at # "remove"
    BY <1>6, <2>2
  <2>7. QED
    BY <2>3, <2>5, <2>6
<1>8. EndpointInv'
  BY <1>3, <1>7 DEF EndpointInv
<1>9. QED
  BY <1>1, <1>3, <1>4, <1>5, <1>8 DEF DaemonsStepped, Founded, DaemonShape

LEMMA KillSteps ==
  ASSUME Founded, NEW d \in Daemons, Kill(d)
  PROVE  DaemonsStepped
<1>1. /\ daemons[d].at \notin {"none", "gone"} /\ kills' = kills + 1 /\ UNCHANGED <<directory, file>>
      /\ directory' \in {"missing", "loose", "private", "foreign"} /\ kills' \in 0..MaxKills
      /\ daemons' = [Exits(d) EXCEPT ![d].pool = "down"] /\ Abandoned(d) /\ kills \in Nat
  BY DaemonAssumption DEF Kill, Founded, DaemonShape
<1>2. DaemonsSound /\ daemons[d] \in DaemonRecord /\ DaemonAlone(daemons[d])
  BY DEF Founded, DaemonsSound
<1>3. PICK x : x = [NoDaemon EXCEPT !.at = "gone", !.inode = daemons[d].inode, !.pool = daemons[d].pool]
  OBVIOUS
<1>4. PICK y : y = [x EXCEPT !.pool = "down"]
  OBVIOUS
<1>5. x \in DaemonRecord /\ x.at = "gone" /\ x.inode = daemons[d].inode /\ x.listens = FALSE /\ x.runs = FALSE
  BY <1>2, <1>3, GoneRecord
<1>6. /\ y \in DaemonRecord /\ y.at = "gone" /\ y.inode = daemons[d].inode /\ y.pool = "down"
      /\ y.listens = FALSE /\ y.runs = FALSE
  BY <1>4, <1>5 DEF DaemonRecord
<1>7. daemons' = [daemons EXCEPT ![d] = y]
  <2>1. PICK ds : ds = [daemons EXCEPT ![d] = x]
    OBVIOUS
  <2>2. Exits(d) = ds
    BY <1>3, <2>1 DEF Exits
  <2>3. daemons' = [ds EXCEPT ![d].pool = "down"]
    BY <1>1, <2>2
  <2>4. QED
    BY <1>2, <1>4, <2>1, <2>3 DEF DaemonsSound
<1>8. RecordGoesOn(daemons[d], y)
  BY <1>1, <1>2, <1>6 DEF RecordGoesOn, DaemonAlone, Holding, MadePrivate, Binding
<1>9. RecordsMove
  BY <1>2, <1>7, <1>8, OneRecord
<1>10. ClientsDropped
  BY <1>1, AbandonedDrops DEF Founded
<1>11. kills' # 0
  BY <1>1
<1>12. QED
  BY <1>1, <1>9, <1>10, <1>11 DEF DaemonsStepped, EndpointInv, Undisturbed, Founded, DaemonShape, FileTyped, FileInv, NoFile

LEMMA EveryDaemonSteps ==
  ASSUME Founded, NEW d \in Daemons, DaemonStep(d) \/ Kill(d)
  PROVE  DaemonsStepped
<1>1. ASSUME Exit(d) PROVE DaemonsStepped
  BY <1>1, RefuseSteps DEF Exit
<1>2. QED
  BY <1>1, PrepareSteps, BindSteps, ListenSteps, MakePrivateSteps, ValidateSteps, InspectSteps, ProbeSteps,
     CompareSteps, RemoveEndpointSteps, UnlinkSteps, KillSteps DEF DaemonStep

-----------------------------------------------------------------------------
(* The daemon: the commands after each step.                               *)

(* What a step makes of the endpoint, and of the commands.                 *)
LEMMA DaemonParts ==
  ASSUME RecordsMove, FileTyped', FileInv', EndpointInv', kills' \in 0..MaxKills,
         directory' \in {"missing", "loose", "private", "foreign"},
         clients' \in [Clients -> ClientRecord],
         \A x \in Clients : SoundClient(clients'[x], daemons', Undisturbed')
  PROVE  DaemonInv'
  BY DEF RecordsMove, DaemonsSound, FileTyped, DaemonInv, DaemonShape

LEMMA DaemonsKeepInv ==
  ASSUME DaemonInv, NEW d \in Daemons, DaemonStep(d) \/ Kill(d)
  PROVE  DaemonInv'
<1>1. Founded
  BY DEF DaemonInv, Founded, DaemonShape, DaemonsSound
<1>2. DaemonsStepped
  BY <1>1, EveryDaemonSteps
<1>3. Undisturbed' => Undisturbed
  BY <1>2, CalmBefore DEF DaemonsStepped
<1>4. ASSUME NEW x \in Clients PROVE SoundClient(clients'[x], daemons', Undisturbed')
  <2>1. SoundClient(clients[x], daemons, Undisturbed) /\ Dropped(clients[x], clients'[x])
        /\ DaemonsGoOn(daemons, daemons')
    BY <1>2 DEF DaemonInv, DaemonsStepped, ClientsDropped, RecordsMove
  <2>2. Undisturbed \in BOOLEAN /\ Undisturbed' \in BOOLEAN
    BY DEF Undisturbed, Distinct
  <2>3. QED
    BY <1>3, <2>1, <2>2, ClientStays
<1>5. QED
  BY <1>2, <1>4, DaemonParts DEF DaemonsStepped, ClientsDropped

(* One command moves, with the daemons as they are or one of them.         *)
LEMMA OneClient ==
  ASSUME DaemonInv, RecordsMove, FileTyped', FileInv', EndpointInv', kills' = kills,
         directory' \in {"missing", "loose", "private", "foreign"},
         NEW c \in Clients, NEW y, clients' = [clients EXCEPT ![c] = y],
         SoundClient(y, daemons', Undisturbed')
  PROVE  DaemonInv'
<1>1. Undisturbed' => Undisturbed
  BY CalmBefore
<1>2. Undisturbed \in BOOLEAN /\ Undisturbed' \in BOOLEAN
  BY DEF Undisturbed, Distinct
<1>3. clients' \in [Clients -> ClientRecord]
  BY DEF DaemonInv, DaemonShape, SoundClient
<1>4. ASSUME NEW x \in Clients PROVE SoundClient(clients'[x], daemons', Undisturbed')
  <2>1. CASE x = c
    BY <1>3, <2>1 DEF DaemonInv, DaemonShape
  <2>2. CASE x # c
    <3>1. SoundClient(clients[x], daemons, Undisturbed) /\ clients'[x] = clients[x] /\ Dropped(clients[x], clients'[x])
          /\ DaemonsGoOn(daemons, daemons')
      BY <2>2 DEF DaemonInv, Dropped, RecordsMove, DaemonShape
    <3>2. QED
      BY <1>1, <1>2, <3>1, ClientStays
  <2>3. QED
    BY <2>1, <2>2
<1>5. QED
  BY <1>3, <1>4, DaemonParts DEF DaemonInv, DaemonShape

LEMMA ClientAlone ==
  ASSUME DaemonInv, UNCHANGED <<directory, file, daemons, kills>>,
         NEW c \in Clients, NEW y, clients' = [clients EXCEPT ![c] = y],
         SoundClient(y, daemons, Undisturbed)
  PROVE  DaemonInv'
<1>1. DaemonsSound /\ FileTyped /\ FileInv /\ EndpointInv
      /\ directory \in {"missing", "loose", "private", "foreign"}
  BY DEF DaemonInv, DaemonShape, DaemonsSound, FileTyped
<1>2. RecordsMove
  BY <1>1, NoRecord
<1>3. FileTyped' /\ FileInv'
  BY <1>1 DEF FileTyped, FileInv, NoFile
<1>4. Undisturbed' = Undisturbed /\ EndpointInv'
  BY <1>1 DEF Undisturbed, Distinct, EndpointInv
<1>5. QED
  BY <1>1, <1>2, <1>3, <1>4, OneClient

(* A command that goes on or ends.                                         *)
LEMMA GoesTo ==
  ASSUME NEW c \in Clients, clients[c] \in ClientRecord, NEW todo \in Plans, Goes(c, todo)
  PROVE  \E y \in ClientRecord :
           /\ clients' = [clients EXCEPT ![c] = y]
           /\ y.command = clients[c].command /\ y.met = clients[c].met /\ y.todo = todo
           /\ y.at = (IF todo = <<>> THEN "done" ELSE "going")
           /\ y.peer = 0 /\ y.outcome = "none" /\ y.reply = "none"
<1>1. PICK x : x = Idle(c)
  OBVIOUS
<1>2. /\ x \in ClientRecord /\ x.command = clients[c].command /\ x.met = clients[c].met
      /\ x.peer = 0 /\ x.outcome = "none" /\ x.reply = "none"
  <2>1. 0 \in 0..MaxDaemons
    BY DaemonAssumption
  <2>2. QED
    BY <1>1, <2>1 DEF Idle, ClientRecord
<1>3. PICK y : y = IF todo = <<>> THEN [x EXCEPT !.at = "done", !.todo = <<>>] ELSE [x EXCEPT !.at = "going", !.todo = todo]
  OBVIOUS
<1>4. clients' = [clients EXCEPT ![c] = y]
  BY <1>1, <1>3 DEF Goes
<1>5. /\ y \in ClientRecord /\ y.command = x.command /\ y.met = x.met /\ y.todo = todo
      /\ y.at = (IF todo = <<>> THEN "done" ELSE "going")
      /\ y.peer = 0 /\ y.outcome = "none" /\ y.reply = "none"
  BY <1>2, <1>3 DEF ClientRecord
<1>6. QED
  BY <1>2, <1>4, <1>5

LEMMA FailsTo ==
  ASSUME NEW c \in Clients, clients[c] \in ClientRecord, ClientFails(c)
  PROVE  \E y \in ClientRecord :
           /\ clients' = [clients EXCEPT ![c] = y] /\ y.met = clients[c].met
           /\ y.at = "failed" /\ y.peer = 0 /\ y.outcome = "none" /\ y.reply = "none" /\ y.todo = <<>>
<1>1. PICK x : x = Idle(c)
  OBVIOUS
<1>2. x \in ClientRecord /\ x.met = clients[c].met /\ x.peer = 0 /\ x.outcome = "none" /\ x.reply = "none"
  <2>1. 0 \in 0..MaxDaemons
    BY DaemonAssumption
  <2>2. QED
    BY <1>1, <2>1 DEF Idle, ClientRecord
<1>3. PICK y : y = [x EXCEPT !.at = "failed", !.todo = <<>>]
  OBVIOUS
<1>4. clients' = [clients EXCEPT ![c] = y]
  BY <1>1, <1>3 DEF ClientFails
<1>5. <<>> \in Plans
  BY DEF Plans
<1>6. /\ y \in ClientRecord /\ y.met = x.met /\ y.at = "failed" /\ y.todo = <<>>
      /\ y.peer = 0 /\ y.outcome = "none" /\ y.reply = "none"
  BY <1>2, <1>3, <1>5 DEF ClientRecord
<1>7. QED
  BY <1>2, <1>4, <1>6

(* What is known of the daemons that a command met, when it has so much    *)
(* left to do.                                                             *)
KnownOf(met, todo, ds) ==
  \A d \in met :
    /\ ~Mentions(todo, "shutdown") => ds[d].pool = "down"
    /\ ~Mentions(todo, "shutdown") /\ ~Mentions(todo, "wait") => ds[d].at \in {"unlinked", "gone"}

LEMMA GoesSound ==
  ASSUME NEW ds, NEW calm, NEW c, SoundClient(c, ds, calm), c.at # "idle", NEW todo,
         NEW y \in ClientRecord, y.command = c.command, y.met = c.met, y.todo = todo,
         y.at = IF todo = <<>> THEN "done" ELSE "going",
         y.peer = 0, y.outcome = "none", y.reply = "none",
         calm /\ c.command \in {"stop", "restart"} => KnownOf(c.met, todo, ds)
  PROVE  SoundClient(y, ds, calm)
<1>1. AnswerInv(y, ds)
  BY DEF AnswerInv
<1>2. MetInv(y, ds, calm)
  BY DEF MetInv, KnownOf, SoundClient
<1>3. QED
  BY <1>1, <1>2 DEF SoundClient

LEMMA FailsSound ==
  ASSUME NEW ds, NEW calm, NEW c, SoundClient(c, ds, calm), NEW y \in ClientRecord, y.met = c.met,
         y.at = "failed", y.peer = 0, y.outcome = "none", y.reply = "none", y.todo = <<>>
  PROVE  SoundClient(y, ds, calm)
  BY DEF SoundClient, AnswerInv, MetInv

(* When the endpoint is there for everyone and leads to no one, none of    *)
(* the daemons listens there.                                              *)
LEMMA AbsentMeansGone ==
  ASSUME DaemonInv, Undisturbed, Absent, NEW d \in Daemons,
         daemons[d].at \in {"serving", "leaving", "unlinked", "gone"}
  PROVE  daemons[d].at \in {"unlinked", "gone"}
<1>1. SUFFICES ASSUME daemons[d].at \in {"serving", "leaving"} PROVE FALSE
  OBVIOUS
<1>2. file.owner = d /\ daemons[d].listens
  BY <1>1 DEF DaemonInv, EndpointInv, DaemonAlone, Holding, MadePrivate
<1>3. file # NoFile
  BY <1>2 DEF NoFile, Daemons
<1>4. QED
  BY <1>2, <1>3 DEF Absent, Reachable

LEMMA StartKeeps ==
  ASSUME DaemonInv, NEW c \in Clients, Start(c)
  PROVE  DaemonInv'
<1>1. SoundClient(clients[c], daemons, Undisturbed) /\ clients[c] \in ClientRecord
  BY DEF DaemonInv, SoundClient
<1>2. PICK met : met = {d \in Daemons : daemons[d].at = "serving"}
  OBVIOUS
<1>3. PICK todo : todo = Script(clients[c].command)
  OBVIOUS
<1>4. todo \in Plans /\ todo # <<>>
      /\ (clients[c].command \in {"stop", "restart"} => Mentions(todo, "shutdown"))
  <2>1. clients[c].command \in Commands
    BY <1>1 DEF ClientRecord
  <2>2. CASE clients[c].command = "stop"
    <3>1. todo = <<"shutdown", "wait">>
      BY <1>3, <2>2 DEF Script
    <3>2. DOMAIN todo = 1..2 /\ todo[1] = "shutdown"
      BY <3>1
    <3>3. QED
      BY <3>1, <3>2 DEF Plans, Mentions
  <2>3. CASE clients[c].command = "restart"
    <3>1. todo = <<"shutdown", "wait", "launch", "poll", "status">>
      BY <1>3, <2>3 DEF Script
    <3>2. DOMAIN todo = 1..5 /\ todo[1] = "shutdown"
      BY <3>1
    <3>3. QED
      BY <3>1, <3>2 DEF Plans, Mentions
  <2>4. CASE clients[c].command \in {"use", "status", "start", "retire"}
    BY <1>3, <2>4 DEF Script, Plans
  <2>5. QED
    BY <2>1, <2>2, <2>3, <2>4 DEF Commands
<1>5. PICK y : y = [clients[c] EXCEPT !.at = "going", !.todo = todo, !.met = met]
  OBVIOUS
<1>6. /\ y \in ClientRecord /\ y.at = "going" /\ y.todo = todo /\ y.met = met
      /\ y.command = clients[c].command /\ y.peer = clients[c].peer
      /\ y.outcome = clients[c].outcome /\ y.reply = clients[c].reply
  <2>1. met \in SUBSET Daemons
    BY <1>2
  <2>2. QED
    BY <1>1, <1>4, <1>5, <2>1 DEF ClientRecord
<1>7. /\ clients[c].at = "idle" /\ clients' = [clients EXCEPT ![c] = y]
      /\ UNCHANGED <<directory, file, daemons, kills>>
  BY <1>2, <1>3, <1>5 DEF Start, DaemonInv, DaemonShape
<1>8. AnswerInv(y, daemons)
  BY <1>1, <1>4, <1>6, <1>7 DEF AnswerInv, SoundClient
<1>9. MetInv(y, daemons, Undisturbed)
  <2>1. \A d \in y.met : daemons[d].at = "serving"
    BY <1>2, <1>6
  <2>2. y.command \in {"stop", "restart"} => Mentions(y.todo, "shutdown")
    BY <1>4, <1>6
  <2>3. y.at = "going"
    BY <1>6
  <2>4. QED
    BY <2>1, <2>2, <2>3 DEF MetInv
<1>10. QED
  BY <1>6, <1>7, <1>8, <1>9, ClientAlone DEF SoundClient

(* A command asks the daemon that the endpoint leads to: those it has met  *)
(* and does not ask no longer serve.                                       *)
LEMMA AskKeeps ==
  ASSUME DaemonInv, NEW c \in Clients, Ask(c)
  PROVE  DaemonInv'
<1>1. SoundClient(clients[c], daemons, Undisturbed) /\ clients[c] \in ClientRecord
  BY DEF DaemonInv, SoundClient
<1>2. /\ clients[c].at \in {"going", "launching"} /\ Head(clients[c].todo) \in Asking /\ Reachable
      /\ UNCHANGED <<directory, file, daemons, kills>>
  BY DEF Ask
<1>3. PICK p : p = file.owner
  OBVIOUS
<1>4. p \in 0..MaxDaemons
  BY <1>3 DEF DaemonInv, DaemonShape
<1>5. PICK y : y = [clients[c] EXCEPT !.at = "asked", !.peer = p]
  OBVIOUS
<1>6. /\ y \in ClientRecord /\ y.at = "asked" /\ y.todo = clients[c].todo /\ y.met = clients[c].met
      /\ y.command = clients[c].command /\ y.peer = p
      /\ y.outcome = clients[c].outcome /\ y.reply = clients[c].reply
  BY <1>1, <1>4, <1>5 DEF ClientRecord
<1>7. clients' = [clients EXCEPT ![c] = y]
  BY <1>3, <1>5 DEF Ask, DaemonInv, DaemonShape
<1>8. AnswerInv(y, daemons)
  BY <1>1, <1>2, <1>6 DEF AnswerInv, SoundClient
<1>9. MetInv(y, daemons, Undisturbed)
  <2>1. MetInv(clients[c], daemons, Undisturbed) /\ clients[c].met \subseteq Daemons
    BY <1>1 DEF SoundClient, ClientRecord
  <2>2. ASSUME Undisturbed, NEW d \in clients[c].met, d # p PROVE daemons[d].pool = "down"
    <3>1. daemons[d].at # "serving"
      BY <1>3, <2>1, <2>2 DEF DaemonInv, EndpointInv, Holding, MadePrivate
    <3>2. QED
      BY <2>1, <2>2, <3>1 DEF MetInv
  <2>3. QED
    BY <1>2, <1>6, <2>1, <2>2 DEF MetInv
<1>10. QED
  BY <1>2, <1>6, <1>7, <1>8, <1>9, ClientAlone DEF SoundClient

(* A command that fails, or one that goes on and knows enough.             *)
LEMMA FailsKeeps ==
  ASSUME DaemonInv, NEW c \in Clients, ClientFails(c), UNCHANGED <<directory, file, daemons, kills>>
  PROVE  DaemonInv'
<1>1. SoundClient(clients[c], daemons, Undisturbed) /\ clients[c] \in ClientRecord
  BY DEF DaemonInv, SoundClient
<1>2. PICK y \in ClientRecord :
           /\ clients' = [clients EXCEPT ![c] = y] /\ y.met = clients[c].met
           /\ y.at = "failed" /\ y.peer = 0 /\ y.outcome = "none" /\ y.reply = "none" /\ y.todo = <<>>
  BY <1>1, FailsTo
<1>3. SoundClient(y, daemons, Undisturbed)
  BY <1>1, <1>2, FailsSound
<1>4. QED
  BY <1>2, <1>3, ClientAlone

LEMMA GoesKeeps ==
  ASSUME DaemonInv, NEW c \in Clients, clients[c].at # "idle", NEW todo \in Plans, Goes(c, todo),
         UNCHANGED <<directory, file, daemons, kills>>,
         Undisturbed /\ clients[c].command \in {"stop", "restart"} => KnownOf(clients[c].met, todo, daemons)
  PROVE  DaemonInv'
<1>1. SoundClient(clients[c], daemons, Undisturbed) /\ clients[c] \in ClientRecord
  BY DEF DaemonInv, SoundClient
<1>2. PICK y \in ClientRecord :
           /\ clients' = [clients EXCEPT ![c] = y]
           /\ y.command = clients[c].command /\ y.met = clients[c].met /\ y.todo = todo
           /\ y.at = (IF todo = <<>> THEN "done" ELSE "going")
           /\ y.peer = 0 /\ y.outcome = "none" /\ y.reply = "none"
  BY <1>1, GoesTo
<1>3. SoundClient(y, daemons, Undisturbed)
  BY <1>1, <1>2, GoesSound
<1>4. QED
  BY <1>2, <1>3, ClientAlone

(* What a command knows that has nothing to stop or wait for.              *)
LEMMA KnownAlready ==
  ASSUME NEW ds, NEW calm, NEW c, SoundClient(c, ds, calm), calm, c.command \in {"stop", "restart"},
         c.at \in {"going", "launching", "asked"}, Head(c.todo) \notin {"shutdown", "wait"}, NEW todo
  PROVE  KnownOf(c.met, todo, ds)
<1>1. c.todo \in Plans /\ c.todo # <<>>
  BY DEF SoundClient, ClientRecord, AnswerInv
<1>2. ~Mentions(c.todo, "shutdown") /\ ~Mentions(c.todo, "wait")
  BY <1>1, PlansGoOn
<1>3. QED
  BY <1>2 DEF KnownOf, SoundClient, MetInv

LEMMA FindNoneKeeps ==
  ASSUME DaemonInv, NEW c \in Clients, FindNone(c)
  PROVE  DaemonInv'
<1>1. SoundClient(clients[c], daemons, Undisturbed) /\ clients[c] \in ClientRecord
  BY DEF DaemonInv, SoundClient
<1>2. PICK op : op = Head(clients[c].todo)
  OBVIOUS
<1>3. /\ clients[c].at = "going" /\ Absent /\ UNCHANGED <<directory, file, daemons, kills>>
      /\ \/ op = "shutdown" /\ Goes(c, Tail(clients[c].todo))
         \/ op = "check" /\ Goes(c, <<"launch", "poll", "status">>)
         \/ op \in {"status", "list"} /\ Goes(c, <<>>)
         \/ op = "stop" /\ ClientFails(c)
  BY <1>2 DEF FindNone
<1>4. PICK todo : todo = Tail(clients[c].todo)
  OBVIOUS
<1>5. clients[c].todo \in Plans /\ clients[c].todo # <<>>
  BY <1>1, <1>3 DEF SoundClient, ClientRecord, AnswerInv
<1>6. CASE op = "shutdown" /\ Goes(c, Tail(clients[c].todo))
  <2>1. todo \in Plans /\ Mentions(todo, "wait")
    BY <1>2, <1>4, <1>5, <1>6, PlansGoOn
  <2>2. ASSUME Undisturbed PROVE KnownOf(clients[c].met, todo, daemons)
    <3>1. MetInv(clients[c], daemons, Undisturbed) /\ clients[c].met \subseteq Daemons
      BY <1>1 DEF SoundClient, ClientRecord
    <3>2. \A d \in clients[c].met : daemons[d].at \in {"unlinked", "gone"}
      BY <1>3, <2>2, <3>1, AbsentMeansGone DEF MetInv
    <3>3. \A d \in clients[c].met : daemons[d].pool = "down"
      BY <3>1, <3>2 DEF MetInv
    <3>4. QED
      BY <2>1, <3>3 DEF KnownOf
  <2>3. QED
    BY <1>3, <1>4, <1>6, <2>1, <2>2, GoesKeeps
<1>7. CASE op \in {"check", "status", "list", "stop"}
  <2>1. \A next : Undisturbed /\ clients[c].command \in {"stop", "restart"} => KnownOf(clients[c].met, next, daemons)
    BY <1>1, <1>2, <1>3, <1>7, KnownAlready
  <2>2. <<"launch", "poll", "status">> \in Plans /\ <<>> \in Plans
    BY DEF Plans
  <2>3. QED
    BY <1>3, <1>7, <2>1, <2>2, GoesKeeps, FailsKeeps
<1>8. QED
  BY <1>3, <1>6, <1>7

LEMMA WaitKeeps ==
  ASSUME DaemonInv, NEW c \in Clients, Wait(c)
  PROVE  DaemonInv'
<1>1. SoundClient(clients[c], daemons, Undisturbed) /\ clients[c] \in ClientRecord
  BY DEF DaemonInv, SoundClient
<1>2. PICK todo : todo = Tail(clients[c].todo)
  OBVIOUS
<1>3. /\ clients[c].at = "going" /\ Absent /\ UNCHANGED <<directory, file, daemons, kills>>
      /\ Goes(c, todo) /\ Head(clients[c].todo) = "wait"
  BY <1>2 DEF Wait
<1>4. todo \in Plans
  BY <1>1, <1>2, <1>3, PlansGoOn DEF SoundClient, ClientRecord, AnswerInv
<1>5. ASSUME Undisturbed PROVE KnownOf(clients[c].met, todo, daemons)
  <2>1. MetInv(clients[c], daemons, Undisturbed) /\ clients[c].met \subseteq Daemons
    BY <1>1 DEF SoundClient, ClientRecord
  <2>2. \A d \in clients[c].met : daemons[d].at \in {"unlinked", "gone"}
    BY <1>3, <1>5, <2>1, AbsentMeansGone DEF MetInv
  <2>3. \A d \in clients[c].met : daemons[d].pool = "down"
    BY <2>1, <2>2 DEF MetInv
  <2>4. QED
    BY <2>2, <2>3 DEF KnownOf
<1>6. QED
  BY <1>3, <1>4, <1>5, GoesKeeps

(* A command that was told that its daemon has shut down knows that of     *)
(* every daemon it has met.                                                *)
LEMMA LearnKeeps ==
  ASSUME DaemonInv, NEW c \in Clients, Learn(c)
  PROVE  DaemonInv'
<1>1. SoundClient(clients[c], daemons, Undisturbed) /\ clients[c] \in ClientRecord
  BY DEF DaemonInv, SoundClient
<1>2. PICK op, r, todo : op = Head(clients[c].todo) /\ r = clients[c].reply /\ todo = Tail(clients[c].todo)
  OBVIOUS
<1>3. /\ clients[c].at = "asked" /\ r # "none" /\ UNCHANGED <<directory, file, daemons, kills>>
      /\ \/ r = "running" /\ Goes(c, todo)
         \/ r = "ok" /\ Goes(c, IF op = "list" THEN <<>> ELSE todo)
         \/ ClientFails(c)
         \/ /\ op = "start"
            /\ clients' = [clients EXCEPT ![c] = [Idle(c) EXCEPT !.at = "going", !.retried = TRUE]]
  BY <1>2 DEF Learn
<1>4. clients[c].todo \in Plans /\ clients[c].todo # <<>> /\ op \in Asking
  BY <1>1, <1>2, <1>3 DEF SoundClient, ClientRecord, AnswerInv
<1>5. todo \in Plans /\ <<>> \in Plans
  BY <1>2, <1>4, PlansGoOn DEF Plans
<1>6. CASE op = "shutdown" /\ r \in {"running", "ok"} /\ Goes(c, todo)
  <2>1. Mentions(todo, "wait")
    BY <1>2, <1>4, <1>6, PlansGoOn
  <2>2. r = "ok" /\ clients[c].peer # 0
    BY <1>1, <1>2, <1>3, <1>6 DEF SoundClient, AnswerInv
  <2>3. daemons[clients[c].peer].pool = "down"
    BY <1>1, <1>2, <1>6, <2>2 DEF SoundClient, AnswerInv
  <2>4. ASSUME Undisturbed, clients[c].command \in {"stop", "restart"} PROVE KnownOf(clients[c].met, todo, daemons)
    <3>1. \A d \in clients[c].met : daemons[d].pool = "down"
      BY <1>1, <1>3, <2>3, <2>4 DEF SoundClient, MetInv
    <3>2. QED
      BY <2>1, <3>1 DEF KnownOf
  <2>5. QED
    BY <1>3, <1>5, <1>6, <2>4, GoesKeeps
<1>7. ASSUME op # "shutdown"
      PROVE  \A next : Undisturbed /\ clients[c].command \in {"stop", "restart"}
                       => KnownOf(clients[c].met, next, daemons)
  <2>1. op # "wait"
    BY <1>4 DEF Asking
  <2>2. QED
    BY <1>1, <1>2, <1>3, <1>7, <2>1, KnownAlready
<1>8. CASE op # "shutdown" /\ r \in {"running", "ok"} /\ (Goes(c, todo) \/ Goes(c, <<>>))
  BY <1>3, <1>5, <1>7, <1>8, GoesKeeps
<1>9. CASE ClientFails(c)
  BY <1>3, <1>9, FailsKeeps
<1>10. CASE /\ op = "start"
            /\ clients' = [clients EXCEPT ![c] = [Idle(c) EXCEPT !.at = "going", !.retried = TRUE]]
  <2>1. PICK x : x = Idle(c)
    OBVIOUS
  <2>2. /\ x \in ClientRecord /\ x.command = clients[c].command /\ x.met = clients[c].met
        /\ x.peer = 0 /\ x.outcome = "none" /\ x.reply = "none" /\ x.todo = clients[c].todo
    <3>1. 0 \in 0..MaxDaemons
      BY DaemonAssumption
    <3>2. QED
      BY <1>1, <2>1, <3>1 DEF Idle, ClientRecord
  <2>3. PICK y : y = [x EXCEPT !.at = "going", !.retried = TRUE]
    OBVIOUS
  <2>4. /\ y \in ClientRecord /\ y.command = x.command /\ y.met = x.met /\ y.at = "going"
        /\ y.peer = 0 /\ y.outcome = "none" /\ y.reply = "none" /\ y.todo = x.todo
    BY <2>2, <2>3 DEF ClientRecord
  <2>5. clients' = [clients EXCEPT ![c] = y]
    BY <1>10, <2>1, <2>3
  <2>6. y.at = IF clients[c].todo = <<>> THEN "done" ELSE "going"
    BY <1>4, <2>4
  <2>7. Undisturbed /\ clients[c].command \in {"stop", "restart"}
        => KnownOf(clients[c].met, clients[c].todo, daemons)
    BY <1>7, <1>10
  <2>8. SoundClient(y, daemons, Undisturbed)
    BY <1>1, <1>3, <2>2, <2>4, <2>6, <2>7, GoesSound
  <2>9. QED
    BY <1>3, <2>5, <2>8, ClientAlone
<1>11. QED
  BY <1>2, <1>3, <1>4, <1>6, <1>8, <1>9, <1>10

LEMMA GiveUpKeeps ==
  ASSUME DaemonInv, NEW c \in Clients, GiveUp(c)
  PROVE  DaemonInv'
<1>1. SoundClient(clients[c], daemons, Undisturbed) /\ clients[c] \in ClientRecord
  BY DEF DaemonInv, SoundClient
<1>2. /\ UNCHANGED <<directory, file, daemons, kills>>
      /\ \/ clients[c].at = "asked" /\ clients' = [clients EXCEPT ![c].at = "failed"]
         \/ ClientFails(c)
  BY DEF GiveUp
<1>3. CASE clients[c].at = "asked" /\ clients' = [clients EXCEPT ![c].at = "failed"]
  <2>1. PICK y : y = [clients[c] EXCEPT !.at = "failed"]
    OBVIOUS
  <2>2. /\ y \in ClientRecord /\ y.command = clients[c].command /\ y.met = clients[c].met /\ y.at = "failed"
        /\ y.peer = clients[c].peer /\ y.outcome = clients[c].outcome /\ y.reply = clients[c].reply
        /\ y.todo = clients[c].todo
    BY <1>1, <2>1 DEF ClientRecord
  <2>3. clients' = [clients EXCEPT ![c] = y]
    BY <1>3, <2>1 DEF DaemonInv, DaemonShape
  <2>4. AnswerInv(y, daemons)
    BY <1>1, <1>3, <2>2 DEF SoundClient, AnswerInv
  <2>5. MetInv(y, daemons, Undisturbed)
    BY <1>1, <2>2 DEF SoundClient, MetInv
  <2>6. QED
    BY <1>2, <2>2, <2>3, <2>4, <2>5, ClientAlone DEF SoundClient
<1>4. QED
  BY <1>2, <1>3, FailsKeeps

(* The endpoint when a daemon changes only what the endpoint does not tell *)
(* apart.                                                                  *)
LEMMA EndpointParts ==
  ASSUME DaemonInv, RecordsMove, UNCHANGED <<directory, file, kills>>,
         \A e \in Daemons : SameStanding(daemons[e], daemons'[e])
  PROVE  FileTyped' /\ FileInv' /\ EndpointInv' /\ (Undisturbed' => Undisturbed)
<1>1. DaemonsSound /\ FileTyped /\ EndpointInv /\ FileInv
  BY DEF DaemonInv, DaemonShape, DaemonsSound, FileTyped
<1>2. EndpointInv'
  BY <1>1, EndpointStays
<1>3. FileTyped' /\ FileInv'
  BY <1>1 DEF FileTyped, FileInv, NoFile
<1>4. QED
  BY <1>2, <1>3, CalmBefore

LEMMA LaunchKeeps ==
  ASSUME DaemonInv, NEW c \in Clients, LaunchDaemon(c)
  PROVE  DaemonInv'
<1>1. SoundClient(clients[c], daemons, Undisturbed) /\ clients[c] \in ClientRecord /\ DaemonsSound
  BY DEF DaemonInv, SoundClient, DaemonShape, DaemonsSound
<1>2. PICK op, todo : op = Head(clients[c].todo) /\ todo = Tail(clients[c].todo)
  OBVIOUS
<1>3. /\ clients[c].at = "going" /\ Launch /\ UNCHANGED <<directory, file, kills>>
      /\ \/ op = "launch" /\ Goes(c, todo)
         \/ op = "start" /\ clients' = [clients EXCEPT ![c].at = "launching"]
  BY <1>2 DEF LaunchDaemon
<1>4. PICK d \in Daemons : daemons[d].at = "none" /\ Become(d, "prepare")
  BY <1>3 DEF Launch
<1>5. RecordsMove
  BY <1>1, <1>4, BecomeMoves DEF NextAt
<1>6. daemons'[d].at = "prepare" /\ \A e \in Daemons \ {d} : daemons'[e] = daemons[e]
  BY <1>1, <1>4, BecomeChanges
<1>7. \A e \in Daemons : SameStanding(daemons[e], daemons'[e])
  <2>1. SameStanding(daemons[d], daemons'[d])
    BY <1>4, <1>6 DEF SameStanding, Holding, MadePrivate
  <2>2. QED
    BY <1>6, <2>1, Standing
<1>8. FileTyped' /\ FileInv' /\ EndpointInv' /\ (Undisturbed' => Undisturbed)
  BY <1>3, <1>5, <1>7, EndpointParts
<1>9. clients[c].todo \in Plans /\ clients[c].todo # <<>>
  BY <1>1, <1>3 DEF SoundClient, ClientRecord, AnswerInv
<1>10. Undisturbed \in BOOLEAN /\ Undisturbed' \in BOOLEAN /\ DaemonsGoOn(daemons, daemons')
  BY <1>5 DEF Undisturbed, Distinct, RecordsMove
<1>11. SoundClient(clients[c], daemons', Undisturbed')
  BY <1>1, <1>8, <1>10, ClientWaits
<1>12. CASE op = "launch" /\ Goes(c, todo)
  <2>1. todo \in Plans
    BY <1>2, <1>9, PlansGoOn
  <2>2. PICK y \in ClientRecord :
           /\ clients' = [clients EXCEPT ![c] = y]
           /\ y.command = clients[c].command /\ y.met = clients[c].met /\ y.todo = todo
           /\ y.at = (IF todo = <<>> THEN "done" ELSE "going")
           /\ y.peer = 0 /\ y.outcome = "none" /\ y.reply = "none"
    BY <1>1, <1>12, <2>1, GoesTo
  <2>3. Undisturbed' /\ clients[c].command \in {"stop", "restart"} => KnownOf(clients[c].met, todo, daemons')
    BY <1>2, <1>3, <1>11, <1>12, KnownAlready
  <2>4. SoundClient(y, daemons', Undisturbed')
    BY <1>3, <1>11, <2>2, <2>3, GoesSound
  <2>5. QED
    BY <1>3, <1>5, <1>8, <2>2, <2>4, OneClient DEF DaemonInv, DaemonShape
<1>13. CASE op = "start" /\ clients' = [clients EXCEPT ![c].at = "launching"]
  <2>1. PICK y : y = [clients[c] EXCEPT !.at = "launching"]
    OBVIOUS
  <2>2. /\ y \in ClientRecord /\ y.command = clients[c].command /\ y.met = clients[c].met /\ y.at = "launching"
        /\ y.peer = clients[c].peer /\ y.outcome = clients[c].outcome /\ y.reply = clients[c].reply
        /\ y.todo = clients[c].todo
    BY <1>1, <2>1 DEF ClientRecord
  <2>3. clients' = [clients EXCEPT ![c] = y]
    BY <1>13, <2>1 DEF DaemonInv, DaemonShape
  <2>4. AnswerInv(y, daemons')
    BY <1>2, <1>3, <1>11, <1>13, <2>2 DEF SoundClient, AnswerInv, Asking
  <2>5. MetInv(y, daemons', Undisturbed')
    BY <1>3, <1>11, <2>2 DEF SoundClient, MetInv
  <2>6. QED
    BY <1>3, <1>5, <1>8, <2>2, <2>3, <2>4, <2>5, OneClient DEF SoundClient, DaemonInv, DaemonShape
<1>14. QED
  BY <1>3, <1>12, <1>13

(* A record whose pool or server changes where it is.                      *)
LEMMA PoolMoves ==
  ASSUME DaemonsSound, NEW d \in Daemons, NEW pool \in {"up", "down"}, NEW busy \in BOOLEAN,
         daemons[d].at \in {"serving", "leaving", "unlinked"},
         pool = "down" => ~busy, daemons[d].pool = "down" => pool = "down",
         daemons' = [daemons EXCEPT ![d].pool = pool, ![d].runs = busy]
  PROVE  /\ RecordsMove /\ daemons'[d].pool = pool
         /\ \A e \in Daemons : SameStanding(daemons[e], daemons'[e])
<1>1. daemons[d] \in DaemonRecord /\ DaemonAlone(daemons[d])
  BY DEF DaemonsSound
<1>2. PICK y : y = [daemons[d] EXCEPT !.pool = pool, !.runs = busy]
  OBVIOUS
<1>3. /\ y \in DaemonRecord /\ y.at = daemons[d].at /\ y.inode = daemons[d].inode /\ y.seen = daemons[d].seen
      /\ y.listens = daemons[d].listens /\ y.pool = pool /\ y.runs = busy
  BY <1>1, <1>2 DEF DaemonRecord
<1>4. daemons' = [daemons EXCEPT ![d] = y]
  BY <1>1, <1>2 DEF DaemonsSound
<1>5. RecordGoesOn(daemons[d], y)
  BY <1>1, <1>3 DEF RecordGoesOn, DaemonAlone, Holding, MadePrivate
<1>6. daemons'[d] = y /\ \A e \in Daemons \ {d} : daemons'[e] = daemons[e]
  BY <1>4 DEF DaemonsSound
<1>7. SameStanding(daemons[d], daemons'[d])
  BY <1>3, <1>6 DEF SameStanding
<1>8. QED
  BY <1>3, <1>4, <1>5, <1>6, <1>7, OneRecord, Standing

(* A daemon that carries a shutdown out takes its pool down first.         *)
LEMMA DispatchKeeps ==
  ASSUME DaemonInv, NEW c \in Clients, Dispatch(c)
  PROVE  DaemonInv'
<1>1. SoundClient(clients[c], daemons, Undisturbed) /\ clients[c] \in ClientRecord /\ DaemonsSound
  BY DEF DaemonInv, SoundClient, DaemonShape, DaemonsSound
<1>2. PICK d : d = clients[c].peer
  OBVIOUS
<1>3. PICK op : op = Wire(Head(clients[c].todo))
  OBVIOUS
<1>4. /\ d # 0 /\ clients[c].reply = "none" /\ clients[c].outcome = "none"
      /\ daemons[d].at \in {"serving", "leaving", "unlinked"} /\ UNCHANGED <<directory, file, kills>>
      /\ \/ /\ op = "start" /\ daemons[d].pool = "up"
            /\ daemons' = [daemons EXCEPT ![d].pool = "up", ![d].runs = TRUE]
            /\ clients' = [clients EXCEPT ![c].outcome = "ok"]
         \/ /\ op = "status" /\ UNCHANGED daemons
            /\ clients' = [clients EXCEPT ![c].outcome = IF daemons[d].runs THEN "running" ELSE "ok"]
         \/ /\ op = "stop" /\ daemons' = [daemons EXCEPT ![d].pool = daemons[d].pool, ![d].runs = FALSE]
            /\ clients' = [clients EXCEPT ![c].outcome = "ok"]
         \/ /\ op = "shutdown" /\ daemons' = [daemons EXCEPT ![d].pool = "down", ![d].runs = FALSE]
            /\ clients' = [clients EXCEPT ![c].outcome = "ok"]
         \/ op # "status" /\ UNCHANGED daemons /\ clients' = [clients EXCEPT ![c].outcome = "refused"]
  BY <1>2, <1>3 DEF Dispatch
<1>5. d \in Daemons
  <2>1. d \in 0..MaxDaemons
    BY <1>1, <1>2 DEF ClientRecord
  <2>2. d # 0
    BY <1>4
  <2>3. QED
    BY <2>1, <2>2, DaemonAssumption DEF Daemons
<1>6. daemons[d] \in DaemonRecord /\ daemons[d].pool \in {"up", "down"}
  BY <1>1, <1>5 DEF DaemonsSound, DaemonRecord
<1>7. RecordsMove /\ \A e \in Daemons : SameStanding(daemons[e], daemons'[e])
  <2>1. CASE UNCHANGED daemons
    BY <1>1, <2>1, NoRecord DEF SameStanding
  <2>2. CASE \E pool \in {"up", "down"}, busy \in BOOLEAN :
               /\ pool = "down" => ~busy
               /\ daemons[d].pool = "down" => pool = "down"
               /\ daemons' = [daemons EXCEPT ![d].pool = pool, ![d].runs = busy]
               /\ op = "shutdown" => pool = "down"
    BY <1>1, <1>4, <1>5, <2>2, PoolMoves
  <2>3. QED
    <3>1. TRUE \in BOOLEAN /\ FALSE \in BOOLEAN
      OBVIOUS
    <3>2. CASE /\ op = "start" /\ daemons[d].pool = "up"
               /\ daemons' = [daemons EXCEPT ![d].pool = "up", ![d].runs = TRUE]
      BY <2>2, <3>1, <3>2
    <3>3. CASE op = "stop" /\ daemons' = [daemons EXCEPT ![d].pool = daemons[d].pool, ![d].runs = FALSE]
      BY <1>6, <2>2, <3>1, <3>3
    <3>4. CASE op = "shutdown" /\ daemons' = [daemons EXCEPT ![d].pool = "down", ![d].runs = FALSE]
      BY <2>2, <3>1, <3>4
    <3>5. QED
      BY <1>4, <2>1, <3>2, <3>3, <3>4
<1>8. FileTyped' /\ FileInv' /\ EndpointInv' /\ (Undisturbed' => Undisturbed)
  BY <1>4, <1>7, EndpointParts
<1>9. PICK told \in {"ok", "running", "refused"} :
        /\ clients' = [clients EXCEPT ![c].outcome = told]
        /\ op = "shutdown" => told # "running" /\ (told = "ok" => daemons'[d].pool = "down")
  <2>1. ASSUME daemons' = [daemons EXCEPT ![d].pool = "down", ![d].runs = FALSE]
        PROVE  daemons'[d].pool = "down"
    <3>1. PICK x : x = [daemons[d] EXCEPT !.pool = "down", !.runs = FALSE]
      OBVIOUS
    <3>2. daemons'[d] = x
      BY <1>1, <1>5, <2>1, <3>1 DEF DaemonsSound
    <3>3. QED
      BY <1>6, <3>1, <3>2 DEF DaemonRecord
  <2>2. CASE clients' = [clients EXCEPT ![c].outcome = "ok"] /\ (op = "shutdown" => daemons'[d].pool = "down")
    BY <2>2
  <2>3. CASE op # "shutdown" /\ clients' = [clients EXCEPT ![c].outcome = IF daemons[d].runs THEN "running" ELSE "ok"]
    BY <2>3
  <2>4. CASE clients' = [clients EXCEPT ![c].outcome = "refused"]
    BY <2>4
  <2>5. QED
    BY <1>4, <2>1, <2>2, <2>3, <2>4
<1>10. PICK y : y = [clients[c] EXCEPT !.outcome = told]
  OBVIOUS
<1>11. /\ y \in ClientRecord /\ y.command = clients[c].command /\ y.met = clients[c].met /\ y.at = clients[c].at
       /\ y.peer = clients[c].peer /\ y.outcome = told /\ y.reply = clients[c].reply
       /\ y.todo = clients[c].todo
  BY <1>1, <1>10 DEF ClientRecord
<1>12. clients' = [clients EXCEPT ![c] = y]
  BY <1>9, <1>10 DEF DaemonInv, DaemonShape
<1>13. AnswerInv(y, daemons')
  <2>1. Head(y.todo) = "shutdown" => op = "shutdown"
    BY <1>3, <1>11 DEF Wire
  <2>2. QED
    BY <1>1, <1>2, <1>4, <1>9, <1>11, <2>1 DEF SoundClient, AnswerInv
<1>14. MetInv(y, daemons', Undisturbed')
  <2>1. Undisturbed \in BOOLEAN /\ Undisturbed' \in BOOLEAN /\ DaemonsGoOn(daemons, daemons')
    BY <1>7 DEF Undisturbed, Distinct, RecordsMove
  <2>2. QED
    BY <1>1, <1>8, <1>11, <2>1, MetStays DEF SoundClient
<1>15. QED
  BY <1>4, <1>7, <1>8, <1>11, <1>12, <1>13, <1>14, OneClient DEF SoundClient, DaemonInv, DaemonShape

(* A daemon leaves when it has answered a shutdown that it carried out.    *)
LEMMA AnswerKeeps ==
  ASSUME DaemonInv, NEW c \in Clients, Answer(c)
  PROVE  DaemonInv'
<1>1. SoundClient(clients[c], daemons, Undisturbed) /\ clients[c] \in ClientRecord /\ DaemonsSound
  BY DEF DaemonInv, SoundClient, DaemonShape, DaemonsSound
<1>2. PICK d : d = clients[c].peer
  OBVIOUS
<1>3. /\ clients[c].outcome # "none" /\ UNCHANGED <<directory, file, kills>>
      /\ \/ clients[c].at = "failed" /\ ClientFails(c)
         \/ /\ clients[c].at = "asked"
            /\ clients' = [clients EXCEPT ![c].reply = clients[c].outcome, ![c].outcome = "none"]
      /\ \/ /\ Head(clients[c].todo) = "shutdown" /\ clients[c].outcome = "ok" /\ daemons[d].at = "serving"
            /\ Become(d, "leaving")
         \/ UNCHANGED daemons
  BY <1>2 DEF Answer
<1>4. d \in Daemons /\ d # 0
  BY <1>1, <1>2, <1>3, DaemonAssumption DEF SoundClient, AnswerInv, ClientRecord, Daemons
<1>5. RecordsMove /\ \A e \in Daemons : SameStanding(daemons[e], daemons'[e])
  <2>1. CASE UNCHANGED daemons
    BY <1>1, <2>1, NoRecord DEF SameStanding
  <2>2. CASE /\ Head(clients[c].todo) = "shutdown" /\ clients[c].outcome = "ok" /\ daemons[d].at = "serving"
             /\ Become(d, "leaving")
    <3>1. daemons[d].pool = "down"
      BY <1>1, <1>2, <1>4, <2>2 DEF SoundClient, AnswerInv
    <3>2. RecordsMove
      BY <1>1, <1>4, <2>2, <3>1, BecomeMoves DEF NextAt
    <3>3. daemons'[d].at = "leaving" /\ \A e \in Daemons \ {d} : daemons'[e] = daemons[e]
      BY <1>1, <1>4, <2>2, BecomeChanges
    <3>4. SameStanding(daemons[d], daemons'[d])
      BY <2>2, <3>3 DEF SameStanding, Holding, MadePrivate
    <3>5. QED
      BY <1>4, <3>2, <3>3, <3>4, Standing
  <2>3. QED
    BY <1>3, <2>1, <2>2
<1>6. FileTyped' /\ FileInv' /\ EndpointInv' /\ (Undisturbed' => Undisturbed)
  BY <1>3, <1>5, EndpointParts
<1>7. Undisturbed \in BOOLEAN /\ Undisturbed' \in BOOLEAN /\ DaemonsGoOn(daemons, daemons')
  BY <1>5 DEF Undisturbed, Distinct, RecordsMove
<1>8. SoundClient(clients[c], daemons', Undisturbed')
  BY <1>1, <1>6, <1>7, ClientWaits
<1>9. CASE ClientFails(c)
  <2>1. PICK y \in ClientRecord :
           /\ clients' = [clients EXCEPT ![c] = y] /\ y.met = clients[c].met
           /\ y.at = "failed" /\ y.peer = 0 /\ y.outcome = "none" /\ y.reply = "none" /\ y.todo = <<>>
    BY <1>1, <1>9, FailsTo
  <2>2. SoundClient(y, daemons', Undisturbed')
    BY <1>8, <2>1, FailsSound
  <2>3. QED
    BY <1>3, <1>5, <1>6, <2>1, <2>2, OneClient DEF DaemonInv, DaemonShape
<1>10. CASE /\ clients[c].at = "asked"
            /\ clients' = [clients EXCEPT ![c].reply = clients[c].outcome, ![c].outcome = "none"]
  <2>1. PICK told : told = clients[c].outcome
    OBVIOUS
  <2>2. told \in {"ok", "running", "refused"}
    BY <1>1, <1>3, <2>1 DEF ClientRecord
  <2>3. PICK y : y = [clients[c] EXCEPT !.reply = told, !.outcome = "none"]
    OBVIOUS
  <2>4. /\ y \in ClientRecord /\ y.command = clients[c].command /\ y.met = clients[c].met /\ y.at = clients[c].at
        /\ y.peer = clients[c].peer /\ y.outcome = "none" /\ y.reply = told /\ y.todo = clients[c].todo
    BY <1>1, <2>2, <2>3 DEF ClientRecord
  <2>5. clients' = [clients EXCEPT ![c] = y]
    BY <1>10, <2>1, <2>3 DEF DaemonInv, DaemonShape
  <2>6. AnswerInv(y, daemons')
    BY <1>2, <1>4, <1>8, <2>1, <2>2, <2>4 DEF SoundClient, AnswerInv
  <2>7. MetInv(y, daemons', Undisturbed')
    BY <1>8, <2>4 DEF SoundClient, MetInv
  <2>8. QED
    BY <1>3, <1>5, <1>6, <2>4, <2>5, <2>6, <2>7, OneClient DEF SoundClient, DaemonInv, DaemonShape
<1>11. QED
  BY <1>3, <1>9, <1>10

LEMMA DaemonStarts ==
  ASSUME NEW workloads, NEW directories, DaemonInit(workloads, directories),
         \A given \in workloads : \A c \in Clients : given[c] \in Commands,
         directories \subseteq {"missing", "loose", "private", "foreign"}
  PROVE  DaemonInv
<1>1. 0 \in 0..MaxDaemons /\ 0 \in 0..MaxKills
  BY DaemonAssumption
<1>2. PICK r : r = NoDaemon
  OBVIOUS
<1>3. /\ r \in DaemonRecord /\ DaemonAlone(r)
      /\ r.at = "none" /\ r.inode = 0 /\ r.seen = 0
  BY <1>1, <1>2 DEF NoDaemon, DaemonRecord, DaemonAlone, Holding, MadePrivate
<1>4. daemons \in [Daemons -> DaemonRecord] /\ \A d \in Daemons : daemons[d] = r
  BY <1>2, <1>3 DEF DaemonInit
<1>5. file \in [inode : 0..MaxDaemons, owner : 0..MaxDaemons, private : BOOLEAN] /\ FileInv
      /\ file.owner = 0 /\ file.private = FALSE
  BY <1>1 DEF DaemonInit, NoFile, FileInv
<1>6. EndpointInv
  BY <1>3, <1>4, <1>5 DEF EndpointInv, SeenInv, Holding, MadePrivate
<1>7. ASSUME NEW c \in Clients PROVE SoundClient(clients[c], daemons, Undisturbed)
  <2>1. PICK given \in workloads :
           clients = [x \in Clients |-> [command |-> given[x], todo |-> <<>>, at |-> "idle", peer |-> 0,
                        outcome |-> "none", reply |-> "none", retried |-> FALSE, met |-> {}]]
    BY DEF DaemonInit
  <2>2. PICK x : x = [command |-> given[c], todo |-> <<>>, at |-> "idle", peer |-> 0,
                      outcome |-> "none", reply |-> "none", retried |-> FALSE, met |-> {}]
    OBVIOUS
  <2>3. clients[c] = x /\ given[c] \in Commands
    BY <2>1, <2>2
  <2>4. <<>> \in Plans
    BY DEF Plans
  <2>5. x \in ClientRecord
    BY <1>1, <2>2, <2>3, <2>4 DEF ClientRecord
  <2>6. AnswerInv(x, daemons) /\ MetInv(x, daemons, Undisturbed)
    BY <2>2 DEF AnswerInv, MetInv
  <2>7. QED
    BY <2>3, <2>5, <2>6 DEF SoundClient
<1>8. clients \in [Clients -> ClientRecord]
  <2>1. \E given : clients = [x \in Clients |-> [command |-> given[x], todo |-> <<>>, at |-> "idle", peer |-> 0,
                        outcome |-> "none", reply |-> "none", retried |-> FALSE, met |-> {}]]
    BY DEF DaemonInit
  <2>2. \A c \in Clients : clients[c] \in ClientRecord
    BY <1>7 DEF SoundClient
  <2>3. QED
    BY <2>1, <2>2
<1>9. QED
  BY <1>1, <1>3, <1>4, <1>5, <1>6, <1>7, <1>8 DEF DaemonInv, DaemonShape, DaemonInit

LEMMA DaemonStepInv ==
  ASSUME DaemonInv, [DaemonNext]_daemonVars
  PROVE  DaemonInv'
<1>1. CASE UNCHANGED daemonVars
  BY <1>1 DEF daemonVars, DaemonInv, DaemonShape, FileInv, EndpointInv, Undisturbed, Distinct
<1>2. ASSUME NEW d \in Daemons, DaemonStep(d) \/ Kill(d) PROVE DaemonInv'
  BY <1>2, DaemonsKeepInv
<1>3. ASSUME NEW c \in Clients, ClientAsks(c) \/ GiveUp(c) \/ Dispatch(c) \/ Answer(c) PROVE DaemonInv'
  BY <1>3, StartKeeps, AskKeeps, FindNoneKeeps, LaunchKeeps, WaitKeeps, LearnKeeps, GiveUpKeeps,
     DispatchKeeps, AnswerKeeps DEF ClientAsks
<1>4. QED
  BY <1>1, <1>2, <1>3 DEF DaemonNext

LEMMA DaemonTyped ==
  ASSUME DaemonInv
  PROVE  DaemonTypeOK
<1>1. Plans \subseteq Seq(Asking \cup {"wait", "launch"})
  BY DEF Plans, Asking
<1>2. \A d \in Daemons : daemons[d] \in DaemonRecord
  BY DEF DaemonInv, DaemonShape
<1>3. \A c \in Clients : clients[c] \in ClientRecord
  BY DEF DaemonInv, DaemonShape
<1>4. QED
  BY <1>1, <1>2, <1>3 DEF DaemonTypeOK, DaemonInv, DaemonShape, DaemonRecord, ClientRecord

LEMMA DaemonKept ==
  ASSUME DaemonInv
  PROVE  DaemonSafety
<1>1. OneDaemon
  BY DEF OneDaemon, DaemonInv, EndpointInv, Holding, MadePrivate
<1>2. ASSUME NEW c \in Clients, Undisturbed, clients[c].command \in {"stop", "restart"},
             clients[c].at \in {"going", "asked", "done"},
             \A i \in DOMAIN clients[c].todo : clients[c].todo[i] \notin {"shutdown", "wait"},
             NEW d \in clients[c].met
      PROVE  daemons[d].pool = "down" /\ ~daemons[d].runs /\ file.owner # d
  <2>1. MetInv(clients[c], daemons, Undisturbed) /\ d \in Daemons
    BY DEF DaemonInv, DaemonShape, SoundClient, ClientRecord
  <2>2. ~Mentions(clients[c].todo, "shutdown") /\ ~Mentions(clients[c].todo, "wait")
    BY <1>2 DEF Mentions
  <2>3. daemons[d].pool = "down" /\ daemons[d].at \in {"unlinked", "gone"}
    BY <1>2, <2>1, <2>2 DEF MetInv
  <2>4. DaemonAlone(daemons[d])
    BY <2>1 DEF DaemonInv
  <2>5. file.owner # d
    BY <1>2, <2>1, <2>3, DaemonAssumption DEF DaemonInv, EndpointInv, Holding, MadePrivate, Daemons
  <2>6. QED
    BY <2>3, <2>4, <2>5 DEF DaemonAlone
<1>3. StoppedIsGone
  BY <1>2 DEF StoppedIsGone
<1>4. QED
  BY <1>1, <1>3 DEF DaemonSafety

(***************************************************************************)
(* For any number of commands in any order and any number of daemons they  *)
(* launch: at most one daemon serves with its pool up and the endpoint     *)
(* leads to it, and a command that has stopped the daemon it found leaves  *)
(* none that runs, as long as no daemon is killed and no inode number is   *)
(* given again (local_security_unix.rs, daemon_retirement.rs).             *)
(***************************************************************************)
THEOREM DaemonSafe ==
  ASSUME NEW workloads, NEW directories,
         \A given \in workloads : \A c \in Clients : given[c] \in Commands,
         directories \subseteq {"missing", "loose", "private", "foreign"}
  PROVE  DaemonInit(workloads, directories) /\ [][DaemonNext]_daemonVars => [](DaemonTypeOK /\ DaemonSafety)
<1>1. DaemonInit(workloads, directories) => DaemonInv
  BY DaemonStarts
<1>2. DaemonInv /\ [DaemonNext]_daemonVars => DaemonInv'
  BY DaemonStepInv
<1>3. DaemonInv => DaemonTypeOK /\ DaemonSafety
  BY DaemonTyped, DaemonKept
<1>4. QED
  BY <1>1, <1>2, <1>3, PTL

-----------------------------------------------------------------------------
(* The configuration: the invariant.                                       *)

Target ==
  [url : BOOLEAN, command : {"none", "text"}, args : BOOLEAN, transport : {"none", "stdio", "http", "sse"}]

(* What a command may be asked to do; what it copies is an entry that was  *)
(* accepted before.                                                        *)
Operation ==
  {op \in [kind : Rewrites \cup {"login", "set", "clear"}, names : (SUBSET ServerNames) \ {{}},
           definition : Definitions, to : ConfigFiles \cup {"default"}, replace : BOOLEAN, auth : BOOLEAN,
           shared : BOOLEAN, saves : BOOLEAN, args : Target, source : Target] :
     op.kind = "copy" => ValidNew(op.source)}

Document ==
  [is : {"absent", "file", "link", "broken", "readonly"}, entries : [ServerNames -> Definitions],
   edits : SUBSET Nat]

WriterRecord ==
  [at : {"done", "failed", "crashed"} \cup Underway, op : Operation, file : ConfigFiles, fate : Fates,
   staged : BOOLEAN, retires : SUBSET ({"entry", "tokens"} \X ServerNames), found : SUBSET Entries,
   old : SUBSET Entries, seen : SUBSET Document, next : SUBSET Document, kept : [ServerNames -> Nat]]

ConfigShape ==
  /\ writers \in [Writers -> WriterRecord]
  /\ configs \in [ConfigFiles -> Document]
  /\ configLocks \in [ConfigFiles -> {0} \cup Writers]
  /\ views \in [Entries -> [live : BOOLEAN, owned : BOOLEAN]]
  /\ vault \in [ServerNames -> Nat]
  /\ past \in [edits : SUBSET (ConfigFiles \X Nat), late : SUBSET (ConfigFiles \X Nat), starts : Nat,
               rotations : Nat]
  /\ IsFiniteSet(past.edits)

(* A command that rewrites a file has its lock from before it reads the    *)
(* document until it has replaced it.                                      *)
Locking(x) ==
  \/ x.at \in {"reading", "planning", "checking", "replacing", "releasing"}
  \/ x.at \in Retiring /\ x.op.kind \in Rewrites
LockKept(w, x, held) ==
  /\ Locking(x) => held[x.file] = w
  /\ x.at \in {"locking", "reading", "planning", "checking", "replacing", "releasing"} => x.op.kind \in Rewrites

(* What it plans contains what it read and is its own, and once it has     *)
(* checked the file, all that was saved there but what came too late.      *)
PlanKept(w, x, p) ==
  /\ x.at = "planning" => \E document \in x.seen : x.seen = {document}
  /\ x.at \in Retiring \cup {"checking", "replacing"} /\ x.op.kind \in Rewrites =>
       \E document \in x.seen, new \in x.next :
         /\ x.seen = {document} /\ x.next = {new}
         /\ document.edits \subseteq new.edits /\ w \in new.edits
         /\ x.at = "replacing" => \A e \in p.edits : e[1] = x.file => e[2] \in new.edits \/ e \in p.late

(* Old views are left only while they are being stopped.                   *)
ViewsKept(x) == IF x.at = "stopping" THEN x.old \subseteq x.found ELSE x.old = {}

SoundWriter(w, x, held, p) ==
  /\ LockKept(w, x, held) /\ PlanKept(w, x, p) /\ ViewsKept(x)
  /\ x.fate = "invalid" => x.op.args.transport # "none"

ConfigInv ==
  /\ ConfigShape
  /\ EditsAreKept
  /\ \A w \in Writers : SoundWriter(w, writers[w], configLocks, past)

-----------------------------------------------------------------------------
(* The configuration: one command moves.                                   *)

LEMMA OneWriter ==
  ASSUME ConfigInv, NEW w \in Writers, NEW y \in WriterRecord, writers' = [writers EXCEPT ![w] = y],
         SoundWriter(w, y, configLocks', past), UNCHANGED <<configs, past>>,
         configLocks' \in [ConfigFiles -> {0} \cup Writers],
         \A f \in ConfigFiles : configLocks'[f] = configLocks[f] \/ configLocks[f] \in {0, w},
         views' \in [Entries -> [live : BOOLEAN, owned : BOOLEAN]], vault' \in [ServerNames -> Nat]
  PROVE  ConfigInv'
<1>1. ConfigShape'
  BY DEF ConfigInv, ConfigShape
<1>2. EditsAreKept'
  BY DEF ConfigInv, EditsAreKept
<1>3. ASSUME NEW x \in Writers PROVE SoundWriter(x, writers'[x], configLocks', past')
  <2>1. CASE x = w
    BY <2>1 DEF ConfigInv, ConfigShape
  <2>2. CASE x # w
    <3>1. writers'[x] = writers[x] /\ SoundWriter(x, writers[x], configLocks, past)
          /\ writers[x].file \in ConfigFiles /\ x # 0
      BY <2>2, ConfigWritingAssumption DEF ConfigInv, ConfigShape, WriterRecord
    <3>2. LockKept(x, writers[x], configLocks')
      BY <2>2, <3>1 DEF SoundWriter, LockKept
    <3>3. QED
      BY <3>1, <3>2 DEF SoundWriter
  <2>3. QED
    BY <2>1, <2>2
<1>4. QED
  BY <1>1, <1>2, <1>3 DEF ConfigInv

LEMMA ProceedKeeps ==
  ASSUME ConfigInv, NEW w \in Writers, NEW y \in WriterRecord, Proceeds(w, y),
         SoundWriter(w, y, configLocks, past)
  PROVE  ConfigInv'
<1>1. writers' = [writers EXCEPT ![w] = y] /\ UNCHANGED <<configs, configLocks, views, vault, past>>
  BY DEF Proceeds
<1>2. /\ configLocks' \in [ConfigFiles -> {0} \cup Writers] /\ vault' \in [ServerNames -> Nat]
      /\ views' \in [Entries -> [live : BOOLEAN, owned : BOOLEAN]]
      /\ SoundWriter(w, y, configLocks', past)
  BY <1>1 DEF ConfigInv, ConfigShape
<1>3. \A f \in ConfigFiles : configLocks'[f] = configLocks[f] \/ configLocks[f] \in {0, w}
  BY <1>1
<1>4. QED
  BY <1>1, <1>2, <1>3, OneWriter

LEMMA FinishKeeps ==
  ASSUME ConfigInv, NEW w \in Writers, NEW at \in {"done", "failed"}, NEW fate \in Fates,
         Finishes(w, at, fate), fate = "invalid" => writers[w].op.args.transport # "none",
         UNCHANGED <<configs, views, past>>, vault' \in [ServerNames -> Nat]
  PROVE  ConfigInv'
<1>1. writers[w] \in WriterRecord /\ SoundWriter(w, writers[w], configLocks, past)
  BY DEF ConfigInv, ConfigShape
<1>2. PICK x : x = writers[w]
  OBVIOUS
<1>3. PICK y : y = [x EXCEPT !.at = at, !.fate = fate, !.staged = FALSE, !.retires = {}, !.found = {}, !.old = {},
                      !.seen = {}, !.next = {}]
  OBVIOUS
<1>4. /\ y \in WriterRecord /\ y.at = at /\ y.fate = fate /\ y.op = x.op /\ y.old = {}
  BY <1>1, <1>2, <1>3 DEF WriterRecord
<1>5. writers' = [writers EXCEPT ![w] = y]
  BY <1>2, <1>3 DEF Finishes, ConfigInv, ConfigShape
<1>6. configLocks' = [f \in ConfigFiles |-> IF configLocks[f] = w THEN 0 ELSE configLocks[f]]
  BY DEF Finishes
<1>7. configLocks' \in [ConfigFiles -> {0} \cup Writers]
  BY <1>6 DEF ConfigInv, ConfigShape
<1>8. \A f \in ConfigFiles : configLocks'[f] = configLocks[f] \/ configLocks[f] \in {0, w}
  BY <1>6
<1>9. SoundWriter(w, y, configLocks', past)
  BY <1>2, <1>4 DEF SoundWriter, LockKept, Locking, PlanKept, ViewsKept, Retiring
<1>10. views' \in [Entries -> [live : BOOLEAN, owned : BOOLEAN]]
  BY DEF ConfigInv, ConfigShape
<1>11. QED
  BY <1>4, <1>5, <1>7, <1>8, <1>9, <1>10, OneWriter

LEMMA FailKeeps ==
  ASSUME ConfigInv, NEW w \in Writers, NEW fate \in Fates \ {"invalid"}, Fails(w, fate)
  PROVE  ConfigInv'
<1>1. vault' \in [ServerNames -> Nat]
  BY DEF Fails, ConfigInv, ConfigShape
<1>2. QED
  BY <1>1, FinishKeeps DEF Fails

(* Where a command may go on to, with nothing else but its plan changed.   *)
LEMMA Onward ==
  ASSUME ConfigInv, NEW w \in Writers
  PROVE  /\ writers[w] \in WriterRecord /\ SoundWriter(w, writers[w], configLocks, past)
         /\ writers[w].op \in Operation /\ writers[w].file \in ConfigFiles /\ configs \in [ConfigFiles -> Document]
         /\ configLocks \in [ConfigFiles -> {0} \cup Writers] /\ vault \in [ServerNames -> Nat]
         /\ views \in [Entries -> [live : BOOLEAN, owned : BOOLEAN]] /\ w # 0
  BY ConfigWritingAssumption DEF ConfigInv, ConfigShape, WriterRecord

(* A copy is refused as invalid only for the transport that was asked for. *)
LEMMA CopiesAccepted ==
  ASSUME NEW source \in Target, NEW args \in Target, ValidNew(source), CopyUsage(source, args),
         ~ValidNew(Copied(source, args))
  PROVE  args.transport # "none"
<1> SUFFICES ASSUME args.transport = "none" PROVE ValidNew(Copied(source, args))
  OBVIOUS
<1>1. /\ source.url \in BOOLEAN /\ args.url \in BOOLEAN /\ args.args \in BOOLEAN
      /\ source.command \in {"none", "text"} /\ args.command \in {"none", "text"}
      /\ source.transport \in {"none", "stdio", "http", "sse"}
  BY DEF Target
<1>2. CASE ~args.url /\ args.command = "none"
  <2>1. PICK kept : kept = CopiedKeepingTransport(source, args)
    OBVIOUS
  <2>2. kept.url = source.url /\ kept.command = source.command /\ kept.transport = source.transport
    <3>1. kept = [source EXCEPT !.args = IF args.args THEN TRUE ELSE source.args, !.transport = source.transport]
      BY <1>2, <2>1 DEF CopiedKeepingTransport
    <3>2. QED
      BY <3>1 DEF Target
  <2>3. Copied(source, args) = kept
    BY <1>2, <2>1 DEF Copied
  <2>4. QED
    BY <1>1, <2>2, <2>3 DEF ValidNew
<1>3. CASE args.url \/ args.command # "none"
  <2>1. PICK kept : kept = CopiedKeepingTransport(source, args)
    OBVIOUS
  <2>2. kept = [url |-> args.url, command |-> args.command, args |-> args.args, transport |-> source.transport]
    BY <1>1, <1>3, <2>1 DEF CopiedKeepingTransport
  <2>3. Copied(source, args) =
          IF args.url /\ source.command # "none" THEN [kept EXCEPT !.transport = "http"]
          ELSE IF args.command # "none" /\ source.command = "none" THEN [kept EXCEPT !.transport = "stdio"]
          ELSE kept
    BY <2>1 DEF Copied
  <2>4. args.url # (args.command # "none")
    BY <1>1, <1>3 DEF CopyUsage
  <2>5. CASE args.url /\ source.command # "none"
    BY <1>1, <2>2, <2>3, <2>4, <2>5 DEF ValidNew
  <2>6. CASE ~args.url /\ source.command = "none"
    BY <1>1, <2>2, <2>3, <2>4, <2>6 DEF ValidNew
  <2>7. CASE args.url = (source.command = "none")
    <3>1. Copied(source, args) = kept
      BY <1>1, <2>3, <2>4, <2>7
    <3>2. kept.url = source.url /\ (kept.command # "none") = (source.command # "none")
          /\ kept.transport = source.transport
      BY <1>1, <2>2, <2>4, <2>7 DEF ValidNew
    <3>3. QED
      BY <1>1, <3>1, <3>2 DEF ValidNew
  <2>8. QED
    BY <1>1, <2>5, <2>6, <2>7
<1>4. QED
  BY <1>2, <1>3

LEMMA RejectKeeps ==
  ASSUME ConfigInv, NEW w \in Writers, Rejected(w)
  PROVE  ConfigInv'
<1>1. PICK op : op = writers[w].op
  OBVIOUS
<1>2. op \in Operation /\ vault \in [ServerNames -> Nat]
  BY <1>1, Onward
<1>3. op.kind = "copy" /\ ~ValidNew(Copied(op.source, op.args)) /\ Usage(op)
  BY <1>1 DEF Rejected, Invalid
<1>4. op.source \in Target /\ op.args \in Target /\ ValidNew(op.source)
  BY <1>2, <1>3 DEF Operation
<1>5. CopyUsage(op.source, op.args)
  BY <1>3 DEF Usage
<1>6. op.args.transport # "none"
  BY <1>3, <1>4, <1>5, CopiesAccepted
<1>7. "invalid" \in Fates /\ "failed" \in {"done", "failed"}
  BY DEF Fates
<1>8. QED
  BY <1>1, <1>2, <1>6, <1>7, FinishKeeps DEF Rejected, Fails

LEMMA DestinationIs ==
  ASSUME NEW op \in Operation
  PROVE  Destination(op) \in ConfigFiles
  BY DEF Destination, Operation, ConfigFiles

LEMMA LoadKeeps ==
  ASSUME ConfigInv, NEW w \in Writers, Load(w)
  PROVE  ConfigInv'
<1>1. PICK x : x = writers[w]
  OBVIOUS
<1>2. x \in WriterRecord /\ SoundWriter(w, x, configLocks, past) /\ x.op \in Operation /\ vault \in [ServerNames -> Nat]
  BY <1>1, Onward
<1>3. x.at = "loading" /\ x.op.kind \in Rewrites
  BY <1>1 DEF Load, At
<1>4. CASE Fails(w, "conflict")
  BY <1>4, FailKeeps DEF Fates
<1>5. CASE Proceeds(w, [writers[w] EXCEPT !.at = "locking", !.file = Destination(x.op), !.kept = vault])
  <2>1. PICK f : f = Destination(x.op)
    OBVIOUS
  <2>2. f \in ConfigFiles
    BY <1>2, <2>1, DestinationIs
  <2>3. PICK y : y = [x EXCEPT !.at = "locking", !.file = f, !.kept = vault]
    OBVIOUS
  <2>4. y \in WriterRecord /\ y.at = "locking" /\ y.op = x.op /\ y.old = x.old /\ y.fate = x.fate
    BY <1>2, <2>2, <2>3 DEF WriterRecord, Underway
  <2>5. SoundWriter(w, y, configLocks, past)
    BY <1>2, <1>3, <2>4 DEF SoundWriter, LockKept, Locking, PlanKept, ViewsKept, Retiring
  <2>6. QED
    BY <1>1, <1>5, <2>1, <2>3, <2>4, <2>5, ProceedKeeps
<1>6. QED
  BY <1>1, <1>4, <1>5 DEF Load

LEMMA LoadEntryKeeps ==
  ASSUME ConfigInv, NEW w \in Writers, LoadEntry(w)
  PROVE  ConfigInv'
<1>1. PICK x : x = writers[w]
  OBVIOUS
<1>2. x \in WriterRecord /\ SoundWriter(w, x, configLocks, past) /\ x.op \in Operation
  BY <1>1, Onward
<1>3. PICK name : name = CHOOSE n \in x.op.names : TRUE
  OBVIOUS
<1>4. name \in ServerNames
  <2>1. x.op.names \subseteq ServerNames /\ x.op.names # {}
    BY <1>2 DEF Operation
  <2>2. name \in x.op.names
    BY <1>3, <2>1
  <2>3. QED
    BY <2>1, <2>2
<1>5. x.at = "loading" /\ x.op.kind \notin Rewrites
  BY <1>1 DEF LoadEntry, At
<1>6. CASE Fails(w, "unknown")
  BY <1>6, FailKeeps DEF Fates
<1>7. CASE Proceeds(w, [writers[w] EXCEPT !.at = "retiring", !.file = Effective(name),
                                         !.retires = {<<"tokens", name>>}])
  <2>1. PICK f : f = Effective(name)
    OBVIOUS
  <2>2. f \in ConfigFiles
    BY <2>1 DEF Effective, ConfigFiles
  <2>3. PICK y : y = [x EXCEPT !.at = "retiring", !.file = f, !.retires = {<<"tokens", name>>}]
    OBVIOUS
  <2>4. y \in WriterRecord /\ y.at = "retiring" /\ y.op = x.op /\ y.old = x.old /\ y.fate = x.fate
    <3>1. {<<"tokens", name>>} \in SUBSET ({"entry", "tokens"} \X ServerNames)
      BY <1>4
    <3>2. QED
      BY <1>2, <2>2, <2>3, <3>1 DEF WriterRecord, Underway, Retiring
  <2>5. SoundWriter(w, y, configLocks, past)
    BY <1>2, <1>5, <2>4 DEF SoundWriter, LockKept, Locking, PlanKept, ViewsKept, Retiring
  <2>6. QED
    BY <1>1, <1>7, <2>1, <2>3, <2>4, <2>5, ProceedKeeps
<1>8. QED
  BY <1>1, <1>3, <1>6, <1>7 DEF LoadEntry

LEMMA TakeLockKeeps ==
  ASSUME ConfigInv, NEW w \in Writers, TakeLock(w)
  PROVE  ConfigInv'
<1>1. PICK x : x = writers[w]
  OBVIOUS
<1>2. x \in WriterRecord /\ SoundWriter(w, x, configLocks, past) /\ x.file \in ConfigFiles
      /\ configLocks \in [ConfigFiles -> {0} \cup Writers] /\ vault \in [ServerNames -> Nat]
      /\ views \in [Entries -> [live : BOOLEAN, owned : BOOLEAN]] /\ w # 0
  BY <1>1, Onward
<1>3. /\ x.at = "locking" /\ configLocks[x.file] = 0
      /\ configLocks' = [configLocks EXCEPT ![x.file] = w] /\ UNCHANGED <<configs, views, vault, past>>
  BY <1>1 DEF TakeLock, At
<1>4. PICK y : y = [x EXCEPT !.at = "reading"]
  OBVIOUS
<1>5. y \in WriterRecord /\ y.at = "reading" /\ y.op = x.op /\ y.file = x.file /\ y.old = x.old /\ y.fate = x.fate
  BY <1>2, <1>4 DEF WriterRecord, Underway
<1>6. writers' = [writers EXCEPT ![w] = y]
  BY <1>1, <1>4 DEF TakeLock, ConfigInv, ConfigShape
<1>7. /\ configLocks' \in [ConfigFiles -> {0} \cup Writers] /\ configLocks'[x.file] = w
      /\ \A f \in ConfigFiles : configLocks'[f] = configLocks[f] \/ configLocks[f] \in {0, w}
  BY <1>2, <1>3
<1>8. SoundWriter(w, y, configLocks', past)
  BY <1>2, <1>3, <1>5, <1>7 DEF SoundWriter, LockKept, Locking, PlanKept, ViewsKept, Retiring
<1>9. QED
  BY <1>2, <1>3, <1>5, <1>6, <1>7, <1>8, OneWriter

LEMMA ReadKeeps ==
  ASSUME ConfigInv, NEW w \in Writers, ReadConfig(w)
  PROVE  ConfigInv'
<1>1. PICK x : x = writers[w]
  OBVIOUS
<1>2. x \in WriterRecord /\ SoundWriter(w, x, configLocks, past) /\ x.file \in ConfigFiles
      /\ configs \in [ConfigFiles -> Document]
  BY <1>1, Onward
<1>3. x.at = "reading"
  BY <1>1 DEF ReadConfig, At
<1>4. CASE Fails(w, "unreadable")
  BY <1>4, FailKeeps DEF Fates
<1>5. CASE Proceeds(w, [writers[w] EXCEPT !.at = "planning", !.seen = {configs[x.file]}])
  <2>1. PICK document \in Document : document = configs[x.file]
    BY <1>2
  <2>2. PICK y : y = [x EXCEPT !.at = "planning", !.seen = {document}]
    OBVIOUS
  <2>3. /\ y \in WriterRecord /\ y.at = "planning" /\ y.op = x.op /\ y.file = x.file /\ y.old = x.old
        /\ y.fate = x.fate /\ y.seen = {document}
    BY <1>2, <2>1, <2>2 DEF WriterRecord, Underway
  <2>4. SoundWriter(w, y, configLocks, past)
    BY <1>2, <1>3, <2>3 DEF SoundWriter, LockKept, Locking, PlanKept, ViewsKept, Retiring
  <2>5. QED
    BY <1>1, <1>5, <2>1, <2>2, <2>3, <2>4, ProceedKeeps
<1>6. QED
  BY <1>1, <1>4, <1>5 DEF ReadConfig

LEMMA PlanKeeps ==
  ASSUME ConfigInv, NEW w \in Writers, Plan(w)
  PROVE  ConfigInv'
<1>1. PICK x : x = writers[w]
  OBVIOUS
<1>2. x \in WriterRecord /\ SoundWriter(w, x, configLocks, past) /\ x.op \in Operation /\ w \in Nat
  BY <1>1, Onward, ConfigWritingAssumption
<1>3. x.at = "planning"
  BY <1>1 DEF Plan, At
<1>4. PICK document \in Document : x.seen = {document}
  BY <1>2, <1>3 DEF SoundWriter, PlanKept, WriterRecord
<1>5. Seen(w) = document
  BY <1>1, <1>4 DEF Seen
<1>6. CASE Fails(w, "conflict")
  BY <1>6, FailKeeps DEF Fates
<1>7. CASE Proceeds(w, [writers[w] EXCEPT
            !.at = "retiring", !.staged = ~Preserves(x.op, document),
            !.next = {[is |-> IF document.is = "link" THEN "link" ELSE "file",
                       entries |-> Applied(x.op, document.entries), edits |-> document.edits \cup {w}]},
            !.retires = Retires(x.op, document.entries, writers[w].kept)])
  <2>1. PICK staged, retires, new : /\ staged = ~Preserves(x.op, document)
                                    /\ retires = Retires(x.op, document.entries, writers[w].kept)
                                    /\ new = [is |-> IF document.is = "link" THEN "link" ELSE "file",
                                              entries |-> Applied(x.op, document.entries),
                                              edits |-> document.edits \cup {w}]
    OBVIOUS
  <2>2. staged \in BOOLEAN
    BY <2>1 DEF Preserves
  <2>3. retires \in SUBSET ({"entry", "tokens"} \X ServerNames)
    <3>1. x.op.names \subseteq ServerNames
      BY <1>2 DEF Operation
    <3>2. QED
      BY <2>1, <3>1 DEF Retires
  <2>4. new \in Document /\ new.edits = document.edits \cup {w}
    <3>1. Applied(x.op, document.entries) \in [ServerNames -> Definitions]
      BY <1>2 DEF Applied, Operation, Document, Definitions
    <3>2. document.edits \cup {w} \in SUBSET Nat
      BY <1>2 DEF Document
    <3>3. QED
      BY <2>1, <3>1, <3>2 DEF Document
  <2>5. PICK y : y = [x EXCEPT !.at = "retiring", !.staged = staged, !.next = {new}, !.retires = retires]
    OBVIOUS
  <2>6. /\ y \in WriterRecord /\ y.at = "retiring" /\ y.op = x.op /\ y.file = x.file /\ y.old = x.old
        /\ y.fate = x.fate /\ y.seen = {document} /\ y.next = {new}
    BY <1>2, <1>4, <2>2, <2>3, <2>4, <2>5 DEF WriterRecord, Underway, Retiring
  <2>7. PlanKept(w, y, past)
    BY <2>4, <2>6 DEF PlanKept
  <2>8. SoundWriter(w, y, configLocks, past)
    BY <1>2, <1>3, <2>6, <2>7 DEF SoundWriter, LockKept, Locking, ViewsKept, Retiring
  <2>9. QED
    BY <1>1, <1>7, <2>1, <2>5, <2>6, <2>8, ProceedKeeps
<1>8. QED
  BY <1>1, <1>5, <1>6, <1>7 DEF Plan

-----------------------------------------------------------------------------
(* The configuration: the views.                                           *)

LEMMA InspectKeeps ==
  ASSUME ConfigInv, NEW w \in Writers, InspectView(w)
  PROVE  ConfigInv'
<1>1. PICK x : x = writers[w]
  OBVIOUS
<1>2. x \in WriterRecord /\ SoundWriter(w, x, configLocks, past)
  BY <1>1, Onward
<1>3. x.at = "retiring" /\ x.old = {}
  BY <1>1, <1>2 DEF InspectView, At, SoundWriter, ViewsKept
<1>4. PICK what, found : /\ what \in x.retires /\ found \subseteq Entries
                         /\ Proceeds(w, [writers[w] EXCEPT !.at = "stopping", !.retires = writers[w].retires \ {what},
                                         !.found = found, !.old = writers[w].old \cup found])
  BY <1>1 DEF InspectView
<1>5. PICK y : y = [x EXCEPT !.at = "stopping", !.retires = x.retires \ {what}, !.found = found,
                             !.old = x.old \cup found]
  OBVIOUS
<1>6. /\ y \in WriterRecord /\ y.at = "stopping" /\ y.op = x.op /\ y.file = x.file /\ y.old = found /\ y.found = found
      /\ y.fate = x.fate /\ y.seen = x.seen /\ y.next = x.next
  <2>1. x.retires \ {what} \in SUBSET ({"entry", "tokens"} \X ServerNames) /\ x.old \cup found = found
    BY <1>2, <1>3 DEF WriterRecord
  <2>2. QED
    BY <1>2, <1>4, <1>5, <2>1 DEF WriterRecord, Underway, Retiring
<1>7. SoundWriter(w, y, configLocks, past)
  BY <1>2, <1>3, <1>6 DEF SoundWriter, LockKept, Locking, PlanKept, ViewsKept, Retiring
<1>8. QED
  BY <1>1, <1>4, <1>5, <1>6, <1>7, ProceedKeeps

LEMMA RetiredKeeps ==
  ASSUME ConfigInv, NEW w \in Writers, Retired(w)
  PROVE  ConfigInv'
<1>1. PICK x : x = writers[w]
  OBVIOUS
<1>2. x \in WriterRecord /\ SoundWriter(w, x, configLocks, past)
  BY <1>1, Onward
<1>3. x.at = "stopping" /\ x.old = {}
  BY <1>1, <1>2 DEF Retired, At, SoundWriter, ViewsKept
<1>4. PICK y : y = [x EXCEPT !.at = "retiring"]
  OBVIOUS
<1>5. /\ y \in WriterRecord /\ y.at = "retiring" /\ y.op = x.op /\ y.file = x.file /\ y.old = x.old
      /\ y.fate = x.fate /\ y.seen = x.seen /\ y.next = x.next
  BY <1>2, <1>4 DEF WriterRecord, Underway, Retiring
<1>6. SoundWriter(w, y, configLocks, past)
  BY <1>2, <1>3, <1>5 DEF SoundWriter, LockKept, Locking, PlanKept, ViewsKept, Retiring
<1>7. QED
  BY <1>1, <1>4, <1>5, <1>6, ProceedKeeps DEF Retired

LEMMA AllRetiredKeeps ==
  ASSUME ConfigInv, NEW w \in Writers, AllRetired(w)
  PROVE  ConfigInv'
<1>1. PICK x : x = writers[w]
  OBVIOUS
<1>2. x \in WriterRecord /\ SoundWriter(w, x, configLocks, past)
  BY <1>1, Onward
<1>3. x.at = "retiring"
  BY <1>1 DEF AllRetired, At
<1>4. PICK at : at = IF x.op.kind \in Rewrites THEN "checking" ELSE "crediting"
  OBVIOUS
<1>5. PICK y : y = [x EXCEPT !.at = at]
  OBVIOUS
<1>6. /\ y \in WriterRecord /\ y.at = at /\ y.op = x.op /\ y.file = x.file /\ y.old = x.old
      /\ y.fate = x.fate /\ y.seen = x.seen /\ y.next = x.next
  BY <1>2, <1>4, <1>5 DEF WriterRecord, Underway, Committing
<1>7. SoundWriter(w, y, configLocks, past)
  <2>1. CASE x.op.kind \in Rewrites
    BY <1>2, <1>3, <1>4, <1>6, <2>1 DEF SoundWriter, LockKept, Locking, PlanKept, ViewsKept, Retiring
  <2>2. CASE x.op.kind \notin Rewrites
    BY <1>2, <1>3, <1>4, <1>6, <2>2 DEF SoundWriter, LockKept, Locking, PlanKept, ViewsKept, Retiring
  <2>3. QED
    BY <2>1, <2>2
<1>8. QED
  BY <1>1, <1>4, <1>5, <1>6, <1>7, ProceedKeeps DEF AllRetired

(* A command one of whose old views is gone.                               *)
LEMMA FewerViews ==
  ASSUME NEW w \in Writers, NEW x \in WriterRecord, NEW v, NEW y, NEW held, NEW p,
         \/ y = [x EXCEPT !.old = x.old \ {v}]
         \/ y = [x EXCEPT !.old = x.old \ {v}, !.found = x.found \ {v}]
         \/ y = [x EXCEPT !.old = x.old \ {v}, !.found = x.found],
         SoundWriter(w, x, held, p)
  PROVE  y \in WriterRecord /\ SoundWriter(w, y, held, p)
<1>1. PICK found, old : found = x.found \ {v} /\ old = x.old \ {v}
  OBVIOUS
<1>2. found \in SUBSET Entries /\ old \in SUBSET Entries
  BY <1>1 DEF WriterRecord
<1>3. /\ y \in WriterRecord /\ y.at = x.at /\ y.op = x.op /\ y.file = x.file /\ y.old = old
      /\ y.found \in {x.found, found} /\ y.fate = x.fate /\ y.seen = x.seen /\ y.next = x.next
  BY <1>1, <1>2 DEF WriterRecord
<1>4. ViewsKept(y)
  BY <1>1, <1>3 DEF SoundWriter, ViewsKept
<1>5. QED
  BY <1>3, <1>4 DEF SoundWriter, LockKept, Locking, PlanKept, Retiring

LEMMA ViewGoneKeeps ==
  ASSUME ConfigInv, NEW v \in Entries, UNCHANGED <<configs, configLocks, vault, past>>,
         views' = [views EXCEPT ![v].live = FALSE],
         \/ writers' = [x \in Writers |-> [writers[x] EXCEPT !.old = writers[x].old \ {v}]]
         \/ \E w \in Writers :
              writers' = [x \in Writers |-> [writers[x] EXCEPT !.old = writers[x].old \ {v},
                            !.found = IF x = w THEN writers[x].found \ {v} ELSE writers[x].found]]
  PROVE  ConfigInv'
<1>1. \A x \in Writers : writers'[x] \in WriterRecord /\ SoundWriter(x, writers'[x], configLocks, past)
  <2>1. SUFFICES ASSUME NEW x \in Writers
                 PROVE  writers'[x] \in WriterRecord /\ SoundWriter(x, writers'[x], configLocks, past)
    OBVIOUS
  <2>2. writers[x] \in WriterRecord /\ SoundWriter(x, writers[x], configLocks, past)
    BY Onward
  <2>3. \/ writers'[x] = [writers[x] EXCEPT !.old = writers[x].old \ {v}]
        \/ writers'[x] = [writers[x] EXCEPT !.old = writers[x].old \ {v}, !.found = writers[x].found \ {v}]
        \/ writers'[x] = [writers[x] EXCEPT !.old = writers[x].old \ {v}, !.found = writers[x].found]
    OBVIOUS
  <2>4. QED
    BY <2>2, <2>3, FewerViews
<1>2. writers' \in [Writers -> WriterRecord]
  <2>1. writers' = [x \in Writers |-> writers'[x]]
    <3>1. CASE writers' = [x \in Writers |-> [writers[x] EXCEPT !.old = writers[x].old \ {v}]]
      BY <3>1
    <3>2. ASSUME NEW w \in Writers,
                 writers' = [x \in Writers |-> [writers[x] EXCEPT !.old = writers[x].old \ {v},
                               !.found = IF x = w THEN writers[x].found \ {v} ELSE writers[x].found]]
          PROVE  writers' = [x \in Writers |-> writers'[x]]
      BY <3>2
    <3>3. QED
      BY <3>1, <3>2
  <2>2. QED
    BY <1>1, <2>1
<1>3. views' \in [Entries -> [live : BOOLEAN, owned : BOOLEAN]]
  <2>1. PICK view : view = [views[v] EXCEPT !.live = FALSE]
    OBVIOUS
  <2>2. view \in [live : BOOLEAN, owned : BOOLEAN]
    <3>1. views[v] \in [live : BOOLEAN, owned : BOOLEAN]
      BY Onward DEF ConfigInv, ConfigShape
    <3>2. FALSE \in BOOLEAN
      OBVIOUS
    <3>3. QED
      BY <2>1, <3>1, <3>2
  <2>3. views' = [views EXCEPT ![v] = view]
    BY <2>1 DEF ConfigInv, ConfigShape
  <2>4. QED
    BY <2>2, <2>3 DEF ConfigInv, ConfigShape
<1>4. QED
  BY <1>1, <1>2, <1>3 DEF ConfigInv, ConfigShape, EditsAreKept

LEMMA StopKeeps ==
  ASSUME ConfigInv, NEW w \in Writers, NEW v \in Entries, StopView(w, v)
  PROVE  ConfigInv'
  BY ViewGoneKeeps DEF StopView

LEMMA ViewEndsKeeps ==
  ASSUME ConfigInv, NEW v \in Entries, ViewEnds(v)
  PROVE  ConfigInv'
  BY ViewGoneKeeps DEF ViewEnds, Gone

LEMMA StopFailsKeeps ==
  ASSUME ConfigInv, NEW w \in Writers, NEW v \in Entries, StopFails(w, v)
  PROVE  ConfigInv'
  BY FailKeeps DEF StopFails, Fates

-----------------------------------------------------------------------------
(* The configuration: the commit.                                          *)

LEMMA CheckKeeps ==
  ASSUME ConfigInv, NEW w \in Writers, CheckConfig(w)
  PROVE  ConfigInv'
<1>1. PICK x : x = writers[w]
  OBVIOUS
<1>2. x \in WriterRecord /\ SoundWriter(w, x, configLocks, past) /\ x.file \in ConfigFiles
  BY <1>1, Onward
<1>3. x.at = "checking" /\ x.op.kind \in Rewrites
  BY <1>1, <1>2 DEF CheckConfig, At, SoundWriter, LockKept
<1>4. PICK document \in x.seen, new \in x.next :
        /\ x.seen = {document} /\ x.next = {new}
        /\ document.edits \subseteq new.edits /\ w \in new.edits
  BY <1>2, <1>3 DEF SoundWriter, PlanKept
<1>5. (CHOOSE next \in writers[w].next : TRUE) = new
  BY <1>1, <1>4
<1>6. CASE Fails(w, "changed")
  BY <1>6, FailKeeps DEF Fates
<1>7. CASE Proceeds(w, [writers[w] EXCEPT !.at = IF writers[w].staged THEN "replacing" ELSE "releasing",
                                          !.next = {[new EXCEPT !.edits = new.edits \cup configs[x.file].edits]}])
  <2>1. PICK at : at = IF writers[w].staged THEN "replacing" ELSE "releasing"
    OBVIOUS
  <2>2. PICK edits : edits = new.edits \cup configs[x.file].edits
    OBVIOUS
  <2>3. PICK last : last = [new EXCEPT !.edits = edits]
    OBVIOUS
  <2>4. last \in Document /\ last.edits = edits
    <3>1. new \in Document /\ configs[x.file] \in Document
      BY <1>2, <1>4, Onward DEF WriterRecord
    <3>2. edits \in SUBSET Nat
      BY <2>2, <3>1 DEF Document
    <3>3. QED
      BY <2>3, <3>1, <3>2 DEF Document
  <2>5. PICK y : y = [x EXCEPT !.at = at, !.next = {last}]
    OBVIOUS
  <2>6. /\ y \in WriterRecord /\ y.at = at /\ at \in {"replacing", "releasing"} /\ y.op = x.op /\ y.file = x.file
        /\ y.old = x.old /\ y.fate = x.fate /\ y.seen = x.seen /\ y.next = {last}
    BY <1>2, <2>1, <2>4, <2>5 DEF WriterRecord, Underway, Committing
  <2>7. \A e \in past.edits : e[1] = x.file => e[2] \in last.edits \/ e \in past.late
    BY <2>2, <2>4 DEF ConfigInv, EditsAreKept
  <2>8. document.edits \subseteq last.edits /\ w \in last.edits
    BY <1>4, <2>2, <2>4
  <2>9. PlanKept(w, y, past)
    BY <1>4, <2>6, <2>7, <2>8 DEF PlanKept, Retiring
  <2>10. SoundWriter(w, y, configLocks, past)
    BY <1>2, <1>3, <2>6, <2>9 DEF SoundWriter, LockKept, Locking, ViewsKept, Retiring
  <2>11. QED
    BY <1>1, <1>7, <2>1, <2>2, <2>3, <2>5, <2>6, <2>10, ProceedKeeps
<1>8. QED
  BY <1>1, <1>5, <1>6, <1>7 DEF CheckConfig

(* Nobody else who is about to replace the file has its lock.              *)
LEMMA ReplaceKeeps ==
  ASSUME ConfigInv, NEW w \in Writers, ReplaceConfig(w)
  PROVE  ConfigInv'
<1>1. PICK x : x = writers[w]
  OBVIOUS
<1>2. x \in WriterRecord /\ SoundWriter(w, x, configLocks, past) /\ x.file \in ConfigFiles
      /\ configs \in [ConfigFiles -> Document]
  BY <1>1, Onward
<1>3. x.at = "replacing" /\ x.op.kind \in Rewrites /\ configLocks[x.file] = w
  BY <1>1, <1>2 DEF ReplaceConfig, At, SoundWriter, LockKept, Locking
<1>4. PICK new \in x.next :
        /\ x.next = {new} /\ w \in new.edits
        /\ \A e \in past.edits : e[1] = x.file => e[2] \in new.edits \/ e \in past.late
  BY <1>2, <1>3 DEF SoundWriter, PlanKept
<1>5. new \in Document
  BY <1>2 DEF WriterRecord
<1>6. configs' = [configs EXCEPT ![x.file] = new] /\ UNCHANGED <<configLocks, views, vault>>
  <2>1. (CHOOSE document \in writers[w].next : TRUE) = new
    BY <1>1, <1>4
  <2>2. QED
    BY <1>1, <2>1 DEF ReplaceConfig
<1>7. PICK edits : edits = past.edits \cup {<<x.file, w>>}
  OBVIOUS
<1>8. past' = [past EXCEPT !.edits = edits]
  BY <1>1, <1>7 DEF ReplaceConfig
<1>9. /\ past.edits \in SUBSET (ConfigFiles \X Nat) /\ past.late \in SUBSET (ConfigFiles \X Nat)
      /\ past.starts \in Nat /\ past.rotations \in Nat /\ IsFiniteSet(past.edits) /\ w \in Nat
  BY ConfigWritingAssumption DEF ConfigInv, ConfigShape
<1>10. edits \in SUBSET (ConfigFiles \X Nat) /\ IsFiniteSet(edits)
  <2>1. <<x.file, w>> \in ConfigFiles \X Nat
    BY <1>2, <1>9
  <2>2. IsFiniteSet(edits)
    BY <1>7, <1>9, FS_AddElement
  <2>3. QED
    BY <1>7, <1>9, <2>1, <2>2
<1>11. past'.edits = edits /\ past'.late = past.late /\ IsFiniteSet(past'.edits)
       /\ past' \in [edits : SUBSET (ConfigFiles \X Nat), late : SUBSET (ConfigFiles \X Nat), starts : Nat,
                     rotations : Nat]
  BY <1>8, <1>9, <1>10 DEF ConfigInv, ConfigShape
<1>12. PICK y : y = [x EXCEPT !.at = "releasing", !.staged = FALSE]
  OBVIOUS
<1>13. /\ y \in WriterRecord /\ y.at = "releasing" /\ y.op = x.op /\ y.file = x.file
       /\ y.old = x.old /\ y.fate = x.fate
  BY <1>2, <1>12 DEF WriterRecord, Underway, Committing
<1>14. writers' = [writers EXCEPT ![w] = y]
  BY <1>1, <1>12 DEF ReplaceConfig, ConfigInv, ConfigShape
<1>15. ConfigShape'
  BY <1>2, <1>5, <1>6, <1>11, <1>13, <1>14 DEF ConfigInv, ConfigShape
<1>16. EditsAreKept'
  <2>1. SUFFICES ASSUME NEW e \in edits PROVE e[2] \in configs'[e[1]].edits \/ e \in past.late
    BY <1>11 DEF EditsAreKept
  <2>2. CASE e = <<x.file, w>>
    BY <1>2, <1>4, <1>6, <2>2
  <2>3. CASE e \in past.edits /\ e[1] = x.file
    BY <1>2, <1>4, <1>6, <2>3
  <2>4. CASE e \in past.edits /\ e[1] # x.file
    <3>1. e[2] \in configs[e[1]].edits \/ e \in past.late
      BY <2>4 DEF ConfigInv, EditsAreKept
    <3>2. e[1] \in ConfigFiles
      BY <1>9, <2>4
    <3>3. configs'[e[1]] = configs[e[1]]
      BY <1>2, <1>6, <2>4, <3>2
    <3>4. QED
      BY <3>1, <3>3
  <2>5. QED
    BY <1>7, <2>2, <2>3, <2>4
<1>17. ASSUME NEW z \in Writers PROVE SoundWriter(z, writers'[z], configLocks', past')
  <2>1. CASE z = w
    <3>1. writers'[z] = y
      BY <1>14, <2>1 DEF ConfigInv, ConfigShape
    <3>2. SoundWriter(w, y, configLocks, past')
      BY <1>2, <1>3, <1>13 DEF SoundWriter, LockKept, Locking, PlanKept, ViewsKept, Retiring
    <3>3. QED
      BY <1>6, <2>1, <3>1, <3>2
  <2>2. CASE z # w
    <3>1. PICK u : u = writers[z]
      OBVIOUS
    <3>2. writers'[z] = u /\ SoundWriter(z, u, configLocks, past)
      BY <1>14, <2>2, <3>1 DEF ConfigInv, ConfigShape
    <3>3. PlanKept(z, u, past')
      <4>1. u.at = "replacing" => u.file # x.file
        BY <1>3, <2>2, <3>2 DEF SoundWriter, LockKept, Locking
      <4>2. \A e \in past'.edits : u.at = "replacing" /\ e[1] = u.file => e \in past.edits
        BY <1>7, <1>11, <4>1
      <4>3. QED
        BY <1>11, <3>2, <4>2 DEF SoundWriter, PlanKept
    <3>4. QED
      BY <1>6, <3>2, <3>3 DEF SoundWriter
  <2>3. QED
    BY <2>1, <2>2
<1>18. QED
  BY <1>15, <1>16, <1>17 DEF ConfigInv

LEMMA ReleaseKeeps ==
  ASSUME ConfigInv, NEW w \in Writers, ReleaseLock(w)
  PROVE  ConfigInv'
<1>1. PICK x : x = writers[w]
  OBVIOUS
<1>2. x \in WriterRecord /\ SoundWriter(w, x, configLocks, past) /\ x.file \in ConfigFiles
      /\ configLocks \in [ConfigFiles -> {0} \cup Writers] /\ vault \in [ServerNames -> Nat]
      /\ views \in [Entries -> [live : BOOLEAN, owned : BOOLEAN]]
  BY <1>1, Onward
<1>3. x.at = "releasing" /\ configLocks[x.file] = w /\ UNCHANGED <<configs, views, vault, past>>
  BY <1>1, <1>2 DEF ReleaseLock, At, SoundWriter, LockKept, Locking
<1>4. CASE Finishes(w, "done", "none")
  <2>1. "done" \in {"done", "failed"} /\ "none" \in Fates
    BY DEF Fates
  <2>2. QED
    BY <1>2, <1>3, <1>4, <2>1, FinishKeeps
<1>5. CASE /\ writers' = [writers EXCEPT ![w].at = "crediting"]
           /\ configLocks' = [configLocks EXCEPT ![writers[w].file] = 0]
  <2>1. PICK y : y = [x EXCEPT !.at = "crediting"]
    OBVIOUS
  <2>2. y \in WriterRecord /\ y.at = "crediting" /\ y.op = x.op /\ y.old = x.old /\ y.fate = x.fate
    BY <1>2, <2>1 DEF WriterRecord, Underway, Committing
  <2>3. writers' = [writers EXCEPT ![w] = y]
    BY <1>1, <1>5, <2>1 DEF ConfigInv, ConfigShape
  <2>4. /\ configLocks' \in [ConfigFiles -> {0} \cup Writers]
        /\ \A f \in ConfigFiles : configLocks'[f] = configLocks[f] \/ configLocks[f] \in {0, w}
    BY <1>1, <1>2, <1>3, <1>5
  <2>5. SoundWriter(w, y, configLocks', past)
    BY <1>2, <1>3, <2>2 DEF SoundWriter, LockKept, Locking, PlanKept, ViewsKept, Retiring
  <2>6. QED
    BY <1>2, <1>3, <2>2, <2>3, <2>4, <2>5, OneWriter
<1>6. QED
  BY <1>4, <1>5 DEF ReleaseLock

LEMMA CommitKeeps ==
  ASSUME ConfigInv, NEW w \in Writers, CommitCredentials(w)
  PROVE  ConfigInv'
<1>1. vault' \in [ServerNames -> Nat]
  <2>1. \E names : vault' = [n \in ServerNames |-> IF n \in names THEN 9 ELSE vault[n]]
    BY DEF CommitCredentials
  <2>2. QED
    BY <2>1, Onward
<1>2. "done" \in {"done", "failed"} /\ "failed" \in {"done", "failed"} /\ {"none", "credentials"} \subseteq Fates
  BY DEF Fates
<1>3. QED
  BY <1>1, <1>2, FinishKeeps DEF CommitCredentials

(* A login that saves the server goes on as a command of its own.          *)
LEMMA WriteKeeps ==
  ASSUME ConfigInv, NEW w \in Writers, WriteCredentials(w)
  PROVE  ConfigInv'
<1>1. PICK x : x = writers[w]
  OBVIOUS
<1>2. x \in WriterRecord /\ SoundWriter(w, x, configLocks, past) /\ x.op \in Operation
      /\ configLocks \in [ConfigFiles -> {0} \cup Writers]
      /\ views \in [Entries -> [live : BOOLEAN, owned : BOOLEAN]]
  BY <1>1, Onward
<1>3. x.at = "crediting" /\ UNCHANGED <<configs, views, past>> /\ x.old = {}
  BY <1>1, <1>2 DEF WriteCredentials, At, SoundWriter, ViewsKept
<1>4. vault' \in [ServerNames -> Nat]
  <2>1. \/ UNCHANGED vault
        \/ vault' = [n \in ServerNames |-> IF n \notin x.op.names THEN vault[n]
                                           ELSE IF x.op.kind = "clear" THEN 0 ELSE 8]
    BY <1>1 DEF WriteCredentials
  <2>2. QED
    BY <2>1, Onward
<1>5. "done" \in {"done", "failed"} /\ "failed" \in {"done", "failed"} /\ {"none", "credentials"} \subseteq Fates
  BY DEF Fates
<1>6. CASE Finishes(w, "done", "none") \/ Finishes(w, "failed", "credentials")
  BY <1>3, <1>4, <1>5, <1>6, FinishKeeps
<1>7. CASE /\ writers' = [writers EXCEPT ![w] =
                [writers[w] EXCEPT !.at = "locking", !.op.kind = "persist", !.file = Destination(x.op)]]
           /\ UNCHANGED configLocks
  <2>1. PICK f : f = Destination(x.op)
    OBVIOUS
  <2>2. f \in ConfigFiles
    BY <1>2, <2>1, DestinationIs
  <2>3. PICK op : op = [x.op EXCEPT !.kind = "persist"]
    OBVIOUS
  <2>4. op \in Operation /\ op.kind = "persist" /\ op.args = x.op.args
    BY <1>2, <2>3 DEF Operation, Rewrites
  <2>5. PICK y : y = [x EXCEPT !.at = "locking", !.op = op, !.file = f]
    OBVIOUS
  <2>6. y \in WriterRecord /\ y.at = "locking" /\ y.op = op /\ y.old = x.old /\ y.fate = x.fate
    BY <1>2, <2>2, <2>4, <2>5 DEF WriterRecord, Underway
  <2>7. y = [x EXCEPT !.at = "locking", !.op.kind = "persist", !.file = f]
    BY <1>2, <2>3, <2>5 DEF WriterRecord
  <2>8. writers' = [writers EXCEPT ![w] = y]
    BY <1>1, <1>7, <2>1, <2>7
  <2>9. SoundWriter(w, y, configLocks, past)
    BY <1>2, <1>3, <2>4, <2>6 DEF SoundWriter, LockKept, Locking, PlanKept, ViewsKept, Retiring, Rewrites
  <2>10. QED
    BY <1>2, <1>3, <1>4, <1>7, <2>6, <2>8, <2>9, OneWriter
<1>8. QED
  BY <1>1, <1>6, <1>7 DEF WriteCredentials

LEMMA WriterDiesKeeps ==
  ASSUME ConfigInv, NEW w \in Writers, WriterDies(w)
  PROVE  ConfigInv'
<1>1. PICK x : x = writers[w]
  OBVIOUS
<1>2. x \in WriterRecord /\ SoundWriter(w, x, configLocks, past)
      /\ configLocks \in [ConfigFiles -> {0} \cup Writers] /\ vault \in [ServerNames -> Nat]
      /\ views \in [Entries -> [live : BOOLEAN, owned : BOOLEAN]]
  BY <1>1, Onward
<1>3. PICK y : y = [x EXCEPT !.at = "crashed", !.retires = {}, !.found = {}, !.old = {}, !.seen = {}, !.next = {},
                             !.staged = FALSE]
  OBVIOUS
<1>4. y \in WriterRecord /\ y.at = "crashed" /\ y.op = x.op /\ y.old = {} /\ y.fate = x.fate
  BY <1>2, <1>3 DEF WriterRecord
<1>5. writers' = [writers EXCEPT ![w] = y] /\ UNCHANGED <<configs, configLocks, views, vault, past>>
  BY <1>1, <1>3 DEF WriterDies
<1>6. SoundWriter(w, y, configLocks, past)
  BY <1>2, <1>4 DEF SoundWriter, LockKept, Locking, PlanKept, ViewsKept, Retiring
<1>7. QED
  BY <1>2, <1>4, <1>5, <1>6, OneWriter

-----------------------------------------------------------------------------
(* The configuration: what else happens.                                   *)

(* Who has checked the file before an edit lets it count as late.          *)
LEMMA EditKeeps ==
  ASSUME ConfigInv, NEW f \in ConfigFiles, Edit(f)
  PROVE  ConfigInv'
<1>1. PICK id : id = 10 + Cardinality({e \in past.edits : e[2] > 10}) + 1
  OBVIOUS
<1>2. /\ past.edits \in SUBSET (ConfigFiles \X Nat) /\ past.late \in SUBSET (ConfigFiles \X Nat)
      /\ past.starts \in Nat /\ past.rotations \in Nat /\ IsFiniteSet(past.edits)
      /\ configs \in [ConfigFiles -> Document]
  BY DEF ConfigInv, ConfigShape
<1>3. id \in Nat
  <2>1. PICK given : given = {e \in past.edits : e[2] > 10}
    OBVIOUS
  <2>2. IsFiniteSet(given)
    BY <1>2, <2>1, FS_Subset
  <2>3. Cardinality(given) \in Nat
    BY <2>2, FS_CardinalityType
  <2>4. QED
    BY <1>1, <2>1, <2>3
<1>4. PICK late : late = \E w \in Writers : writers[w].file = f /\ At(w, "replacing")
  OBVIOUS
<1>5. PICK edits, lates : /\ edits = past.edits \cup {<<f, id>>}
                          /\ lates = IF late THEN past.late \cup {<<f, id>>} ELSE past.late
  OBVIOUS
<1>6. past' = [past EXCEPT !.edits = edits, !.late = lates]
  BY <1>1, <1>4, <1>5 DEF Edit
<1>7. edits \in SUBSET (ConfigFiles \X Nat) /\ lates \in SUBSET (ConfigFiles \X Nat) /\ IsFiniteSet(edits)
  <2>1. <<f, id>> \in ConfigFiles \X Nat
    BY <1>3
  <2>2. IsFiniteSet(edits)
    BY <1>2, <1>5, FS_AddElement
  <2>3. QED
    BY <1>2, <1>5, <2>1, <2>2
<1>8. past'.edits = edits /\ past'.late = lates /\ IsFiniteSet(past'.edits)
      /\ past' \in [edits : SUBSET (ConfigFiles \X Nat), late : SUBSET (ConfigFiles \X Nat), starts : Nat,
                    rotations : Nat]
  BY <1>2, <1>6, <1>7 DEF ConfigInv, ConfigShape
<1>9. PICK old \in Document : old = configs[f]
  BY <1>2
<1>10. PICK n \in ServerNames, definition \in Definitions :
         configs' = [configs EXCEPT ![f].entries[n] = definition, ![f].edits = configs[f].edits \cup {id}]
  BY <1>1 DEF Edit
<1>11. PICK entries : entries = [old.entries EXCEPT ![n] = definition]
  OBVIOUS
<1>12. PICK given : given = old.edits \cup {id}
  OBVIOUS
<1>13. PICK new : new = [old EXCEPT !.entries = entries, !.edits = given]
  OBVIOUS
<1>14. new \in Document /\ new.edits = given
  <2>1. entries \in [ServerNames -> Definitions] /\ given \in SUBSET Nat
    BY <1>3, <1>9, <1>11, <1>12 DEF Document
  <2>2. QED
    BY <1>9, <1>13, <2>1 DEF Document
<1>15. configs' = [configs EXCEPT ![f] = new]
  BY <1>9, <1>10, <1>11, <1>12, <1>13
<1>16. UNCHANGED <<writers, configLocks, views, vault>>
  BY DEF Edit
<1>17. ConfigShape'
  BY <1>2, <1>8, <1>14, <1>15, <1>16 DEF ConfigInv, ConfigShape
<1>18. EditsAreKept'
  <2>1. SUFFICES ASSUME NEW e \in edits PROVE e[2] \in configs'[e[1]].edits \/ e \in lates
    BY <1>8 DEF EditsAreKept
  <2>2. CASE e = <<f, id>>
    BY <1>2, <1>12, <1>14, <1>15, <2>2
  <2>3. CASE e \in past.edits
    <3>1. e[2] \in configs[e[1]].edits \/ e \in lates
      BY <1>5, <2>3 DEF ConfigInv, EditsAreKept
    <3>2. e[1] \in ConfigFiles
      BY <1>2, <2>3
    <3>3. configs[e[1]].edits \subseteq configs'[e[1]].edits
      BY <1>2, <1>9, <1>12, <1>14, <1>15, <3>2
    <3>4. QED
      BY <3>1, <3>3
  <2>4. QED
    BY <1>5, <2>2, <2>3
<1>19. ASSUME NEW z \in Writers PROVE SoundWriter(z, writers'[z], configLocks', past')
  <2>1. PICK u : u = writers[z]
    OBVIOUS
  <2>2. writers'[z] = u /\ SoundWriter(z, u, configLocks, past)
    BY <1>16, <2>1, Onward
  <2>3. PlanKept(z, u, past')
    <3>1. u.at = "replacing" /\ u.file = f => late
      BY <1>4, <2>1 DEF At
    <3>2. \A e \in past'.edits : u.at = "replacing" /\ e[1] = u.file => e \in past.edits \/ e \in lates
      BY <1>5, <1>8, <3>1
    <3>3. past.late \subseteq lates
      BY <1>5
    <3>4. QED
      BY <1>8, <2>2, <3>2, <3>3 DEF SoundWriter, PlanKept
  <2>4. QED
    BY <1>16, <2>2, <2>3 DEF SoundWriter
<1>20. QED
  BY <1>17, <1>18, <1>19 DEF ConfigInv

(* What no command sees: another count, other credentials or views.        *)
LEMMA BesideKeeps ==
  ASSUME ConfigInv, UNCHANGED <<writers, configs, configLocks>>,
         views' \in [Entries -> [live : BOOLEAN, owned : BOOLEAN]], vault' \in [ServerNames -> Nat],
         NEW starts \in Nat, NEW rotations \in Nat,
         past' = [past EXCEPT !.starts = starts, !.rotations = rotations]
  PROVE  ConfigInv'
<1>1. /\ past'.edits = past.edits /\ past'.late = past.late
      /\ past' \in [edits : SUBSET (ConfigFiles \X Nat), late : SUBSET (ConfigFiles \X Nat), starts : Nat,
                    rotations : Nat]
  BY DEF ConfigInv, ConfigShape
<1>2. ConfigShape' /\ EditsAreKept'
  BY <1>1 DEF ConfigInv, ConfigShape, EditsAreKept
<1>3. \A w \in Writers : SoundWriter(w, writers'[w], configLocks', past')
  BY <1>1 DEF ConfigInv, SoundWriter, PlanKept
<1>4. QED
  BY <1>2, <1>3 DEF ConfigInv

LEMMA StartViewKeeps ==
  ASSUME ConfigInv, NEW v \in Entries, StartView(v)
  PROVE  ConfigInv'
<1>1. past.starts \in Nat /\ past.rotations \in Nat
  BY DEF ConfigInv, ConfigShape
<1>2. PICK starts, rotations : starts = past.starts + 1 /\ rotations = past.rotations
  OBVIOUS
<1>3. past' = [past EXCEPT !.starts = starts, !.rotations = rotations]
  BY <1>2 DEF StartView, ConfigInv, ConfigShape
<1>4. views' \in [Entries -> [live : BOOLEAN, owned : BOOLEAN]]
  <2>1. PICK view : view = [views[v] EXCEPT !.live = TRUE]
    OBVIOUS
  <2>2. views[v] \in [live : BOOLEAN, owned : BOOLEAN] /\ TRUE \in BOOLEAN
    BY DEF ConfigInv, ConfigShape
  <2>3. view \in [live : BOOLEAN, owned : BOOLEAN]
    BY <2>1, <2>2
  <2>4. views' = [views EXCEPT ![v] = view]
    BY <2>1 DEF StartView, ConfigInv, ConfigShape
  <2>5. QED
    BY <2>3, <2>4 DEF ConfigInv, ConfigShape
<1>5. vault' \in [ServerNames -> Nat]
  BY DEF StartView, ConfigInv, ConfigShape
<1>6. UNCHANGED <<writers, configs, configLocks>>
  BY DEF StartView
<1>7. starts \in Nat /\ rotations \in Nat
  BY <1>1, <1>2
<1>8. QED
  BY <1>3, <1>4, <1>5, <1>6, <1>7, BesideKeeps

LEMMA RotateKeeps ==
  ASSUME ConfigInv, NEW n \in ServerNames, Rotate(n)
  PROVE  ConfigInv'
<1>1. past.starts \in Nat /\ past.rotations \in Nat
  BY DEF ConfigInv, ConfigShape
<1>2. PICK starts, rotations : starts = past.starts /\ rotations = past.rotations + 1
  OBVIOUS
<1>3. past' = [past EXCEPT !.starts = starts, !.rotations = rotations]
  BY <1>2 DEF Rotate, ConfigInv, ConfigShape
<1>4. vault' \in [ServerNames -> Nat]
  BY <1>1 DEF Rotate, ConfigInv, ConfigShape
<1>5. views' \in [Entries -> [live : BOOLEAN, owned : BOOLEAN]]
  BY DEF Rotate, ConfigInv, ConfigShape
<1>6. UNCHANGED <<writers, configs, configLocks>>
  BY DEF Rotate
<1>7. starts \in Nat /\ rotations \in Nat
  BY <1>1, <1>2
<1>8. QED
  BY <1>3, <1>4, <1>5, <1>6, <1>7, BesideKeeps

LEMMA ConfigStarts ==
  ASSUME NEW ops, NEW documents, NEW started, NEW owned, NEW credentials,
         ops \in [Writers -> Operation], documents \in [ConfigFiles -> Document],
         credentials \in [ServerNames -> Nat], ConfigInit(ops, documents, started, owned, credentials)
  PROVE  ConfigInv
<1>1. ASSUME NEW w \in Writers
      PROVE  writers[w] \in WriterRecord /\ SoundWriter(w, writers[w], configLocks, past)
  <2>1. PICK x : x = NewWriter(ops[w])
    OBVIOUS
  <2>2. /\ writers[w] = x /\ x.at = "loading" /\ x.old = {} /\ x.fate = "none"
    BY <2>1 DEF ConfigInit, NewWriter
  <2>3. x \in WriterRecord
    <3>1. ops[w] \in Operation /\ [n \in ServerNames |-> 0] \in [ServerNames -> Nat] /\ FALSE \in BOOLEAN
      OBVIOUS
    <3>2. QED
      BY <2>1, <3>1 DEF NewWriter, WriterRecord, Underway, ConfigFiles, Fates
  <2>4. SoundWriter(w, x, configLocks, past)
    BY <2>2 DEF SoundWriter, LockKept, Locking, PlanKept, ViewsKept, Retiring
  <2>5. QED
    BY <2>2, <2>3, <2>4
<1>2. writers \in [Writers -> WriterRecord]
  <2>1. writers = [w \in Writers |-> writers[w]]
    BY DEF ConfigInit
  <2>2. QED
    BY <1>1, <2>1
<1>3. past \in [edits : SUBSET (ConfigFiles \X Nat), late : SUBSET (ConfigFiles \X Nat), starts : Nat, rotations : Nat]
      /\ past.edits = {} /\ IsFiniteSet(past.edits)
  BY FS_EmptySet DEF ConfigInit
<1>4. configLocks \in [ConfigFiles -> {0} \cup Writers]
      /\ views \in [Entries -> [live : BOOLEAN, owned : BOOLEAN]]
  <2>1. \A v \in Entries : [live |-> v \in started, owned |-> v \in owned] \in [live : BOOLEAN, owned : BOOLEAN]
    OBVIOUS
  <2>2. QED
    BY <2>1 DEF ConfigInit
<1>5. QED
  BY <1>1, <1>2, <1>3, <1>4 DEF ConfigInit, ConfigInv, ConfigShape, EditsAreKept

LEMMA ConfigStepInv ==
  ASSUME ConfigInv, [ConfigNext]_configVars
  PROVE  ConfigInv'
<1>1. CASE UNCHANGED configVars
  BY <1>1 DEF configVars, ConfigInv, ConfigShape, EditsAreKept
<1>2. ASSUME NEW w \in Writers, WriterStep(w) PROVE ConfigInv'
  <2>1. CASE Misused(w) \/ RefuseLink(w) \/ GiveUpLock(w)
    BY <2>1, FailKeeps DEF Misused, RefuseLink, GiveUpLock, Fates
  <2>2. QED
    BY <1>2, <2>1, RejectKeeps, LoadKeeps, LoadEntryKeeps, TakeLockKeeps, ReadKeeps, PlanKeeps, InspectKeeps,
       RetiredKeeps, AllRetiredKeeps, CheckKeeps, ReplaceKeeps, ReleaseKeeps, CommitKeeps, WriteKeeps DEF WriterStep
<1>3. QED
  BY <1>1, <1>2, WriterDiesKeeps, StopKeeps, StopFailsKeeps, EditKeeps, StartViewKeeps, ViewEndsKeeps, RotateKeeps
  DEF ConfigNext

LEMMA ConfigKept ==
  ASSUME ConfigInv
  PROVE  ConfigWritingTypeOK /\ ConfigSafety
<1>1. ConfigWritingTypeOK
  BY DEF ConfigInv, ConfigShape, ConfigWritingTypeOK, WriterRecord, Document
<1>2. OldViewsAreRetired
  BY DEF ConfigInv, SoundWriter, ViewsKept, OldViewsAreRetired, Committing
<1>3. CopiesAreAccepted
  BY DEF ConfigInv, SoundWriter, CopiesAreAccepted
<1>4. QED
  BY <1>1, <1>2, <1>3 DEF ConfigInv, ConfigSafety

(***************************************************************************)
(* For any number of commands that change the configuration at once, with  *)
(* an editor beside them and processes that die at any point: no command   *)
(* overwrites what another, or the editor before its last check, has       *)
(* saved; none commits while a view of the old definition that it found is *)
(* left; and a copy is refused only for the transport that was asked for   *)
(* (config_writer.rs, config_commands.rs, config_commands_copy.rs).        *)
(***************************************************************************)
THEOREM ConfigSafe ==
  ASSUME NEW ops, NEW documents, NEW started, NEW owned, NEW credentials,
         ops \in [Writers -> Operation], documents \in [ConfigFiles -> Document],
         credentials \in [ServerNames -> Nat]
  PROVE  ConfigInit(ops, documents, started, owned, credentials) /\ [][ConfigNext]_configVars
           => [](ConfigWritingTypeOK /\ ConfigSafety)
<1>1. ConfigInit(ops, documents, started, owned, credentials) => ConfigInv
  BY ConfigStarts
<1>2. ConfigInv /\ [ConfigNext]_configVars => ConfigInv'
  BY ConfigStepInv
<1>3. ConfigInv => ConfigWritingTypeOK /\ ConfigSafety
  BY ConfigKept
<1>4. QED
  BY <1>1, <1>2, <1>3, PTL

-----------------------------------------------------------------------------
(* The retirement of legacy daemons: what a run that ends well means.      *)

USE MigrationAssumption

-----------------------------------------------------------------------------
(* Identities.                                                             *)

(* The identities that have been given to a process so far.                *)
Born ==
  {p \in Processes : \/ p[2] = 0
                     \/ p[2] \in 1..legacy[p[1]].forked
                     \/ p[2] = -1 /\ legacy[p[1]].reused}

Records == [forked : 0..MaxWorkers, metadata : BOOLEAN, reused : BOOLEAN, speaks : BOOLEAN]

(* What a run observes behind a daemon is alive.                           *)
LEMMA ObservedAreAlive ==
  ASSUME MigrationTypeOK, NEW d \in Legacy
  PROVE  Tree(d) \subseteq alive
  BY DEF Tree, Named

(* What the system does to processes: those that appear have an identity   *)
(* that nobody had before, and an identity once given stays given.         *)
LEMMA IdentitiesAreNew ==
  ASSUME MigrationTypeOK, alive \subseteq Born,
         (\E d \in Legacy : Fork(d) \/ Reuse(d)) \/ (\E p \in Processes : Die(p))
  PROVE  /\ alive' \subseteq Processes
         /\ legacy' \in [Legacy -> Records]
         /\ Born \subseteq Born' /\ alive' \subseteq Born'
         /\ (alive' \ alive) \cap Born = {}
<1> USE DEF MigrationTypeOK, Records
<1>1. ASSUME NEW d \in Legacy, Fork(d)
      PROVE  /\ alive' \subseteq Processes
             /\ legacy' \in [Legacy -> Records]
             /\ Born \subseteq Born' /\ alive' \subseteq Born'
             /\ (alive' \ alive) \cap Born = {}
  <2> DEFINE n == legacy[d].forked + 1
  <2>1. /\ n \in 1..MaxWorkers
        /\ alive' = alive \cup {<<d, n>>}
        /\ legacy' = [legacy EXCEPT ![d].forked = n]
    BY <1>1 DEF Fork
  <2> HIDE DEF n
  <2>2. <<d, n>> \in Processes
    BY <2>1 DEF Processes
  <2>3. /\ legacy'[d].forked = n /\ legacy'[d].reused = legacy[d].reused
        /\ \A e \in Legacy \ {d} : legacy'[e] = legacy[e]
    BY <2>1
  <2>4. legacy' \in [Legacy -> Records]
    BY <2>1
  <2>5. Born \subseteq Born'
    <3>1. \A e \in Legacy : /\ legacy[e].forked <= legacy'[e].forked
                            /\ legacy'[e].forked \in Nat
                            /\ legacy'[e].reused = legacy[e].reused
      BY <2>1, <2>3 DEF n
    <3>2. ASSUME NEW p \in Born PROVE p \in Born'
      <4>1. p \in Processes /\ p[1] \in Legacy /\ p[2] \in -1..MaxWorkers
        BY DEF Born, Processes
      <4>2. p[2] \in 1..legacy[p[1]].forked => p[2] \in 1..legacy'[p[1]].forked
        BY <3>1, <4>1
      <4>3. QED
        BY <3>1, <4>1, <4>2 DEF Born
    <3>3. QED
      BY <3>2
  <2>6. <<d, n>> \in Born'
    BY <2>1, <2>2, <2>3 DEF Born
  <2>7. <<d, n>> \notin Born
    BY <2>1 DEF Born, n
  <2>8. QED
    BY <2>1, <2>2, <2>4, <2>5, <2>6, <2>7
<1>2. ASSUME NEW d \in Legacy, Reuse(d)
      PROVE  /\ alive' \subseteq Processes
             /\ legacy' \in [Legacy -> Records]
             /\ Born \subseteq Born' /\ alive' \subseteq Born'
             /\ (alive' \ alive) \cap Born = {}
  <2>1. /\ ~legacy[d].reused
        /\ alive' = alive \cup {<<d, -1>>}
        /\ legacy' = [legacy EXCEPT ![d].reused = TRUE]
    BY <1>2 DEF Reuse
  <2>2. <<d, -1>> \in Processes
    BY DEF Processes
  <2>3. /\ legacy'[d].forked = legacy[d].forked /\ legacy'[d].reused
        /\ \A e \in Legacy \ {d} : legacy'[e] = legacy[e]
    BY <2>1
  <2>4. legacy' \in [Legacy -> Records]
    BY <2>1
  <2>5. Born \subseteq Born'
    BY <2>3 DEF Born, Processes
  <2>6. <<d, -1>> \in Born'
    BY <2>2, <2>3 DEF Born
  <2>7. <<d, -1>> \notin Born
    BY <2>1 DEF Born
  <2>8. QED
    BY <2>1, <2>2, <2>4, <2>5, <2>6, <2>7
<1>3. ASSUME NEW p \in Processes, Die(p)
      PROVE  /\ alive' \subseteq Processes
             /\ legacy' \in [Legacy -> Records]
             /\ Born \subseteq Born' /\ alive' \subseteq Born'
             /\ (alive' \ alive) \cap Born = {}
  <2>1. PICK kept \in BOOLEAN :
          legacy' = IF p[2] = 0 THEN [legacy EXCEPT ![p[1]].metadata = kept] ELSE legacy
    BY <1>3 DEF Die
  <2>2. alive' = alive \ {p}
    BY <1>3 DEF Die
  <2>3. legacy' \in [Legacy -> Records]
    BY <2>1 DEF Processes
  <2>4. \A e \in Legacy : /\ legacy'[e].forked = legacy[e].forked
                          /\ legacy'[e].reused = legacy[e].reused
    BY <2>1 DEF Processes
  <2>5. Born \subseteq Born'
    BY <2>4 DEF Born, Processes
  <2>6. QED
    BY <2>2, <2>3, <2>5
<1>4. QED
  BY <1>1, <1>2, <1>3

-----------------------------------------------------------------------------
(* Type correctness.                                                       *)

(* Every form in which a step changes the run is a run.                    *)
LEMMA RunForms ==
  ASSUME run \in Runs, NEW at \in Stages, NEW ids \in SUBSET Processes,
         NEW todo \in SUBSET Legacy, NEW target \in SUBSET Legacy, NEW stop \in BOOLEAN
  PROVE  /\ NoRun \in Runs
         /\ [NoRun EXCEPT !.at = at, !.stop = stop] \in Runs
         /\ [run EXCEPT !.at = at] \in Runs
         /\ [run EXCEPT !.at = at, !.ids = ids] \in Runs
         /\ [run EXCEPT !.at = at, !.todo = todo] \in Runs
         /\ [run EXCEPT !.at = at, !.target = target] \in Runs
         /\ [run EXCEPT !.at = at, !.todo = todo, !.target = target] \in Runs
<1>1. NoRun \in Runs
  BY DEF Runs, NoRun, Stages
<1>2. [NoRun EXCEPT !.at = at, !.stop = stop] \in Runs
  BY DEF Runs, NoRun
<1>3. [run EXCEPT !.at = at] \in Runs /\ [run EXCEPT !.at = at, !.ids = ids] \in Runs
  BY DEF Runs
<1>4. /\ [run EXCEPT !.at = at, !.todo = todo] \in Runs
      /\ [run EXCEPT !.at = at, !.target = target] \in Runs
  BY DEF Runs
<1>5. [run EXCEPT !.at = at, !.todo = todo, !.target = target] \in Runs
  BY DEF Runs
<1>6. QED
  BY <1>1, <1>2, <1>3, <1>4, <1>5

(* What a step of the command leaves behind is a run.                      *)
LEMMA RunType ==
  ASSUME MigrationTypeOK, MigrationStep
  PROVE  run' \in Runs
<1> USE DEF MigrationTypeOK, Becomes, Turns, EndsWith, Quiet
<1>1. run \in Runs /\ run.stop \in BOOLEAN /\ run.todo \subseteq Legacy
  BY DEF Runs
<1>2. \A at \in Stages : [NoRun EXCEPT !.at = at, !.stop = run.stop] \in Runs /\ [run EXCEPT !.at = at] \in Runs
  BY <1>1, RunForms
<1> HIDE DEF MigrationTypeOK
<1>3. CASE BeginRun
  <2>1. PICK stop \in BOOLEAN : run' = [NoRun EXCEPT !.at = "inspect", !.stop = stop]
    BY <1>3 DEF BeginRun
  <2>2. QED
    BY <1>1, <2>1, RunForms DEF Stages
<1>4. CASE InspectDirectory \/ VerifyRetirement \/ Upgrade \/ SaveJournal
  BY <1>2, <1>4 DEF InspectDirectory, VerifyRetirement, Upgrade, SaveJournal, Stages
<1>5. CASE ReadJournal
  <2>1. journal.ids \subseteq Processes
    BY DEF MigrationTypeOK
  <2>2. [run EXCEPT !.at = "recover", !.ids = journal.ids] \in Runs
    BY <1>1, <2>1, RunForms DEF Stages
  <2>3. QED
    BY <1>2, <1>5, <2>2 DEF ReadJournal, Stages
<1>6. CASE RemoveJournal
  <2>1. \A at \in Stages : [run EXCEPT !.at = at, !.ids = {}] \in Runs
    BY <1>1, RunForms
  <2>2. QED
    BY <1>6, <2>1 DEF RemoveJournal, Stages
<1>7. CASE Collect
  <2>1. PICK found \in SUBSET Legacy :
          EndsWith("done") \/ EndsWith("failed") \/ Becomes([run EXCEPT !.at = "upgrade", !.todo = found])
    BY <1>7 DEF Collect
  <2>2. [run EXCEPT !.at = "upgrade", !.todo = found] \in Runs
    BY <1>1, RunForms DEF Stages
  <2>3. QED
    BY <1>2, <2>1, <2>2 DEF Stages
<1>8. CASE Cutover
  <2>1. ASSUME NEW d \in Legacy
        PROVE  [run EXCEPT !.at = "observe", !.todo = @ \ {d}, !.target = {d}] \in Runs
    <3>1. run.todo \ {d} \subseteq Legacy /\ {d} \subseteq Legacy
      BY <1>1
    <3>2. QED
      BY <1>1, <3>1, RunForms DEF Stages
  <2>2. CASE EndsWith("done") \/ EndsWith("failed")
    BY <1>2, <2>2 DEF Stages
  <2>3. QED
    BY <1>1, <1>8, <2>1, <2>2 DEF Cutover
<1>9. CASE Observe
  <2>1. PICK d \in Legacy :
          EndsWith("failed") \/ Becomes([run EXCEPT !.at = "save", !.ids = Tree(d)])
    BY <1>1, <1>9 DEF Observe, Runs
  <2>2. Tree(d) \subseteq Processes
    BY ObservedAreAlive DEF MigrationTypeOK
  <2>3. [run EXCEPT !.at = "save", !.ids = Tree(d)] \in Runs
    BY <1>1, <2>2, RunForms DEF Stages
  <2>4. QED
    BY <1>2, <2>1, <2>3 DEF Stages
<1>10. CASE SendStop
  <2>1. [run EXCEPT !.at = "verify", !.target = {}] \in Runs
    BY <1>1, RunForms DEF Stages
  <2>2. QED
    BY <1>2, <1>10, <2>1 DEF SendStop, Stages
<1>11. CASE Killed
  BY <1>1, <1>11, RunForms DEF Killed, Stages
<1>12. QED
  BY <1>3, <1>4, <1>5, <1>6, <1>7, <1>8, <1>9, <1>10, <1>11 DEF MigrationStep

LEMMA TypeRun ==
  ASSUME MigrationTypeOK, MigrationStep
  PROVE  MigrationTypeOK'
<1>1. run' \in Runs
  BY RunType
<1> USE DEF MigrationTypeOK
<1>2. CASE Quiet
  BY <1>1, <1>2 DEF Quiet
<1>3. CASE BeginRun
  BY <1>1, <1>3 DEF BeginRun
<1>4. CASE RemoveJournal
  BY <1>1, <1>4 DEF RemoveJournal, NoJournal
<1>5. CASE Upgrade
  BY <1>1, <1>5 DEF Upgrade
<1>6. CASE SaveJournal
  BY <1>1, <1>6 DEF SaveJournal, Journal, Runs
<1>7. CASE SendStop
  <2>1. run.ids \subseteq Processes
    BY DEF Runs
  <2>2. asked' \in {asked, asked \cup run.ids} /\ UNCHANGED <<alive, legacy, mode, journal, runs>>
    BY <1>7 DEF SendStop
  <2>3. QED
    BY <1>1, <2>1, <2>2
<1>8. CASE Killed
  BY <1>1, <1>8 DEF Killed, NoJournal, Torn
<1>9. QED
  BY <1>2, <1>3, <1>4, <1>5, <1>6, <1>7, <1>8
     DEF MigrationStep, InspectDirectory, ReadJournal, VerifyRetirement, Collect, Cutover, Observe

LEMMA TypeSystem ==
  ASSUME MigrationTypeOK, alive \subseteq Born,
         (\E d \in Legacy : Fork(d) \/ Reuse(d)) \/ (\E p \in Processes : Die(p))
  PROVE  MigrationTypeOK' /\ UNCHANGED <<mode, journal, run, runs, asked>>
<1>1. alive' \subseteq Processes /\ legacy' \in [Legacy -> Records]
  BY IdentitiesAreNew
<1>2. UNCHANGED <<mode, journal, run, runs, asked>>
  BY DEF Fork, Reuse, Die
<1>3. QED
  BY <1>1, <1>2 DEF MigrationTypeOK, Records

LEMMA TypeInit ==
  ASSUME MigrationInit PROVE MigrationTypeOK /\ alive \subseteq Born
<1> USE DEF MigrationInit
<1>1. alive \subseteq Processes /\ \A p \in alive : p[2] = 0
  BY DEF Processes
<1>2. run \in Runs
  BY DEF NoRun, Runs, Stages
<1>3. journal \in [state : {"none", "torn", "saved"}, ids : SUBSET Processes]
  BY DEF NoJournal
<1>4. legacy \in [Legacy -> Records]
  <2>1. 0 \in 0..MaxWorkers
    OBVIOUS
  <2>2. legacy \in [Legacy -> [forked : {0}, metadata : {TRUE}, reused : {FALSE}, speaks : BOOLEAN]]
    OBVIOUS
  <2>3. \A d \in Legacy : legacy[d] \in Records
    BY <2>1, <2>2 DEF Records
  <2>4. QED
    BY <2>2, <2>3
<1>5. MigrationTypeOK
  BY <1>1, <1>2, <1>3, <1>4 DEF MigrationTypeOK, Records
<1>6. QED
  BY <1>1, <1>5 DEF Born

-----------------------------------------------------------------------------
(* Journaled retirement.                                                   *)

(* Whatever is alive or written down has had its identity given to it: no  *)
(* later process can be mistaken for it.                                   *)
RecordsAreBorn ==
  alive \subseteq Born /\ asked \subseteq Born /\ journal.ids \subseteq Born /\ run.ids \subseteq Born

(* A process behind a stop that was sent is in the journal until it is     *)
(* gone: this is what survives the death of the command.                   *)
StopsAreJournaled == asked \cap alive \subseteq journal.ids

(* What the run knows of the journal at each of its steps.                 *)
RunKnowsJournal ==
  /\ run.at \in {"collect", "upgrade", "next", "observe", "save", "done"} => journal.ids = {}
  /\ run.at \in {"recover", "stop", "verify"} => run.ids = journal.ids
  /\ run.at \in {"forget", "discard"} => journal.ids \cap alive = {}

MigrationInv ==
  /\ MigrationTypeOK
  /\ RecordsAreBorn
  /\ StopsAreJournaled
  /\ RunKnowsJournal

LEMMA InvInit ==
  ASSUME MigrationInit PROVE MigrationInv
  BY TypeInit DEF MigrationInit, MigrationInv, RecordsAreBorn, StopsAreJournaled, RunKnowsJournal,
     NoJournal, NoRun

(* Processes come and go: none that was asked to stop comes back.          *)
LEMMA InvSystem ==
  ASSUME MigrationInv,
         (\E d \in Legacy : Fork(d) \/ Reuse(d)) \/ (\E p \in Processes : Die(p))
  PROVE  MigrationInv'
<1> USE DEF MigrationInv, RecordsAreBorn, StopsAreJournaled, RunKnowsJournal
<1>1. MigrationTypeOK' /\ UNCHANGED <<mode, journal, run, runs, asked>>
  BY TypeSystem
<1>2. Born \subseteq Born' /\ alive' \subseteq Born' /\ (alive' \ alive) \cap Born = {}
  BY IdentitiesAreNew
<1>3. \A ids \in SUBSET Born : ids \cap alive' \subseteq ids \cap alive
  BY <1>2
<1>4. QED
  BY <1>1, <1>2, <1>3

(* A step of the command: it forgets a journal only when nothing in it is  *)
(* alive, and sends a stop only behind the journal of what it observed.    *)
LEMMA InvRun ==
  ASSUME MigrationInv, MigrationStep
  PROVE  MigrationInv'
<1> USE DEF MigrationInv, RecordsAreBorn, StopsAreJournaled, RunKnowsJournal
<1>1. MigrationTypeOK' /\ run \in Runs
  BY TypeRun DEF MigrationTypeOK
<1>2. UNCHANGED <<alive, legacy>> /\ Born' = Born
  BY DEF MigrationStep, BeginRun, InspectDirectory, ReadJournal, VerifyRetirement, RemoveJournal,
     Collect, Upgrade, Cutover, Observe, SaveJournal, SendStop, Killed, Quiet, Born
<1> USE <1>1, <1>2 DEF Runs, Becomes, Turns, EndsWith, Quiet, NoRun
<1>3. CASE BeginRun
  BY <1>3 DEF BeginRun
<1>4. CASE InspectDirectory
  <2>1. UNCHANGED <<journal, asked>> /\ (EndsWith("failed") \/ Turns("journal"))
    BY <1>4 DEF InspectDirectory
  <2>2. run'.at \in {"failed", "journal"} /\ run'.ids \in {{}, run.ids}
    BY <2>1
  <2>3. QED
    BY <2>1, <2>2
<1>5. CASE ReadJournal
  <2>1. CASE journal = NoJournal /\ Turns("collect")
    BY <1>5, <2>1 DEF ReadJournal, NoJournal
  <2>2. CASE EndsWith("failed")
    BY <1>5, <2>2 DEF ReadJournal
  <2>3. CASE Becomes([run EXCEPT !.at = "recover", !.ids = journal.ids])
    BY <1>5, <2>3 DEF ReadJournal
  <2>4. QED
    BY <1>5, <2>1, <2>2, <2>3 DEF ReadJournal
<1>6. CASE VerifyRetirement
  BY <1>6 DEF VerifyRetirement, Verified
<1>7. CASE RemoveJournal
  BY <1>7 DEF RemoveJournal, NoJournal
<1>8. CASE Collect
  BY <1>8 DEF Collect
<1>9. CASE Upgrade
  BY <1>9 DEF Upgrade
<1>10. CASE Cutover
  <2>1. /\ run'.at \in {"done", "failed", "observe"} /\ run'.ids \in {{}, run.ids}
        /\ run.at = "next" /\ UNCHANGED <<journal, asked>>
    <3>1. run.at = "next" /\ UNCHANGED <<journal, asked>>
      BY <1>10 DEF Cutover
    <3>2. PICK d : \/ EndsWith("done") \/ EndsWith("failed")
                   \/ Becomes([run EXCEPT !.at = "observe", !.todo = @ \ {d}, !.target = {d}])
      BY <1>10 DEF Cutover
    <3>3. QED
      BY <3>1, <3>2
  <2>2. QED
    BY <2>1
<1>11. CASE Observe
  <2>1. PICK d \in Legacy :
          EndsWith("failed") \/ Becomes([run EXCEPT !.at = "save", !.ids = Tree(d)])
    BY <1>11 DEF Observe
  <2>2. Tree(d) \subseteq alive
    BY ObservedAreAlive
  <2>3. run.at = "observe" /\ UNCHANGED <<journal, asked>>
    BY <1>11 DEF Observe
  <2>4. run'.at \in {"failed", "save"} /\ run'.ids \in {{}, Tree(d)}
    BY <2>1
  <2>5. QED
    BY <2>2, <2>3, <2>4
<1>12. CASE SaveJournal
  BY <1>12 DEF SaveJournal, Journal
<1>13. CASE SendStop
  BY <1>13 DEF SendStop
<1>14. CASE Killed
  BY <1>14 DEF Killed, NoJournal, Torn
<1>15. QED
  BY <1>3, <1>4, <1>5, <1>6, <1>7, <1>8, <1>9, <1>10, <1>11, <1>12, <1>13, <1>14
     DEF MigrationStep

LEMMA MigrationInvariant == MigrationSpec => []MigrationInv
<1>1. MigrationInv /\ [MigrationNext]_migrationVars => MigrationInv'
  <2>1. ASSUME MigrationInv, UNCHANGED migrationVars PROVE MigrationInv'
    BY <2>1 DEF MigrationInv, MigrationTypeOK, RecordsAreBorn, StopsAreJournaled, RunKnowsJournal,
       Born, Runs, migrationVars
  <2>2. QED
    BY <2>1, InvSystem, InvRun DEF MigrationNext
<1>2. QED
  BY <1>1, InvInit, PTL DEF MigrationSpec

(* MigrationTypeOK: the run, its journal and the legacy processes only have *)
(* the values that daemon_migration.rs can give them.                      *)
THEOREM MigrationTyped == MigrationSpec => []MigrationTypeOK
<1>1. MigrationInv => MigrationTypeOK
  BY DEF MigrationInv
<1>2. QED
  BY <1>1, MigrationInvariant, PTL

(* MigratedMeansGone: after a run that may stop and ends well, no process  *)
(* that any run has observed behind a stop is alive, however many daemons  *)
(* and workers there are and whichever runs were killed or failed before.  *)
THEOREM MigratedCorrect == MigrationSpec => []MigratedMeansGone
<1>1. MigrationInv => MigratedMeansGone
  BY DEF MigrationInv, StopsAreJournaled, RunKnowsJournal, MigratedMeansGone
<1>2. QED
  BY <1>1, MigrationInvariant, PTL

USE McpClientAssumption

-----------------------------------------------------------------------------
(* A connection: what its client and the wire know of each other.          *)

ClientOperations == {"call", "list", "listen", "cancel"}
Workload ==
  [prefers : {"auto", "legacy", "modern"}, transport : {"stdio", "sse"}, todo : Seq(ClientOperations),
   follows : [Pages -> 0..3]]

Todos == Seq(ClientOperations)
PageLists == Seq(Pages)
SessionRecord ==
  [at : {"idle", "dialing", "ready", "listen", "done"} \cup Awaiting, reader : {"none", "open", "taken"},
   prefers : {"auto", "legacy", "modern"}, transport : {"stdio", "sse"}, todo : Todos,
   era : {"none", "legacy", "modern"}, next : Nat, cursors : SUBSET Pages, got : PageLists, listed : PageLists]

WrittenFrame == [kind : Awaiting \cup {"initialized"}, id : Nat, cursor : 0..3, stamped : BOOLEAN]
PageBody == [page : Pages, next : 0..3]
ReadFrame ==
  [kind : {"result", "error"} \cup Asides, id : Nat,
   body : {"modern", "older", "malformed", "unsupported", "refused", "ok"} \cup PageBody]

ReadFrames == Seq(ReadFrame)
WrittenFrames == Seq(WrittenFrame)
LinkRecord ==
  [up : BOOLEAN, frames : ReadFrames, owed : SUBSET Nat, unread : SUBSET Nat, wrote : WrittenFrames,
   follows : [Pages -> 0..3]]

IsOperation(e) == e.kind \in {"call", "list"}

(* Who has the reader waits for the answer to what was written last, and   *)
(* who could use the connection again waits for none.                      *)
PlaceInv(x, k) ==
  /\ x.at \in {"idle", "dialing"} => x.reader = "none" /\ x.era = "none" /\ k.wrote = <<>> /\ k.unread = {}
  /\ x.reader = "taken" => x.at \in Awaiting \cup {"listen"}
  /\ x.at \in Awaiting \cup {"listen"} => x.reader = "taken"
  /\ x.reader = "open" => x.at = "ready" /\ k.unread = {}
  /\ x.at = "listen" => k.unread = {}
  /\ x.at \in Awaiting => k.unread = {x.next - 1}
  /\ x.at \in {"discover", "initialize"} => x.era = "none"
  /\ x.at \in {"ready", "listen", "call", "list"} => x.era # "none"

IdsInv(next, k) ==
  /\ next >= 1
  /\ \A i \in 1..Len(k.wrote) : k.wrote[i].id < next
  /\ \A i, j \in 1..Len(k.wrote) : k.wrote[i].id = k.wrote[j].id /\ k.wrote[i].id # 0 => i = j
  /\ \A id \in k.owed : id >= 1 /\ id < next
  /\ \A id \in k.owed : \E i \in 1..Len(k.wrote) : k.wrote[i].id = id
  /\ \A i \in 1..Len(k.frames) : k.frames[i].id < next

NumbersInv(x, k) ==
  /\ IdsInv(x.next, k)
  /\ x.at \in Awaiting =>
       /\ x.next >= 2 /\ Len(k.wrote) >= 1
       /\ k.wrote[Len(k.wrote)].kind = x.at /\ k.wrote[Len(k.wrote)].id = x.next - 1

(* What was written says how far the handshake has come.                   *)
EraInv(era, w) ==
  /\ era = "none" => \A i \in 1..Len(w) : ~IsOperation(w[i])
  /\ era = "modern" => /\ Len(w) >= 1 /\ w[1].kind = "discover"
                       /\ \A j \in 2..Len(w) : IsOperation(w[j]) /\ w[j].stamped
  /\ era = "legacy" => \E j \in 1..Len(w) :
                         /\ w[j].kind = "initialized"
                         /\ \A i \in 1..Len(w) : IsOperation(w[i]) => i > j
                         /\ \A i \in 1..Len(w) : i > j => IsOperation(w[i]) /\ ~w[i].stamped

ShapeInv(x, w) == (x.at = "discover" => Len(w) = 1 /\ w[1].kind = "discover") /\ EraInv(x.era, w)

(* The pages collected so far, and the cursor that was asked for.          *)
PagesInv(got, cursors, cursor, follows) ==
  /\ cursors = {follows[got[i]] : i \in 1..Len(got)}
  /\ Len(got) = 0 => cursor = 0
  /\ Len(got) > 0 => got[1] = 1 /\ cursor = follows[got[Len(got)]]
  /\ \A i \in 1..(Len(got) - 1) : got[i + 1] = follows[got[i]]
  /\ \A i \in 1..Len(got) : follows[got[i]] # 0
  /\ \A i, j \in 1..Len(got) : follows[got[i]] = follows[got[j]] => i = j

AskedPage(cursor) == IF cursor = 0 THEN 1 ELSE cursor
ListInv(x, k) ==
  /\ x.at # "list" => x.got = <<>> /\ x.cursors = {}
  /\ x.at = "list" =>
       LET cursor == k.wrote[Len(k.wrote)].cursor IN
       /\ PagesInv(x.got, x.cursors, cursor, k.follows)
       /\ \A i \in 1..Len(k.frames) : k.frames[i].id = x.next - 1 /\ k.frames[i].kind = "result"
            => k.frames[i].body = [page |-> AskedPage(cursor), next |-> k.follows[AskedPage(cursor)]]
  /\ x.listed # <<>> => IsChain(x.listed, k.follows)

ClientInv(x, k) == PlaceInv(x, k) /\ NumbersInv(x, k) /\ ShapeInv(x, k.wrote) /\ ListInv(x, k)

McpClientInv ==
  /\ sessions = [s \in Sessions |-> sessions[s]] /\ links = [s \in Sessions |-> links[s]]
  /\ \A s \in Sessions : /\ sessions[s] \in SessionRecord /\ links[s] \in LinkRecord
                         /\ ClientInv(sessions[s], links[s])

-----------------------------------------------------------------------------
(* Requests and what ends them.                                            *)

LEMMA ClientIs ==
  ASSUME McpClientInv, NEW s \in Sessions
  PROVE  /\ sessions[s] \in SessionRecord /\ links[s] \in LinkRecord /\ ClientInv(sessions[s], links[s])
BY DEF McpClientInv

LEMMA ClientMoves ==
  ASSUME McpClientInv, NEW s \in Sessions, NEW x \in SessionRecord, NEW k \in LinkRecord, ClientInv(x, k),
         sessions' = [sessions EXCEPT ![s] = x], links' = [links EXCEPT ![s] = k]
  PROVE  McpClientInv'
<1>1. \A r \in Sessions : sessions'[r] = (IF r = s THEN x ELSE sessions[r]) /\ links'[r] = (IF r = s THEN k ELSE links[r])
  BY DEF McpClientInv
<1>2. sessions' = [r \in Sessions |-> sessions'[r]] /\ links' = [r \in Sessions |-> links'[r]]
  BY DEF McpClientInv
<1>3. QED
  BY <1>1, <1>2 DEF McpClientInv

LEMMA SessionMoves ==
  ASSUME McpClientInv, NEW s \in Sessions, NEW x \in SessionRecord, ClientInv(x, links[s]),
         sessions' = [sessions EXCEPT ![s] = x], links' = links
  PROVE  McpClientInv'
<1>1. links' = [links EXCEPT ![s] = links[s]]
  BY DEF McpClientInv
<1>2. QED
  BY <1>1, ClientIs, ClientMoves

LEMMA LinkMoves ==
  ASSUME McpClientInv, NEW s \in Sessions, NEW k \in LinkRecord, ClientInv(sessions[s], k),
         sessions' = sessions, links' = [links EXCEPT ![s] = k]
  PROVE  McpClientInv'
<1>1. sessions' = [sessions EXCEPT ![s] = sessions[s]]
  BY DEF McpClientInv
<1>2. QED
  BY <1>1, ClientIs, ClientMoves

(* A frame is written.                                                     *)
LEMMA Wrote ==
  ASSUME NEW w \in Seq(WrittenFrame), NEW e \in WrittenFrame, NEW v, v = Append(w, e)
  PROVE  /\ v \in Seq(WrittenFrame) /\ Len(v) = Len(w) + 1 /\ Len(w) \in Nat /\ v[Len(v)] = e
         /\ \A i \in 1..Len(w) : v[i] = w[i]
         /\ \A i \in 1..Len(v) : i = Len(v) \/ i \in 1..Len(w)
OBVIOUS

LEMMA EraGoesOn ==
  ASSUME NEW w \in Seq(WrittenFrame), NEW e \in WrittenFrame, NEW era \in {"none", "legacy", "modern"}, EraInv(era, w),
         IF era = "none" THEN ~IsOperation(e) ELSE IsOperation(e) /\ (e.stamped <=> era = "modern")
  PROVE  EraInv(era, Append(w, e))
<1>1. PICK v : v = Append(w, e)
  OBVIOUS
<1>2. /\ v \in Seq(WrittenFrame) /\ Len(v) = Len(w) + 1 /\ Len(w) \in Nat /\ v[Len(v)] = e
      /\ \A i \in 1..Len(w) : v[i] = w[i]
      /\ \A i \in 1..Len(v) : i = Len(v) \/ i \in 1..Len(w)
  BY <1>1, Wrote
<1>3. CASE era = "none"
  BY <1>1, <1>2, <1>3 DEF EraInv
<1>4. CASE era = "modern"
  <2>1. Len(v) >= 1 /\ v[1] = w[1] /\ w[1].kind = "discover"
    BY <1>2, <1>4 DEF EraInv
  <2>2. ASSUME NEW j \in 2..Len(v) PROVE IsOperation(v[j]) /\ v[j].stamped
    <3>1. CASE j = Len(v)
      BY <1>2, <1>4, <3>1
    <3>2. CASE j # Len(v)
      <4>1. j \in 2..Len(w) /\ v[j] = w[j]
        BY <1>2, <3>2
      <4>2. QED
        BY <1>4, <4>1 DEF EraInv
    <3>3. QED
      BY <3>1, <3>2
  <2>3. QED
    BY <1>1, <1>4, <2>1, <2>2 DEF EraInv
<1>5. CASE era = "legacy"
  <2>1. PICK j \in 1..Len(w) :
          /\ w[j].kind = "initialized"
          /\ \A i \in 1..Len(w) : IsOperation(w[i]) => i > j
          /\ \A i \in 1..Len(w) : i > j => IsOperation(w[i]) /\ ~w[i].stamped
    BY <1>5 DEF EraInv
  <2>2. j \in 1..Len(v) /\ v[j].kind = "initialized" /\ Len(v) > j
    BY <1>2, <2>1
  <2>3. \A i \in 1..Len(v) : IsOperation(v[i]) => i > j
    BY <1>2, <2>1, <2>2
  <2>4. ~e.stamped /\ IsOperation(e)
    BY <1>5
  <2>5. \A i \in 1..Len(v) : i > j => IsOperation(v[i]) /\ ~v[i].stamped
    BY <1>2, <2>1, <2>4
  <2>6. QED
    BY <1>1, <1>5, <2>2, <2>3, <2>5 DEF EraInv
<1>6. QED
  BY <1>3, <1>4, <1>5

(* A request on a connection that owes nothing.                            *)
LEMMA RequestSafe ==
  ASSUME McpClientInv, NEW s \in Sessions, NEW x \in SessionRecord, NEW k \in LinkRecord,
         NEW kind \in Awaiting, NEW cursor \in 0..3, Request(s, x, k, kind, cursor),
         k.unread = {}, IdsInv(x.next, k), EraInv(x.era, k.wrote),
         kind \in {"discover", "initialize"} => x.era = "none",
         kind \in {"call", "list"} => x.era # "none",
         kind = "discover" => k.wrote = <<>>,
         kind # "list" => x.got = <<>> /\ x.cursors = {},
         kind = "list" => PagesInv(x.got, x.cursors, cursor, k.follows),
         x.listed # <<>> => IsChain(x.listed, k.follows)
  PROVE  McpClientInv'
<1>1. PICK y : y = Asked(x, kind)
  OBVIOUS
<1>2. /\ y \in SessionRecord /\ y.at = kind /\ y.reader = "taken" /\ y.next = x.next + 1 /\ y.era = x.era
      /\ y.got = x.got /\ y.cursors = x.cursors /\ y.listed = x.listed
  <2>1. PICK n : n = x.next + 1
    OBVIOUS
  <2>2. n \in Nat
    BY <2>1 DEF SessionRecord
  <2>3. y = [x EXCEPT !.at = kind, !.reader = "taken", !.next = n]
    BY <1>1, <2>1 DEF Asked, SessionRecord
  <2>4. QED
    BY <2>1, <2>2, <2>3 DEF SessionRecord
<1>3. PICK e : e = [kind |-> kind, id |-> x.next, cursor |-> cursor, stamped |-> StampedFrame(x, kind)]
  OBVIOUS
<1>4. x.next \in Nat /\ x.era \in {"none", "legacy", "modern"}
  BY DEF SessionRecord
<1>5. /\ e \in WrittenFrame /\ e.kind = kind /\ e.id = x.next /\ e.cursor = cursor
      /\ e.stamped = StampedFrame(x, kind)
  <2>1. StampedFrame(x, kind) \in BOOLEAN
    BY DEF StampedFrame
  <2>2. QED
    BY <1>3, <1>4, <2>1 DEF WrittenFrame
<1>6. PICK m : m = Sent(k, x, kind, cursor)
  OBVIOUS
<1>7. PICK o : o = IF k.up THEN k.owed \cup {x.next} ELSE k.owed
  OBVIOUS
<1>8. PICK w : w = Append(k.wrote, e)
  OBVIOUS
<1>9. m = [k EXCEPT !.owed = o, !.unread = k.unread \cup {x.next}, !.wrote = w]
  BY <1>3, <1>6, <1>7, <1>8 DEF Sent, LinkRecord
<1>10. /\ w \in Seq(WrittenFrame) /\ Len(w) = Len(k.wrote) + 1 /\ Len(k.wrote) \in Nat /\ w[Len(w)] = e
       /\ \A i \in 1..Len(k.wrote) : w[i] = k.wrote[i]
       /\ \A i \in 1..Len(w) : i = Len(w) \/ i \in 1..Len(k.wrote)
  <2>1. k.wrote \in Seq(WrittenFrame)
    BY DEF LinkRecord, WrittenFrames
  <2>2. QED
    BY <1>5, <1>8, <2>1, Wrote
<1>11. o \in SUBSET Nat /\ \A id \in o : id \in k.owed \/ id = x.next
  BY <1>4, <1>7 DEF LinkRecord
<1>12. /\ m \in LinkRecord /\ m.owed = o /\ m.unread = {x.next} /\ m.wrote = w /\ m.frames = k.frames
       /\ m.follows = k.follows /\ m.up = k.up
  <2>1. m = [k EXCEPT !.owed = o, !.unread = {x.next}, !.wrote = w]
    BY <1>9
  <2>2. {x.next} \in SUBSET Nat /\ w \in WrittenFrames
    BY <1>4, <1>10 DEF WrittenFrames
  <2>3. QED
    BY <1>11, <2>1, <2>2 DEF LinkRecord
<1>13. PlaceInv(y, m)
  BY <1>2, <1>4, <1>12 DEF PlaceInv, Awaiting
<1>14. NumbersInv(y, m)
  <2>1. \A i \in 1..Len(w) : w[i].id < x.next + 1
    <3>1. ASSUME NEW i \in 1..Len(w) PROVE w[i].id < x.next + 1
      <4>1. CASE i = Len(w)
        BY <1>4, <1>5, <1>10, <4>1
      <4>2. CASE i \in 1..Len(k.wrote)
        <5>1. w[i] = k.wrote[i] /\ k.wrote[i].id < x.next
          BY <1>10, <4>2 DEF IdsInv
        <5>2. w[i].id \in Nat
          <6>1. w[i] \in WrittenFrame
            BY <1>10
          <6>2. QED
            BY <6>1 DEF WrittenFrame
        <5>3. QED
          BY <1>4, <5>1, <5>2
      <4>3. QED
        BY <1>10, <4>1, <4>2
    <3>2. QED
      BY <3>1
  <2>2. \A i, j \in 1..Len(w) : w[i].id = w[j].id /\ w[i].id # 0 => i = j
    <3>1. \A i \in 1..Len(k.wrote) : w[i].id = k.wrote[i].id /\ w[i].id < x.next
      BY <1>10 DEF IdsInv
    <3>2. \A i, j \in 1..Len(k.wrote) : w[i].id = w[j].id /\ w[i].id # 0 => i = j
      BY <1>10 DEF IdsInv
    <3>3. w[Len(w)].id = x.next
      BY <1>5, <1>10
    <3>4. QED
      BY <1>4, <1>10, <3>1, <3>2, <3>3
  <2>3. \A id \in o : id >= 1 /\ id < x.next + 1
    BY <1>4, <1>11 DEF IdsInv
  <2>4. \A i \in 1..Len(k.frames) : k.frames[i].id < x.next + 1
    <3>1. ASSUME NEW i \in 1..Len(k.frames) PROVE k.frames[i].id \in Nat
      <4>1. k.frames \in Seq(ReadFrame)
        BY DEF LinkRecord, ReadFrames
      <4>2. k.frames[i] \in ReadFrame
        BY <4>1
      <4>3. QED
        BY <4>2 DEF ReadFrame
    <3>2. QED
      BY <1>4, <3>1 DEF IdsInv
  <2>5. x.next >= 1
    BY DEF IdsInv
  <2>6. \A id \in o : \E i \in 1..Len(w) : w[i].id = id
    <3>1. ASSUME NEW id \in o PROVE \E i \in 1..Len(w) : w[i].id = id
      <4>1. CASE id = x.next
        BY <1>5, <1>10, <4>1
      <4>2. CASE id \in k.owed
        <5>1. PICK i \in 1..Len(k.wrote) : k.wrote[i].id = id
          BY <4>2 DEF IdsInv
        <5>2. QED
          BY <1>10, <5>1
      <4>3. QED
        BY <1>11, <4>1, <4>2
    <3>2. QED
      BY <3>1
  <2>7. IdsInv(x.next + 1, m)
    BY <1>4, <1>12, <2>1, <2>2, <2>3, <2>4, <2>5, <2>6 DEF IdsInv
  <2>8. x.next + 1 >= 2 /\ Len(w) >= 1 /\ w[Len(w)].kind = kind /\ w[Len(w)].id = (x.next + 1) - 1
    BY <1>4, <1>5, <1>10, <2>5
  <2>9. QED
    BY <1>2, <1>12, <2>7, <2>8 DEF NumbersInv
<1>15. ShapeInv(y, m.wrote)
  <2>1. EraInv(x.era, w)
    <3>1. k.wrote \in Seq(WrittenFrame)
      BY DEF LinkRecord, WrittenFrames
    <3>2. IF x.era = "none" THEN ~IsOperation(e) ELSE IsOperation(e) /\ (e.stamped <=> x.era = "modern")
      BY <1>5 DEF IsOperation, Awaiting, StampedFrame
    <3>3. QED
      BY <1>4, <1>5, <1>8, <3>1, <3>2, EraGoesOn
  <2>2. kind = "discover" => Len(w) = 1 /\ w[1].kind = "discover"
    BY <1>5, <1>10
  <2>3. QED
    BY <1>2, <1>12, <2>1, <2>2 DEF ShapeInv
<1>16. ListInv(y, m)
  <2>1. \A i \in 1..Len(k.frames) : k.frames[i].id # y.next - 1
    BY <1>2, <1>4 DEF IdsInv
  <2>2. m.wrote[Len(m.wrote)].cursor = cursor
    BY <1>5, <1>10, <1>12
  <2>3. QED
    BY <1>2, <1>12, <2>1, <2>2 DEF ListInv
<1>17. QED
  <2>1. sessions' = [sessions EXCEPT ![s] = y] /\ links' = [links EXCEPT ![s] = m]
    BY <1>1, <1>6 DEF Request
  <2>2. ClientInv(y, m)
    BY <1>13, <1>14, <1>15, <1>16 DEF ClientInv
  <2>3. QED
    BY <1>2, <1>12, <2>1, <2>2, ClientMoves

(* The operation ends and the connection stays: it owes nothing.           *)
LEMMA SettleSafe ==
  ASSUME McpClientInv, NEW s \in Sessions, NEW x \in SessionRecord, NEW k \in LinkRecord, Settle(s, x, k),
         k.unread = {}, IdsInv(x.next, k), EraInv(x.era, k.wrote), x.era # "none",
         x.listed # <<>> => IsChain(x.listed, k.follows)
  PROVE  McpClientInv'
<1>1. PICK y : y = [x EXCEPT !.at = "ready", !.reader = "open", !.cursors = {}, !.got = <<>>]
  OBVIOUS
<1>2. /\ y \in SessionRecord /\ y.at = "ready" /\ y.reader = "open" /\ y.next = x.next /\ y.era = x.era
      /\ y.got = <<>> /\ y.cursors = {} /\ y.listed = x.listed
  <2>1. {} \in SUBSET Pages /\ <<>> \in PageLists
    BY DEF PageLists
  <2>2. QED
    BY <1>1, <2>1 DEF SessionRecord
<1>3. ClientInv(y, k)
  BY <1>2 DEF ClientInv, PlaceInv, NumbersInv, ShapeInv, ListInv, Awaiting
<1>4. sessions' = [sessions EXCEPT ![s] = y] /\ links' = [links EXCEPT ![s] = k]
  BY <1>1 DEF Settle
<1>5. QED
  BY <1>2, <1>3, <1>4, ClientMoves

(* The operation ends and its connection with it.                          *)
LEMMA RetireSafe ==
  ASSUME McpClientInv, NEW s \in Sessions, Retire(s)
  PROVE  McpClientInv'
<1> DEFINE x == sessions[s]
           k == links[s]
<1>1. x \in SessionRecord /\ k \in LinkRecord /\ ClientInv(x, k)
  BY ClientIs
<1>2. PICK y : y = RetiredReader(x)
  OBVIOUS
<1>3. /\ y \in SessionRecord /\ y.at = (IF x.era = "none" THEN "done" ELSE "ready") /\ y.reader = "none"
      /\ y.next = x.next /\ y.era = x.era /\ y.got = <<>> /\ y.cursors = {} /\ y.listed = x.listed
  <2>1. {} \in SUBSET Pages /\ <<>> \in PageLists
    BY DEF PageLists
  <2>2. PICK at : at = IF x.era = "none" THEN "done" ELSE "ready"
    OBVIOUS
  <2>3. y = [x EXCEPT !.at = at, !.reader = "none", !.cursors = {}, !.got = <<>>]
    BY <1>2, <2>2 DEF RetiredReader
  <2>4. at \in {"done", "ready"}
    BY <2>2
  <2>5. QED
    BY <1>1, <2>1, <2>2, <2>3, <2>4 DEF SessionRecord
<1>4. PICK m : m = [k EXCEPT !.up = FALSE, !.frames = <<>>, !.owed = {}]
  OBVIOUS
<1>5. /\ m \in LinkRecord /\ m.frames = <<>> /\ m.owed = {} /\ m.wrote = k.wrote /\ m.follows = k.follows
      /\ m.unread = k.unread
  <2>1. {} \in SUBSET Nat /\ <<>> \in ReadFrames /\ FALSE \in BOOLEAN
    BY DEF ReadFrames
  <2>2. QED
    BY <1>1, <1>4, <2>1 DEF LinkRecord
<1>6. ClientInv(y, m)
  <2>1. PlaceInv(y, m)
    BY <1>3 DEF PlaceInv, Awaiting
  <2>2. NumbersInv(y, m)
    BY <1>1, <1>3, <1>5 DEF ClientInv, NumbersInv, IdsInv, Awaiting
  <2>3. ShapeInv(y, m.wrote)
    BY <1>1, <1>3, <1>5 DEF ClientInv, ShapeInv
  <2>4. ListInv(y, m)
    BY <1>1, <1>3, <1>5 DEF ClientInv, ListInv
  <2>5. QED
    BY <2>1, <2>2, <2>3, <2>4 DEF ClientInv
<1>7. sessions' = [sessions EXCEPT ![s] = y] /\ links' = [links EXCEPT ![s] = m]
  <2>1. sessions' = [sessions EXCEPT ![s] = y]
    BY <1>2 DEF Retire
  <2>2. links' = [links EXCEPT ![s] = m]
    BY <1>4 DEF Retire, McpClientInv
  <2>3. QED
    BY <2>1, <2>2
<1>8. QED
  BY <1>3, <1>5, <1>6, <1>7, ClientMoves

-----------------------------------------------------------------------------
(* The operations of the client.                                           *)

LEMMA ConnectSafe ==
  ASSUME McpClientInv, NEW s \in Sessions, Connect(s)
  PROVE  McpClientInv'
<1> DEFINE x == sessions[s]
           k == links[s]
<1>1. x \in SessionRecord /\ k \in LinkRecord /\ ClientInv(x, k) /\ x.at = "idle"
  BY ClientIs DEF Connect
<1>2. PICK at, prefers : /\ sessions' = [sessions EXCEPT ![s] = [x EXCEPT !.at = at, !.prefers = prefers]]
                         /\ at \in {"dialing", "done"} /\ prefers \in {"auto", "legacy", "modern"}
  <2>1. CASE x.transport = "sse" /\ x.prefers = "modern"
    <3>1. sessions' = [sessions EXCEPT ![s] = [x EXCEPT !.at = "done"]]
      BY <2>1 DEF Connect
    <3>2. [x EXCEPT !.at = "done"] = [x EXCEPT !.at = "done", !.prefers = x.prefers]
      BY <1>1 DEF SessionRecord
    <3>3. QED
      BY <1>1, <3>1, <3>2 DEF SessionRecord
  <2>2. CASE x.transport = "sse" /\ x.prefers # "modern"
    <3>1. sessions' = [sessions EXCEPT ![s] = [x EXCEPT !.at = "dialing", !.prefers = "legacy"]]
      BY <2>2 DEF Connect
    <3>2. QED
      BY <3>1
  <2>3. CASE x.transport # "sse"
    <3>1. sessions' = [sessions EXCEPT ![s] = [x EXCEPT !.at = "dialing"]]
      BY <2>3 DEF Connect
    <3>2. [x EXCEPT !.at = "dialing"] = [x EXCEPT !.at = "dialing", !.prefers = x.prefers]
      BY <1>1 DEF SessionRecord
    <3>3. QED
      BY <1>1, <3>1, <3>2 DEF SessionRecord
  <2>4. QED
    BY <2>1, <2>2, <2>3
<1>3. PICK y : y = [x EXCEPT !.at = at, !.prefers = prefers]
  OBVIOUS
<1>4. /\ y \in SessionRecord /\ y.at = at /\ y.reader = x.reader /\ y.next = x.next /\ y.era = x.era
      /\ y.got = x.got /\ y.cursors = x.cursors /\ y.listed = x.listed
  BY <1>1, <1>2, <1>3 DEF SessionRecord
<1>5. ClientInv(y, k)
  <2>1. PlaceInv(y, k)
    BY <1>1, <1>2, <1>4 DEF ClientInv, PlaceInv, Awaiting
  <2>2. NumbersInv(y, k)
    BY <1>1, <1>2, <1>4 DEF ClientInv, NumbersInv, Awaiting
  <2>3. ShapeInv(y, k.wrote)
    BY <1>1, <1>2, <1>4 DEF ClientInv, ShapeInv
  <2>4. ListInv(y, k)
    BY <1>1, <1>2, <1>4 DEF ClientInv, ListInv
  <2>5. QED
    BY <2>1, <2>2, <2>3, <2>4 DEF ClientInv
<1>6. QED
  BY <1>2, <1>3, <1>4, <1>5, SessionMoves DEF Connect

LEMMA DialSafe ==
  ASSUME McpClientInv, NEW s \in Sessions, Dial(s)
  PROVE  McpClientInv'
<1> DEFINE x == sessions[s]
           k == links[s]
<1>1. x \in SessionRecord /\ k \in LinkRecord /\ ClientInv(x, k) /\ x.at = "dialing"
  BY ClientIs DEF Dial
<1>2. CASE Retire(s)
  BY <1>2, RetireSafe
<1>3. CASE Request(s, x, [k EXCEPT !.up = TRUE], Handshake(x), 0)
  <2>1. PICK m : m = [k EXCEPT !.up = TRUE]
    OBVIOUS
  <2>2. /\ m \in LinkRecord /\ m.frames = k.frames /\ m.owed = k.owed /\ m.wrote = k.wrote
        /\ m.follows = k.follows /\ m.unread = k.unread
    BY <1>1, <2>1 DEF LinkRecord
  <2>3. PICK kind : kind = Handshake(x)
    OBVIOUS
  <2>4. kind \in {"discover", "initialize"} /\ kind \in Awaiting
    BY <2>3 DEF Handshake, Awaiting
  <2>5. k.wrote = <<>> /\ k.unread = {} /\ x.era = "none" /\ x.got = <<>> /\ x.cursors = {}
    BY <1>1 DEF ClientInv, PlaceInv, ListInv
  <2>6. IdsInv(x.next, m)
    BY <1>1, <2>2 DEF ClientInv, NumbersInv, IdsInv
  <2>7. EraInv(x.era, m.wrote) /\ (x.listed # <<>> => IsChain(x.listed, m.follows))
    BY <1>1, <2>2 DEF ClientInv, ShapeInv, ListInv
  <2>8. Request(s, x, m, kind, 0) /\ 0 \in 0..3
    BY <1>3, <2>1, <2>3
  <2>9. kind # "list" /\ kind # "call"
    BY <2>4
  <2>10. m.wrote = <<>> /\ m.unread = {}
    BY <2>2, <2>5
  <2>11. QED
    BY <1>1, <2>2, <2>4, <2>5, <2>6, <2>7, <2>8, <2>9, <2>10, RequestSafe
<1>4. QED
  BY <1>2, <1>3 DEF Dial

LEMMA PerformSafe ==
  ASSUME McpClientInv, NEW s \in Sessions, Perform(s)
  PROVE  McpClientInv'
<1> DEFINE x == sessions[s]
           k == links[s]
<1>1. x \in SessionRecord /\ k \in LinkRecord /\ ClientInv(x, k) /\ x.at = "ready" /\ x.todo # <<>>
  BY ClientIs DEF Perform
<1>2. PICK rest : rest = Tail(x.todo)
  OBVIOUS
<1>3. rest \in Todos
  <2>1. x.todo \in Seq(ClientOperations)
    BY <1>1 DEF SessionRecord, Todos
  <2>2. QED
    BY <1>1, <1>2, <2>1 DEF Todos
<1>4. PICK y : y = [x EXCEPT !.todo = rest]
  OBVIOUS
<1>5. /\ y \in SessionRecord /\ y.at = "ready" /\ y.reader = x.reader /\ y.next = x.next /\ y.era = x.era
      /\ y.got = x.got /\ y.cursors = x.cursors /\ y.listed = x.listed
  BY <1>1, <1>3, <1>4 DEF SessionRecord
<1>6. [sessions[s] EXCEPT !.todo = Tail(@)] = y
  BY <1>2, <1>4
<1>7. /\ x.era # "none" /\ x.got = <<>> /\ x.cursors = {} /\ IdsInv(x.next, k) /\ EraInv(x.era, k.wrote)
      /\ (x.listed # <<>> => IsChain(x.listed, k.follows)) /\ (x.reader = "open" => k.unread = {})
  BY <1>1 DEF ClientInv, PlaceInv, NumbersInv, ShapeInv, ListInv
<1>8. ClientInv(y, k)
  <2>1. PlaceInv(y, k) /\ NumbersInv(y, k) /\ ShapeInv(y, k.wrote) /\ ListInv(y, k)
    BY <1>1, <1>5 DEF ClientInv, PlaceInv, NumbersInv, ShapeInv, ListInv, Awaiting
  <2>2. QED
    BY <2>1 DEF ClientInv
<1>9. CASE sessions' = [sessions EXCEPT ![s] = y] /\ UNCHANGED <<links, asides>>
  BY <1>5, <1>8, <1>9, SessionMoves
<1>10. ASSUME NEW operation, operation \in {"call", "list"}, y.reader = "open", Request(s, y, k, operation, 0)
       PROVE  McpClientInv'
  <2>1. operation \in Awaiting /\ 0 \in 0..3 /\ operation \notin {"discover", "initialize"}
    BY <1>10 DEF Awaiting
  <2>2. operation # "discover" /\ operation # "initialize"
    BY <2>1
  <2>3. k.unread = {} /\ y.era # "none" /\ y.got = <<>> /\ y.cursors = {} /\ IdsInv(y.next, k) /\ EraInv(y.era, k.wrote)
    BY <1>5, <1>7, <1>10
  <2>4. y.listed # <<>> => IsChain(y.listed, k.follows)
    BY <1>5, <1>7
  <2>5. PagesInv(y.got, y.cursors, 0, k.follows)
    BY <2>3 DEF PagesInv
  <2>6. QED
    BY <1>1, <1>5, <1>10, <2>1, <2>2, <2>3, <2>4, <2>5, RequestSafe
<1>11. CASE /\ y.reader = "open"
            /\ sessions' = [sessions EXCEPT ![s] = [y EXCEPT !.at = "listen", !.reader = "taken"]]
            /\ UNCHANGED <<links, asides>>
  <2>1. PICK z : z = [y EXCEPT !.at = "listen", !.reader = "taken"]
    OBVIOUS
  <2>2. /\ z \in SessionRecord /\ z.at = "listen" /\ z.reader = "taken" /\ z.next = x.next /\ z.era = x.era
        /\ z.got = x.got /\ z.cursors = x.cursors /\ z.listed = x.listed
    BY <1>5, <2>1 DEF SessionRecord
  <2>3. PlaceInv(z, k) /\ NumbersInv(z, k) /\ ShapeInv(z, k.wrote) /\ ListInv(z, k)
    BY <1>5, <1>7, <1>11, <2>2 DEF PlaceInv, NumbersInv, ShapeInv, ListInv, Awaiting
  <2>4. ClientInv(z, k)
    BY <2>3 DEF ClientInv
  <2>5. QED
    BY <1>11, <2>1, <2>2, <2>4, SessionMoves
<1>12. QED
  BY <1>6, <1>9, <1>10, <1>11 DEF Perform

-----------------------------------------------------------------------------
(* The frames of the pool.                                                 *)

LEMMA RestIs ==
  ASSUME NEW k \in LinkRecord, k.frames # <<>>
  PROVE  LET m == [k EXCEPT !.frames = Tail(@)] IN
         /\ m \in LinkRecord /\ m.wrote = k.wrote /\ m.owed = k.owed /\ m.unread = k.unread /\ m.follows = k.follows
         /\ m.up = k.up /\ k.frames[1] \in ReadFrame /\ Head(k.frames) = k.frames[1] /\ 1 \in 1..Len(k.frames)
         /\ \A i \in 1..Len(m.frames) : \E j \in 1..Len(k.frames) : m.frames[i] = k.frames[j]
<1> DEFINE m == [k EXCEPT !.frames = Tail(@)]
<1>1. k.frames \in Seq(ReadFrame)
  BY DEF LinkRecord, ReadFrames
<1>2. PICK f : f = Tail(k.frames)
  OBVIOUS
<1>3. f \in Seq(ReadFrame) /\ \A i \in 1..Len(f) : i + 1 \in 1..Len(k.frames) /\ f[i] = k.frames[i + 1]
  BY <1>1, <1>2
<1>4. m = [k EXCEPT !.frames = f]
  BY <1>2
<1>5. /\ m \in LinkRecord /\ m.frames = f /\ m.wrote = k.wrote /\ m.owed = k.owed /\ m.unread = k.unread
      /\ m.follows = k.follows /\ m.up = k.up
  BY <1>3, <1>4 DEF LinkRecord, ReadFrames
<1>6. k.frames[1] \in ReadFrame /\ Head(k.frames) = k.frames[1] /\ 1 \in 1..Len(k.frames)
  BY <1>1
<1>7. QED
  BY <1>3, <1>5, <1>6

LEMMA RestSafe ==
  ASSUME NEW x \in SessionRecord, NEW k \in LinkRecord, NEW m \in LinkRecord, ClientInv(x, k),
         m.wrote = k.wrote, m.unread = k.unread, m.follows = k.follows, m.owed \subseteq k.owed,
         \A i \in 1..Len(m.frames) : \E j \in 1..Len(k.frames) : m.frames[i] = k.frames[j]
  PROVE  ClientInv(x, m)
<1>1. PlaceInv(x, m) /\ ShapeInv(x, m.wrote)
  BY DEF ClientInv, PlaceInv
<1>2. NumbersInv(x, m)
  <2>1. \A i \in 1..Len(m.frames) : m.frames[i].id < x.next
    BY DEF ClientInv, NumbersInv, IdsInv
  <2>2. QED
    BY <2>1 DEF ClientInv, NumbersInv, IdsInv
<1>3. ListInv(x, m)
  <2>1. ASSUME x.at = "list"
        PROVE  LET cursor == m.wrote[Len(m.wrote)].cursor IN
               /\ PagesInv(x.got, x.cursors, cursor, m.follows)
               /\ \A i \in 1..Len(m.frames) : m.frames[i].id = x.next - 1 /\ m.frames[i].kind = "result"
                    => m.frames[i].body = [page |-> AskedPage(cursor), next |-> m.follows[AskedPage(cursor)]]
    BY <2>1 DEF ClientInv, ListInv
  <2>2. QED
    BY <2>1 DEF ClientInv, ListInv
<1>4. QED
  BY <1>1, <1>2, <1>3 DEF ClientInv

LEMMA DiscoveredSafe ==
  ASSUME McpClientInv, NEW s \in Sessions, NEW x, x = sessions[s], NEW k \in LinkRecord, NEW body,
         x.at = "discover", Discovered(s, x, k, body), k.unread = {}, IdsInv(x.next, k),
         k.wrote = links[s].wrote, k.follows = links[s].follows
  PROVE  McpClientInv'
<1>1. x \in SessionRecord /\ ClientInv(x, links[s])
  BY ClientIs
<1>2. /\ x.era = "none" /\ x.got = <<>> /\ x.cursors = {} /\ EraInv(x.era, k.wrote)
      /\ Len(k.wrote) = 1 /\ k.wrote[1].kind = "discover"
      /\ (x.listed # <<>> => IsChain(x.listed, k.follows))
  BY <1>1 DEF ClientInv, PlaceInv, ShapeInv, ListInv
<1>3. CASE Settle(s, [x EXCEPT !.era = "modern"], k)
  <2>1. PICK y : y = [x EXCEPT !.era = "modern"]
    OBVIOUS
  <2>2. y \in SessionRecord /\ y.next = x.next /\ y.era = "modern" /\ y.listed = x.listed
    BY <1>1, <2>1 DEF SessionRecord
  <2>3. EraInv("modern", k.wrote)
    BY <1>2 DEF EraInv
  <2>4. Settle(s, y, k) /\ y.era # "none" /\ EraInv(y.era, k.wrote) /\ IdsInv(y.next, k)
    BY <1>3, <2>1, <2>2, <2>3
  <2>5. y.listed # <<>> => IsChain(y.listed, k.follows)
    BY <1>2, <2>2
  <2>6. QED
    BY <2>2, <2>4, <2>5, SettleSafe
<1>4. CASE Request(s, x, k, "initialize", 0)
  <2>1. PICK kind : kind = "initialize"
    OBVIOUS
  <2>2. kind \in Awaiting /\ 0 \in 0..3 /\ kind # "discover" /\ kind # "list" /\ kind # "call" /\ Request(s, x, k, kind, 0)
    BY <1>4, <2>1 DEF Awaiting
  <2>3. QED
    BY <1>1, <1>2, <2>2, RequestSafe
<1>5. CASE Retire(s)
  BY <1>5, RetireSafe
<1>6. QED
  BY <1>3, <1>4, <1>5 DEF Discovered, OffersModern, RulesOutModern

LEMMA InitializedSafe ==
  ASSUME McpClientInv, NEW s \in Sessions, NEW x, x = sessions[s], NEW k \in LinkRecord,
         x.at = "initialize", Initialized(s, x, k), k.unread = {}, IdsInv(x.next, k),
         k.wrote = links[s].wrote, k.follows = links[s].follows
  PROVE  McpClientInv'
<1>1. x \in SessionRecord /\ ClientInv(x, links[s])
  BY ClientIs
<1>2. x.era = "none" /\ EraInv(x.era, k.wrote) /\ (x.listed # <<>> => IsChain(x.listed, k.follows))
  BY <1>1 DEF ClientInv, PlaceInv, ShapeInv, ListInv
<1>3. PICK e : e = [kind |-> "initialized", id |-> 0, cursor |-> 0, stamped |-> FALSE]
  OBVIOUS
<1>4. e \in WrittenFrame /\ e.kind = "initialized" /\ e.id = 0
  BY <1>3 DEF WrittenFrame
<1>5. CASE Settle(s, [x EXCEPT !.era = "legacy"], [k EXCEPT !.wrote = Append(@, e)])
  <2>1. PICK y : y = [x EXCEPT !.era = "legacy"]
    OBVIOUS
  <2>2. y \in SessionRecord /\ y.next = x.next /\ y.era = "legacy" /\ y.listed = x.listed
    BY <1>1, <2>1 DEF SessionRecord
  <2>3. PICK w : w = Append(k.wrote, e)
    OBVIOUS
  <2>4. /\ w \in Seq(WrittenFrame) /\ Len(w) = Len(k.wrote) + 1 /\ Len(k.wrote) \in Nat /\ w[Len(w)] = e
        /\ \A i \in 1..Len(k.wrote) : w[i] = k.wrote[i]
        /\ \A i \in 1..Len(w) : i = Len(w) \/ i \in 1..Len(k.wrote)
    <3>1. k.wrote \in Seq(WrittenFrame)
      BY DEF LinkRecord, WrittenFrames
    <3>2. QED
      BY <1>4, <2>3, <3>1, Wrote
  <2>5. PICK m : m = [k EXCEPT !.wrote = w]
    OBVIOUS
  <2>6. /\ m \in LinkRecord /\ m.wrote = w /\ m.unread = {} /\ m.owed = k.owed /\ m.frames = k.frames
        /\ m.follows = k.follows
    BY <2>4, <2>5 DEF LinkRecord, WrittenFrames
  <2>7. EraInv("legacy", w)
    <3>1. \A i \in 1..Len(w) : ~IsOperation(w[i])
      BY <1>2, <1>4, <2>4 DEF EraInv, IsOperation
    <3>2. Len(w) \in 1..Len(w) /\ w[Len(w)].kind = "initialized" /\ \A i \in 1..Len(w) : ~(i > Len(w))
      BY <1>4, <2>4
    <3>3. QED
      BY <3>1, <3>2 DEF EraInv
  <2>8. IdsInv(y.next, m)
    <3>1. x.next \in Nat /\ x.next >= 1
      BY <1>1 DEF SessionRecord, IdsInv
    <3>2. \A i \in 1..Len(w) : w[i].id < x.next
      BY <1>4, <2>4, <3>1 DEF IdsInv
    <3>3. \A i, j \in 1..Len(w) : w[i].id = w[j].id /\ w[i].id # 0 => i = j
      <4>1. \A i, j \in 1..Len(k.wrote) : w[i].id = w[j].id /\ w[i].id # 0 => i = j
        BY <2>4 DEF IdsInv
      <4>2. w[Len(w)].id = 0
        BY <1>4, <2>4
      <4>3. QED
        BY <2>4, <4>1, <4>2
    <3>4. \A id \in k.owed : \E i \in 1..Len(w) : w[i].id = id
      <4>1. ASSUME NEW id \in k.owed PROVE \E i \in 1..Len(w) : w[i].id = id
        <5>1. PICK i \in 1..Len(k.wrote) : k.wrote[i].id = id
          BY DEF IdsInv
        <5>2. QED
          BY <2>4, <5>1
      <4>2. QED
        BY <4>1
    <3>5. QED
      BY <2>2, <2>6, <3>1, <3>2, <3>3, <3>4 DEF IdsInv
  <2>9. Settle(s, y, m)
    BY <1>5, <2>1, <2>3, <2>5
  <2>10. y.listed # <<>> => IsChain(y.listed, m.follows)
    BY <1>2, <2>2, <2>6
  <2>11. EraInv(y.era, m.wrote) /\ y.era # "none"
    BY <2>2, <2>6, <2>7
  <2>12. QED
    BY <2>2, <2>6, <2>8, <2>9, <2>10, <2>11, SettleSafe
<1>6. CASE Retire(s)
  BY <1>6, RetireSafe
<1>7. QED
  BY <1>3, <1>5, <1>6 DEF Initialized

(* A page continues the chain: it is the one that was asked for.           *)
ChainOf(got, more, page, follows) ==
  /\ Len(more) = Len(got) + 1 /\ Len(got) \in Nat /\ more[1] = 1 /\ more[Len(more)] = page /\ page \in Pages
  /\ \A i \in 1..Len(got) : more[i] = got[i]
  /\ \A i \in 1..(Len(more) - 1) : more[i + 1] = follows[more[i]]
  /\ \A i \in 1..Len(more) : i = Len(more) \/ i \in 1..Len(got)

LEMMA ChainGrows ==
  ASSUME NEW got \in Seq(Pages), NEW cursors \in SUBSET Pages, NEW cursor \in 0..3,
         NEW follows \in [Pages -> 0..3], PagesInv(got, cursors, cursor, follows),
         NEW more \in Seq(Pages), more = Append(got, AskedPage(cursor))
  PROVE  ChainOf(got, more, AskedPage(cursor), follows)
<1>1. PICK page : page = AskedPage(cursor)
  OBVIOUS
<1>2. page \in Pages
  BY <1>1 DEF AskedPage, Pages
<1>3. /\ more \in Seq(Pages) /\ Len(more) = Len(got) + 1 /\ Len(got) \in Nat /\ more[Len(more)] = page
      /\ \A i \in 1..Len(got) : more[i] = got[i]
      /\ \A i \in 1..Len(more) : i = Len(more) \/ i \in 1..Len(got)
  BY <1>1, <1>2
<1>4. more[1] = 1
  <2>1. CASE Len(got) = 0
    BY <1>1, <1>3, <2>1 DEF PagesInv, AskedPage
  <2>2. CASE Len(got) > 0
    BY <1>3, <2>2 DEF PagesInv
  <2>3. QED
    BY <1>3, <2>1, <2>2
<1>5. ASSUME NEW i \in 1..(Len(more) - 1) PROVE more[i + 1] = follows[more[i]]
  <2>1. CASE i = Len(got)
    <3>1. cursor = follows[got[Len(got)]] /\ cursor # 0
      BY <1>3, <2>1 DEF PagesInv
    <3>2. QED
      BY <1>1, <1>3, <2>1, <3>1 DEF AskedPage
  <2>2. CASE i # Len(got)
    <3>1. i \in 1..(Len(got) - 1) /\ i + 1 \in 1..Len(got)
      BY <1>3, <2>2
    <3>2. QED
      BY <1>3, <3>1 DEF PagesInv
  <2>3. QED
    BY <2>1, <2>2
<1>6. QED
  BY <1>1, <1>2, <1>3, <1>4, <1>5 DEF ChainOf

(* Its cursor continues the cursors: none of them comes twice.             *)
LEMMA PagesGrow ==
  ASSUME NEW got \in Seq(Pages), NEW cursors \in SUBSET Pages, NEW cursor \in 0..3,
         NEW follows \in [Pages -> 0..3], PagesInv(got, cursors, cursor, follows),
         NEW more \in Seq(Pages), NEW page, ChainOf(got, more, page, follows),
         NEW next, next = follows[page], next # 0, next \notin cursors
  PROVE  PagesInv(more, cursors \cup {next}, next, follows)
<1>1. /\ Len(more) = Len(got) + 1 /\ Len(got) \in Nat /\ more[1] = 1 /\ more[Len(more)] = page
      /\ \A i \in 1..Len(got) : more[i] = got[i]
      /\ \A i \in 1..(Len(more) - 1) : more[i + 1] = follows[more[i]]
      /\ \A i \in 1..Len(more) : i = Len(more) \/ i \in 1..Len(got)
  BY DEF ChainOf
<1>2. /\ cursors = {follows[got[i]] : i \in 1..Len(got)} /\ \A i \in 1..Len(got) : follows[got[i]] # 0
      /\ \A i, j \in 1..Len(got) : follows[got[i]] = follows[got[j]] => i = j
  BY DEF PagesInv
<1>3. PICK named : named = cursors \cup {next}
  OBVIOUS
<1>4. next = follows[more[Len(more)]] /\ Len(more) \in 1..Len(more) /\ Len(more) > 0
  BY <1>1
<1>5. \A i \in 1..Len(got) : /\ i \in 1..Len(more) /\ more[i] = got[i] /\ follows[more[i]] # 0
                             /\ follows[more[i]] \in cursors
  BY <1>1, <1>2
<1>6. named = {follows[more[i]] : i \in 1..Len(more)}
  <2>1. ASSUME NEW c \in named PROVE \E i \in 1..Len(more) : c = follows[more[i]]
    <3>1. CASE c = next
      BY <1>4, <3>1
    <3>2. CASE c \in cursors
      <4>1. PICK i \in 1..Len(got) : c = follows[got[i]]
        BY <1>2, <3>2
      <4>2. QED
        BY <1>5, <4>1
    <3>3. QED
      BY <1>3, <2>1, <3>1, <3>2
  <2>2. ASSUME NEW i \in 1..Len(more) PROVE follows[more[i]] \in named
    BY <1>1, <1>3, <1>4, <1>5
  <2>3. QED
    BY <2>1, <2>2
<1>7. \A i \in 1..Len(more) : follows[more[i]] # 0
  BY <1>1, <1>4, <1>5
<1>8. \A i, j \in 1..Len(more) : follows[more[i]] = follows[more[j]] => i = j
  <2>1. SUFFICES ASSUME NEW i \in 1..Len(more), NEW j \in 1..Len(more), follows[more[i]] = follows[more[j]]
                 PROVE  i = j
    OBVIOUS
  <2>2. CASE i \in 1..Len(got) /\ j \in 1..Len(got)
    BY <1>1, <1>2, <2>1, <2>2
  <2>3. CASE i = Len(more) /\ j \in 1..Len(got)
    BY <1>4, <1>5, <2>1, <2>3
  <2>4. CASE i \in 1..Len(got) /\ j = Len(more)
    BY <1>4, <1>5, <2>1, <2>4
  <2>5. QED
    BY <1>1, <2>2, <2>3, <2>4
<1>9. QED
  BY <1>1, <1>3, <1>4, <1>6, <1>7, <1>8 DEF PagesInv

LEMMA AskedIsPage ==
  ASSUME NEW cursor \in 0..3
  PROVE  AskedPage(cursor) \in Pages /\ 0 \notin Pages
  BY DEF AskedPage, Pages

LEMMA LastWritten ==
  ASSUME NEW w \in Seq(WrittenFrame), Len(w) >= 1
  PROVE  w[Len(w)].cursor \in 0..3
<1>1. w[Len(w)] \in WrittenFrame
  OBVIOUS
<1>2. QED
  BY <1>1 DEF WrittenFrame

LEMMA NextIsPage ==
  ASSUME NEW next \in 0..3, next # 0
  PROVE  next \in Pages
  BY DEF Pages

LEMMA PageAppended ==
  ASSUME NEW got \in Seq(Pages), NEW page \in Pages
  PROVE  Append(got, page) \in Seq(Pages)
  OBVIOUS

LEMMA PagedSafe ==
  ASSUME McpClientInv, NEW s \in Sessions, NEW x, x = sessions[s], NEW k \in LinkRecord, NEW body,
         x.at = "list", Paged(s, x, k, body), k.unread = {}, IdsInv(x.next, k),
         k.wrote = links[s].wrote, k.follows = links[s].follows,
         LET cursor == k.wrote[Len(k.wrote)].cursor IN
         body = [page |-> AskedPage(cursor), next |-> k.follows[AskedPage(cursor)]]
  PROVE  McpClientInv'
<1>1. x \in SessionRecord /\ ClientInv(x, links[s])
  BY ClientIs
<1>2. PICK cursor : cursor = k.wrote[Len(k.wrote)].cursor
  OBVIOUS
<1>3. cursor \in 0..3 /\ k.follows \in [Pages -> 0..3]
  <2>1. k.wrote \in Seq(WrittenFrame) /\ Len(k.wrote) >= 1
    BY <1>1 DEF LinkRecord, WrittenFrames, ClientInv, NumbersInv, Awaiting
  <2>2. k.follows \in [Pages -> 0..3]
    BY DEF LinkRecord
  <2>3. QED
    BY <1>2, <2>1, <2>2, LastWritten
<1>4. /\ PagesInv(x.got, x.cursors, cursor, k.follows) /\ x.era # "none" /\ EraInv(x.era, k.wrote)
      /\ (x.listed # <<>> => IsChain(x.listed, k.follows))
  BY <1>1, <1>2 DEF ClientInv, PlaceInv, ShapeInv, ListInv
<1>5. PICK page : page = AskedPage(cursor)
  OBVIOUS
<1>6. body.page = page /\ body.next = k.follows[page]
  BY <1>2, <1>5
<1>7. x.got \in Seq(Pages) /\ x.cursors \in SUBSET Pages
  BY <1>1 DEF SessionRecord, PageLists
<1>8. PICK more : more = Append(x.got, page)
  OBVIOUS
<1>9. more \in Seq(Pages) /\ page \in Pages /\ ChainOf(x.got, more, page, k.follows)
  <2>1. page \in Pages
    BY <1>3, <1>5, AskedIsPage
  <2>2. more \in Seq(Pages)
    BY <1>7, <1>8, <2>1, PageAppended
  <2>3. QED
    BY <1>3, <1>4, <1>5, <1>7, <1>8, <2>1, <2>2, ChainGrows
<1>10. PICK next : next = k.follows[page]
  OBVIOUS
<1>11. next \in 0..3
  BY <1>3, <1>9, <1>10
<1>12. ASSUME next = 0, Settle(s, [x EXCEPT !.listed = more], k)
       PROVE  McpClientInv'
  <2>1. PICK y : y = [x EXCEPT !.listed = more]
    OBVIOUS
  <2>2. y \in SessionRecord /\ y.next = x.next /\ y.era = x.era /\ y.listed = more
    BY <1>1, <1>9, <2>1 DEF SessionRecord, PageLists
  <2>3. IsChain(more, k.follows)
    BY <1>9, <1>10, <1>12 DEF IsChain, ChainOf
  <2>4. Settle(s, y, k) /\ y.era # "none" /\ EraInv(y.era, k.wrote) /\ IdsInv(y.next, k)
    BY <1>4, <1>12, <2>1, <2>2
  <2>5. y.listed # <<>> => IsChain(y.listed, k.follows)
    BY <2>2, <2>3
  <2>6. QED
    BY <2>2, <2>4, <2>5, SettleSafe
<1>13. CASE Settle(s, x, k)
  BY <1>1, <1>4, <1>13, SettleSafe
<1>14. ASSUME next # 0, next \notin x.cursors,
              Request(s, [x EXCEPT !.got = more, !.cursors = @ \cup {next}], k, "list", next)
       PROVE  McpClientInv'
  <2>1. PICK named : named = x.cursors \cup {next}
    OBVIOUS
  <2>0. next \in Pages
    <3>1. next # 0
      BY <1>14
    <3>2. QED
      BY <1>11, <3>1, NextIsPage
  <2>2. named \in SUBSET Pages
    BY <1>7, <2>0, <2>1
  <2>3. PICK y : y = [x EXCEPT !.got = more, !.cursors = named]
    OBVIOUS
  <2>4. /\ y \in SessionRecord /\ y.next = x.next /\ y.era = x.era /\ y.listed = x.listed
        /\ y.got = more /\ y.cursors = named
    BY <1>1, <1>9, <2>2, <2>3 DEF SessionRecord, PageLists
  <2>5. PagesInv(more, named, next, k.follows)
    BY <1>3, <1>4, <1>7, <1>9, <1>10, <1>11, <1>14, <2>1, PagesGrow
  <2>6. PICK kind : kind = "list"
    OBVIOUS
  <2>7. kind \in Awaiting /\ kind # "discover" /\ kind # "initialize" /\ Request(s, y, k, kind, next)
    BY <1>14, <2>1, <2>3, <2>6 DEF Awaiting
  <2>8. y.era # "none" /\ EraInv(y.era, k.wrote) /\ IdsInv(y.next, k)
    BY <1>4, <2>4
  <2>9. PagesInv(y.got, y.cursors, next, k.follows) /\ (y.listed # <<>> => IsChain(y.listed, k.follows))
    BY <1>4, <2>4, <2>5
  <2>10. QED
    BY <1>11, <2>4, <2>6, <2>7, <2>8, <2>9, RequestSafe
<1>15. 0 \notin x.cursors
  BY <1>3, <1>7, AskedIsPage
<1>16. QED
  BY <1>6, <1>8, <1>10, <1>12, <1>13, <1>14, <1>15 DEF Paged

LEMMA ReceiveSafe ==
  ASSUME McpClientInv, NEW s \in Sessions, Receive(s)
  PROVE  McpClientInv'
<1> DEFINE x == sessions[s]
           k == links[s]
           frame == k.frames[1]
<1>1. x \in SessionRecord /\ k \in LinkRecord /\ ClientInv(x, k) /\ x.reader = "taken" /\ k.frames # <<>>
  BY ClientIs DEF Receive
<1>2. PICK m : m = [k EXCEPT !.frames = Tail(@)]
  OBVIOUS
<1>3. /\ m \in LinkRecord /\ m.wrote = k.wrote /\ m.owed = k.owed /\ m.unread = k.unread /\ m.follows = k.follows
      /\ m.up = k.up /\ frame \in ReadFrame /\ Head(k.frames) = frame /\ 1 \in 1..Len(k.frames)
      /\ \A i \in 1..Len(m.frames) : \E j \in 1..Len(k.frames) : m.frames[i] = k.frames[j]
  BY <1>1, <1>2, RestIs
<1>4. ClientInv(x, m)
  BY <1>1, <1>3, RestSafe
<1>5. CASE links' = [links EXCEPT ![s] = m] /\ UNCHANGED <<sessions, asides>>
  BY <1>3, <1>4, <1>5, LinkMoves
<1>6. CASE x.at = "listen" /\ Settle(s, x, m)
  <2>1. /\ m.unread = {} /\ IdsInv(x.next, m) /\ EraInv(x.era, m.wrote) /\ x.era # "none"
        /\ (x.listed # <<>> => IsChain(x.listed, m.follows))
    BY <1>4, <1>6 DEF ClientInv, PlaceInv, NumbersInv, ShapeInv, ListInv
  <2>2. QED
    BY <1>1, <1>3, <1>6, <2>1, SettleSafe
<1>7. CASE Retire(s)
  BY <1>7, RetireSafe
<1>8. ASSUME AnswersFrame(frame), x.at # "listen", frame.id = x.next - 1,
             Answered(s, x, [m EXCEPT !.unread = @ \ {frame.id}], frame)
      PROVE  McpClientInv'
  <2>1. PICK l : l = [m EXCEPT !.unread = m.unread \ {frame.id}]
    OBVIOUS
  <2>2. x.at \in Awaiting /\ m.unread = {frame.id}
    BY <1>1, <1>3, <1>8 DEF ClientInv, PlaceInv
  <2>3. /\ l \in LinkRecord /\ l.unread = {} /\ l.wrote = k.wrote /\ l.follows = k.follows /\ l.owed = m.owed
        /\ l.frames = m.frames
    <3>1. m.unread \ {frame.id} = {} /\ {} \in SUBSET Nat
      BY <2>2
    <3>2. QED
      BY <1>3, <2>1, <3>1 DEF LinkRecord
  <2>4. IdsInv(x.next, l)
    BY <1>3, <1>4, <2>3 DEF ClientInv, NumbersInv, IdsInv
  <2>5. EraInv(x.era, l.wrote) /\ (x.listed # <<>> => IsChain(x.listed, l.follows))
    BY <1>1, <2>3 DEF ClientInv, ShapeInv, ListInv
  <2>6. Answered(s, x, l, frame)
    BY <1>8, <2>1
  <2>7. CASE x.at = "discover"
    <3>1. Discovered(s, x, l, frame.body)
      BY <2>6, <2>7 DEF Answered
    <3>2. QED
      BY <2>3, <2>4, <2>7, <3>1, DiscoveredSafe
  <2>8. CASE x.at = "initialize"
    <3>1. Initialized(s, x, l) \/ Retire(s)
      BY <2>6, <2>8 DEF Answered
    <3>2. QED
      BY <2>3, <2>4, <2>8, <3>1, InitializedSafe, RetireSafe
  <2>9. CASE x.at = "list" /\ frame.kind = "result"
    <3>1. Paged(s, x, l, frame.body)
      BY <2>6, <2>9 DEF Answered
    <3>2. LET cursor == l.wrote[Len(l.wrote)].cursor IN
          frame.body = [page |-> AskedPage(cursor), next |-> l.follows[AskedPage(cursor)]]
      BY <1>1, <1>3, <1>8, <2>3, <2>9 DEF ClientInv, ListInv
    <3>3. QED
      BY <2>3, <2>4, <2>9, <3>1, <3>2, PagedSafe
  <2>10. CASE x.at = "call" \/ (x.at = "list" /\ frame.kind # "result")
    <3>1. Settle(s, x, l)
      BY <2>6, <2>10 DEF Answered
    <3>2. x.era # "none"
      BY <1>1, <2>10 DEF ClientInv, PlaceInv
    <3>3. QED
      BY <1>1, <2>3, <2>4, <2>5, <3>1, <3>2, SettleSafe
  <2>11. QED
    BY <2>2, <2>7, <2>8, <2>9, <2>10 DEF Awaiting
<1>9. QED
  <2>1. \/ links' = [links EXCEPT ![s] = m] /\ UNCHANGED <<sessions, asides>>
        \/ x.at = "listen" /\ Settle(s, x, m)
        \/ Retire(s)
        \/ /\ AnswersFrame(frame) /\ x.at # "listen" /\ frame.id = x.next - 1
           /\ Answered(s, x, [m EXCEPT !.unread = @ \ {frame.id}], frame)
    BY <1>2, <1>3 DEF Receive
  <2>2. QED
    BY <1>5, <1>6, <1>7, <1>8, <2>1

-----------------------------------------------------------------------------
(* The steps of the pool.                                                  *)

LEMMA GotFrame ==
  ASSUME NEW f \in Seq(ReadFrame), NEW e \in ReadFrame, NEW v, v = Append(f, e)
  PROVE  v \in Seq(ReadFrame) /\ \A i \in 1..Len(v) : v[i] = e \/ (i \in 1..Len(f) /\ v[i] = f[i])
OBVIOUS

\* A frame of the pool is of an id the client has used, and answers a list with
\* the page that was asked for.
LEMMA FrameSafe ==
  ASSUME McpClientInv, NEW s \in Sessions, NEW e \in ReadFrame, NEW owed, owed \subseteq links[s].owed,
         e.id < sessions[s].next,
         sessions[s].at = "list" /\ e.id = sessions[s].next - 1 /\ e.kind = "result" =>
           LET cursor == links[s].wrote[Len(links[s].wrote)].cursor IN
           e.body = [page |-> AskedPage(cursor), next |-> links[s].follows[AskedPage(cursor)]],
         sessions' = sessions,
         links' = [links EXCEPT ![s] = [links[s] EXCEPT !.owed = owed, !.frames = Append(links[s].frames, e)]]
  PROVE  McpClientInv'
<1> DEFINE x == sessions[s]
           k == links[s]
<1>1. x \in SessionRecord /\ k \in LinkRecord /\ ClientInv(x, k)
  BY ClientIs
<1>2. PICK v : v = Append(k.frames, e)
  OBVIOUS
<1>3. v \in Seq(ReadFrame) /\ \A i \in 1..Len(v) : v[i] = e \/ (i \in 1..Len(k.frames) /\ v[i] = k.frames[i])
  <2>1. k.frames \in Seq(ReadFrame)
    BY <1>1 DEF LinkRecord, ReadFrames
  <2>2. QED
    BY <1>2, <2>1, GotFrame
<1>4. PICK m : m = [k EXCEPT !.owed = owed, !.frames = v]
  OBVIOUS
<1>5. /\ m \in LinkRecord /\ m.wrote = k.wrote /\ m.owed = owed /\ m.unread = k.unread /\ m.follows = k.follows
      /\ m.up = k.up /\ m.frames = v
  <2>1. owed \in SUBSET Nat
    BY <1>1 DEF LinkRecord
  <2>2. QED
    BY <1>1, <1>3, <1>4, <2>1 DEF LinkRecord, ReadFrames
<1>6. PlaceInv(x, m) /\ ShapeInv(x, m.wrote)
  BY <1>1, <1>5 DEF ClientInv, PlaceInv
<1>7. NumbersInv(x, m)
  <2>1. \A i \in 1..Len(v) : v[i].id < x.next
    BY <1>1, <1>3 DEF ClientInv, NumbersInv, IdsInv
  <2>2. IdsInv(x.next, m)
    <3>1. IdsInv(x.next, k)
      BY <1>1 DEF ClientInv, NumbersInv
    <3>2. QED
      BY <1>5, <2>1, <3>1 DEF IdsInv
  <2>3. QED
    BY <1>1, <1>5, <2>2 DEF ClientInv, NumbersInv
<1>8. ListInv(x, m)
  <2>1. ASSUME x.at = "list"
        PROVE  LET cursor == m.wrote[Len(m.wrote)].cursor IN
               /\ PagesInv(x.got, x.cursors, cursor, m.follows)
               /\ \A i \in 1..Len(m.frames) : m.frames[i].id = x.next - 1 /\ m.frames[i].kind = "result"
                    => m.frames[i].body = [page |-> AskedPage(cursor), next |-> m.follows[AskedPage(cursor)]]
    <3>1. PICK cursor : cursor = k.wrote[Len(k.wrote)].cursor
      OBVIOUS
    <3>2. PICK body : body = [page |-> AskedPage(cursor), next |-> k.follows[AskedPage(cursor)]]
      OBVIOUS
    <3>3. /\ PagesInv(x.got, x.cursors, cursor, k.follows)
          /\ \A i \in 1..Len(k.frames) :
               k.frames[i].id = x.next - 1 /\ k.frames[i].kind = "result" => k.frames[i].body = body
      BY <1>1, <2>1, <3>1, <3>2 DEF ClientInv, ListInv
    <3>4. e.id = x.next - 1 /\ e.kind = "result" => e.body = body
      BY <2>1, <3>1, <3>2
    <3>5. \A i \in 1..Len(v) : v[i].id = x.next - 1 /\ v[i].kind = "result" => v[i].body = body
      BY <1>3, <3>3, <3>4
    <3>6. QED
      BY <1>5, <3>1, <3>2, <3>3, <3>5
  <2>2. QED
    BY <1>1, <1>5, <2>1 DEF ClientInv, ListInv
<1>9. ClientInv(x, m)
  BY <1>6, <1>7, <1>8 DEF ClientInv
<1>10. QED
  BY <1>2, <1>4, <1>5, <1>9, LinkMoves

LEMMA WrittenIs ==
  ASSUME McpClientInv, NEW s \in Sessions, NEW id \in links[s].owed
  PROVE  /\ Written(s, id) \in WrittenFrame
         /\ sessions[s].at \in Awaiting /\ id = sessions[s].next - 1 =>
              Written(s, id) = links[s].wrote[Len(links[s].wrote)]
<1> DEFINE x == sessions[s]
           k == links[s]
<1>1. x \in SessionRecord /\ k \in LinkRecord /\ ClientInv(x, k)
  BY ClientIs
<1>2. k.wrote \in Seq(WrittenFrame) /\ DOMAIN k.wrote = 1..Len(k.wrote) /\ Len(k.wrote) \in Nat
  BY <1>1 DEF LinkRecord, WrittenFrames
<1>3. \E i \in DOMAIN k.wrote : k.wrote[i].id = id
  BY <1>1, <1>2 DEF ClientInv, NumbersInv, IdsInv
<1>4. PICK i : i = CHOOSE j \in DOMAIN k.wrote : k.wrote[j].id = id
  OBVIOUS
<1>5. i \in DOMAIN k.wrote /\ k.wrote[i].id = id /\ Written(s, id) = k.wrote[i]
  BY <1>3, <1>4 DEF Written
<1>6. Written(s, id) \in WrittenFrame
  BY <1>2, <1>5
<1>7. ASSUME x.at \in Awaiting, id = x.next - 1 PROVE i = Len(k.wrote)
  <2>1. /\ x.next >= 2 /\ Len(k.wrote) >= 1 /\ k.wrote[Len(k.wrote)].id = x.next - 1
        /\ \A a, b \in 1..Len(k.wrote) : k.wrote[a].id = k.wrote[b].id /\ k.wrote[a].id # 0 => a = b
    BY <1>1, <1>7 DEF ClientInv, NumbersInv, IdsInv
  <2>2. x.next \in Nat
    BY <1>1 DEF SessionRecord
  <2>3. Len(k.wrote) \in 1..Len(k.wrote) /\ i \in 1..Len(k.wrote)
    BY <1>2, <1>5, <2>1
  <2>4. k.wrote[i].id = k.wrote[Len(k.wrote)].id /\ k.wrote[i].id # 0
    BY <1>5, <1>7, <2>1, <2>2
  <2>5. QED
    BY <2>1, <2>3, <2>4
<1>8. QED
  BY <1>5, <1>6, <1>7

LEMMA BodiesAre ==
  ASSUME McpClientInv, NEW s \in Sessions, NEW id \in links[s].owed, NEW answer \in Bodies(s, id)
  PROVE  /\ answer.kind \in {"result", "error"}
         /\ answer.body \in {"modern", "older", "malformed", "unsupported", "refused", "ok"} \cup PageBody
         /\ Written(s, id).kind = "list" /\ answer.kind = "result" =>
              LET cursor == Written(s, id).cursor IN
              answer.body = [page |-> AskedPage(cursor), next |-> links[s].follows[AskedPage(cursor)]]
<1>1. PICK e \in WrittenFrame : e = Written(s, id)
  BY WrittenIs
<1>2. CASE e.kind = "discover"
  <2>1. answer \in [kind : {"result"}, body : {"modern", "older", "malformed"}]
                     \cup [kind : {"error"}, body : {"unsupported", "refused"}]
    BY <1>1, <1>2 DEF Bodies
  <2>2. QED
    BY <1>1, <1>2, <2>1
<1>3. CASE e.kind = "initialize"
  <2>1. answer \in [kind : {"result"}, body : {"ok", "malformed"}] \cup {[kind |-> "error", body |-> "refused"]}
    BY <1>1, <1>3 DEF Bodies
  <2>2. QED
    BY <1>1, <1>3, <2>1
<1>4. CASE e.kind = "list"
  <2>1. PICK page : page = AskedPage(e.cursor)
    OBVIOUS
  <2>2. answer \in {[kind |-> "result", body |-> [page |-> page, next |-> links[s].follows[page]]],
                    [kind |-> "error", body |-> "refused"]}
    BY <1>1, <1>4, <2>1 DEF Bodies, AskedPage
  <2>3. page \in Pages
    BY <1>1, <2>1 DEF WrittenFrame, AskedPage, Pages
  <2>4. links[s].follows[page] \in 0..3
    BY <2>3, ClientIs DEF LinkRecord
  <2>5. [page |-> page, next |-> links[s].follows[page]] \in PageBody
    BY <2>3, <2>4 DEF PageBody
  <2>6. QED
    BY <1>1, <2>1, <2>2, <2>5
<1>5. CASE e.kind \notin {"discover", "initialize", "list"}
  <2>1. answer \in {[kind |-> "result", body |-> "ok"], [kind |-> "error", body |-> "refused"]}
    BY <1>1, <1>5 DEF Bodies
  <2>2. QED
    BY <1>1, <1>5, <2>1
<1>6. QED
  BY <1>2, <1>3, <1>4, <1>5

LEMMA ReplySafe ==
  ASSUME McpClientInv, NEW s \in Sessions, Reply(s)
  PROVE  McpClientInv'
<1> DEFINE x == sessions[s]
           k == links[s]
<1>1. x \in SessionRecord /\ k \in LinkRecord /\ ClientInv(x, k)
  BY ClientIs
<1>2. PICK id \in k.owed, answer \in UNION {Bodies(s, i) : i \in k.owed} :
        /\ answer \in Bodies(s, id)
        /\ links' = [links EXCEPT ![s].owed = @ \ {id},
             ![s].frames = Append(@, [kind |-> answer.kind, id |-> id, body |-> answer.body])]
        /\ UNCHANGED <<sessions, asides>>
  BY DEF Reply
<1>3. /\ answer.kind \in {"result", "error"}
      /\ answer.body \in {"modern", "older", "malformed", "unsupported", "refused", "ok"} \cup PageBody
      /\ Written(s, id).kind = "list" /\ answer.kind = "result" =>
           LET cursor == Written(s, id).cursor IN
           answer.body = [page |-> AskedPage(cursor), next |-> k.follows[AskedPage(cursor)]]
  BY <1>2, BodiesAre
<1>4. id \in Nat /\ id < x.next
  BY <1>1 DEF LinkRecord, ClientInv, NumbersInv, IdsInv
<1>5. PICK e : e = [kind |-> answer.kind, id |-> id, body |-> answer.body]
  OBVIOUS
<1>6. e \in ReadFrame /\ e.id = id /\ e.kind = answer.kind /\ e.body = answer.body
  BY <1>3, <1>4, <1>5 DEF ReadFrame
<1>7. ASSUME x.at = "list", e.id = x.next - 1, e.kind = "result"
      PROVE  LET cursor == k.wrote[Len(k.wrote)].cursor IN
             e.body = [page |-> AskedPage(cursor), next |-> k.follows[AskedPage(cursor)]]
  <2>1. Written(s, id) = k.wrote[Len(k.wrote)]
    BY <1>6, <1>7, WrittenIs DEF Awaiting
  <2>2. k.wrote[Len(k.wrote)].kind = "list"
    BY <1>1, <1>7 DEF ClientInv, NumbersInv, Awaiting
  <2>3. QED
    BY <1>3, <1>6, <1>7, <2>1, <2>2
<1>8. PICK owed : owed = k.owed \ {id}
  OBVIOUS
<1>9. links' = [links EXCEPT ![s] = [k EXCEPT !.owed = owed, !.frames = Append(k.frames, e)]]
  BY <1>1, <1>2, <1>5, <1>8 DEF LinkRecord, McpClientInv
<1>10. owed \subseteq k.owed
  BY <1>8
<1>11. QED
  BY <1>2, <1>4, <1>6, <1>7, <1>9, <1>10, FrameSafe

LEMMA InterjectSafe ==
  ASSUME McpClientInv, NEW s \in Sessions, Interject(s)
  PROVE  McpClientInv'
<1> DEFINE x == sessions[s]
           k == links[s]
<1>1. x \in SessionRecord /\ k \in LinkRecord /\ ClientInv(x, k)
  BY ClientIs
<1>2. PICK aside \in Asides :
        links' = [links EXCEPT ![s].frames =
          Append(@, [kind |-> IF aside = "stray" THEN "result" ELSE aside, id |-> 0, body |-> "ok"])]
  BY DEF Interject
<1>3. PICK kind : kind = IF aside = "stray" THEN "result" ELSE aside
  OBVIOUS
<1>4. PICK e : e = [kind |-> kind, id |-> 0, body |-> "ok"]
  OBVIOUS
<1>5. e \in ReadFrame /\ e.id = 0
  <2>1. kind \in {"result", "error"} \cup Asides
    BY <1>3
  <2>2. QED
    BY <1>4, <2>1 DEF ReadFrame
<1>6. 0 < x.next /\ (x.at = "list" => 0 # x.next - 1)
  BY <1>1 DEF SessionRecord, ClientInv, NumbersInv, IdsInv, Awaiting
<1>7. links' = [links EXCEPT ![s] = [k EXCEPT !.owed = k.owed, !.frames = Append(k.frames, e)]]
  <2>1. links' = [links EXCEPT ![s] = [k EXCEPT !.frames = Append(k.frames, e)]]
    BY <1>2, <1>3, <1>4 DEF McpClientInv
  <2>2. PICK v : v = Append(k.frames, e)
    OBVIOUS
  <2>3. [k EXCEPT !.frames = v] = [k EXCEPT !.owed = k.owed, !.frames = v]
    BY <1>1 DEF LinkRecord
  <2>4. QED
    BY <2>1, <2>2, <2>3
<1>8. QED
  BY <1>5, <1>6, <1>7, FrameSafe DEF Interject

LEMMA HangUpSafe ==
  ASSUME McpClientInv, NEW s \in Sessions, HangUp(s)
  PROVE  McpClientInv'
<1> DEFINE x == sessions[s]
           k == links[s]
<1>1. x \in SessionRecord /\ k \in LinkRecord /\ ClientInv(x, k)
  BY ClientIs
<1>2. PICK m : m = [k EXCEPT !.up = FALSE, !.owed = {}]
  OBVIOUS
<1>3. /\ m \in LinkRecord /\ m.frames = k.frames /\ m.owed = {} /\ m.wrote = k.wrote /\ m.follows = k.follows
      /\ m.unread = k.unread
  <2>1. {} \in SUBSET Nat /\ FALSE \in BOOLEAN
    OBVIOUS
  <2>2. QED
    BY <1>1, <1>2, <2>1 DEF LinkRecord
<1>4. ClientInv(x, m)
  BY <1>1, <1>3, RestSafe
<1>5. links' = [links EXCEPT ![s] = m]
  BY <1>2 DEF HangUp, McpClientInv
<1>6. QED
  BY <1>3, <1>4, <1>5, LinkMoves DEF HangUp

-----------------------------------------------------------------------------
(* Every state.                                                            *)

LEMMA McpClientStarts ==
  ASSUME NEW workloads, workloads \subseteq Workload, McpClientInit(workloads)
  PROVE  McpClientInv
<1>1. PICK given \in [Sessions -> workloads] :
        /\ sessions = [s \in Sessions |->
             [at |-> "idle", reader |-> "none", prefers |-> given[s].prefers,
              transport |-> given[s].transport, todo |-> given[s].todo, era |-> "none", next |-> 1,
              cursors |-> {}, got |-> <<>>, listed |-> <<>>]]
        /\ links = [s \in Sessions |->
             [up |-> FALSE, frames |-> <<>>, owed |-> {}, unread |-> {}, wrote |-> <<>>,
              follows |-> given[s].follows]]
  BY DEF McpClientInit
<1>2. ASSUME NEW s \in Sessions
      PROVE  sessions[s] \in SessionRecord /\ links[s] \in LinkRecord /\ ClientInv(sessions[s], links[s])
  <2>1. PICK g \in Workload : g = given[s]
    OBVIOUS
  <2>2. /\ g.prefers \in {"auto", "legacy", "modern"} /\ g.transport \in {"stdio", "sse"} /\ g.todo \in Todos
        /\ g.follows \in [Pages -> 0..3]
    BY DEF Workload, Todos
  <2>3. PICK x : x = sessions[s]
    OBVIOUS
  <2>4. x = [at |-> "idle", reader |-> "none", prefers |-> g.prefers, transport |-> g.transport, todo |-> g.todo,
             era |-> "none", next |-> 1, cursors |-> {}, got |-> <<>>, listed |-> <<>>]
    BY <1>1, <2>1, <2>3
  <2>5. {} \in SUBSET Pages /\ <<>> \in PageLists /\ {} \in SUBSET Nat /\ <<>> \in ReadFrames /\ <<>> \in WrittenFrames
    BY DEF PageLists, ReadFrames, WrittenFrames
  <2>6. x \in SessionRecord
    BY <2>2, <2>4, <2>5 DEF SessionRecord
  <2>7. PICK k : k = links[s]
    OBVIOUS
  <2>8. k = [up |-> FALSE, frames |-> <<>>, owed |-> {}, unread |-> {}, wrote |-> <<>>, follows |-> g.follows]
    BY <1>1, <2>1, <2>7
  <2>9. k \in LinkRecord
    BY <2>2, <2>5, <2>8 DEF LinkRecord
  <2>10. /\ x.at = "idle" /\ x.reader = "none" /\ x.era = "none" /\ x.next = 1 /\ x.cursors = {} /\ x.got = <<>>
         /\ x.listed = <<>> /\ k.frames = <<>> /\ k.owed = {} /\ k.unread = {} /\ k.wrote = <<>>
    BY <2>4, <2>8
  <2>11. PlaceInv(x, k) /\ NumbersInv(x, k) /\ ShapeInv(x, k.wrote) /\ ListInv(x, k)
    BY <2>10 DEF PlaceInv, NumbersInv, IdsInv, ShapeInv, EraInv, ListInv, Awaiting
  <2>12. QED
    BY <2>3, <2>6, <2>7, <2>9, <2>11 DEF ClientInv
<1>3. sessions = [s \in Sessions |-> sessions[s]] /\ links = [s \in Sessions |-> links[s]]
  BY <1>1
<1>4. QED
  BY <1>2, <1>3 DEF McpClientInv

LEMMA McpClientStep ==
  ASSUME McpClientInv, [McpClientNext]_mcpClientVars
  PROVE  McpClientInv'
<1>1. CASE UNCHANGED mcpClientVars
  BY <1>1 DEF McpClientInv, mcpClientVars
<1>2. ASSUME NEW s \in Sessions, \/ Connect(s) \/ Dial(s) \/ Perform(s) \/ Receive(s) \/ EndOfStream(s) \/ Expire(s)
                                 \/ Reply(s) \/ Interject(s) \/ HangUp(s)
      PROVE  McpClientInv'
  <2>1. EndOfStream(s) \/ Expire(s) => Retire(s)
    BY DEF EndOfStream, Expire
  <2>2. QED
    BY <1>2, <2>1, ConnectSafe, DialSafe, PerformSafe, ReceiveSafe, RetireSafe, ReplySafe, InterjectSafe, HangUpSafe
<1>3. QED
  BY <1>1, <1>2 DEF McpClientNext

LEMMA InvIsSafe ==
  ASSUME McpClientInv
  PROVE  McpClientTypeOK /\ ClientSafety
<1>1. McpClientTypeOK
  <2>1. ASSUME NEW s \in Sessions
        PROVE  /\ sessions[s].at \in {"idle", "dialing", "ready", "listen", "done"} \cup Awaiting
               /\ sessions[s].reader \in {"none", "open", "taken"}
               /\ sessions[s].prefers \in {"auto", "legacy", "modern"}
               /\ sessions[s].era \in {"none", "legacy", "modern"}
               /\ sessions[s].next \in Nat /\ sessions[s].cursors \subseteq Pages
               /\ sessions[s].got \in Seq(Pages) /\ sessions[s].listed \in Seq(Pages)
    BY ClientIs DEF SessionRecord, PageLists
  <2>2. ASSUME NEW s \in Sessions
        PROVE  links[s].up \in BOOLEAN /\ links[s].owed \subseteq Nat /\ links[s].unread \subseteq Nat
    BY ClientIs DEF LinkRecord
  <2>3. ASSUME NEW s \in Sessions, NEW i \in DOMAIN links[s].wrote
        PROVE  links[s].wrote[i].kind \in Awaiting \cup {"initialized"}
    <3>1. links[s].wrote \in Seq(WrittenFrame)
      BY ClientIs DEF LinkRecord, WrittenFrames
    <3>2. links[s].wrote[i] \in WrittenFrame
      BY <3>1
    <3>3. QED
      BY <3>2 DEF WrittenFrame
  <2>4. QED
    BY <2>1, <2>2, <2>3 DEF McpClientTypeOK
<1>2. IdleIsClean
  BY ClientIs DEF IdleIsClean, ClientInv, PlaceInv
<1>3. HandshakeFirst
  <2>1. ASSUME NEW s \in Sessions, NEW w, w = links[s].wrote, NEW i \in DOMAIN w, w[i].kind \in {"call", "list"}
        PROVE  IF w[i].stamped
               THEN /\ w[1].kind = "discover"
                    /\ \A j \in 2..i : w[j].kind \in {"call", "list"} /\ w[j].stamped
               ELSE \E j \in 1..(i - 1) :
                      /\ w[j].kind = "initialized"
                      /\ \A n \in (j + 1)..i : w[n].kind \in {"call", "list"} /\ ~w[n].stamped
    <3>1. w \in Seq(WrittenFrame) /\ EraInv(sessions[s].era, w) /\ sessions[s].era \in {"none", "legacy", "modern"}
      BY <2>1, ClientIs DEF SessionRecord, LinkRecord, WrittenFrames, ClientInv, ShapeInv
    <3>2. i \in 1..Len(w) /\ Len(w) \in Nat /\ IsOperation(w[i])
      BY <2>1, <3>1 DEF IsOperation
    <3>3. CASE sessions[s].era = "none"
      BY <3>1, <3>2, <3>3 DEF EraInv
    <3>4. CASE sessions[s].era = "modern"
      <4>1. w[1].kind = "discover" /\ \A j \in 2..Len(w) : IsOperation(w[j]) /\ w[j].stamped
        BY <3>1, <3>4 DEF EraInv
      <4>2. i # 1
        BY <2>1, <4>1
      <4>3. i \in 2..Len(w) /\ w[i].stamped
        BY <3>2, <4>1, <4>2
      <4>4. \A j \in 2..i : w[j].kind \in {"call", "list"} /\ w[j].stamped
        BY <3>2, <4>1 DEF IsOperation
      <4>5. QED
        BY <4>1, <4>3, <4>4
    <3>5. CASE sessions[s].era = "legacy"
      <4>1. PICK j \in 1..Len(w) : /\ w[j].kind = "initialized"
                                   /\ \A n \in 1..Len(w) : IsOperation(w[n]) => n > j
                                   /\ \A n \in 1..Len(w) : n > j => IsOperation(w[n]) /\ ~w[n].stamped
        BY <3>1, <3>5 DEF EraInv
      <4>2. i > j /\ ~w[i].stamped
        BY <3>2, <4>1
      <4>3. j \in 1..(i - 1)
        BY <3>2, <4>2
      <4>4. \A n \in (j + 1)..i : w[n].kind \in {"call", "list"} /\ ~w[n].stamped
        BY <3>2, <4>1 DEF IsOperation
      <4>5. QED
        BY <4>1, <4>2, <4>3, <4>4
    <3>6. QED
      BY <3>1, <3>3, <3>4, <3>5
  <2>2. QED
    BY <2>1 DEF HandshakeFirst
<1>4. ListsAreWhole
  <2>1. ASSUME NEW s \in Sessions PROVE Len(sessions[s].got) <= 3
    <3>1. PICK got : got = sessions[s].got
      OBVIOUS
    <3>2. got \in Seq(Pages) /\ Len(got) \in Nat
      BY <3>1, ClientIs DEF SessionRecord, PageLists
    <3>3. CASE sessions[s].at # "list"
      <4>1. got = <<>>
        BY <3>1, <3>3, ClientIs DEF ClientInv, ListInv
      <4>2. QED
        BY <3>1, <4>1
    <3>4. CASE sessions[s].at = "list"
      <4>1. PICK follows \in [Pages -> 0..3] : follows = links[s].follows
        BY ClientIs DEF LinkRecord
      <4>2. /\ \A i \in 1..Len(got) : follows[got[i]] # 0
            /\ \A i, j \in 1..Len(got) : follows[got[i]] = follows[got[j]] => i = j
        <5>1. PICK cursors, cursor : PagesInv(got, cursors, cursor, follows)
          BY <3>1, <3>4, <4>1, ClientIs DEF ClientInv, ListInv
        <5>2. QED
          BY <5>1 DEF PagesInv
      <4>3. \A i \in 1..Len(got) : follows[got[i]] \in {1, 2, 3}
        BY <3>2, <4>2
      <4>4. SUFFICES ASSUME Len(got) >= 4 PROVE FALSE
        BY <3>1, <3>2
      <4>5. 1 \in 1..Len(got) /\ 2 \in 1..Len(got) /\ 3 \in 1..Len(got) /\ 4 \in 1..Len(got)
        BY <3>2, <4>4
      <4>6. PICK a \in {1, 2, 3}, b \in {1, 2, 3}, c \in {1, 2, 3}, d \in {1, 2, 3} :
              a = follows[got[1]] /\ b = follows[got[2]] /\ c = follows[got[3]] /\ d = follows[got[4]]
        BY <4>3, <4>5
      <4>7. a # b /\ a # c /\ a # d /\ b # c /\ b # d /\ c # d
        BY <4>2, <4>5, <4>6
      <4>8. QED
        BY <4>6, <4>7
    <3>5. QED
      BY <3>3, <3>4
  <2>2. Cardinality(Pages) = 3
    <3>1. 1 \in Int /\ 3 \in Int /\ Pages = 1..3
      BY DEF Pages
    <3>2. Cardinality(1..3) = IF 1 > 3 THEN 0 ELSE 3 - 1 + 1
      BY <3>1, FS_Interval
    <3>3. QED
      BY <3>1, <3>2
  <2>3. \A s \in Sessions : sessions[s].listed # <<>> => IsChain(sessions[s].listed, links[s].follows)
    BY ClientIs DEF ClientInv, ListInv
  <2>4. QED
    BY <2>1, <2>2, <2>3 DEF ListsAreWhole
<1>5. QED
  BY <1>1, <1>2, <1>3, <1>4 DEF ClientSafety

\* Whatever the caller asks for and whenever the pool answers, talks out of turn or
\* goes away, a client between operations is clean, has shaken hands and has whole
\* lists (mcp_client.rs).
THEOREM ClientSafe ==
  ASSUME NEW CONSTANT workloads, workloads \subseteq Workload
  PROVE  McpClientInit(workloads) /\ [][McpClientNext]_mcpClientVars => [](McpClientTypeOK /\ ClientSafety)
<1>1. McpClientInit(workloads) => McpClientInv
  BY McpClientStarts
<1>2. McpClientInv /\ [McpClientNext]_mcpClientVars => McpClientInv'
  BY McpClientStep
<1>3. McpClientInv => McpClientTypeOK /\ ClientSafety
  BY InvIsSafe
<1>4. QED
  BY <1>1, <1>2, <1>3, PTL

USE ToolCommandsAssumption

-----------------------------------------------------------------------------
(* The list of all servers: every server that was asked is reported once.  *)

ListRequest == [kind : {"none", "all", "one", "tool", "unknown"}, brief : BOOLEAN, schema : BOOLEAN, exit : BOOLEAN]
Report == [server : 1..Inspected, outcome : {"listed", "selection", "failed"}]
Reports == Seq(Report)
Listing ==
  [at : {"reading", "inspecting", "reporting", "done", "failed"}, op : ListRequest, next : Nat, reports : Reports]

(* A target that is known is a server of the configuration.                *)
TargetFound(op) == op.kind \in {"one", "tool"} => Inspected >= 1

Joined == {s \in 1..Inspected : inspections[s] = "joined"}
Begun ==
  /\ listing.next \in 1..(Selected + 1)
  /\ \A s \in 1..Inspected : inspections[s] = "waiting" <=> s >= listing.next

ReportedOnce(reports, servers) ==
  /\ \A i \in 1..Len(reports) : reports[i].server \in servers
  /\ \A s \in servers : \E i \in 1..Len(reports) : reports[i].server = s
  /\ \A i, j \in 1..Len(reports) : reports[i].server = reports[j].server => i = j

ListingInv ==
  /\ listing \in Listing /\ TargetFound(listing.op)
  /\ inspections \in [1..Inspected -> {"waiting", "connecting", "listed", "selection", "failed", "joined"}]
  /\ listing.next \in 1..(Inspected + 1)
  /\ listing.at = "reading" => listing.op.kind # "none"
  /\ listing.at = "inspecting" => listing.op.kind \in {"all", "one", "tool"}
  /\ listing.at = "reading" => listing.reports = <<>> /\ listing.next = 1 /\ \A s \in 1..Inspected : inspections[s] = "waiting"
  /\ listing.at = "inspecting" => Begun /\ ReportedOnce(listing.reports, Joined)
  /\ ReportsAreOrdered

-----------------------------------------------------------------------------
(* Sorting.                                                                *)

(* As many reports are of servers before one as there are such servers.    *)
LEMMA Ranks ==
  ASSUME NEW n \in Nat, NEW reports \in Seq(Report), ReportedOnce(reports, 1..n), NEW k \in 1..Len(reports)
  PROVE  Cardinality({j \in 1..Len(reports) : reports[j].server < reports[k].server}) = reports[k].server - 1
<1>1. PICK m : m = reports[k].server
  OBVIOUS
<1>2. m \in 1..n /\ m - 1 \in Nat
  BY <1>1 DEF ReportedOnce
<1>3. PICK B : B = {j \in 1..Len(reports) : reports[j].server < m}
  OBVIOUS
<1>4. PICK f : f = [j \in B |-> reports[j].server]
  OBVIOUS
<1>5. f \in [B -> 1..(m - 1)]
  BY <1>2, <1>3, <1>4 DEF ReportedOnce
<1>6. \A i, j \in B : f[i] = f[j] => i = j
  BY <1>3, <1>4 DEF ReportedOnce
<1>7. \A s \in 1..(m - 1) : \E j \in B : f[j] = s
  <2>1. ASSUME NEW s \in 1..(m - 1) PROVE \E j \in B : f[j] = s
    <3>1. s \in 1..n /\ s < m
      BY <1>2
    <3>2. PICK j \in 1..Len(reports) : reports[j].server = s
      BY <3>1 DEF ReportedOnce
    <3>3. QED
      BY <1>3, <1>4, <3>1, <3>2
  <2>2. QED
    BY <2>1
<1>8. f \in Bijection(B, 1..(m - 1))
  BY <1>5, <1>6, <1>7, Fun_IsBij
<1>9. ExistsBijection(B, 1..(m - 1))
  BY <1>8 DEF ExistsBijection
<1>10. ExistsBijection(1..(m - 1), B)
  BY <1>9, Fun_ExistsBijSymmetric
<1>11. Cardinality(B) = m - 1
  BY <1>2, <1>10, FS_CountingElements
<1>12. QED
  BY <1>1, <1>3, <1>11

LEMMA ReportsNumbered ==
  ASSUME NEW n \in Nat, NEW reports \in Seq(Report), ReportedOnce(reports, 1..n)
  PROVE  Len(reports) = n
<1>1. PICK f : f = [i \in 1..Len(reports) |-> reports[i].server]
  OBVIOUS
<1>2. f \in [1..Len(reports) -> 1..n] /\ (\A i, j \in 1..Len(reports) : f[i] = f[j] => i = j)
      /\ \A s \in 1..n : \E i \in 1..Len(reports) : f[i] = s
  BY <1>1 DEF ReportedOnce
<1>3. f \in Bijection(1..Len(reports), 1..n)
  BY <1>2, Fun_IsBij
<1>4. ExistsBijection(1..Len(reports), 1..n) /\ Len(reports) \in Nat
  BY <1>3 DEF ExistsBijection
<1>5. Cardinality(1..n) = Len(reports)
  BY <1>4, FS_CountingElements
<1>6. 1 \in Int /\ n \in Int
  OBVIOUS
<1>7. Cardinality(1..n) = IF 1 > n THEN 0 ELSE n - 1 + 1
  BY <1>6, FS_Interval
<1>8. QED
  BY <1>5, <1>7

\* Whatever the order of the reports, sorted they are in the order of the servers.
LEMMA SortedByServer ==
  ASSUME NEW n \in Nat, NEW reports \in Seq(Report), ReportedOnce(reports, 1..n)
  PROVE  /\ ByServer(reports) \in Seq(Report)
         /\ [i \in DOMAIN ByServer(reports) |-> ByServer(reports)[i].server] = [i \in 1..n |-> i]
<1>1. Len(reports) = n /\ DOMAIN reports = 1..n
  BY ReportsNumbered
<1>2. PICK key : key = [k \in 1..n |-> reports[k].server]
  OBVIOUS
<1>3. key \in [1..n -> 1..n] /\ (\A i, j \in 1..n : key[i] = key[j] => i = j) /\ \A s \in 1..n : \E k \in 1..n : key[k] = s
  BY <1>1, <1>2 DEF ReportedOnce
<1>4. PICK q : q = InOrderOf(1..n, key)
  OBVIOUS
<1>5. ASSUME NEW k \in 1..n PROVE Cardinality({y \in 1..n : key[y] < key[k]}) = key[k] - 1
  <2>1. Cardinality({j \in 1..Len(reports) : reports[j].server < reports[k].server}) = reports[k].server - 1
    BY <1>1, Ranks
  <2>2. {j \in 1..Len(reports) : reports[j].server < reports[k].server} = {y \in 1..n : key[y] < key[k]}
    BY <1>1, <1>2
  <2>3. QED
    BY <1>2, <2>1, <2>2
<1>6. Cardinality(1..n) = n
  BY FS_Interval
<1>7. ASSUME NEW i \in 1..n PROVE q[i] \in 1..n /\ key[q[i]] = i
  <2>1. q[i] = CHOOSE x \in 1..n : Cardinality({y \in 1..n : key[y] < key[x]}) = i - 1
    BY <1>4, <1>6 DEF InOrderOf
  <2>2. PICK k \in 1..n : key[k] = i
    BY <1>3
  <2>3. Cardinality({y \in 1..n : key[y] < key[k]}) = i - 1
    BY <1>5, <2>2
  <2>4. q[i] \in 1..n /\ Cardinality({y \in 1..n : key[y] < key[q[i]]}) = i - 1
    BY <2>1, <2>3
  <2>5. PICK l \in 1..n : l = q[i]
    BY <2>4
  <2>6. key[l] - 1 = i - 1 /\ key[l] \in 1..n
    BY <1>3, <1>5, <2>4, <2>5
  <2>7. QED
    BY <2>5, <2>6
<1>8. DOMAIN q = 1..n
  BY <1>4, <1>6 DEF InOrderOf
<1>9. PICK r : r = ByServer(reports)
  OBVIOUS
<1>10. r = [i \in 1..n |-> reports[q[i]]]
  BY <1>1, <1>2, <1>4, <1>8, <1>9 DEF ByServer
<1>11. DOMAIN r = 1..n /\ \A i \in 1..n : r[i] \in Report /\ r[i].server = i
  <2>1. ASSUME NEW i \in 1..n PROVE r[i] \in Report /\ r[i].server = i
    <3>1. PICK l \in 1..n : l = q[i] /\ key[l] = i
      BY <1>7
    <3>2. r[i] = reports[l] /\ reports[l] \in Report /\ reports[l].server = i
      BY <1>1, <1>2, <1>10, <3>1
    <3>3. QED
      BY <3>2
  <2>2. QED
    BY <1>10, <2>1
<1>12. r \in [1..n -> Report]
  BY <1>10, <1>11
<1>13. r \in Seq(Report)
  BY <1>12
<1>14. QED
  BY <1>9, <1>11, <1>13

-----------------------------------------------------------------------------
(* The steps.                                                              *)

LEMMA ReadListKeeps ==
  ASSUME ListingInv, ReadList
  PROVE  ListingInv'
<1>1. PICK at \in {"failed", "inspecting"} :
        listing' = [listing EXCEPT !.at = at] /\ (at = "inspecting" => listing.op.kind # "unknown")
  BY DEF ReadList
<1>2. /\ listing.at = "reading" /\ listing' \in Listing /\ listing'.at = at /\ listing'.op = listing.op
      /\ listing'.next = 1 /\ listing'.reports = <<>> /\ inspections' = inspections
  BY <1>1 DEF ReadList, ListingInv, Listing
<1>3. Joined' = {} /\ ReportedOnce(<<>>, {})
  BY <1>2 DEF Joined, ListingInv, ReportedOnce
<1>4. at = "inspecting" => Begun'
  <2>1. Selected' \in Nat
    BY <1>2 DEF Selected, ListingInv
  <2>2. listing'.next \in 1..(Selected' + 1)
    <3>1. PICK n \in Nat : n = Selected'
      BY <2>1
    <3>2. 1 \in 1..(n + 1)
      OBVIOUS
    <3>3. QED
      BY <1>2, <3>1, <3>2
  <2>3. \A s \in 1..Inspected : inspections'[s] = "waiting" <=> s >= listing'.next
    BY <1>2 DEF ListingInv
  <2>4. QED
    BY <2>2, <2>3 DEF Begun
<1>5. at = "inspecting" => listing'.op.kind \in {"all", "one", "tool"}
  BY <1>1, <1>2 DEF ListingInv, Listing, ListRequest
<1>6. QED
  BY <1>2, <1>3, <1>4, <1>5 DEF ListingInv, ReportsAreOrdered

LEMMA StartInspectionKeeps ==
  ASSUME ListingInv, StartInspection
  PROVE  ListingInv'
<1>1. /\ listing.at = "inspecting" /\ listing.next <= Selected /\ listing.next \in Nat /\ Begun
      /\ listing' = [listing EXCEPT !.next = listing.next + 1]
      /\ inspections' = [inspections EXCEPT ![listing.next] = "connecting"]
  BY DEF StartInspection, ListingInv, Listing
<1>2. PICK next \in Nat : next = listing.next + 1
  BY <1>1
<1>3. /\ listing' \in Listing /\ listing'.at = "inspecting" /\ listing'.op = listing.op
      /\ listing'.next = next /\ listing'.reports = listing.reports
  <2>1. listing' = [listing EXCEPT !.next = next]
    BY <1>1, <1>2
  <2>2. QED
    BY <1>1, <2>1 DEF ListingInv, Listing
<1>4. Selected' = Selected /\ Selected \in Nat
  BY <1>3 DEF Selected
<1>5. Begun'
  <2>1. listing'.next \in 1..(Selected' + 1)
    BY <1>1, <1>2, <1>3, <1>4
  <2>2. \A s \in 1..Inspected : inspections'[s] = "waiting" <=> s >= listing'.next
    BY <1>1, <1>2, <1>3 DEF Begun, ListingInv
  <2>3. QED
    BY <2>1, <2>2 DEF Begun
<1>6. Joined' = Joined
  BY <1>1 DEF Begun, Joined, ListingInv
<1>7. inspections' \in [1..Inspected -> {"waiting", "connecting", "listed", "selection", "failed", "joined"}]
  BY <1>1 DEF ListingInv
<1>8. QED
  BY <1>1, <1>3, <1>5, <1>6, <1>7 DEF ListingInv, ReportsAreOrdered

LEMMA InspectionKeeps ==
  ASSUME ListingInv, NEW s \in 1..Inspected, Inspection(s)
  PROVE  ListingInv'
<1>1. PICK outcome \in {"listed", "selection", "failed"} : inspections' = [inspections EXCEPT ![s] = outcome]
  BY DEF Inspection, Outcomes
<1>2. inspections[s] = "connecting" /\ listing' = listing
  BY DEF Inspection
<1>3. inspections' \in [1..Inspected -> {"waiting", "connecting", "listed", "selection", "failed", "joined"}]
  BY <1>1 DEF ListingInv
<1>4. Joined' = Joined /\ (Begun => Begun') /\ Selected' = Selected
  BY <1>1, <1>2 DEF Joined, Begun, Selected, ListingInv
<1>5. listing.at # "reading"
  BY <1>2 DEF ListingInv
<1>6. QED
  BY <1>2, <1>3, <1>4, <1>5 DEF ListingInv, ReportsAreOrdered

LEMMA JoinKeeps ==
  ASSUME ListingInv, NEW s \in 1..Inspected, Join(s)
  PROVE  ListingInv'
<1>1. /\ listing.at = "inspecting" /\ inspections[s] \in {"listed", "selection", "failed"}
      /\ listing' = [listing EXCEPT !.reports = Append(@, [server |-> s, outcome |-> inspections[s]])]
      /\ inspections' = [inspections EXCEPT ![s] = "joined"]
  BY DEF Join
<1>2. PICK e : e = [server |-> s, outcome |-> inspections[s]]
  OBVIOUS
<1>3. e \in Report /\ e.server = s
  BY <1>1, <1>2 DEF Report
<1>4. PICK r : r = Append(listing.reports, e)
  OBVIOUS
<1>5. /\ r \in Seq(Report) /\ Len(r) = Len(listing.reports) + 1 /\ Len(listing.reports) \in Nat /\ r[Len(r)] = e
      /\ \A i \in 1..Len(listing.reports) : r[i] = listing.reports[i]
      /\ \A i \in 1..Len(r) : i = Len(r) \/ i \in 1..Len(listing.reports)
  <2>1. listing.reports \in Seq(Report)
    BY DEF ListingInv, Listing, Reports
  <2>2. QED
    BY <1>3, <1>4, <2>1
<1>6. /\ listing' \in Listing /\ listing'.at = "inspecting" /\ listing'.op = listing.op
      /\ listing'.next = listing.next /\ listing'.reports = r
  <2>1. listing' = [listing EXCEPT !.reports = r]
    BY <1>1, <1>2, <1>4
  <2>2. QED
    BY <1>1, <1>5, <2>1 DEF ListingInv, Listing, Reports
<1>7. Joined' = Joined \cup {s} /\ s \notin Joined
  BY <1>1 DEF Joined, ListingInv
<1>8. Begun' /\ Selected' = Selected
  BY <1>1, <1>6 DEF Begun, Selected, ListingInv
<1>9. ReportedOnce(r, Joined')
  <2>1. ReportedOnce(listing.reports, Joined)
    BY <1>1 DEF ListingInv
  <2>2. \A i \in 1..Len(r) : r[i].server \in Joined'
    BY <1>3, <1>5, <1>7, <2>1 DEF ReportedOnce
  <2>3. ASSUME NEW t \in Joined' PROVE \E i \in 1..Len(r) : r[i].server = t
    <3>1. CASE t = s
      BY <1>3, <1>5, <3>1
    <3>2. CASE t \in Joined
      <4>1. PICK i \in 1..Len(listing.reports) : listing.reports[i].server = t
        BY <2>1, <3>2 DEF ReportedOnce
      <4>2. QED
        BY <1>5, <4>1
    <3>3. QED
      BY <1>7, <3>1, <3>2
  <2>4. \A i \in 1..Len(listing.reports) : r[i].server \in Joined /\ r[i].server # s
    BY <1>5, <1>7, <2>1 DEF ReportedOnce
  <2>5. \A i, j \in 1..Len(listing.reports) : r[i].server = r[j].server => i = j
    BY <1>5, <2>1 DEF ReportedOnce
  <2>6. \A i, j \in 1..Len(r) : r[i].server = r[j].server => i = j
    BY <1>3, <1>5, <2>4, <2>5
  <2>7. QED
    BY <2>2, <2>3, <2>6 DEF ReportedOnce
<1>10. inspections' \in [1..Inspected -> {"waiting", "connecting", "listed", "selection", "failed", "joined"}]
  BY <1>1 DEF ListingInv
<1>11. ReportsAreOrdered' /\ (listing'.op.kind \in {"all", "one", "tool"}) /\ TargetFound(listing'.op)
  BY <1>1, <1>6 DEF ListingInv, ReportsAreOrdered
<1>12. QED
  BY <1>6, <1>8, <1>9, <1>10, <1>11 DEF ListingInv

LEMMA CollectKeeps ==
  ASSUME ListingInv, CollectReports
  PROVE  ListingInv'
<1>1. /\ listing.at = "inspecting" /\ InFlight = {} /\ listing.next > Selected
      /\ listing' = [listing EXCEPT !.at = "reporting", !.reports = ByServer(@)] /\ inspections' = inspections
  BY DEF CollectReports
<1>2. Begun /\ ReportedOnce(listing.reports, Joined) /\ listing.reports \in Seq(Report)
  BY <1>1 DEF ListingInv, Listing, Reports
<1>3. Selected \in Nat /\ Selected <= Inspected
  BY <1>1 DEF Selected, ListingInv, TargetFound
<1>4. listing.next = Selected + 1
  BY <1>1, <1>2, <1>3 DEF Begun
<1>5. Joined = {s \in 1..Inspected : s <= Selected}
  BY <1>1, <1>2, <1>3, <1>4 DEF Begun, Joined, InFlight
<1>6. PICK n \in Nat : n = Selected
  BY <1>3
<1>7. Joined = 1..n
  BY <1>3, <1>5, <1>6
<1>8. /\ ByServer(listing.reports) \in Seq(Report)
      /\ [i \in DOMAIN ByServer(listing.reports) |-> ByServer(listing.reports)[i].server] = [i \in 1..n |-> i]
  BY <1>2, <1>7, SortedByServer
<1>9. PICK r : r = ByServer(listing.reports)
  OBVIOUS
<1>10. /\ listing' \in Listing /\ listing'.at = "reporting" /\ listing'.op = listing.op /\ listing'.reports = r
  <2>1. listing' = [listing EXCEPT !.at = "reporting", !.reports = r] /\ r \in Reports
    BY <1>1, <1>8, <1>9 DEF Reports
  <2>2. QED
    BY <2>1 DEF ListingInv, Listing
<1>11. Selected' = n
  BY <1>6, <1>10 DEF Selected
<1>12. ReportsAreOrdered'
  BY <1>8, <1>9, <1>10, <1>11 DEF ReportsAreOrdered
<1>13. QED
  BY <1>1, <1>10, <1>12 DEF ListingInv

LEMMA ShowKeeps ==
  ASSUME ListingInv, ShowReports
  PROVE  ListingInv'
<1>1. PICK at \in {"failed", "done"} : listing' = [listing EXCEPT !.at = at]
  BY DEF ShowReports
<1>2. /\ listing.at = "reporting" /\ listing' \in Listing /\ listing'.at = at /\ listing'.op = listing.op
      /\ listing'.reports = listing.reports /\ listing'.next = listing.next /\ inspections' = inspections
  BY <1>1 DEF ShowReports, ListingInv, Listing
<1>3. ReportsAreOrdered'
  BY <1>2 DEF ReportsAreOrdered, ListingInv, Selected
<1>4. QED
  BY <1>2, <1>3 DEF ListingInv

LEMMA ListingStep ==
  ASSUME ListingInv, [ToolCommandsNext]_toolVars
  PROVE  ListingInv'
<1>1. CASE listing' = listing /\ inspections' = inspections
  BY <1>1 DEF ListingInv, Begun, Joined, Selected, ReportsAreOrdered
<1>2. CASE UNCHANGED toolVars
  BY <1>1, <1>2 DEF toolVars
<1>3. CASE CallStep
  <2>1. listing' = listing /\ inspections' = inspections
    BY <1>3 DEF CallStep, ReadLine, StdinFails, SelectServer, PersistServer, ConnectServer, ReadResource, ListForCall,
               AnswerQuestion, Resolve, Hydrate, CallTool, Render, Export, TailLog, Gives, Breaks, Moves
  <2>2. QED
    BY <1>1, <2>1
<1>4. CASE ListStep
  BY <1>4, ReadListKeeps, StartInspectionKeeps, CollectKeeps, ShowKeeps, InspectionKeeps, JoinKeeps DEF ListStep
<1>5. QED
  BY <1>2, <1>3, <1>4 DEF ToolCommandsNext

LEMMA ListingBegins ==
  ASSUME NEW CONSTANT op, NEW CONSTANT list \in ListRequest, TargetFound(list), ToolCommandsInit(op, list)
  PROVE  ListingInv
<1>1. PICK at \in {"reading", "done"} :
        /\ listing = [at |-> at, op |-> list, next |-> 1, reports |-> <<>>]
        /\ at = "done" <=> list.kind = "none"
  BY DEF ToolCommandsInit
<1>2. <<>> \in Reports /\ inspections = [s \in 1..Inspected |-> "waiting"]
  BY DEF ToolCommandsInit, Reports
<1>3. listing \in Listing /\ listing.op = list
  BY <1>1, <1>2 DEF Listing
<1>4. QED
  BY <1>1, <1>2, <1>3 DEF ListingInv, ReportsAreOrdered

\* However many servers are inspected at once and whichever answers first, a list
\* reports each server that was asked for once, and in name order (tool_discovery.rs).
THEOREM ReportsOrdered ==
  ASSUME NEW CONSTANT op, NEW CONSTANT list \in ListRequest, TargetFound(list)
  PROVE  ToolCommandsInit(op, list) /\ [][ToolCommandsNext]_toolVars => []ReportsAreOrdered
<1>1. ToolCommandsInit(op, list) => ListingInv
  BY ListingBegins
<1>2. ListingInv /\ [ToolCommandsNext]_toolVars => ListingInv'
  BY ListingStep
<1>3. ListingInv => ReportsAreOrdered
  BY DEF ListingInv
<1>4. QED
  BY <1>1, <1>2, <1>3, PTL

\* However a line gives its arguments - as JSON, on standard input, as options, by name or by
\* place, under a name or an alias - the tool is called with what the line says last of each
\* property (tool_arguments.rs, tool_inputs.rs, tool_schema.rs); and lists are complete and in order.
THEOREM ToolSafe ==
  ASSUME NEW CONSTANT op \in CallRequest, NEW CONSTANT list \in ListRequest, TargetFound(list)
  PROVE  ToolCommandsInit(op, list) /\ [][ToolCommandsNext]_toolVars => [](ToolCommandsTypeOK /\ ToolSafety)
<1>1. ToolCommandsInit(op, list) => CallInv
  <2>1. SUFFICES ASSUME ToolCommandsInit(op, list) PROVE CallInv
    OBVIOUS
  <2>2. PICK at \in {"reading", "done"} :
          call = [at |-> at, op |-> op, inputs |-> <<>>, arguments |-> NoArguments, requests |-> 0,
                  rendered |-> FALSE, fate |-> "none"]
    BY <2>1 DEF ToolCommandsInit, NewCall
  <2>3. <<>> \in Seq(PlacedInput)
    OBVIOUS
  <2>4. NoArguments \in Arguments
    <3>1. DOMAIN NoArguments = {} /\ NoArguments = [k \in {} |-> NoArguments[k]]
      BY DEF NoArguments
    <3>2. QED
      BY <3>1, IsArguments
  <2>5. call \in CallRecord /\ call.at \in {"reading", "done"}
    BY <2>2, <2>3, <2>4 DEF CallRecord, CallFates
  <2>6. QED
    BY <2>5 DEF CallInv, LineRead, LastInputWins
<1>2. CallInv /\ [ToolCommandsNext]_toolVars => CallInv'
  <2>1. SUFFICES ASSUME CallInv, [ToolCommandsNext]_toolVars PROVE CallInv'
    OBVIOUS
  <2>2. CASE call' = call
    <3>1. LastInputWins' <=> LastInputWins
      BY <2>2 DEF LastInputWins, Naming
    <3>2. QED
      BY <2>1, <2>2, <3>1 DEF CallInv
  <2>3. CASE CallStep
    BY <2>1, <2>3, CallStepKeeps
  <2>4. CASE ListStep
    BY <2>2, <2>4 DEF ListStep, ReadList, StartInspection, CollectReports, ShowReports, Inspection, Join
  <2>5. QED
    BY <2>1, <2>2, <2>3, <2>4 DEF ToolCommandsNext, toolVars
<1>3. ToolCommandsInit(op, list) => ListingInv
  BY ListingBegins
<1>4. ListingInv /\ [ToolCommandsNext]_toolVars => ListingInv'
  BY ListingStep
<1>5. CallInv /\ ListingInv => ToolCommandsTypeOK /\ ToolSafety
  <2>1. SUFFICES ASSUME CallInv, ListingInv PROVE ToolCommandsTypeOK /\ ToolSafety
    OBVIOUS
  <2>2. ToolSafety
    BY <2>1 DEF CallInv, ListingInv, ToolSafety
  <2>3. /\ listing.at \in {"reading", "inspecting", "reporting", "done", "failed"} /\ listing.reports \in Reports
        /\ listing.next \in 1..(Inspected + 1)
        /\ inspections \in [1..Inspected -> {"waiting", "connecting", "listed", "selection", "failed", "joined"}]
    BY <2>1 DEF ListingInv, Listing
  <2>4. ToolCommandsTypeOK
    BY <2>1, <2>3, CallTyped DEF ToolCommandsTypeOK, Reports, Report
  <2>5. QED
    BY <2>2, <2>4
<1>6. QED
  BY <1>1, <1>2, <1>3, <1>4, <1>5, PTL
=============================================================================
