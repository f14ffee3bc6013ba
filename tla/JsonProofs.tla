----------------------------- MODULE JsonProofs -----------------------------
(***************************************************************************)
(* What TLAPS proves of Json, for documents of any depth.  The text is     *)
(* seen as a structure S: the maps that are complete in it, each with its  *)
(* entries and where they are.  json_writer adds to S map by map, each     *)
(* behind its children; the braces of a map are balanced, so the brace     *)
(* that json_parse finds closes it; and each call of json_parse is with    *)
(* one entry of one map of S, of whose entries it has read a prefix.       *)
(***************************************************************************)
EXTENDS Json, TLAPS, FiniteSetTheorems, WellFoundedInduction

Chars == Plain \cup Digits \cup {"-", BRO, BRC, COL, COA, QTM}

(* The text t has the sequence s from position `at` on.                    *)
Holds(t, s, at) ==
    at + Len(s) <= Len(t) + 1 /\ \A i \in 1 .. Len(s) : t[at + i - 1] = s[i]

LEMMA HoldsEnd ==
  ASSUME NEW t \in Seq(Chars), NEW s \in Seq(Chars)
  PROVE  t \o s \in Seq(Chars) /\ Len(t \o s) = Len(t) + Len(s) /\ Holds(t \o s, s, Len(t) + 1)
BY DEF Holds

LEMMA HoldsMore ==
  ASSUME NEW t \in Seq(Chars), NEW s \in Seq(Chars), NEW x \in Seq(Chars), NEW at \in Nat \ {0},
         Holds(t, s, at)
  PROVE  Holds(t \o x, s, at)
BY DEF Holds

LEMMA HoldsParts ==
  ASSUME NEW t \in Seq(Chars), NEW a \in Seq(Chars), NEW b \in Seq(Chars), NEW at \in Nat \ {0},
         Holds(t, a \o b, at)
  PROVE  Holds(t, a, at) /\ Holds(t, b, at + Len(a))
<1>1. Len(a \o b) = Len(a) + Len(b)
      OBVIOUS
<1>2. ASSUME NEW i \in 1 .. Len(a)
      PROVE  t[at + i - 1] = a[i]
  <2>1. i \in 1 .. Len(a \o b) /\ (a \o b)[i] = a[i]
        BY <1>1
  <2>2. QED
        BY <2>1 DEF Holds
<1>3. ASSUME NEW i \in 1 .. Len(b)
      PROVE  t[at + Len(a) + i - 1] = b[i]
  <2>1. Len(a) + i \in 1 .. Len(a \o b) /\ (a \o b)[Len(a) + i] = b[i]
        BY <1>1
  <2>2. t[at + (Len(a) + i) - 1] = b[i]
        BY <2>1 DEF Holds
  <2>3. QED
        BY <2>2
<1>4. QED
      BY <1>1, <1>2, <1>3 DEF Holds

LEMMA HoldsScanned ==
  ASSUME NEW t \in Seq(Chars), NEW s \in Seq(Chars), NEW at \in Nat \ {0}, Holds(t, s, at)
  PROVE  SubSeq(t, at, at + Len(s) - 1) = s
<1>1. \A i \in 1 .. Len(s) : t[at + i - 1] = s[i]
      BY DEF Holds
<1>2. /\ SubSeq(t, at, at + Len(s) - 1) \in Seq(Chars)
      /\ Len(SubSeq(t, at, at + Len(s) - 1)) = Len(s)
      /\ \A i \in 1 .. Len(s) : SubSeq(t, at, at + Len(s) - 1)[i] = t[at + i - 1]
      BY DEF Holds
<1>3. QED
      BY <1>1, <1>2

LEMMA Letters ==
  /\ \A k \in ToSet(KeyOrder) \cup Gaps : k \in Seq(Plain) /\ k \in Seq(Chars)
  /\ \A v \in Leaves : LeafText(v) \in Seq(Chars)
  /\ QTM \in Chars /\ BRO \in Chars /\ BRC \in Chars /\ COL \in Chars /\ COA \in Chars
<1>1. \A s : s \in Seq(Plain) => s \in Seq(Chars)
      BY DEF Chars
<1>2. ASSUME NEW v \in Leaves
      PROVE  LeafText(v) \in Seq(Chars)
  <2>1. CASE v = Str(v.value) /\ v.value \in Seq(Plain)
    <3>1. v.value \in Seq(Chars) /\ <<QTM>> \in Seq(Chars)
          BY <1>1, <2>1 DEF Chars
    <3>2. v.type = "string"
          BY <2>1 DEF Str
    <3>3. QED
          BY <3>1, <3>2 DEF LeafText
  <2>2. CASE v = Num(v.value) /\ IsNumber(v.value)
    <3>1. v.value \in Seq(Chars)
          BY <2>2 DEF IsNumber, Chars
    <3>2. v.type = "num"
          BY <2>2 DEF Num
    <3>3. QED
          BY <3>1, <3>2 DEF LeafText
  <2>3. QED
        BY <2>1, <2>2, TextAssumption DEF IsLeaf
<1>3. QED
      BY <1>1, <1>2, TextAssumption DEF Chars

LEMMA HeadType ==
  ASSUME NEW first \in BOOLEAN, NEW g \in Seq(Plain), NEW k \in Seq(Plain)
  PROVE  EntryHead(first, g, k) \in Seq(Chars) /\ Len(EntryHead(first, g, k)) = Len(g) + Len(k) + 4
<1> DEFINE s == <<IF first THEN BRO ELSE COA>>
           h == EntryHead(first, g, k)
<1>1. g \in Seq(Chars) /\ k \in Seq(Chars) /\ s \in Seq(Chars)
      /\ <<QTM>> \in Seq(Chars) /\ <<QTM, COL>> \in Seq(Chars)
      BY DEF Chars
<1>2. h = (((s \o g) \o <<QTM>>) \o k) \o <<QTM, COL>>
      BY DEF EntryHead
<1> HIDE DEF s, h
<1>3. s \o g \in Seq(Chars) /\ Len(s \o g) = Len(g) + 1
      BY <1>1 DEF s
<1>4. (s \o g) \o <<QTM>> \in Seq(Chars) /\ Len((s \o g) \o <<QTM>>) = Len(g) + 2
      BY <1>1, <1>3
<1>5. /\ ((s \o g) \o <<QTM>>) \o k \in Seq(Chars)
      /\ Len(((s \o g) \o <<QTM>>) \o k) = Len(g) + Len(k) + 2
  <2> DEFINE u == (s \o g) \o <<QTM>>
  <2>1. u \in Seq(Chars) /\ Len(u) = Len(g) + 2
        BY <1>4
  <2> HIDE DEF u
  <2>2. u \o k \in Seq(Chars) /\ Len(u \o k) = Len(u) + Len(k)
        BY <1>1, <2>1, HoldsEnd
  <2>3. Len(u \o k) = Len(g) + Len(k) + 2
        BY <2>1, <2>2
  <2>4. QED
        BY <2>2, <2>3 DEF u
<1>6. h \in Seq(Chars) /\ Len(h) = Len(g) + Len(k) + 4
  <2>1. Len(<<QTM, COL>>) = 2
        OBVIOUS
  <2> DEFINE u == ((s \o g) \o <<QTM>>) \o k
             w == <<QTM, COL>>
  <2>2. u \in Seq(Chars) /\ w \in Seq(Chars) /\ Len(u) = Len(g) + Len(k) + 2 /\ Len(w) = 2
        BY <1>1, <1>5, <2>1
  <2>3. h = u \o w
        BY <1>2
  <2> HIDE DEF u, w
  <2>4. u \o w \in Seq(Chars) /\ Len(u \o w) = Len(u) + Len(w)
        BY <2>2, HoldsEnd
  <2>5. QED
        BY <2>2, <2>3, <2>4
<1>7. QED
      BY <1>6 DEF h

(* The parts of the head of an entry.                                      *)
HeadAt(t, first, g, k, p, q) ==
    /\ t[p] = IF first THEN BRO ELSE COA
    /\ \A i \in p + 1 .. q - 1 : t[i] \in Plain
    /\ t[q] = QTM /\ Holds(t, k, q + 1)
    /\ t[q + Len(k) + 1] = QTM /\ t[q + Len(k) + 2] = COL
    /\ q + Len(k) + 2 <= Len(t)

LEMMA HeadParts ==
  ASSUME NEW first \in BOOLEAN, NEW g \in Seq(Plain), NEW k \in Seq(Plain),
         NEW t \in Seq(Chars), NEW p \in Nat \ {0}, Holds(t, EntryHead(first, g, k), p),
         NEW q, q = p + Len(g) + 1
  PROVE  HeadAt(t, first, g, k, p, q)
<1> DEFINE s == <<IF first THEN BRO ELSE COA>>
           h == EntryHead(first, g, k)
<1>1. g \in Seq(Chars) /\ k \in Seq(Chars) /\ s \in Seq(Chars)
      /\ <<QTM>> \in Seq(Chars) /\ <<QTM, COL>> \in Seq(Chars)
      BY DEF Chars
<1>2. h = (((s \o g) \o <<QTM>>) \o k) \o <<QTM, COL>>
      BY DEF EntryHead
<1> HIDE DEF s, h
<1>3. s \o g \in Seq(Chars) /\ Len(s \o g) = Len(g) + 1
      BY <1>1 DEF s
<1>4. (s \o g) \o <<QTM>> \in Seq(Chars) /\ Len((s \o g) \o <<QTM>>) = Len(g) + 2
      BY <1>1, <1>3
<1>5. /\ ((s \o g) \o <<QTM>>) \o k \in Seq(Chars)
      /\ Len(((s \o g) \o <<QTM>>) \o k) = Len(g) + Len(k) + 2
  <2> DEFINE u == (s \o g) \o <<QTM>>
  <2>1. u \in Seq(Chars) /\ Len(u) = Len(g) + 2
        BY <1>4
  <2> HIDE DEF u
  <2>2. u \o k \in Seq(Chars) /\ Len(u \o k) = Len(u) + Len(k)
        BY <1>1, <2>1, HoldsEnd
  <2>3. Len(u \o k) = Len(g) + Len(k) + 2
        BY <2>1, <2>2
  <2>4. QED
        BY <2>2, <2>3 DEF u
<1>6. Holds(t, h, p)
      BY DEF h
<1>7. QED
  <2>1. /\ Holds(t, ((s \o g) \o <<QTM>>) \o k, p)
        /\ Holds(t, <<QTM, COL>>, p + (Len(g) + Len(k) + 2))
        BY <1>1, <1>2, <1>5, <1>6, HoldsParts
  <2>2. Holds(t, (s \o g) \o <<QTM>>, p) /\ Holds(t, k, p + (Len(g) + 2))
        BY <1>1, <1>4, <2>1, HoldsParts
  <2>3. Holds(t, s \o g, p) /\ Holds(t, <<QTM>>, p + (Len(g) + 1))
        BY <1>1, <1>3, <2>2, HoldsParts
  <2>4. Holds(t, s, p) /\ Holds(t, g, p + 1)
    <3>1. Len(s) = 1
          BY DEF s
    <3>2. QED
          BY <1>1, <2>3, <3>1, HoldsParts
  <2>5. t[p] = IF first THEN BRO ELSE COA
    <3>1. Len(s) = 1 /\ s[1] = IF first THEN BRO ELSE COA
          BY DEF s
    <3>2. t[p + 1 - 1] = s[1]
          BY <2>4, <3>1 DEF Holds
    <3>3. QED
          BY <3>1, <3>2
  <2>6. ASSUME NEW i \in p + 1 .. q - 1
        PROVE  t[i] \in Plain
    <3>1. i - p \in 1 .. Len(g) /\ g[i - p] \in Plain
          OBVIOUS
    <3>2. t[(p + 1) + (i - p) - 1] = g[i - p]
          BY <2>4, <3>1 DEF Holds
    <3>3. QED
          BY <3>1, <3>2
  <2>7. t[q] = QTM
    <3>1. t[(p + (Len(g) + 1)) + 1 - 1] = QTM
          BY <2>3 DEF Holds
    <3>2. QED
          BY <3>1
  <2>8. Holds(t, k, q + 1)
    <3>1. p + (Len(g) + 2) = q + 1
          OBVIOUS
    <3>2. QED
          BY <2>2, <3>1
  <2>9. /\ t[q + Len(k) + 1] = QTM /\ t[q + Len(k) + 2] = COL
        /\ q + Len(k) + 2 <= Len(t)
    <3> DEFINE r == p + (Len(g) + Len(k) + 2)
    <3>1. t[r + 1 - 1] = QTM /\ t[r + 2 - 1] = COL /\ r + 2 <= Len(t) + 1
          BY <2>1 DEF Holds
    <3>2. r = q + Len(k) + 1 /\ r \in Nat
          OBVIOUS
    <3> HIDE DEF r
    <3>3. t[r] = QTM /\ t[r + 1] = COL
          BY <3>1, <3>2
    <3>4. r + 1 = q + Len(k) + 2
          BY <3>2
    <3>5. QED
          BY <3>1, <3>2, <3>3, <3>4
  <2>10. QED
         BY <2>5, <2>6, <2>7, <2>8, <2>9 DEF HeadAt
-----------------------------------------------------------------------------
(* What is written of a map: its entries, from the separator at p to the   *)
(* end e of the value, which begins at v.                                  *)
EntrySet == [k : Seq(Plain), g : Seq(Plain), p : Nat \ {0}, v : Nat \ {0}, e : Nat \ {0}]
NodeSet  == [m : Documents, at : Nat \ {0}, es : Seq(EntrySet), end : Nat]

Behind(at, es) == IF Len(es) = 0 THEN at ELSE es[Len(es)].e
Keys(es) == {es[j].k : j \in 1 .. Len(es)}

(* S are the maps that are complete.                                       *)
Value(t, S, v, at, e) ==
    \/ v \in Leaves /\ Holds(t, LeafText(v), at) /\ e = at + Len(LeafText(v))
    \/ \E c \in S : v = Child(c.m) /\ c.at = at /\ c.end = e

Entry(t, S, m, first, x) ==
    /\ x.k \in DOMAIN m
    /\ Holds(t, EntryHead(first, x.g, x.k), x.p)
    /\ x.v = x.p + Len(x.g) + Len(x.k) + 4 /\ x.v < x.e
    /\ Value(t, S, m[x.k], x.v, x.e)

Entries(t, S, m, at, es) ==
    /\ at <= Behind(at, es)
    /\ \A j \in 1 .. Len(es) :
          /\ Entry(t, S, m, j = 1, es[j])
          /\ es[j].p = IF j = 1 THEN at ELSE es[j - 1].e
          /\ at <= es[j].p /\ es[j].e <= Behind(at, es)

Node(t, S, r) ==
    /\ r \in NodeSet
    /\ Entries(t, S, r.m, r.at, r.es)
    /\ Len(r.es) # 0 /\ Keys(r.es) = DOMAIN r.m
    /\ t[Behind(r.at, r.es)] = BRC
    /\ r.end = Behind(r.at, r.es) + 1 /\ r.end <= Len(t) + 1

Structure(t, S) == \A r \in S : Node(t, S, r)
-----------------------------------------------------------------------------
(* Braces.                                                                 *)
Those(t, c, i, j) == {x \in i .. j : t[x] = c}
Count(t, c, i, j) == Cardinality(Those(t, c, i, j))
Depth(t, i) == Count(t, BRO, 1, i) - Count(t, BRC, 1, i)

LEMMA CountType ==
  ASSUME NEW t, NEW c, NEW i \in Nat, NEW j \in Nat
  PROVE  IsFiniteSet(Those(t, c, i, j)) /\ Count(t, c, i, j) \in Nat
<1>1. IsFiniteSet(i .. j) /\ Those(t, c, i, j) \subseteq i .. j
      BY FS_Interval DEF Those
<1>2. IsFiniteSet(Those(t, c, i, j))
      BY <1>1, FS_Subset
<1>3. QED
      BY <1>2, FS_CardinalityType DEF Count

LEMMA CountSplit ==
  ASSUME NEW t, NEW c, NEW i \in Nat, NEW x \in Nat, NEW j \in Nat, i <= x + 1, x <= j
  PROVE  Count(t, c, i, j) = Count(t, c, i, x) + Count(t, c, x + 1, j)
<1> DEFINE A == Those(t, c, i, x)
           B == Those(t, c, x + 1, j)
<1>1. Those(t, c, i, j) = A \cup B /\ A \cap B = {}
      BY DEF Those
<1>2. x + 1 \in Nat
      OBVIOUS
<1>3. IsFiniteSet(A) /\ IsFiniteSet(B) /\ Cardinality(A) \in Nat /\ Cardinality(B) \in Nat
      BY <1>2, CountType DEF Count
<1> HIDE DEF A, B
<1>4. Cardinality(A \cup B) = Cardinality(A) + Cardinality(B) - Cardinality(A \cap B)
      BY <1>3, FS_Union
<1>5. Cardinality(A \cap B) = 0
      BY <1>1, FS_EmptySet
<1>6. QED
      BY <1>1, <1>3, <1>4, <1>5 DEF Count, A, B

LEMMA CountOne ==
  ASSUME NEW t, NEW c, NEW i \in Nat
  PROVE  Count(t, c, i, i) = IF t[i] = c THEN 1 ELSE 0
<1>1. Those(t, c, i, i) = IF t[i] = c THEN {i} ELSE {}
      BY DEF Those
<1>2. QED
      BY <1>1, FS_EmptySet, FS_Singleton DEF Count

LEMMA DepthStep ==
  ASSUME NEW t, NEW i \in Nat \ {0}
  PROVE  /\ Depth(t, i) \in Int /\ Depth(t, i - 1) \in Int
         /\ t[i] = BRO => Depth(t, i) = Depth(t, i - 1) + 1
         /\ t[i] = BRC => Depth(t, i) = Depth(t, i - 1) - 1
         /\ t[i] \notin {BRO, BRC} => Depth(t, i) = Depth(t, i - 1)
<1>1. i - 1 \in Nat /\ 1 <= (i - 1) + 1 /\ i - 1 <= i /\ (i - 1) + 1 = i /\ 1 \in Nat
      OBVIOUS
<1>2. ASSUME NEW c
      PROVE  Count(t, c, 1, i) = Count(t, c, 1, i - 1) + Count(t, c, i, i)
  <2> DEFINE x == i - 1
             y == x + 1
  <2>1. x \in Nat /\ 1 \in Nat /\ i \in Nat /\ 1 <= x + 1 /\ x <= i /\ y = i
        OBVIOUS
  <2> HIDE DEF x
  <2>2. Count(t, c, 1, i) = Count(t, c, 1, x) + Count(t, c, x + 1, i)
        BY <2>1, CountSplit
  <2>3. QED
        BY <2>1, <2>2 DEF x
<1>3. \A c : Count(t, c, 1, i) \in Nat /\ Count(t, c, 1, i - 1) \in Nat
      BY <1>1, CountType
<1>4. \A c : Count(t, c, i, i) = IF t[i] = c THEN 1 ELSE 0
      BY CountOne
<1>5. BRO # BRC
      BY DEF BRO, BRC
<1>6. QED
      BY <1>2, <1>3, <1>4, <1>5 DEF Depth

LEMMA Least ==
  ASSUME NEW T \in SUBSET Nat, T # {}
  PROVE  \E x \in T : \A y \in T : x <= y
<1>1. PICK x \in T : \A y \in T : ~(<<y, x>> \in OpToRel(<, Nat))
      BY NatLessThanWellFounded, WFMin
<1>2. ASSUME NEW y \in T
      PROVE  x <= y
  <2>1. x \in Nat /\ y \in Nat /\ ~(y < x)
        BY <1>1 DEF OpToRel
  <2>2. QED
        BY <2>1
<1>3. QED
      BY <1>2

(* Text without braces.                                                    *)
Flat(t, i, j) == \A x \in i - 1 .. j : Depth(t, x) = Depth(t, i - 1)

LEMMA DepthFlat ==
  ASSUME NEW t, NEW i \in Nat \ {0}, NEW j \in Nat,
         \A x \in i .. j : t[x] \notin {BRO, BRC}
  PROVE  Flat(t, i, j)
<1> DEFINE T == {x \in i - 1 .. j : Depth(t, x) # Depth(t, i - 1)}
<1> SUFFICES ASSUME T # {} PROVE FALSE
    BY DEF Flat
<1>1. T \in SUBSET Nat
      OBVIOUS
<1>2. PICK x \in T : \A y \in T : x <= y
  <2> HIDE DEF T
  <2>1. QED
        BY <1>1, Least
<1>3. x \in i .. j /\ x - 1 \in i - 1 .. j /\ x \in Nat \ {0}
      BY <1>2
<1>4. x - 1 \notin T
  <2>1. ~(x <= x - 1)
        BY <1>3
  <2>2. QED
        BY <1>2, <2>1
<1>5. Depth(t, x - 1) = Depth(t, i - 1)
      BY <1>3, <1>4
<1>6. Depth(t, x) = Depth(t, x - 1)
      BY <1>3, DepthStep
<1>7. QED
      BY <1>2, <1>5, <1>6

(* Between the braces of a map it is deeper than before them.              *)
Balanced(t, r) ==
    /\ \A i \in r.at .. r.end - 2 : Depth(t, i) > Depth(t, r.at - 1)
    /\ Depth(t, r.end - 1) = Depth(t, r.at - 1)

LEMMA LeafPlain ==
  ASSUME NEW v \in Leaves
  PROVE  /\ Len(LeafText(v)) \in Nat \ {0}
         /\ \A i \in 1 .. Len(LeafText(v)) : LeafText(v)[i] \notin {BRO, BRC}
<1>1. CASE v = Str(v.value) /\ v.value \in Seq(Plain)
  <2> DEFINE s == v.value
  <2>1. LeafText(v) = (<<QTM>> \o s) \o <<QTM>>
        BY <1>1 DEF LeafText, Str
  <2>2. s \in Seq(Plain)
        BY <1>1
  <2> HIDE DEF s
  <2>3. Len(LeafText(v)) = Len(s) + 2
        BY <2>1, <2>2
  <2>4. ASSUME NEW i \in 1 .. Len(s) + 2
        PROVE  LeafText(v)[i] = QTM \/ LeafText(v)[i] \in Plain
        BY <2>1, <2>2
  <2>5. \A c : c = QTM \/ c \in Plain => c \notin {BRO, BRC}
        BY TextAssumption DEF QTM, BRO, BRC
  <2>6. QED
        BY <2>2, <2>3, <2>4, <2>5
<1>2. CASE v = Num(v.value) /\ IsNumber(v.value)
  <2>1. LeafText(v) = v.value
        BY <1>2 DEF LeafText, Num
  <2>2. v.value \in Seq(Digits \cup {"-"}) /\ v.value # <<>>
        BY <1>2 DEF IsNumber
  <2>3. \A c \in Digits \cup {"-"} : c \notin {BRO, BRC}
        BY DEF Digits, BRO, BRC
  <2>4. QED
        BY <2>1, <2>2, <2>3
<1>3. QED
      BY <1>1, <1>2, TextAssumption DEF IsLeaf

LEMMA HeadPlaces ==
  ASSUME NEW p \in Nat, NEW a \in Nat, NEW b \in Nat, NEW i \in p + 1 .. (p + a + b + 4) - 1,
         NEW q, q = p + a + 1
  PROVE  \/ i \in p + 1 .. q - 1 \/ i \in q + 1 .. q + b
         \/ i = q \/ i = q + b + 1 \/ i = q + b + 2
OBVIOUS

LEMMA EntryType ==
  ASSUME NEW x \in EntrySet
  PROVE  /\ x.p \in Nat \ {0} /\ x.v \in Nat \ {0} /\ x.e \in Nat \ {0}
         /\ x.g \in Seq(Plain) /\ x.k \in Seq(Plain) /\ Len(x.g) \in Nat /\ Len(x.k) \in Nat
BY DEF EntrySet

LEMMA EntryOrder ==
  ASSUME NEW t, NEW S, NEW m, NEW first, NEW x \in EntrySet, Entry(t, S, m, first, x)
  PROVE  x.p < x.v /\ x.v < x.e /\ x.p < x.e
<1> DEFINE p == x.p
           v == x.v
           e == x.e
           a == Len(x.g)
           b == Len(x.k)
<1>1. p \in Nat /\ v \in Nat /\ e \in Nat /\ a \in Nat /\ b \in Nat
      BY EntryType
<1>2. v = p + a + b + 4 /\ v < e
      BY DEF Entry
<1> HIDE DEF p, v, e, a, b
<1>3. p < v /\ v < e /\ p < e
      BY <1>1, <1>2
<1>4. QED
      BY <1>3 DEF p, v, e

LEMMA EntryDepth ==
  ASSUME NEW t \in Seq(Chars), NEW S, NEW m, NEW first \in BOOLEAN, NEW x \in EntrySet,
         Entry(t, S, m, first, x),
         \A c \in S : c.at = x.v /\ c.end = x.e => Balanced(t, c)
  PROVE  /\ \A i \in x.p .. x.e - 1 : Depth(t, i) >= Depth(t, x.p)
         /\ Depth(t, x.e - 1) = Depth(t, x.p)
         /\ t[x.p] = IF first THEN BRO ELSE COA
<1> DEFINE q == x.p + Len(x.g) + 1
<1>1. /\ x.p \in Nat \ {0} /\ x.v \in Nat \ {0} /\ x.e \in Nat \ {0}
      /\ x.g \in Seq(Plain) /\ x.k \in Seq(Plain) /\ Len(x.g) \in Nat /\ Len(x.k) \in Nat
      BY EntryType
<1>2. x.v = x.p + Len(x.g) + Len(x.k) + 4 /\ x.v < x.e
      BY DEF Entry
<1>3. /\ t[x.p] = IF first THEN BRO ELSE COA
      /\ \A i \in x.p + 1 .. q - 1 : t[i] \in Plain
      /\ t[q] = QTM /\ Holds(t, x.k, q + 1)
      /\ t[q + Len(x.k) + 1] = QTM /\ t[q + Len(x.k) + 2] = COL
  <2>1. Holds(t, EntryHead(first, x.g, x.k), x.p)
        BY DEF Entry
  <2> DEFINE g == x.g
             k == x.k
             p == x.p
  <2>2. /\ g \in Seq(Plain) /\ k \in Seq(Plain) /\ p \in Nat \ {0} /\ q = p + Len(g) + 1
        /\ Holds(t, EntryHead(first, g, k), p)
        BY <1>1, <2>1
  <2> HIDE DEF q, g, k, p
  <2>3. HeadAt(t, first, g, k, p, q)
        BY <2>2, HeadParts
  <2>4. QED
        BY <2>3 DEF HeadAt, g, k, p
<1>4. q \in Nat /\ q = x.p + Len(x.g) + 1
      BY <1>1
<1> HIDE DEF q
<1>5. ASSUME NEW i \in x.p + 1 .. x.v - 1
      PROVE  t[i] \notin {BRO, BRC}
  <2>1. \A c : c \in Plain => c \notin {BRO, BRC}
        BY TextAssumption
  <2>2. QTM \notin {BRO, BRC} /\ COL \notin {BRO, BRC}
        BY DEF QTM, BRO, BRC, COL
  <2>3. CASE i \in x.p + 1 .. q - 1
        BY <2>1, <2>3, <1>3
  <2>4. CASE i \in q + 1 .. q + Len(x.k)
    <3>1. i - q \in 1 .. Len(x.k) /\ x.k[i - q] \in Plain
      <4>1. Len(x.k) \in Nat /\ x.k \in Seq(Plain)
            BY <1>1
      <4>2. i - q \in 1 .. Len(x.k)
            BY <1>4, <2>4, <4>1
      <4>3. QED
            BY <4>1, <4>2
    <3>2. t[(q + 1) + (i - q) - 1] = x.k[i - q]
          BY <1>3, <3>1 DEF Holds
    <3>3. (q + 1) + (i - q) - 1 = i
          BY <1>1, <1>4
    <3>4. QED
          BY <2>1, <3>1, <3>2, <3>3
  <2>5. CASE i = q \/ i = q + Len(x.k) + 1 \/ i = q + Len(x.k) + 2
        BY <2>2, <2>5, <1>3
  <2>6. i \in x.p + 1 .. q - 1 \/ i \in q + 1 .. q + Len(x.k)
           \/ i = q \/ i = q + Len(x.k) + 1 \/ i = q + Len(x.k) + 2
    <3>1. x.p \in Nat /\ Len(x.g) \in Nat /\ Len(x.k) \in Nat
          BY <1>1
    <3>2. i \in x.p + 1 .. (x.p + Len(x.g) + Len(x.k) + 4) - 1
          BY <1>2
    <3>3. q = x.p + Len(x.g) + 1
          BY <1>4
    <3> DEFINE p == x.p
               a == Len(x.g)
               b == Len(x.k)
    <3>4. p \in Nat /\ a \in Nat /\ b \in Nat /\ i \in p + 1 .. (p + a + b + 4) - 1 /\ q = p + a + 1
          BY <3>1, <3>2, <3>3
    <3> HIDE DEF p, a, b
    <3>5. \/ i \in p + 1 .. q - 1 \/ i \in q + 1 .. q + b
          \/ i = q \/ i = q + b + 1 \/ i = q + b + 2
          BY <3>4, HeadPlaces
    <3>6. QED
          BY <3>5 DEF p, a, b
  <2>7. QED
        BY <2>3, <2>4, <2>5, <2>6
<1> DEFINE h == Depth(t, x.p)
<1>6. h \in Int
      BY <1>1, DepthStep
<1>7. \A i \in x.p .. x.v - 1 : Depth(t, i) = h
  <2> DEFINE a == x.p + 1
             b == x.v - 1
  <2>1. a \in Nat \ {0} /\ b \in Nat /\ a - 1 = x.p /\ \A i \in a .. b : t[i] \notin {BRO, BRC}
        BY <1>1, <1>5
  <2> HIDE DEF a, b
  <2>2. Flat(t, a, b)
        BY <2>1, DepthFlat
  <2>3. \A i \in x.p .. b : Depth(t, i) = Depth(t, x.p)
        BY <2>1, <2>2 DEF Flat
  <2>4. QED
        BY <2>3 DEF b
<1>8. Depth(t, x.v - 1) = h
  <2>1. x.v - 1 \in x.p .. x.v - 1
        BY <1>1, <1>2
  <2>2. QED
        BY <1>7, <2>1
<1> HIDE DEF h
<1>9. CASE m[x.k] \in Leaves /\ Holds(t, LeafText(m[x.k]), x.v) /\ x.e = x.v + Len(LeafText(m[x.k]))
  <2> DEFINE s == LeafText(m[x.k])
  <2>1. Len(s) \in Nat /\ \A i \in 1 .. Len(s) : s[i] \notin {BRO, BRC}
        BY <1>9, LeafPlain
  <2>2. Holds(t, s, x.v) /\ x.e = x.v + Len(s)
        BY <1>9
  <2> HIDE DEF s
  <2>3. ASSUME NEW i \in x.v .. x.e - 1
        PROVE  t[i] \notin {BRO, BRC}
    <3>1. i - x.v + 1 \in 1 .. Len(s)
          BY <1>1, <2>1, <2>2
    <3>2. t[x.v + (i - x.v + 1) - 1] = s[i - x.v + 1]
          BY <2>2, <3>1 DEF Holds
    <3>3. x.v + (i - x.v + 1) - 1 = i
          BY <1>1
    <3>4. QED
          BY <2>1, <3>1, <3>2, <3>3
  <2>4. \A i \in x.v - 1 .. x.e - 1 : Depth(t, i) = Depth(t, x.v - 1)
    <3> DEFINE b == x.e - 1
    <3>1. b \in Nat /\ x.v \in Nat \ {0} /\ \A i \in x.v .. b : t[i] \notin {BRO, BRC}
          BY <1>1, <2>3
    <3> HIDE DEF b
    <3>2. Flat(t, x.v, b)
          BY <3>1, DepthFlat
    <3>3. QED
          BY <3>2 DEF Flat, b
  <2>5. \A i \in x.p .. x.e - 1 : Depth(t, i) = h
    <3>1. SUFFICES ASSUME NEW i \in x.p .. x.e - 1 PROVE Depth(t, i) = h
          OBVIOUS
    <3>2. i \in x.p .. x.v - 1 \/ i \in x.v - 1 .. x.e - 1
          BY <1>1
    <3>3. QED
          BY <1>7, <1>8, <2>4, <3>2
  <2>6. x.e - 1 \in x.p .. x.e - 1
        BY <1>1, EntryOrder
  <2>7. QED
        BY <1>3, <1>6, <2>5, <2>6 DEF h
<1>10. CASE \E c \in S : m[x.k] = Child(c.m) /\ c.at = x.v /\ c.end = x.e
  <2>1. PICK c \in S : c.at = x.v /\ c.end = x.e
        BY <1>10
  <2>2. /\ \A i \in x.v .. x.e - 2 : Depth(t, i) > h
        /\ Depth(t, x.e - 1) = h
        BY <1>8, <2>1 DEF Balanced
  <2>3. \A i \in x.p .. x.e - 1 : Depth(t, i) >= h
    <3>1. SUFFICES ASSUME NEW i \in x.p .. x.e - 1 PROVE Depth(t, i) >= h
          OBVIOUS
    <3>2. i \in x.p .. x.v - 1 \/ i \in x.v .. x.e - 2 \/ i = x.e - 1
          BY <1>1
    <3>3. i \in Nat \ {0}
          BY <1>1
    <3>4. Depth(t, i) \in Int
          BY <3>3, DepthStep
    <3>5. QED
          BY <1>6, <1>7, <2>2, <3>2, <3>4
  <2>4. QED
        BY <1>3, <2>2, <2>3 DEF h
<1>11. QED
      BY <1>9, <1>10 DEF Entry, Value

LEMMA NodeDepth ==
  ASSUME NEW t \in Seq(Chars), NEW S, Structure(t, S), NEW r \in S,
         \A c \in S : c.end - c.at < r.end - r.at => Balanced(t, c)
  PROVE  Balanced(t, r)
<1> DEFINE es == r.es
           h  == Depth(t, r.at - 1)
<1>1. Node(t, S, r)
      BY DEF Structure
<1>2. /\ es \in Seq(EntrySet) /\ Len(es) \in Nat \ {0} /\ r.at \in Nat \ {0} /\ r.end \in Nat
      /\ Entries(t, S, r.m, r.at, es)
      BY <1>1 DEF Node, NodeSet
<1>3. \A j \in 1 .. Len(es) :
         /\ es[j] \in EntrySet /\ Entry(t, S, r.m, j = 1, es[j])
         /\ es[j].p \in Nat \ {0} /\ es[j].e \in Nat \ {0} /\ es[j].v \in Nat \ {0}
         /\ es[j].p = IF j = 1 THEN r.at ELSE es[j - 1].e
         /\ r.at <= es[j].p /\ es[j].e <= r.end - 1 /\ es[j].p < es[j].v /\ es[j].v < es[j].e
  <2>1. SUFFICES ASSUME NEW j \in 1 .. Len(es)
        PROVE  /\ es[j] \in EntrySet /\ Entry(t, S, r.m, j = 1, es[j])
               /\ es[j].p \in Nat \ {0} /\ es[j].e \in Nat \ {0} /\ es[j].v \in Nat \ {0}
               /\ es[j].p = IF j = 1 THEN r.at ELSE es[j - 1].e
               /\ r.at <= es[j].p /\ es[j].e <= r.end - 1
               /\ es[j].p < es[j].v /\ es[j].v < es[j].e
        OBVIOUS
  <2>2. es[j] \in EntrySet
        BY <1>2
  <2>3. es[j].p \in Nat \ {0} /\ es[j].e \in Nat \ {0} /\ es[j].v \in Nat \ {0}
        BY <2>2, EntryType
  <2>4. Entry(t, S, r.m, j = 1, es[j])
        BY <1>2 DEF Entries
  <2>5. es[j].p < es[j].v /\ es[j].v < es[j].e
        BY <2>2, <2>4, EntryOrder
  <2>6. /\ es[j].p = IF j = 1 THEN r.at ELSE es[j - 1].e
        /\ r.at <= es[j].p /\ es[j].e <= Behind(r.at, es)
        BY <1>2 DEF Entries
  <2>7. Behind(r.at, es) = r.end - 1
    <3>1. Len(es) \in 1 .. Len(es)
          BY <1>2
    <3>2. Behind(r.at, es) \in Nat
      <4>1. es[Len(es)] \in EntrySet
            BY <1>2, <3>1
      <4>2. QED
            BY <1>2, <4>1 DEF Behind, EntrySet
    <3>3. QED
          BY <1>1, <3>2 DEF Node
  <2>8. QED
        BY <2>2, <2>3, <2>4, <2>5, <2>6, <2>7
<1>4. ASSUME NEW j \in 1 .. Len(es)
      PROVE  /\ \A i \in es[j].p .. es[j].e - 1 : Depth(t, i) >= Depth(t, es[j].p)
             /\ Depth(t, es[j].e - 1) = Depth(t, es[j].p)
             /\ t[es[j].p] = IF j = 1 THEN BRO ELSE COA
  <2>1. \A c \in S : c.at = es[j].v /\ c.end = es[j].e => Balanced(t, c)
    <3>1. /\ es[j].p \in Nat /\ es[j].e \in Nat /\ es[j].v \in Nat
          /\ r.at <= es[j].p /\ es[j].e <= r.end - 1 /\ es[j].p < es[j].v
          BY <1>3
    <3> DEFINE p == es[j].p
               v == es[j].v
               e == es[j].e
               a == r.at
               z == r.end
    <3>2. p \in Nat /\ v \in Nat /\ e \in Nat /\ a \in Nat /\ z \in Nat
          /\ a <= p /\ e <= z - 1 /\ p < v
          BY <1>2, <3>1
    <3> HIDE DEF p, v, e, a, z
    <3>3. e - v < z - a
          BY <3>2
    <3>4. QED
          BY <3>3 DEF p, v, e, a, z
  <2>2. (j = 1) \in BOOLEAN
        OBVIOUS
  <2>3. es[j] \in EntrySet /\ Entry(t, S, r.m, j = 1, es[j])
        BY <1>3
  <2> DEFINE x == es[j]
             first == j = 1
  <2>4. x \in EntrySet /\ Entry(t, S, r.m, first, x)
        /\ \A c \in S : c.at = x.v /\ c.end = x.e => Balanced(t, c)
        BY <2>1, <2>3
  <2>5. first \in BOOLEAN
        OBVIOUS
  <2> HIDE DEF x, first
  <2>6. /\ \A i \in x.p .. x.e - 1 : Depth(t, i) >= Depth(t, x.p)
        /\ Depth(t, x.e - 1) = Depth(t, x.p)
        /\ t[x.p] = IF first THEN BRO ELSE COA
        BY <2>4, <2>5, EntryDepth
  <2>7. QED
        BY <2>6 DEF x, first
<1>5. h \in Int
      BY <1>2, DepthStep
<1> DEFINE Good(j) == /\ Depth(t, es[j].e - 1) = h + 1
                      /\ \A i \in r.at .. es[j].e - 1 : Depth(t, i) >= h + 1
           T == {j \in 1 .. Len(es) : ~Good(j)}
<1>6. T = {}
  <2> SUFFICES ASSUME T # {} PROVE FALSE
      OBVIOUS
  <2>1. T \in SUBSET Nat
        OBVIOUS
  <2>2. PICK j \in T : \A y \in T : j <= y
    <3> HIDE DEF T
    <3>1. QED
          BY <2>1, Least
  <2>3. j \in 1 .. Len(es) /\ ~Good(j)
        OBVIOUS
  <2>4. Depth(t, es[j].p) = h + 1
    <3>1. es[j].p \in Nat \ {0}
          BY <1>3, <2>3
    <3>2. CASE j = 1
      <4>1. es[j].p = r.at /\ t[r.at] = BRO
            BY <1>3, <1>4, <2>3, <3>2
      <4>2. Depth(t, r.at) = Depth(t, r.at - 1) + 1
            BY <1>2, <4>1, DepthStep
      <4>3. QED
            BY <4>1, <4>2
    <3>3. CASE j # 1
      <4>1. j - 1 \in 1 .. Len(es) /\ j - 1 \notin T
        <5>1. j - 1 \in 1 .. Len(es) /\ ~(j <= j - 1)
              BY <2>3, <3>3
        <5>2. QED
              BY <2>2, <5>1
      <4>2. Depth(t, es[j - 1].e - 1) = h + 1
            BY <4>1
      <4>3. es[j].p = es[j - 1].e /\ t[es[j].p] = COA
            BY <1>3, <1>4, <2>3, <3>3
      <4>4. COA \notin {BRO, BRC}
            BY DEF COA, BRO, BRC
      <4>5. QED
            BY <3>1, <4>2, <4>3, <4>4, DepthStep
    <3>4. QED
          BY <3>2, <3>3
  <2>5. Depth(t, es[j].e - 1) = h + 1
        BY <1>4, <2>3, <2>4
  <2>6. ASSUME NEW i \in r.at .. es[j].e - 1
        PROVE  Depth(t, i) >= h + 1
    <3>1. CASE i >= es[j].p
      <4>1. i \in es[j].p .. es[j].e - 1
            BY <1>2, <1>3, <2>3, <3>1
      <4>2. QED
            BY <1>4, <2>3, <2>4, <4>1
    <3>2. CASE i < es[j].p
      <4>1. j # 1
            BY <1>2, <1>3, <2>3, <3>2
      <4>2. j - 1 \in 1 .. Len(es) /\ j - 1 \notin T
        <5>1. j - 1 \in 1 .. Len(es) /\ ~(j <= j - 1)
              BY <2>3, <4>1
        <5>2. QED
              BY <2>2, <5>1
      <4>3. i \in r.at .. es[j - 1].e - 1
        <5>1. es[j].p = es[j - 1].e /\ es[j].p \in Nat
              BY <1>3, <2>3, <4>1
        <5>2. i \in r.at .. es[j].p - 1
              BY <1>2, <3>2, <5>1
        <5>3. QED
              BY <5>1, <5>2
      <4>4. QED
            BY <4>2, <4>3
    <3>3. es[j].p \in Nat /\ i \in Nat
          BY <1>2, <1>3, <2>3
    <3>4. QED
          BY <3>1, <3>2, <3>3
  <2>7. QED
        BY <2>3, <2>5, <2>6
<1>7. Good(Len(es))
  <2>1. Len(es) \in 1 .. Len(es)
        BY <1>2
  <2>2. QED
        BY <1>6, <2>1
<1>8. es[Len(es)].e = r.end - 1 /\ t[r.end - 1] = BRC /\ r.end - 1 \in Nat \ {0}
  <2>1. Len(es) \in 1 .. Len(es)
        BY <1>2
  <2>2. es[Len(es)].e \in Nat \ {0}
        BY <1>3, <2>1
  <2>3. QED
        BY <1>1, <1>2, <2>2 DEF Node, Behind
<1>9. Depth(t, r.end - 1) = h
  <2> DEFINE z == r.end - 1
  <2>1. Depth(t, z - 1) = h + 1 /\ t[z] = BRC /\ z \in Nat \ {0}
        BY <1>7, <1>8
  <2> HIDE DEF z
  <2>2. Depth(t, z) = h
        BY <1>5, <2>1, DepthStep
  <2>3. QED
        BY <2>2 DEF z
<1>10. \A i \in r.at .. r.end - 2 : Depth(t, i) > h
  <2>1. SUFFICES ASSUME NEW i \in r.at .. r.end - 2 PROVE Depth(t, i) > h
        OBVIOUS
  <2>2. i \in r.at .. es[Len(es)].e - 1 /\ i \in Nat \ {0}
        BY <1>2, <1>8
  <2>3. Depth(t, i) >= h + 1 /\ Depth(t, i) \in Int
        BY <1>7, <2>2, DepthStep
  <2>4. QED
        BY <1>5, <2>3
<1>11. QED
       BY <1>9, <1>10 DEF Balanced

LEMMA AllBalanced ==
  ASSUME NEW t \in Seq(Chars), NEW S, Structure(t, S)
  PROVE  \A r \in S : Balanced(t, r)
<1>1. \A r \in S : r.end - r.at \in Nat
  <2>1. SUFFICES ASSUME NEW r \in S PROVE r.end - r.at \in Nat
        OBVIOUS
  <2>2. Node(t, S, r)
        BY DEF Structure
  <2>3. r.at \in Nat /\ r.end \in Nat /\ r.es \in Seq(EntrySet) /\ Len(r.es) \in Nat \ {0}
        BY <2>2 DEF Node, NodeSet
  <2>4. r.es[Len(r.es)] \in EntrySet
        BY <2>3
  <2>5. Behind(r.at, r.es) \in Nat
        BY <2>3, <2>4 DEF Behind, EntrySet
  <2>6. r.at <= Behind(r.at, r.es) /\ r.end = Behind(r.at, r.es) + 1
        BY <2>2 DEF Node, Entries
  <2>7. QED
        BY <2>3, <2>5, <2>6
<1> DEFINE T == {r.end - r.at : r \in {c \in S : ~Balanced(t, c)}}
<1> SUFFICES ASSUME T # {} PROVE FALSE
    OBVIOUS
<1>2. T \in SUBSET Nat
      BY <1>1
<1>3. PICK n \in T : \A y \in T : n <= y
  <2> HIDE DEF T
  <2>1. QED
        BY <1>2, Least
<1>4. PICK r \in S : ~Balanced(t, r) /\ n = r.end - r.at
      OBVIOUS
<1>5. ASSUME NEW c \in S, c.end - c.at < r.end - r.at
      PROVE  Balanced(t, c)
  <2>1. SUFFICES ASSUME ~Balanced(t, c) PROVE FALSE
        OBVIOUS
  <2>2. c.end - c.at \in T /\ c.end - c.at \in Nat /\ r.end - r.at \in Nat
        BY <1>1, <2>1
  <2>3. r.end - r.at <= c.end - c.at
        BY <1>3, <1>4, <2>2
  <2>4. QED
        BY <1>5, <2>2, <2>3
<1>6. QED
      BY <1>4, <1>5, NodeDepth

LEMMA NodeType ==
  ASSUME NEW t \in Seq(Chars), NEW S, Structure(t, S), NEW r \in S
  PROVE  /\ r.m \in Documents /\ r.at \in Nat \ {0} /\ r.end \in Nat
         /\ r.es \in Seq(EntrySet) /\ Len(r.es) \in Nat \ {0}
         /\ Behind(r.at, r.es) = r.es[Len(r.es)].e
         /\ Behind(r.at, r.es) = r.end - 1
         /\ r.at < r.end /\ r.end <= Len(t) + 1 /\ t[r.end - 1] = BRC
<1>1. Node(t, S, r)
      BY DEF Structure
<1>2. r.m \in Documents /\ r.at \in Nat \ {0} /\ r.end \in Nat /\ r.es \in Seq(EntrySet)
      BY <1>1 DEF Node, NodeSet
<1>3. Len(r.es) \in Nat \ {0}
      BY <1>1, <1>2 DEF Node
<1>4. r.es[Len(r.es)] \in EntrySet
      BY <1>2, <1>3
<1>5. r.es[Len(r.es)].e \in Nat
      BY <1>4 DEF EntrySet
<1>6. Behind(r.at, r.es) = r.es[Len(r.es)].e
      BY <1>3 DEF Behind
<1>7. /\ r.at <= Behind(r.at, r.es) /\ r.end = Behind(r.at, r.es) + 1
      /\ r.end <= Len(t) + 1 /\ t[Behind(r.at, r.es)] = BRC
      BY <1>1 DEF Node, Entries
<1>8. Behind(r.at, r.es) = r.end - 1
      BY <1>5, <1>6, <1>7
<1>9. QED
      BY <1>2, <1>3, <1>5, <1>6, <1>7, <1>8

(* The braces that json_parse counts show it where a map ends.             *)
LEMMA ClosesBehind ==
  ASSUME text \in Seq(Chars), NEW S, Structure(text, S), NEW r \in S,
         NEW end \in Nat, r.end <= end
  PROVE  Closes(r.at, end) = r.end
<1> DEFINE at == r.at
           h  == Depth(text, at - 1)
           open(i, c) == Cardinality({j \in at .. i : text[j] = c})
           even == {i \in at .. end - 1 : open(i, BRO) = open(i, BRC)}
           z == r.end - 1
<1>1. at \in Nat \ {0} /\ z \in Nat /\ at <= z /\ z <= end - 1 /\ z + 1 = r.end
      BY NodeType
<1>2. /\ \A i \in at .. z - 1 : Depth(text, i) > h
      /\ Depth(text, z) = h
  <2>1. Balanced(text, r)
        BY AllBalanced
  <2>2. r.end - 2 = z - 1
        BY NodeType
  <2>3. QED
        BY <2>1, <2>2 DEF Balanced
<1>3. \A i, c : open(i, c) = Count(text, c, at, i)
      BY DEF Count, Those
<1> HIDE DEF at, z
<1>4. ASSUME NEW i \in at .. end - 1
      PROVE  /\ Depth(text, i) = h + (open(i, BRO) - open(i, BRC)) /\ h \in Int
             /\ open(i, BRO) \in Nat /\ open(i, BRC) \in Nat
  <2>1. ASSUME NEW c
        PROVE  /\ Count(text, c, 1, i) = Count(text, c, 1, at - 1) + open(i, c)
               /\ Count(text, c, 1, at - 1) \in Nat /\ open(i, c) \in Nat
    <3> DEFINE x == at - 1
               y == x + 1
    <3>1. x \in Nat /\ i \in Nat /\ 1 \in Nat /\ 1 <= x + 1 /\ x <= i /\ y = at /\ at \in Nat
          BY <1>1
    <3> HIDE DEF x
    <3>2. Count(text, c, 1, i) = Count(text, c, 1, x) + Count(text, c, x + 1, i)
          BY <3>1, CountSplit
    <3>3. Count(text, c, 1, x) \in Nat /\ Count(text, c, at, i) \in Nat
          BY <3>1, CountType
    <3>4. QED
          BY <1>3, <3>1, <3>2, <3>3 DEF x
  <2> HIDE DEF open
  <2>2. QED
        BY <2>1 DEF Depth
<1>5. z \in even
  <2>1. z \in at .. end - 1
        BY <1>1
  <2>2. open(z, BRO) = open(z, BRC)
    <3> HIDE DEF open
    <3>1. Depth(text, z) = h + (open(z, BRO) - open(z, BRC)) /\ h \in Int
          /\ open(z, BRO) \in Nat /\ open(z, BRC) \in Nat
          BY <1>4, <2>1
    <3> HIDE DEF h
    <3>2. QED
          BY <1>2, <3>1
  <2>3. QED
        BY <2>1, <2>2
<1>6. \A y \in even : z <= y
  <2>1. SUFFICES ASSUME NEW y \in even, y < z PROVE FALSE
        BY <1>1
  <2>2. y \in at .. end - 1 /\ open(y, BRO) = open(y, BRC)
        OBVIOUS
  <2>3. y \in at .. z - 1
        BY <1>1, <2>1, <2>2
  <2> HIDE DEF open
  <2>4. Depth(text, y) = h /\ h \in Int
        BY <1>4, <2>2
  <2>5. QED
        BY <1>2, <2>3, <2>4
<1>7. Closes(at, end) = IF even = {} THEN end ELSE Min(even) + 1
      BY DEF Closes
<1>8. Min(even) = z
  <2>1. \A y \in even : y \in Int
        OBVIOUS
  <2> HIDE DEF even
  <2>2. \A x \in even : (\A y \in even : x <= y) => x = z
        BY <1>1, <1>5, <1>6, <2>1
  <2>3. QED
        BY <1>5, <1>6, <2>2 DEF Min
<1>9. QED
      BY <1>1, <1>5, <1>7, <1>8 DEF at
-----------------------------------------------------------------------------
(* Stacks.                                                                 *)
LEMMA PopStack ==
  ASSUME NEW T, NEW s \in Seq(T), NEW n \in Nat \ {0}, n = Len(s)
  PROVE  /\ Front(s) \in Seq(T) /\ Len(Front(s)) = n - 1
         /\ \A i \in 1 .. n - 1 : Front(s)[i] = s[i]
         /\ Last(s) = s[n] /\ Last(s) \in T
<1>1. Last(s) = s[n] /\ Last(s) \in T
      BY DEF Last
<1> DEFINE x == n - 1
<1>2. Front(s) = SubSeq(s, 1, x) /\ x \in 0 .. n
      BY DEF Front
<1> HIDE DEF x
<1>3. SubSeq(s, 1, x) \in Seq(T) /\ Len(SubSeq(s, 1, x)) = x
      BY <1>2
<1>4. \A i \in 1 .. x : SubSeq(s, 1, x)[i] = s[i]
      BY <1>2
<1>5. QED
      BY <1>1, <1>2, <1>3, <1>4 DEF x

LEMMA PushStack ==
  ASSUME NEW T, NEW s \in Seq(T), NEW n \in Nat, n = Len(s), NEW x \in T
  PROVE  /\ Append(s, x) \in Seq(T) /\ Len(Append(s, x)) = n + 1
         /\ \A i \in 1 .. n : Append(s, x)[i] = s[i]
         /\ Append(s, x)[n + 1] = x
OBVIOUS

LEMMA TurnStack ==
  ASSUME NEW T, NEW s \in Seq(T), NEW n \in Nat \ {0}, n = Len(s), NEW x \in T
  PROVE  /\ Append(Front(s), x) \in Seq(T) /\ Len(Append(Front(s), x)) = n
         /\ \A i \in 1 .. n - 1 : Append(Front(s), x)[i] = s[i]
         /\ Append(Front(s), x)[n] = x
<1> DEFINE f == Front(s)
           y == n - 1
<1>1. f \in Seq(T) /\ Len(f) = y /\ (\A i \in 1 .. y : f[i] = s[i]) /\ y \in Nat /\ y + 1 = n
      BY PopStack
<1> HIDE DEF f, y
<1>2. Append(f, x) \in Seq(T) /\ Len(Append(f, x)) = y + 1
      /\ (\A i \in 1 .. y : Append(f, x)[i] = f[i]) /\ Append(f, x)[y + 1] = x
      BY <1>1, PushStack
<1>3. QED
      BY <1>1, <1>2 DEF f, y
-----------------------------------------------------------------------------
(* The documents under way: of each the entries that are complete, and of  *)
(* a caller the head of the one whose child is being written.              *)
FrameSet == [at : Nat \ {0}, es : Seq(EntrySet), g : Seq(Plain), k : Seq(Plain)]
WriteSet == [m : Documents, left : SUBSET ToSet(KeyOrder)]

Partial(t, S, w, f) ==
    w.left \subseteq DOMAIN w.m /\ Entries(t, S, w.m, f.at, f.es)

Top(t, w, f) ==
    Keys(f.es) = DOMAIN w.m \ w.left /\ Behind(f.at, f.es) = Len(t) + 1

Pending(t, w, f, m, at) ==
    /\ f.k \in DOMAIN w.m /\ w.m[f.k] = Child(m)
    /\ Holds(t, EntryHead(Len(f.es) = 0, f.g, f.k), Behind(f.at, f.es))
    /\ at = Behind(f.at, f.es) + Len(f.g) + Len(f.k) + 4
    /\ Keys(f.es) \cup {f.k} = DOMAIN w.m \ w.left

Below(t, S, ws, fr) ==
    \A i \in 1 .. Len(ws) - 1 :
        Partial(t, S, ws[i], fr[i]) /\ Pending(t, ws[i], fr[i], ws[i + 1].m, fr[i + 1].at)

Under(t, S, ws, fr) ==
    /\ ws \in Seq(WriteSet) /\ fr \in Seq(FrameSet) /\ Len(fr) = Len(ws)
    /\ t \in Seq(Chars) /\ Structure(t, S)
    /\ Below(t, S, ws, fr)
    /\ ws # <<>> => /\ Partial(t, S, ws[Len(ws)], fr[Len(ws)])
                    /\ Top(t, ws[Len(ws)], fr[Len(ws)])
                    /\ ws[1].m = doc /\ fr[1].at = 1

LEMMA BehindType ==
  ASSUME NEW at \in Nat \ {0}, NEW es \in Seq(EntrySet)
  PROVE  Behind(at, es) \in Nat \ {0}
<1>1. CASE Len(es) = 0
      BY <1>1 DEF Behind
<1>2. CASE Len(es) # 0
  <2>1. es[Len(es)] \in EntrySet
        BY <1>2
  <2>2. QED
        BY <1>2, <2>1 DEF Behind, EntrySet
<1>3. QED
      BY <1>1, <1>2

LEMMA KeysEmpty ==
  ASSUME NEW es \in Seq(EntrySet)
  PROVE  Len(es) = 0 <=> Keys(es) = {}
<1>1. Len(es) \in Nat
      OBVIOUS
<1>2. CASE Len(es) = 0
      BY <1>2 DEF Keys
<1>3. CASE Len(es) # 0
  <2>1. 1 \in 1 .. Len(es)
        BY <1>1, <1>3
  <2>2. es[1].k \in Keys(es)
        BY <2>1 DEF Keys
  <2>3. QED
        BY <1>3, <2>2
<1>4. QED
      BY <1>2, <1>3

LEMMA ThreeParts ==
  ASSUME NEW a \in Seq(Chars), NEW b \in Seq(Chars), NEW c \in Seq(Chars)
  PROVE  (a \o b) \o c = a \o (b \o c)
OBVIOUS

(* What is in the text and complete remains so.                            *)
LEMMA EntriesMore ==
  ASSUME NEW t \in Seq(Chars), NEW x \in Seq(Chars), NEW S, NEW S2, S \subseteq S2,
         NEW m, NEW at \in Nat \ {0}, NEW es \in Seq(EntrySet), Entries(t, S, m, at, es)
  PROVE  Entries(t \o x, S2, m, at, es)
<1>1. ASSUME NEW j \in 1 .. Len(es)
      PROVE  Entry(t \o x, S2, m, j = 1, es[j])
  <2> DEFINE z == es[j]
             first == j = 1
  <2>1. z \in EntrySet /\ first \in BOOLEAN /\ Entry(t, S, m, first, z)
        BY DEF Entries
  <2> HIDE DEF z, first
  <2>2. z.p \in Nat \ {0} /\ z.v \in Nat \ {0} /\ z.g \in Seq(Plain) /\ z.k \in Seq(Plain)
        BY <2>1 DEF EntrySet
  <2>3. EntryHead(first, z.g, z.k) \in Seq(Chars)
        BY <2>1, <2>2, HeadType
  <2>4. Holds(t \o x, EntryHead(first, z.g, z.k), z.p)
        BY <2>1, <2>2, <2>3, HoldsMore DEF Entry
  <2>5. Value(t \o x, S2, m[z.k], z.v, z.e)
    <3>1. CASE m[z.k] \in Leaves /\ Holds(t, LeafText(m[z.k]), z.v)
               /\ z.e = z.v + Len(LeafText(m[z.k]))
      <4>1. LeafText(m[z.k]) \in Seq(Chars)
            BY <3>1, Letters
      <4>2. Holds(t \o x, LeafText(m[z.k]), z.v)
            BY <2>2, <3>1, <4>1, HoldsMore
      <4>3. QED
            BY <3>1, <4>2 DEF Value
    <3>2. CASE \E c \in S : m[z.k] = Child(c.m) /\ c.at = z.v /\ c.end = z.e
          BY <3>2 DEF Value
    <3>3. QED
          BY <2>1, <3>1, <3>2 DEF Entry, Value
  <2>6. Entry(t \o x, S2, m, first, z)
        BY <2>1, <2>4, <2>5 DEF Entry
  <2>7. QED
        BY <2>6 DEF z, first
<1>2. QED
      BY <1>1 DEF Entries

LEMMA StructureMore ==
  ASSUME NEW t \in Seq(Chars), NEW x \in Seq(Chars), NEW S, NEW S2, S \subseteq S2,
         Structure(t, S), NEW r \in S
  PROVE  Node(t \o x, S2, r)
<1>1. Node(t, S, r)
      BY DEF Structure
<1>2. /\ r.at \in Nat \ {0} /\ r.es \in Seq(EntrySet) /\ Behind(r.at, r.es) = r.end - 1
      /\ r.at < r.end /\ r.end \in Nat /\ r.end <= Len(t) + 1
      BY NodeType
<1>3. Entries(t \o x, S2, r.m, r.at, r.es)
      BY <1>1, <1>2, EntriesMore DEF Node
<1>4. /\ t[Behind(r.at, r.es)] = BRC /\ Behind(r.at, r.es) \in 1 .. Len(t)
      BY <1>1, <1>2 DEF Node
<1>5. (t \o x)[Behind(r.at, r.es)] = BRC
      BY <1>4
<1>6. Len(t \o x) = Len(t) + Len(x)
      OBVIOUS
<1>7. r.end <= Len(t \o x) + 1
      BY <1>2, <1>6
<1>8. QED
      BY <1>1, <1>3, <1>5, <1>7 DEF Node

LEMMA BelowMore ==
  ASSUME NEW t \in Seq(Chars), NEW x \in Seq(Chars), NEW S, NEW S2, S \subseteq S2,
         NEW ws \in Seq(WriteSet), NEW fr \in Seq(FrameSet), Len(fr) = Len(ws),
         Below(t, S, ws, fr)
  PROVE  Below(t \o x, S2, ws, fr)
<1> SUFFICES ASSUME NEW i \in 1 .. Len(ws) - 1
    PROVE  /\ Partial(t \o x, S2, ws[i], fr[i])
           /\ Pending(t \o x, ws[i], fr[i], ws[i + 1].m, fr[i + 1].at)
    BY DEF Below
<1> DEFINE w == ws[i]
           f == fr[i]
           m == ws[i + 1].m
           at == fr[i + 1].at
<1>1. Partial(t, S, w, f) /\ Pending(t, w, f, m, at) /\ f \in FrameSet
      BY DEF Below
<1> HIDE DEF w, f, m, at
<1>2. f.at \in Nat \ {0} /\ f.es \in Seq(EntrySet) /\ f.g \in Seq(Plain) /\ f.k \in Seq(Plain)
      BY <1>1 DEF FrameSet
<1>3. Partial(t \o x, S2, w, f)
      BY <1>1, <1>2, EntriesMore DEF Partial
<1>4. Holds(t \o x, EntryHead(Len(f.es) = 0, f.g, f.k), Behind(f.at, f.es))
  <2> DEFINE first == Len(f.es) = 0
  <2>1. first \in BOOLEAN /\ Holds(t, EntryHead(first, f.g, f.k), Behind(f.at, f.es))
        BY <1>1 DEF Pending
  <2> HIDE DEF first
  <2>2. Behind(f.at, f.es) \in Nat \ {0}
        BY <1>2, BehindType
  <2>3. EntryHead(first, f.g, f.k) \in Seq(Chars)
        BY <1>2, <2>1, HeadType
  <2>4. Holds(t \o x, EntryHead(first, f.g, f.k), Behind(f.at, f.es))
        BY <2>1, <2>2, <2>3, HoldsMore
  <2>5. QED
        BY <2>4 DEF first
<1>5. Pending(t \o x, w, f, m, at)
      BY <1>1, <1>4 DEF Pending
<1>6. QED
      BY <1>3, <1>5 DEF w, f, m, at

(* The innermost call is replaced, or popped.                              *)
LEMMA BelowTop ==
  ASSUME NEW t, NEW S, NEW ws \in Seq(WriteSet), NEW fr \in Seq(FrameSet), Below(t, S, ws, fr),
         NEW n \in Nat, n <= Len(ws),
         NEW ws2 \in Seq(WriteSet), NEW fr2 \in Seq(FrameSet), n = Len(ws2), n = Len(fr2),
         \A i \in 1 .. n - 1 : ws2[i] = ws[i] /\ fr2[i] = fr[i],
         n # 0 => ws2[n].m = ws[n].m /\ fr2[n].at = fr[n].at
  PROVE  Below(t, S, ws2, fr2)
<1> SUFFICES ASSUME NEW i \in 1 .. n - 1
    PROVE  /\ Partial(t, S, ws2[i], fr2[i])
           /\ Pending(t, ws2[i], fr2[i], ws2[i + 1].m, fr2[i + 1].at)
    BY DEF Below
<1>1. Len(ws) \in Nat /\ i \in 1 .. Len(ws) - 1
      OBVIOUS
<1>2. Partial(t, S, ws[i], fr[i]) /\ Pending(t, ws[i], fr[i], ws[i + 1].m, fr[i + 1].at)
      BY <1>1 DEF Below
<1>3. i + 1 \in 1 .. n - 1 \/ i + 1 = n
      OBVIOUS
<1>4. ws2[i] = ws[i] /\ fr2[i] = fr[i]
      OBVIOUS
<1>5. ws2[i + 1].m = ws[i + 1].m /\ fr2[i + 1].at = fr[i + 1].at
  <2>1. CASE i + 1 \in 1 .. n - 1
        BY <2>1
  <2>2. CASE i + 1 = n
        BY <2>2
  <2>3. QED
        BY <1>3, <2>1, <2>2
<1>6. QED
      BY <1>2, <1>4, <1>5

(* One entry more.                                                         *)
LEMMA EntriesAppend ==
  ASSUME NEW t, NEW S, NEW m, NEW at \in Nat \ {0}, NEW es \in Seq(EntrySet), NEW x \in EntrySet,
         Entries(t, S, m, at, es), NEW first \in BOOLEAN, first <=> Len(es) = 0,
         Entry(t, S, m, first, x), x.p = Behind(at, es)
  PROVE  /\ Append(es, x) \in Seq(EntrySet) /\ Len(Append(es, x)) # 0
         /\ Entries(t, S, m, at, Append(es, x))
         /\ Behind(at, Append(es, x)) = x.e
         /\ Keys(Append(es, x)) = Keys(es) \cup {x.k}
<1> DEFINE n  == Len(es)
           es2 == Append(es, x)
<1>1. n \in Nat /\ es2 \in Seq(EntrySet) /\ Len(es2) = n + 1
      /\ (\A j \in 1 .. n : es2[j] = es[j] /\ es[j] \in EntrySet) /\ es2[n + 1] = x
      BY PushStack
<1>2. x.p \in Nat /\ x.v \in Nat /\ x.e \in Nat /\ Len(x.g) \in Nat /\ Len(x.k) \in Nat
      BY DEF EntrySet
<1>3. x.p < x.e
      BY <1>2 DEF Entry
<1> HIDE DEF es2
<1>4. Behind(at, es2) = x.e
      BY <1>1 DEF Behind
<1>5. Behind(at, es) = IF n = 0 THEN at ELSE es[n].e
      BY DEF Behind
<1>6. Behind(at, es) <= x.e /\ at <= Behind(at, es)
      BY <1>2, <1>3 DEF Entries
<1>7. ASSUME NEW j \in 1 .. n + 1
      PROVE  /\ Entry(t, S, m, j = 1, es2[j])
             /\ es2[j].p = IF j = 1 THEN at ELSE es2[j - 1].e
             /\ at <= es2[j].p /\ es2[j].e <= x.e
  <2>1. CASE j \in 1 .. n
    <3>1. /\ Entry(t, S, m, j = 1, es[j])
          /\ es[j].p = IF j = 1 THEN at ELSE es[j - 1].e
          /\ at <= es[j].p /\ es[j].e <= Behind(at, es)
          BY <2>1 DEF Entries
    <3>2. es[j].e \in Nat
          BY <1>1, <2>1 DEF EntrySet
    <3>3. Behind(at, es) \in Nat
          BY BehindType
    <3>4. es[j].e <= x.e
          BY <1>2, <1>6, <3>1, <3>2, <3>3
    <3>5. j # 1 => j - 1 \in 1 .. n
          BY <2>1
    <3> HIDE DEF n
    <3>6. es2[j] = es[j] /\ (j # 1 => es2[j - 1] = es[j - 1])
          BY <1>1, <2>1, <3>5
    <3>7. QED
          BY <3>1, <3>4, <3>6
  <2>2. CASE j = n + 1
    <3>1. (j = 1) = (n = 0)
          BY <1>1, <2>2
    <3>2. n # 0 => es2[j - 1] = es[n]
          BY <1>1, <2>2
    <3>3. Entry(t, S, m, j = 1, x)
      <4>1. first = (j = 1)
            BY <3>1
      <4>2. QED
            BY <4>1
    <3>4. x.p = IF j = 1 THEN at ELSE es2[j - 1].e
          BY <1>5, <3>1, <3>2
    <3>5. at <= x.p /\ x.e <= x.e
          BY <1>2, <1>6
    <3>6. QED
          BY <1>1, <2>2, <3>3, <3>4, <3>5
  <2>3. QED
        BY <1>1, <2>1, <2>2
<1>8. Entries(t, S, m, at, es2)
  <2>1. at <= Behind(at, es2)
        BY <1>2, <1>3, <1>4, <1>6, BehindType
  <2>2. QED
        BY <1>1, <1>4, <1>7, <2>1 DEF Entries
<1>9. Keys(es2) = Keys(es) \cup {x.k}
  <2>1. \A j : j \in 1 .. n + 1 <=> j \in 1 .. n \/ j = n + 1
        BY <1>1
  <2>2. QED
        BY <1>1, <2>1 DEF Keys
<1>10. QED
       BY <1>1, <1>4, <1>8, <1>9 DEF es2

(* The innermost call has a complete entry more.                           *)
LEMMA EntryAdded ==
  ASSUME NEW t, NEW S, NEW ws, NEW fr, NEW n, NEW w, NEW f, NEW x, NEW first, NEW w2, NEW ws2
  PROVE  /\ t \in Seq(Chars) /\ Structure(t, S)
         /\ ws \in Seq(WriteSet) /\ fr \in Seq(FrameSet) /\ n \in Nat \ {0}
         /\ n = Len(ws) /\ n = Len(fr) /\ w = ws[n] /\ f = fr[n]
         /\ Below(t, S, ws, fr) /\ Partial(t, S, w, f) /\ ws[1].m = doc /\ fr[1].at = 1
         /\ x \in EntrySet /\ first \in BOOLEAN /\ (first <=> Len(f.es) = 0)
         /\ Entry(t, S, w.m, first, x) /\ x.p = Behind(f.at, f.es) /\ x.e = Len(t) + 1
         /\ w2.m = w.m /\ w2.left \subseteq w.left
         /\ Keys(f.es) \cup {x.k} = DOMAIN w.m \ w2.left
         /\ ws2 \in Seq(WriteSet) /\ n = Len(ws2) /\ ws2[n] = w2
         /\ \A i \in 1 .. n - 1 : ws2[i] = ws[i]
         => \E fr2 : Under(t, S, ws2, fr2)
<1>1. SUFFICES
        ASSUME t \in Seq(Chars) /\ Structure(t, S),
               ws \in Seq(WriteSet) /\ fr \in Seq(FrameSet) /\ n \in Nat \ {0},
               n = Len(ws) /\ n = Len(fr) /\ w = ws[n] /\ f = fr[n],
               Below(t, S, ws, fr) /\ Partial(t, S, w, f) /\ ws[1].m = doc /\ fr[1].at = 1,
               x \in EntrySet /\ first \in BOOLEAN /\ (first <=> Len(f.es) = 0),
               Entry(t, S, w.m, first, x) /\ x.p = Behind(f.at, f.es) /\ x.e = Len(t) + 1,
               w2.m = w.m /\ w2.left \subseteq w.left,
               Keys(f.es) \cup {x.k} = DOMAIN w.m \ w2.left,
               ws2 \in Seq(WriteSet) /\ n = Len(ws2) /\ ws2[n] = w2,
               \A i \in 1 .. n - 1 : ws2[i] = ws[i]
        PROVE  \E fr2 : Under(t, S, ws2, fr2)
      OBVIOUS
<1> DEFINE es == f.es
           at == f.at
           m  == w.m
           f2 == [f EXCEPT !.es = Append(@, x)]
           fr2 == Append(Front(fr), f2)
<1>2. f \in FrameSet
  <2>1. fr \in Seq(FrameSet) /\ n \in 1 .. Len(fr) /\ f = fr[n]
        BY <1>1
  <2>2. QED
        BY <2>1
<1>3. at \in Nat \ {0} /\ es \in Seq(EntrySet) /\ Entries(t, S, m, at, es)
      BY <1>1, <1>2 DEF FrameSet, Partial
<1>4. /\ Append(es, x) \in Seq(EntrySet) /\ Entries(t, S, m, at, Append(es, x))
      /\ Behind(at, Append(es, x)) = x.e /\ Keys(Append(es, x)) = Keys(es) \cup {x.k}
  <2>1. /\ Entry(t, S, m, first, x) /\ (first <=> Len(es) = 0) /\ x.p = Behind(at, es)
        /\ x \in EntrySet /\ first \in BOOLEAN
        BY <1>1
  <2> HIDE DEF es, at, m
  <2>2. Entries(t, S, m, at, Append(es, x))
        BY <1>3, <2>1, EntriesAppend
  <2>3. QED
        BY <1>3, <2>1, <2>2, EntriesAppend
<1>5. f2 \in FrameSet /\ f2.at = at /\ f2.es = Append(es, x)
      BY <1>2, <1>4 DEF FrameSet
<1> HIDE DEF f2
<1>6. /\ fr2 \in Seq(FrameSet) /\ Len(fr2) = n /\ fr2[n] = f2
      /\ \A i \in 1 .. n - 1 : fr2[i] = fr[i]
  <2>1. fr \in Seq(FrameSet) /\ n \in Nat \ {0} /\ n = Len(fr)
        BY <1>1
  <2>2. QED
        BY <1>5, <2>1, TurnStack
<1> HIDE DEF fr2
<1>7. Below(t, S, ws2, fr2)
  <2>1. ws2[n].m = ws[n].m /\ fr2[n].at = fr[n].at
        BY <1>1, <1>5, <1>6
  <2>2. \A i \in 1 .. n - 1 : ws2[i] = ws[i] /\ fr2[i] = fr[i]
        BY <1>1, <1>6
  <2>3. /\ n <= Len(ws) /\ n \in Nat /\ ws \in Seq(WriteSet) /\ fr \in Seq(FrameSet)
        /\ Below(t, S, ws, fr) /\ ws2 \in Seq(WriteSet) /\ n = Len(ws2)
        /\ fr2 \in Seq(FrameSet) /\ n = Len(fr2)
        BY <1>1, <1>6
  <2>4. QED
        BY <2>1, <2>2, <2>3, BelowTop
<1>8. Partial(t, S, w2, f2)
      BY <1>1, <1>4, <1>5 DEF Partial
<1>9. Top(t, w2, f2)
      BY <1>1, <1>4, <1>5 DEF Top
<1>10. ws2[1].m = doc /\ fr2[1].at = 1
  <2>1. CASE n = 1
        BY <1>1, <1>5, <1>6, <2>1
  <2>2. CASE n # 1
    <3>1. 1 \in 1 .. n - 1
          BY <1>1, <2>2
    <3>2. QED
          BY <1>1, <1>6, <3>1
  <2>3. QED
        BY <2>1, <2>2
<1>11. Under(t, S, ws2, fr2)
       BY <1>1, <1>6, <1>7, <1>8, <1>9, <1>10 DEF Under
<1>12. QED
       BY <1>11

(* The documents, and what a value of one is.                              *)
LEMMA DocumentType ==
  ASSUME NEW m \in Documents
  PROVE  /\ DOMAIN m # {} /\ DOMAIN m \subseteq ToSet(KeyOrder)
         /\ \A k \in DOMAIN m : k \in Seq(Plain)
         /\ m = [k \in DOMAIN m |-> m[k]]
         /\ \A k \in DOMAIN m : \/ m[k] \in Leaves /\ m[k].type \in {"string", "num"}
                                \/ /\ m[k] = Child(m[k].value) /\ m[k].value \in Documents
                                   /\ m[k].type = "child"
<1>1. IsDocument(m)
      BY DocumentsAssumption
<1>2. \A v \in Leaves : v.type \in {"string", "num"}
      BY TextAssumption DEF IsLeaf, Str, Num
<1>3. \A k \in DOMAIN m : m[k] = Child(m[k].value) => m[k].type = "child"
      BY DEF Child
<1>4. QED
      BY <1>1, <1>2, <1>3, TextAssumption DEF IsDocument

LEMMA GapType == \A g \in Gaps : g \in Seq(Plain)
BY TextAssumption

(* The parts of the invariant of the innermost call.                       *)
LEMMA WritingParts ==
  ASSUME NEW S, NEW fr, Under(text, S, writes, fr), writes # <<>>
  PROVE  \E n \in Nat \ {0}, w \in WriteSet, f \in FrameSet :
           /\ n = Len(writes) /\ n = Len(fr) /\ w = Writing /\ w = writes[n] /\ f = fr[n]
           /\ writes \in Seq(WriteSet) /\ fr \in Seq(FrameSet)
           /\ text \in Seq(Chars) /\ Structure(text, S) /\ Below(text, S, writes, fr)
           /\ Partial(text, S, w, f) /\ Top(text, w, f)
           /\ writes[1].m = doc /\ fr[1].at = 1
<1> DEFINE n == Len(writes)
           w == Writing
           f == fr[n]
<1>1. /\ writes \in Seq(WriteSet) /\ fr \in Seq(FrameSet) /\ Len(fr) = n
      /\ text \in Seq(Chars) /\ Structure(text, S) /\ Below(text, S, writes, fr)
      /\ Partial(text, S, writes[n], f) /\ Top(text, writes[n], f)
      /\ writes[1].m = doc /\ fr[1].at = 1
      BY DEF Under
<1>2. n \in Nat \ {0}
      BY <1>1
<1> HIDE DEF n
<1>3. w = writes[n] /\ w \in WriteSet
      BY <1>1, <1>2, PopStack DEF Writing, n
<1>4. f \in FrameSet
      BY <1>1, <1>2
<1>5. n = Len(writes)
      BY DEF n
<1> HIDE DEF w, f
<1>6. QED
      BY <1>1, <1>2, <1>3, <1>4, <1>5 DEF w, f

(* A turn of the loop for a string or a number.                            *)
LEMMA LeafWritten ==
  ASSUME NEW S, NEW fr, Under(text, S, writes, fr), writes # <<>>,
         NEW k \in Writing.left, NEW g \in Gaps, Writing.m[k] \in Leaves,
         NEW first \in BOOLEAN, first <=> Writing.left = DOMAIN Writing.m,
         NEW leaf, leaf = LeafText(Writing.m[k])
  PROVE  \E fr2 : Under(text \o EntryHead(first, g, k) \o leaf, S,
                        Append(Front(writes), [Writing EXCEPT !.left = @ \ {k}]), fr2)
<1>1. PICK n \in Nat \ {0}, w \in WriteSet, f \in FrameSet :
           /\ n = Len(writes) /\ n = Len(fr) /\ w = Writing /\ w = writes[n] /\ f = fr[n]
           /\ writes \in Seq(WriteSet) /\ fr \in Seq(FrameSet)
           /\ text \in Seq(Chars) /\ Structure(text, S) /\ Below(text, S, writes, fr)
           /\ Partial(text, S, w, f) /\ Top(text, w, f)
           /\ writes[1].m = doc /\ fr[1].at = 1
      BY WritingParts
<1> DEFINE at == Behind(f.at, f.es)
           head == EntryHead(first, g, k)
           tail == head \o leaf
           t2 == text \o tail
           v == at + Len(g) + Len(k) + 4
           e == v + Len(leaf)
           x == [k |-> k, g |-> g, p |-> at, v |-> v, e |-> e]
           w2 == [w EXCEPT !.left = @ \ {k}]
           ws2 == Append(Front(writes), w2)
<1>2. /\ w.m \in Documents /\ w.left \subseteq DOMAIN w.m /\ k \in w.left
      /\ f.at \in Nat \ {0} /\ f.es \in Seq(EntrySet)
      BY <1>1 DEF WriteSet, FrameSet, Partial
<1>3. at \in Nat \ {0} /\ at = Len(text) + 1 /\ Keys(f.es) = DOMAIN w.m \ w.left
      BY <1>1, <1>2, BehindType DEF Top
<1>4. k \in Seq(Plain) /\ g \in Seq(Plain) /\ k \in DOMAIN w.m
      BY <1>2, DocumentType, GapType
<1>5. first <=> Len(f.es) = 0
      BY <1>1, <1>2, <1>3, KeysEmpty
<1>6. leaf \in Seq(Chars) /\ Len(leaf) \in Nat \ {0}
      BY Letters, LeafPlain
<1> HIDE DEF at
<1>7. /\ tail \in Seq(Chars) /\ t2 \in Seq(Chars) /\ Len(t2) + 1 = e
      /\ text \o head \o leaf = t2 /\ Holds(t2, head, at) /\ Holds(t2, leaf, v)
  <2> DEFINE h == EntryHead(first, g, k)
  <2>1. h \in Seq(Chars) /\ Len(h) = Len(g) + Len(k) + 4
        BY <1>4, HeadType
  <2>2. tail = h \o leaf /\ t2 = text \o tail /\ text \o h \o leaf = (text \o h) \o leaf
        OBVIOUS
  <2>3. text \in Seq(Chars)
        BY <1>1
  <2> HIDE DEF h, tail, t2
  <2>4. tail \in Seq(Chars) /\ Len(tail) = Len(h) + Len(leaf)
        BY <1>6, <2>1, <2>2, HoldsEnd
  <2>5. text \o tail \in Seq(Chars) /\ Len(text \o tail) = Len(text) + Len(tail)
        /\ Holds(text \o tail, tail, Len(text) + 1)
        BY <2>3, <2>4, HoldsEnd
  <2>6. t2 \in Seq(Chars) /\ Holds(t2, tail, at)
        BY <1>3, <2>2, <2>5
  <2>7. Len(g) \in Nat /\ Len(k) \in Nat /\ Len(leaf) \in Nat /\ Len(text) \in Nat
        BY <1>4, <1>6, <2>3
  <2>8. Holds(t2, h, at) /\ Holds(t2, leaf, at + Len(h))
        BY <1>3, <1>6, <2>1, <2>2, <2>6, HoldsParts
  <2>9. v = at + Len(h)
        BY <1>3, <2>1, <2>7
  <2>10. Len(t2) + 1 = e
    <3>1. Len(t2) = Len(text) + Len(tail)
          BY <2>2, <2>5
    <3>2. QED
          BY <1>3, <2>1, <2>4, <2>7, <2>9, <3>1
  <2>11. (text \o h) \o leaf = t2
         BY <1>6, <2>1, <2>2, <2>3, ThreeParts
  <2> HIDE DEF v, e
  <2>12. QED
         BY <2>2, <2>4, <2>6, <2>8, <2>9, <2>10, <2>11 DEF h
<1>8. at \in Nat \ {0} /\ v \in Nat \ {0} /\ e \in Nat \ {0} /\ v < e /\ e = v + Len(leaf)
  <2>1. Len(g) \in Nat /\ Len(k) \in Nat
        BY <1>4
  <2>2. QED
        BY <1>3, <1>6, <2>1
<1>9. v = at + Len(g) + Len(k) + 4
      OBVIOUS
<1> HIDE DEF head, t2, tail, v, e
<1>10. /\ x \in EntrySet /\ x.k = k /\ x.g = g /\ x.p = at /\ x.v = v /\ x.e = e
       BY <1>4, <1>8 DEF EntrySet
<1> HIDE DEF x
<1>11. Entry(t2, S, w.m, first, x)
  <2>1. Value(t2, S, w.m[k], v, e)
        BY <1>1, <1>7, <1>8 DEF Value
  <2>2. QED
        BY <1>4, <1>7, <1>8, <1>9, <1>10, <2>1 DEF Entry, head
<1>12. Structure(t2, S)
       BY <1>1, <1>7, StructureMore DEF Structure, t2
<1>13. Below(t2, S, writes, fr)
       BY <1>1, <1>7, BelowMore DEF t2
<1>14. Partial(t2, S, w, f)
       BY <1>1, <1>2, <1>7, EntriesMore DEF Partial, t2
<1>15. w2 \in WriteSet /\ w2.m = w.m /\ w2.left = w.left \ {k}
       BY <1>1 DEF WriteSet
<1> HIDE DEF w2
<1>16. /\ ws2 \in Seq(WriteSet) /\ n = Len(ws2) /\ ws2[n] = w2
       /\ \A i \in 1 .. n - 1 : ws2[i] = writes[i]
  <2>1. writes \in Seq(WriteSet) /\ n = Len(writes)
        BY <1>1
  <2>2. QED
        BY <1>15, <2>1, TurnStack
<1>17. Keys(f.es) \cup {x.k} = DOMAIN w.m \ w2.left
       BY <1>2, <1>3, <1>10, <1>15
<1>18. x.p = Behind(f.at, f.es) /\ x.e = Len(t2) + 1 /\ w2.left \subseteq w.left
       BY <1>7, <1>10, <1>15 DEF at
<1> HIDE DEF ws2
<1>19. \E fr2 : Under(t2, S, ws2, fr2)
       BY <1>1, <1>5, <1>7, <1>10, <1>11, <1>12, <1>13, <1>14, <1>15, <1>16, <1>17, <1>18,
          EntryAdded
<1>20. QED
       BY <1>1, <1>7, <1>19 DEF ws2, w2, head

(* A turn for a child: the head of its entry, and the call.                *)
LEMMA HeadWritten ==
  ASSUME NEW S, NEW fr, Under(text, S, writes, fr), writes # <<>>,
         NEW k \in Writing.left, NEW g \in Gaps, NEW c \in Documents, Writing.m[k] = Child(c),
         NEW first \in BOOLEAN, first <=> Writing.left = DOMAIN Writing.m
  PROVE  \E fr2 : Under(text \o EntryHead(first, g, k), S,
                        Append(Append(Front(writes), [Writing EXCEPT !.left = @ \ {k}]), Write(c)),
                        fr2)
<1>1. PICK n \in Nat \ {0}, w \in WriteSet, f \in FrameSet :
           /\ n = Len(writes) /\ n = Len(fr) /\ w = Writing /\ w = writes[n] /\ f = fr[n]
           /\ writes \in Seq(WriteSet) /\ fr \in Seq(FrameSet)
           /\ text \in Seq(Chars) /\ Structure(text, S) /\ Below(text, S, writes, fr)
           /\ Partial(text, S, w, f) /\ Top(text, w, f)
           /\ writes[1].m = doc /\ fr[1].at = 1
      BY WritingParts
<1> DEFINE at == Behind(f.at, f.es)
           head == EntryHead(first, g, k)
           t2 == text \o head
           w2 == [w EXCEPT !.left = @ \ {k}]
           f2 == [f EXCEPT !.g = g, !.k = k]
           w3 == Write(c)
           f3 == [at |-> Len(t2) + 1, es |-> <<>>, g |-> g, k |-> k]
           ws1 == Append(Front(writes), w2)
           fr1 == Append(Front(fr), f2)
           ws2 == Append(ws1, w3)
           fr2 == Append(fr1, f3)
<1>2. /\ w.m \in Documents /\ w.left \subseteq DOMAIN w.m /\ k \in w.left
      /\ f.at \in Nat \ {0} /\ f.es \in Seq(EntrySet)
      BY <1>1 DEF WriteSet, FrameSet, Partial
<1>3. at \in Nat \ {0} /\ at = Len(text) + 1 /\ Keys(f.es) = DOMAIN w.m \ w.left
      BY <1>1, <1>2, BehindType DEF Top
<1>4. k \in Seq(Plain) /\ g \in Seq(Plain) /\ k \in DOMAIN w.m
      BY <1>2, DocumentType, GapType
<1>5. first <=> Len(f.es) = 0
      BY <1>1, <1>2, <1>3, KeysEmpty
<1>6. head \in Seq(Chars) /\ Len(head) = Len(g) + Len(k) + 4
      BY <1>4, HeadType
<1> HIDE DEF head
<1>7. /\ t2 \in Seq(Chars) /\ Len(t2) = Len(text) + Len(head)
      /\ Holds(t2, head, Len(text) + 1)
      BY <1>1, <1>6, HoldsEnd
<1>8. Len(t2) + 1 \in Nat \ {0} /\ Len(t2) + 1 = at + Len(g) + Len(k) + 4
  <2>1. Len(g) \in Nat /\ Len(k) \in Nat /\ Len(text) \in Nat
        BY <1>1, <1>4
  <2> HIDE DEF at, t2
  <2>2. QED
        BY <1>3, <1>6, <1>7, <2>1
<1>9. Structure(t2, S)
      BY <1>1, <1>6, StructureMore DEF Structure
<1>10. Below(t2, S, writes, fr)
       BY <1>1, <1>6, BelowMore
<1>11. Entries(t2, S, w.m, f.at, f.es)
       BY <1>1, <1>2, <1>6, EntriesMore DEF Partial
<1> HIDE DEF at, t2
<1>12. w2 \in WriteSet /\ w2.m = w.m /\ w2.left = w.left \ {k}
       BY <1>1 DEF WriteSet
<1>13. f2 \in FrameSet /\ f2.at = f.at /\ f2.es = f.es /\ f2.g = g /\ f2.k = k
       BY <1>1, <1>4 DEF FrameSet
<1>14. w3 \in WriteSet /\ w3.m = c /\ w3.left = DOMAIN c
       BY DocumentType DEF WriteSet, Write
<1>15. f3 \in FrameSet /\ f3.at = Len(t2) + 1 /\ f3.es = <<>>
  <2>1. <<>> \in Seq(EntrySet)
        OBVIOUS
  <2>2. QED
        BY <1>4, <1>8, <2>1 DEF FrameSet
<1> HIDE DEF w2, f2, w3, f3
<1>16. /\ ws1 \in Seq(WriteSet) /\ n = Len(ws1) /\ ws1[n] = w2
       /\ \A i \in 1 .. n - 1 : ws1[i] = writes[i]
  <2>1. writes \in Seq(WriteSet) /\ n = Len(writes)
        BY <1>1
  <2>2. QED
        BY <1>12, <2>1, TurnStack
<1>17. /\ fr1 \in Seq(FrameSet) /\ n = Len(fr1) /\ fr1[n] = f2
       /\ \A i \in 1 .. n - 1 : fr1[i] = fr[i]
  <2>1. fr \in Seq(FrameSet) /\ n = Len(fr)
        BY <1>1
  <2>2. QED
        BY <1>13, <2>1, TurnStack
<1> HIDE DEF ws1, fr1
<1>18. /\ ws2 \in Seq(WriteSet) /\ Len(ws2) = n + 1 /\ ws2[n + 1] = w3
       /\ \A i \in 1 .. n : ws2[i] = ws1[i]
       BY <1>14, <1>16, PushStack
<1>19. /\ fr2 \in Seq(FrameSet) /\ Len(fr2) = n + 1 /\ fr2[n + 1] = f3
       /\ \A i \in 1 .. n : fr2[i] = fr1[i]
       BY <1>15, <1>17, PushStack
<1> HIDE DEF ws2, fr2
<1>20. Below(t2, S, ws1, fr1)
  <2>1. \A i \in 1 .. n - 1 : ws1[i] = writes[i] /\ fr1[i] = fr[i]
        BY <1>16, <1>17
  <2>2. n # 0 => ws1[n].m = writes[n].m /\ fr1[n].at = fr[n].at
        BY <1>1, <1>12, <1>13, <1>16, <1>17
  <2>3. /\ n <= Len(writes) /\ n \in Nat /\ writes \in Seq(WriteSet) /\ fr \in Seq(FrameSet)
        /\ ws1 \in Seq(WriteSet) /\ n = Len(ws1) /\ fr1 \in Seq(FrameSet) /\ n = Len(fr1)
        BY <1>1, <1>16, <1>17
  <2>4. QED
        BY <1>10, <2>1, <2>2, <2>3, BelowTop
<1>21. Partial(t2, S, w2, f2)
       BY <1>2, <1>11, <1>12, <1>13 DEF Partial
<1>22. Pending(t2, w2, f2, c, f3.at)
  <2>1. f2.k \in DOMAIN w2.m /\ w2.m[f2.k] = Child(c)
        BY <1>1, <1>4, <1>12, <1>13
  <2>2. Holds(t2, EntryHead(Len(f2.es) = 0, f2.g, f2.k), Behind(f2.at, f2.es))
    <3>1. (Len(f.es) = 0) = first
          BY <1>5
    <3>2. Holds(t2, EntryHead(first, g, k), at)
          BY <1>3, <1>7 DEF head
    <3>3. Holds(t2, EntryHead(Len(f.es) = 0, g, k), at)
          BY <3>1, <3>2
    <3>4. QED
          BY <1>13, <3>3 DEF at
  <2>3. f3.at = Behind(f2.at, f2.es) + Len(f2.g) + Len(f2.k) + 4
        BY <1>8, <1>13, <1>15 DEF at
  <2>4. Keys(f2.es) \cup {f2.k} = DOMAIN w2.m \ w2.left
        BY <1>2, <1>3, <1>4, <1>12, <1>13
  <2>5. QED
        BY <2>1, <2>2, <2>3, <2>4 DEF Pending
<1>23. Below(t2, S, ws2, fr2)
  <2>1. SUFFICES ASSUME NEW i \in 1 .. n
        PROVE  /\ Partial(t2, S, ws2[i], fr2[i])
               /\ Pending(t2, ws2[i], fr2[i], ws2[i + 1].m, fr2[i + 1].at)
    <3>1. Len(ws2) - 1 = n
          BY <1>18
    <3>2. QED
          BY <3>1 DEF Below
  <2>2. ws2[i] = ws1[i] /\ fr2[i] = fr1[i]
        BY <1>18, <1>19
  <2>3. CASE i = n
        BY <1>14, <1>16, <1>17, <1>18, <1>19, <1>21, <1>22, <2>2, <2>3
  <2>4. CASE i # n
    <3>1. i \in 1 .. Len(ws1) - 1 /\ i + 1 \in 1 .. n
          BY <1>16, <2>4
    <3>2. /\ Partial(t2, S, ws1[i], fr1[i])
          /\ Pending(t2, ws1[i], fr1[i], ws1[i + 1].m, fr1[i + 1].at)
          BY <1>20, <3>1 DEF Below
    <3>3. ws2[i + 1] = ws1[i + 1] /\ fr2[i + 1] = fr1[i + 1]
          BY <1>18, <1>19, <3>1
    <3>4. QED
          BY <2>2, <3>2, <3>3
  <2>5. QED
        BY <2>3, <2>4
<1>24. Partial(t2, S, w3, f3) /\ Top(t2, w3, f3)
  <2>1. Behind(f3.at, f3.es) = f3.at /\ Keys(f3.es) = {} /\ Len(f3.es) = 0
        BY <1>15 DEF Behind, Keys
  <2>2. Entries(t2, S, w3.m, f3.at, f3.es)
        BY <1>8, <1>15, <2>1 DEF Entries
  <2>3. QED
        BY <1>14, <1>15, <2>1, <2>2 DEF Partial, Top
<1>25. ws2[1].m = doc /\ fr2[1].at = 1
  <2>1. ws2[1] = ws1[1] /\ fr2[1] = fr1[1]
        BY <1>18, <1>19
  <2>2. CASE n = 1
        BY <1>1, <1>12, <1>13, <1>16, <1>17, <2>1, <2>2
  <2>3. CASE n # 1
    <3>1. 1 \in 1 .. n - 1
          BY <2>3
    <3>2. QED
          BY <1>1, <1>16, <1>17, <2>1, <3>1
  <2>4. QED
        BY <2>2, <2>3
<1>26. Under(t2, S, ws2, fr2)
       BY <1>7, <1>9, <1>18, <1>19, <1>23, <1>24, <1>25 DEF Under
<1>27. QED
       BY <1>1, <1>26 DEF t2, head, ws2, ws1, w2, w3

(* The end of json_writer: the map is complete, and with it the entry of   *)
(* the caller.                                                             *)
LEMMA MapWritten ==
  ASSUME NEW S, NEW fr, Under(text, S, writes, fr), writes # <<>>, Writing.left = {}
  PROVE  \E S2, fr2 :
           /\ Under(text \o <<BRC>>, S2, Front(writes), fr2)
           /\ Len(writes) = 1 => \E r \in S2 : r.m = doc /\ r.at = 1 /\ r.end = Len(text) + 2
<1>1. PICK n \in Nat \ {0}, w \in WriteSet, f \in FrameSet :
           /\ n = Len(writes) /\ n = Len(fr) /\ w = Writing /\ w = writes[n] /\ f = fr[n]
           /\ writes \in Seq(WriteSet) /\ fr \in Seq(FrameSet)
           /\ text \in Seq(Chars) /\ Structure(text, S) /\ Below(text, S, writes, fr)
           /\ Partial(text, S, w, f) /\ Top(text, w, f)
           /\ writes[1].m = doc /\ fr[1].at = 1
      BY WritingParts
<1> DEFINE b == <<BRC>>
           t2 == text \o b
           r == [m |-> w.m, at |-> f.at, es |-> f.es, end |-> Len(text) + 2]
           S2 == S \cup {r}
           ws2 == Front(writes)
           fr1 == Front(fr)
<1>2. /\ w.m \in Documents /\ w.left = {}
      /\ f.at \in Nat \ {0} /\ f.es \in Seq(EntrySet)
      BY <1>1 DEF WriteSet, FrameSet
<1>3. /\ Behind(f.at, f.es) = Len(text) + 1 /\ Keys(f.es) = DOMAIN w.m
      /\ Len(text) \in Nat
      BY <1>1, <1>2 DEF Top
<1>4. b \in Seq(Chars) /\ Len(b) = 1
      BY Letters
<1>5. /\ t2 \in Seq(Chars) /\ Len(t2) = Len(text) + 1 /\ t2[Len(text) + 1] = BRC
      BY <1>1, <1>3, Letters
<1> HIDE DEF b
<1>6. r \in NodeSet /\ r.m = w.m /\ r.at = f.at /\ r.es = f.es /\ r.end = Len(text) + 2
      BY <1>2, <1>3 DEF NodeSet
<1> HIDE DEF r
<1>7. S \subseteq S2 /\ r \in S2
      OBVIOUS
<1> HIDE DEF S2
<1>8. Entries(t2, S2, w.m, f.at, f.es)
      BY <1>1, <1>2, <1>4, <1>7, EntriesMore DEF Partial
<1>9. Node(t2, S2, r)
  <2>1. Len(r.es) # 0
        BY <1>2, <1>3, <1>6, DocumentType, KeysEmpty
  <2>2. r.end = Behind(r.at, r.es) + 1 /\ r.end <= Len(t2) + 1
        BY <1>3, <1>5, <1>6
  <2>3. QED
        BY <1>3, <1>5, <1>6, <1>8, <2>1, <2>2 DEF Node
<1>10. Structure(t2, S2)
  <2>1. \A s \in S : Node(t2, S2, s)
        BY <1>1, <1>4, <1>7, StructureMore
  <2>2. QED
        BY <1>9, <2>1 DEF Structure, S2
<1>11. Below(t2, S2, writes, fr)
       BY <1>1, <1>4, <1>7, BelowMore
<1> HIDE DEF t2
<1>12. /\ ws2 \in Seq(WriteSet) /\ Len(ws2) = n - 1
       /\ \A i \in 1 .. n - 1 : ws2[i] = writes[i]
  <2>1. writes \in Seq(WriteSet) /\ n = Len(writes)
        BY <1>1
  <2>2. QED
        BY <2>1, PopStack
<1>13. /\ fr1 \in Seq(FrameSet) /\ Len(fr1) = n - 1
       /\ \A i \in 1 .. n - 1 : fr1[i] = fr[i]
  <2>1. fr \in Seq(FrameSet) /\ n = Len(fr)
        BY <1>1
  <2>2. QED
        BY <2>1, PopStack
<1> HIDE DEF ws2, fr1
<1>14. Below(t2, S2, ws2, fr1)
  <2> DEFINE z == n - 1
  <2>1. /\ \A i \in 1 .. z - 1 : ws2[i] = writes[i] /\ fr1[i] = fr[i]
        /\ z # 0 => ws2[z].m = writes[z].m /\ fr1[z].at = fr[z].at
        BY <1>12, <1>13
  <2>2. /\ z <= Len(writes) /\ z \in Nat /\ writes \in Seq(WriteSet) /\ fr \in Seq(FrameSet)
        /\ ws2 \in Seq(WriteSet) /\ z = Len(ws2) /\ fr1 \in Seq(FrameSet) /\ z = Len(fr1)
        BY <1>1, <1>12, <1>13
  <2> HIDE DEF z
  <2>3. QED
        BY <1>11, <2>1, <2>2, BelowTop
<1>15. CASE n = 1
  <2>1. ws2 = <<>> /\ Len(fr1) = Len(ws2)
        BY <1>12, <1>13, <1>15
  <2>2. Under(t2, S2, ws2, fr1)
        BY <1>5, <1>10, <1>12, <1>13, <1>14, <2>1 DEF Under
  <2>3. r.m = doc /\ r.at = 1
        BY <1>1, <1>6, <1>15
  <2>4. QED
        BY <1>6, <1>7, <2>2, <2>3 DEF t2, b, ws2
<1>16. CASE n # 1
  <2> DEFINE z == n - 1
             w4 == ws2[z]
             f4 == fr1[z]
             x  == [k |-> f4.k, g |-> f4.g, p |-> Behind(f4.at, f4.es), v |-> f.at, e |-> r.end]
             first == Len(f4.es) = 0
  <2>1. /\ z \in Nat \ {0} /\ z \in 1 .. Len(writes) - 1 /\ z + 1 = n /\ z \in 1 .. Len(ws2)
        /\ z \in 1 .. Len(fr1) /\ z = Len(ws2) /\ z = Len(fr1)
        BY <1>1, <1>12, <1>13, <1>16
  <2> HIDE DEF z
  <2>2. w4 \in WriteSet /\ f4 \in FrameSet
        BY <1>12, <1>13, <2>1
  <2>3. /\ Partial(t2, S2, writes[z], fr[z])
        /\ Pending(t2, writes[z], fr[z], writes[z + 1].m, fr[z + 1].at)
        BY <1>11, <2>1 DEF Below
  <2>4. w4 = writes[z] /\ f4 = fr[z]
        BY <1>12, <1>13, <2>1 DEF z
  <2>5. Partial(t2, S2, w4, f4) /\ Pending(t2, w4, f4, w.m, f.at)
        BY <1>1, <2>1, <2>3, <2>4
  <2> HIDE DEF w4, f4
  <2>6. /\ f4.at \in Nat \ {0} /\ f4.es \in Seq(EntrySet)
        /\ f4.g \in Seq(Plain) /\ f4.k \in Seq(Plain)
        BY <2>2 DEF FrameSet
  <2>7. Behind(f4.at, f4.es) \in Nat \ {0}
        BY <2>6, BehindType
  <2>8. /\ x \in EntrySet /\ x.k = f4.k /\ x.g = f4.g /\ x.p = Behind(f4.at, f4.es)
        /\ x.v = f.at /\ x.e = r.end
    <3>1. r.end \in Nat \ {0}
          BY <1>3, <1>6
    <3>2. QED
          BY <1>2, <2>6, <2>7, <3>1 DEF EntrySet
  <2> HIDE DEF x
  <2>9. Entry(t2, S2, w4.m, first, x)
    <3>1. Value(t2, S2, w4.m[x.k], x.v, x.e)
          BY <1>6, <1>7, <2>5, <2>8 DEF Value, Pending
    <3>2. x.v < x.e
      <4>1. f.at <= Len(text) + 1
            BY <1>3, <1>8 DEF Entries
      <4>2. QED
            BY <1>2, <1>3, <1>6, <2>8, <4>1
    <3>3. Holds(t2, EntryHead(first, x.g, x.k), x.p)
          BY <2>5, <2>8 DEF Pending
    <3>4. x.k \in DOMAIN w4.m /\ x.v = x.p + Len(x.g) + Len(x.k) + 4
          BY <2>5, <2>8 DEF Pending
    <3> HIDE DEF first
    <3>5. QED
          BY <3>1, <3>2, <3>3, <3>4 DEF Entry
  <2>10. ws2[1].m = doc /\ fr1[1].at = 1
    <3>1. 1 \in 1 .. n - 1
          BY <2>1 DEF z
    <3>2. QED
          BY <1>1, <1>12, <1>13, <3>1
  <2>11. /\ x.e = Len(t2) + 1 /\ w4.m = w4.m /\ w4.left \subseteq w4.left
         /\ Keys(f4.es) \cup {x.k} = DOMAIN w4.m \ w4.left
         BY <1>3, <1>5, <1>6, <2>5, <2>8 DEF Pending
  <2>12. first \in BOOLEAN /\ (first <=> Len(f4.es) = 0)
         OBVIOUS
  <2>13. w4 = ws2[z] /\ f4 = fr1[z]
         BY DEF w4, f4
  <2> HIDE DEF first
  <2>14. \E fr2 : Under(t2, S2, ws2, fr2)
         BY <1>5, <1>10, <1>12, <1>13, <1>14, <2>1, <2>5, <2>8, <2>9, <2>10, <2>11, <2>12, <2>13,
            EntryAdded
  <2>15. Len(writes) # 1
         BY <1>1, <1>16
  <2>16. QED
         BY <2>14, <2>15 DEF t2, b, ws2
<1>17. QED
       BY <1>15, <1>16
-----------------------------------------------------------------------------
(* Where an entry is, and what json_parse meets in it.                     *)
Quote(x) == x.p + Len(x.g) + 1

LEMMA EntryNumbers ==
  ASSUME NEW t \in Seq(Chars), NEW S, Structure(t, S), NEW r \in S,
         NEW j \in 1 .. Len(r.es), NEW x, x = r.es[j]
  PROVE  /\ x \in EntrySet
         /\ x.k \in Seq(Plain) /\ x.g \in Seq(Plain) /\ Len(x.k) \in Nat /\ Len(x.g) \in Nat
         /\ x.p \in Nat \ {0} /\ x.v \in Nat \ {0} /\ x.e \in Nat \ {0} /\ Quote(x) \in Nat \ {0}
         /\ Quote(x) = x.p + Len(x.g) + 1 /\ x.v = Quote(x) + Len(x.k) + 3 /\ x.v < x.e
         /\ r.at <= x.p /\ x.e <= r.end - 1 /\ x.p = IF j = 1 THEN r.at ELSE r.es[j - 1].e
         /\ r.end \in Nat /\ r.end <= Len(t) + 1 /\ r.at \in Nat \ {0}
         /\ x.k \in DOMAIN r.m /\ r.m \in Documents
         /\ Value(t, S, r.m[x.k], x.v, x.e)
<1>1. /\ r.at \in Nat \ {0} /\ r.end \in Nat /\ r.es \in Seq(EntrySet)
      /\ Behind(r.at, r.es) = r.end - 1 /\ r.end <= Len(t) + 1 /\ r.m \in Documents
      BY NodeType
<1>2. Node(t, S, r)
      BY DEF Structure
<1>3. /\ Entry(t, S, r.m, j = 1, x) /\ x.p = IF j = 1 THEN r.at ELSE r.es[j - 1].e
      /\ r.at <= x.p /\ x.e <= Behind(r.at, r.es)
      BY <1>2 DEF Node, Entries
<1>4. x \in EntrySet
      BY <1>1
<1>5. /\ x.k \in Seq(Plain) /\ x.g \in Seq(Plain) /\ Len(x.k) \in Nat /\ Len(x.g) \in Nat
      /\ x.p \in Nat \ {0} /\ x.v \in Nat \ {0} /\ x.e \in Nat \ {0}
      BY <1>4 DEF EntrySet
<1>6. /\ x.v = x.p + Len(x.g) + Len(x.k) + 4 /\ x.v < x.e /\ x.k \in DOMAIN r.m
      /\ Value(t, S, r.m[x.k], x.v, x.e)
      BY <1>3 DEF Entry
<1>7. /\ Quote(x) \in Nat \ {0} /\ Quote(x) = x.p + Len(x.g) + 1 /\ x.v = Quote(x) + Len(x.k) + 3
  <2> DEFINE p == x.p
             a == Len(x.g)
             b == Len(x.k)
  <2>1. p \in Nat /\ a \in Nat /\ b \in Nat /\ x.v = p + a + b + 4 /\ Quote(x) = p + a + 1
        BY <1>5, <1>6 DEF Quote
  <2> HIDE DEF p, a, b
  <2>2. Quote(x) \in Nat \ {0} /\ Quote(x) = p + a + 1 /\ x.v = Quote(x) + b + 3
        BY <2>1
  <2>3. QED
        BY <2>2 DEF p, a, b
<1>8. QED
      BY <1>1, <1>3, <1>4, <1>5, <1>6, <1>7

EntryAt(t, j, x) ==
    /\ t[x.p] = IF j = 1 THEN BRO ELSE COA
    /\ \A i \in x.p + 1 .. Quote(x) - 1 : t[i] # QTM
    /\ t[Quote(x)] = QTM
    /\ \A i \in Quote(x) + 1 .. Quote(x) + Len(x.k) : t[i] # QTM
    /\ SubSeq(t, Quote(x) + 1, Quote(x) + Len(x.k)) = x.k
    /\ t[Quote(x) + Len(x.k) + 1] = QTM /\ t[Quote(x) + Len(x.k) + 2] = COL

LEMMA EntryChars ==
  ASSUME NEW t \in Seq(Chars), NEW S, Structure(t, S), NEW r \in S,
         NEW j \in 1 .. Len(r.es), NEW x, x = r.es[j]
  PROVE  EntryAt(t, j, x)
<1> DEFINE q == Quote(x)
           g == x.g
           k == x.k
           p == x.p
           first == j = 1
<1>1. Entry(t, S, r.m, first, x)
  <2>1. Node(t, S, r)
        BY DEF Structure
  <2>2. QED
        BY <2>1 DEF Node, Entries
<1>2. Holds(t, EntryHead(first, g, k), p)
      BY <1>1 DEF Entry
<1>3. /\ first \in BOOLEAN /\ g \in Seq(Plain) /\ k \in Seq(Plain) /\ p \in Nat \ {0}
      /\ q \in Nat \ {0} /\ q = p + Len(g) + 1 /\ Len(k) \in Nat
      BY EntryNumbers
<1>4. QTM \notin Plain
      BY TextAssumption
<1> HIDE DEF q, g, k, p, first
<1>5. HeadAt(t, first, g, k, p, q)
      BY <1>2, <1>3, HeadParts
<1>6. ASSUME NEW i \in q + 1 .. q + Len(k)
      PROVE  t[i] # QTM
  <2>1. i - q \in 1 .. Len(k) /\ k[i - q] \in Plain
    <3>1. i - q \in 1 .. Len(k)
          BY <1>3
    <3>2. QED
          BY <1>3, <3>1
  <2>2. t[(q + 1) + (i - q) - 1] = k[i - q]
        BY <1>5, <2>1 DEF HeadAt, Holds
  <2>3. (q + 1) + (i - q) - 1 = i
        BY <1>3
  <2>4. QED
        BY <1>4, <2>1, <2>2, <2>3
<1>7. SubSeq(t, q + 1, q + Len(k)) = k
  <2> DEFINE a == q + 1
  <2>1. a \in Nat \ {0} /\ k \in Seq(Chars) /\ Holds(t, k, a) /\ a + Len(k) - 1 = q + Len(k)
        BY <1>3, <1>5 DEF HeadAt, Chars
  <2> HIDE DEF a
  <2>2. SubSeq(t, a, a + Len(k) - 1) = k
        BY <2>1, HoldsScanned
  <2>3. QED
        BY <2>1, <2>2 DEF a
<1>8. /\ t[p] = IF j = 1 THEN BRO ELSE COA
      /\ \A i \in p + 1 .. q - 1 : t[i] # QTM
      BY <1>4, <1>5 DEF HeadAt, first
<1>9. QED
  <2>1. t[q] = QTM /\ t[q + Len(k) + 1] = QTM /\ t[q + Len(k) + 2] = COL
        BY <1>5 DEF HeadAt
  <2>2. QED
        BY <1>6, <1>7, <1>8, <2>1 DEF EntryAt, q, g, k, p

(* Behind a value.                                                         *)
Comma(t, r, j, x) == j < Len(r.es) /\ t[x.e] = COA /\ r.es[j + 1].p = x.e
Brace(t, r, j, x) == j = Len(r.es) /\ t[x.e] = BRC /\ x.e + 1 = r.end

LEMMA EntryNext ==
  ASSUME NEW t \in Seq(Chars), NEW S, Structure(t, S), NEW r \in S,
         NEW j \in 1 .. Len(r.es), NEW x, x = r.es[j]
  PROVE  Comma(t, r, j, x) \/ Brace(t, r, j, x)
<1>1. Len(r.es) \in Nat \ {0} /\ r.end \in Nat
      /\ Behind(r.at, r.es) = r.es[Len(r.es)].e
      /\ Behind(r.at, r.es) = r.end - 1 /\ t[r.end - 1] = BRC
      BY NodeType
<1>2. CASE j = Len(r.es)
  <2>1. x.e = r.end - 1
        BY <1>1, <1>2
  <2>2. t[x.e] = BRC /\ x.e + 1 = r.end
        BY <1>1, <2>1
  <2>3. QED
        BY <1>2, <2>2 DEF Brace
<1>3. CASE j # Len(r.es)
  <2> DEFINE i == j + 1
             y == r.es[i]
  <2>1. i \in 1 .. Len(r.es) /\ i # 1 /\ i - 1 = j /\ j < Len(r.es)
        BY <1>1, <1>3
  <2> HIDE DEF i
  <2>2. y.p = IF i = 1 THEN r.at ELSE r.es[i - 1].e
        BY <2>1, EntryNumbers
  <2>3. t[y.p] = IF i = 1 THEN BRO ELSE COA
    <3>1. y = r.es[i]
          OBVIOUS
    <3> HIDE DEF y
    <3>2. EntryAt(t, i, y)
          BY <2>1, <3>1, EntryChars
    <3>3. QED
          BY <3>2 DEF EntryAt
  <2>4. y.p = x.e /\ t[x.e] = COA
        BY <2>1, <2>2, <2>3
  <2>5. QED
        BY <2>1, <2>4 DEF Comma, i
<1>4. QED
      BY <1>2, <1>3

(* A value.                                                                *)
StringAt(t, v, at, e) ==
    /\ v = Str(SubSeq(t, at + 1, e - 2)) /\ at + 1 <= e - 1
    /\ t[at] = QTM /\ t[e - 1] = QTM /\ \A i \in at + 1 .. e - 2 : t[i] # QTM

NumAt(t, v, at, e) ==
    /\ v = Num(SubSeq(t, at, e - 1))
    /\ t[at] \in Digits \cup {"-"} /\ \A i \in at + 1 .. e - 1 : t[i] \in Digits

ChildAt(t, S, v, at, e) ==
    t[at] = BRO /\ \E d \in S : v = Child(d.m) /\ d.at = at /\ d.end = e

LEMMA ValueChars ==
  ASSUME NEW t \in Seq(Chars), NEW S, Structure(t, S), NEW v, NEW at \in Nat \ {0}, NEW e \in Nat,
         Value(t, S, v, at, e)
  PROVE  StringAt(t, v, at, e) \/ NumAt(t, v, at, e) \/ ChildAt(t, S, v, at, e)
<1>1. ASSUME v \in Leaves, Holds(t, LeafText(v), at), e = at + Len(LeafText(v)),
             v = Str(v.value), v.value \in Seq(Plain)
      PROVE  StringAt(t, v, at, e)
  <2> DEFINE s == v.value
             w == <<QTM>>
             n == Len(s)
  <2>1. LeafText(v) = (w \o s) \o w
        BY <1>1 DEF LeafText, Str
  <2>2. s \in Seq(Plain) /\ s \in Seq(Chars) /\ w \in Seq(Chars) /\ Len(w) = 1 /\ w[1] = QTM
        BY <1>1 DEF Chars
  <2>3. n \in Nat /\ n = Len(s)
        BY <1>1
  <2> HIDE DEF s, w, n
  <2>4. w \o s \in Seq(Chars) /\ Len(w \o s) = n + 1
    <3>1. w \o s \in Seq(Chars) /\ Len(w \o s) = Len(w) + Len(s)
          BY <2>2, HoldsEnd
    <3>2. QED
          BY <2>2, <2>3, <3>1
  <2>5. Len((w \o s) \o w) = n + 2
    <3> DEFINE u == w \o s
    <3>1. u \in Seq(Chars) /\ Len(u) = n + 1
          BY <2>4
    <3> HIDE DEF u
    <3>2. Len(u \o w) = Len(u) + Len(w)
          BY <2>2, <3>1, HoldsEnd
    <3>3. Len(u \o w) = n + 2
          BY <2>2, <2>3, <3>1, <3>2
    <3>4. QED
          BY <3>3 DEF u
  <2>6. Holds(t, (w \o s) \o w, at)
        BY <1>1, <2>1
  <2>7. Holds(t, w \o s, at) /\ Holds(t, w, at + Len(w \o s))
        BY <2>2, <2>4, <2>6, HoldsParts
  <2>8. Holds(t, w, at) /\ Holds(t, s, at + Len(w))
        BY <2>2, <2>7, HoldsParts
  <2>9. t[at] = QTM
    <3>1. t[at + 1 - 1] = w[1]
          BY <2>2, <2>8 DEF Holds
    <3>2. QED
          BY <2>2, <3>1
  <2>10. e = at + n + 2 /\ t[at + n + 1] = QTM
    <3>1. t[(at + (n + 1)) + 1 - 1] = w[1]
          BY <2>2, <2>4, <2>7 DEF Holds
    <3>2. QED
          BY <1>1, <2>1, <2>2, <2>3, <2>5, <3>1
  <2>11. SubSeq(t, at + 1, e - 2) = s
    <3> DEFINE a == at + 1
    <3>1. a \in Nat \ {0} /\ Holds(t, s, a) /\ a + Len(s) - 1 = e - 2
          BY <2>2, <2>3, <2>8, <2>10
    <3> HIDE DEF a
    <3>2. SubSeq(t, a, a + Len(s) - 1) = s
          BY <2>2, <3>1, HoldsScanned
    <3>3. QED
          BY <3>1, <3>2 DEF a
  <2>12. ASSUME NEW i \in at + 1 .. e - 2
         PROVE  t[i] # QTM
    <3>1. i - at \in 1 .. Len(s)
          BY <2>3, <2>10
    <3>2. t[(at + 1) + (i - at) - 1] = s[i - at]
          BY <2>2, <2>8, <3>1 DEF Holds
    <3>3. (at + 1) + (i - at) - 1 = i
          OBVIOUS
    <3>4. s[i - at] \in Plain
          BY <2>2, <3>1
    <3>5. QTM \notin Plain
          BY TextAssumption
    <3>6. QED
          BY <3>2, <3>3, <3>4, <3>5
  <2>13. v = Str(s)
         BY <1>1 DEF s
  <2>14. at + 1 <= e - 1 /\ e - 1 = at + n + 1
         BY <2>3, <2>10
  <2>15. QED
         BY <2>9, <2>10, <2>11, <2>12, <2>13, <2>14 DEF StringAt
<1>2. ASSUME v \in Leaves, Holds(t, LeafText(v), at), e = at + Len(LeafText(v)),
             v = Num(v.value), IsNumber(v.value)
      PROVE  NumAt(t, v, at, e)
  <2> DEFINE s == v.value
  <2>1. LeafText(v) = s
        BY <1>2 DEF LeafText, Num
  <2>2. /\ s \in Seq(Digits \cup {"-"}) /\ s # <<>> /\ s \in Seq(Chars)
        /\ \A i \in 2 .. Len(s) : s[i] \in Digits
    <3>1. s \in Seq(Digits \cup {"-"}) /\ s # <<>> /\ \A i \in 2 .. Len(s) : s[i] \in Digits
          BY <1>2 DEF IsNumber
    <3>2. Digits \cup {"-"} \subseteq Chars
          BY DEF Chars
    <3> HIDE DEF s
    <3>3. QED
          BY <3>1, <3>2
  <2>3. Holds(t, s, at) /\ e = at + Len(s)
        BY <1>2, <2>1
  <2>4. v = Num(s)
        BY <1>2
  <2> HIDE DEF s
  <2>5. Len(s) \in Nat \ {0}
        BY <2>2
  <2>6. SubSeq(t, at, e - 1) = s
        BY <2>2, <2>3, HoldsScanned
  <2>7. t[at] \in Digits \cup {"-"}
    <3>1. 1 \in 1 .. Len(s) /\ s[1] \in Digits \cup {"-"}
          BY <2>2, <2>5
    <3>2. t[at + 1 - 1] = s[1]
          BY <2>3, <3>1 DEF Holds
    <3>3. QED
          BY <3>1, <3>2
  <2>8. ASSUME NEW i \in at + 1 .. e - 1
        PROVE  t[i] \in Digits
    <3>1. i - at + 1 \in 1 .. Len(s) /\ i - at + 1 \in 2 .. Len(s)
          BY <2>3, <2>5
    <3>2. t[at + (i - at + 1) - 1] = s[i - at + 1]
          BY <2>3, <3>1 DEF Holds
    <3>3. at + (i - at + 1) - 1 = i
          OBVIOUS
    <3>4. QED
          BY <2>2, <3>1, <3>2, <3>3
  <2>9. QED
        BY <2>4, <2>6, <2>7, <2>8 DEF NumAt
<1>3. ASSUME NEW d \in S, v = Child(d.m), d.at = at, d.end = e
      PROVE  ChildAt(t, S, v, at, e)
  <2>1. Len(d.es) \in Nat \ {0}
        BY NodeType
  <2>2. 1 \in 1 .. Len(d.es)
        BY <2>1
  <2>3. d.es[1].p = d.at /\ t[d.es[1].p] = BRO
    <3> DEFINE x == d.es[1]
    <3>1. x = d.es[1] /\ 1 \in 1 .. Len(d.es)
          BY <2>2
    <3> HIDE DEF x
    <3>2. EntryAt(t, 1, x)
          BY <3>1, EntryChars
    <3>3. x.p = d.at
          BY <3>1, EntryNumbers
    <3>4. QED
          BY <3>1, <3>2, <3>3 DEF EntryAt
  <2>4. QED
        BY <1>3, <2>3 DEF ChildAt
<1>4. QED
      BY <1>1, <1>2, <1>3, TextAssumption DEF Value, IsLeaf
-----------------------------------------------------------------------------
(* The calls of json_parse: each is of a complete map, and is with one of  *)
(* its entries, of which j are or are being read.                          *)
Values  == Leaves \cup {Child(m) : m \in Documents}
PartSet == UNION {[D -> Values] : D \in SUBSET ToSet(KeyOrder)}
CallSet == [it : Nat, end : Nat, status : 0 .. 7, first : Nat, key : Seq(Chars), m : PartSet]

Prefix(r, j) == [k \in {r.es[i].k : i \in 1 .. j} |-> r.m[k]]

Located(c, r, j) ==
    /\ j \in 1 .. Len(r.es) /\ c.end = r.end
    /\ c.first \in 1 .. c.it + 1 /\ c.it <= c.end

(* The innermost call, at entry x.                                         *)
AtKey(c, x) ==
    \/ c.status = 1 /\ c.it \in x.p + 1 .. Quote(x)
    \/ c.status = 2 /\ c.first = Quote(x) + 1 /\ c.it \in Quote(x) + 1 .. Quote(x) + Len(x.k) + 1
    \/ c.status = 3 /\ c.it = Quote(x) + Len(x.k) + 2 /\ c.key = x.k

AtValue(c, x, v) ==
    /\ c.key = x.k
    /\ \/ c.status = 4 /\ c.it = x.v
       \/ c.status = 5 /\ c.first = x.v + 1 /\ c.it \in x.v + 1 .. x.e - 1
             /\ StringAt(text, v, x.v, x.e)
       \/ c.status = 6 /\ c.first = x.v /\ c.it \in x.v + 1 .. x.e
             /\ NumAt(text, v, x.v, x.e)

Reading(c, r, j) ==
    \/ c.status = 0 /\ c.it = r.at /\ j = 1 /\ c.m = Prefix(r, 0)
    \/ AtKey(c, r.es[j]) /\ c.m = Prefix(r, j - 1)
    \/ AtValue(c, r.es[j], r.m[r.es[j].k]) /\ c.m = Prefix(r, j - 1)
    \/ /\ c.status = 7 /\ c.m = Prefix(r, j)
       /\ \/ c.it = r.es[j].e
          \/ c.it = r.end /\ j = Len(r.es)

(* A caller, of a call for d.                                              *)
Awaits(c, r, j, d) ==
    /\ c.status = 4 /\ c.it = r.es[j].v /\ c.key = r.es[j].k /\ c.m = Prefix(r, j - 1)
    /\ r.m[r.es[j].k] = Child(d.m) /\ d.end = r.es[j].e

Parsing(S, cs, fr) ==
    /\ text \in Seq(Chars) /\ Structure(text, S)
    /\ cs \in Seq(CallSet) /\ fr \in Seq([r : S, j : Nat]) /\ Len(fr) = Len(cs)
    /\ \A i \in 1 .. Len(cs) : Located(cs[i], fr[i].r, fr[i].j)
    /\ \A i \in 1 .. Len(cs) - 1 : Awaits(cs[i], fr[i].r, fr[i].j, fr[i + 1].r)
    /\ cs # <<>> => Reading(cs[Len(cs)], fr[Len(cs)].r, fr[Len(cs)].j) /\ fr[1].r.m = doc

LEMMA ValueType ==
  ASSUME NEW m \in Documents, NEW k \in DOMAIN m
  PROVE  m[k] \in Values
BY DocumentType DEF Values

LEMMA PrefixType ==
  ASSUME NEW S, Structure(text, S), text \in Seq(Chars), NEW r \in S, NEW j \in 0 .. Len(r.es)
  PROVE  Prefix(r, j) \in PartSet
<1> DEFINE D == {r.es[i].k : i \in 1 .. j}
<1>1. Len(r.es) \in Nat
      BY NodeType
<1>2. \A i \in 1 .. j : i \in 1 .. Len(r.es)
      BY <1>1
<1>3. \A k \in D : k \in DOMAIN r.m
  <2>1. ASSUME NEW i \in 1 .. j
        PROVE  r.es[i].k \in DOMAIN r.m
    <3> DEFINE x == r.es[i]
    <3>1. i \in 1 .. Len(r.es) /\ x = r.es[i]
          BY <1>2
    <3> HIDE DEF x
    <3>2. x.k \in DOMAIN r.m
          BY <3>1, EntryNumbers
    <3>3. QED
          BY <3>1, <3>2
  <2>2. QED
        BY <2>1
<1>4. r.m \in Documents
      BY NodeType
<1>5. D \in SUBSET ToSet(KeyOrder)
      BY <1>3, <1>4, DocumentType
<1>6. \A k \in D : r.m[k] \in Values
  <2>1. SUFFICES ASSUME NEW k \in D PROVE r.m[k] \in Values
        OBVIOUS
  <2>2. k \in DOMAIN r.m
        BY <1>3
  <2>3. QED
        BY <1>4, <2>2, ValueType
<1> HIDE DEF D
<1>7. [k \in D |-> r.m[k]] \in [D -> Values]
      BY <1>6
<1>8. QED
      BY <1>5, <1>7 DEF Prefix, PartSet, D

LEMMA PrefixNext ==
  ASSUME NEW S, Structure(text, S), text \in Seq(Chars), NEW r \in S, NEW j \in 1 .. Len(r.es)
  PROVE  With(r.es[j].k, r.m[r.es[j].k], Prefix(r, j - 1)) = Prefix(r, j)
<1> DEFINE D == {r.es[i].k : i \in 1 .. j - 1}
           E == {r.es[i].k : i \in 1 .. j}
           x == r.es[j].k
<1>1. Len(r.es) \in Nat
      BY NodeType
<1>2. \A i : i \in 1 .. j <=> i \in 1 .. j - 1 \/ i = j
      BY <1>1
<1>3. E = D \cup {x}
      BY <1>2
<1> HIDE DEF D, E, x
<1>4. Prefix(r, j - 1) = [k \in D |-> r.m[k]] /\ Prefix(r, j) = [k \in E |-> r.m[k]]
      BY DEF Prefix, D, E
<1>5. With(x, r.m[x], [k \in D |-> r.m[k]]) = [k \in E |-> r.m[k]]
      BY <1>3 DEF With
<1>6. QED
      BY <1>4, <1>5 DEF x

LEMMA PrefixWhole ==
  ASSUME NEW S, Structure(text, S), text \in Seq(Chars), NEW r \in S
  PROVE  Prefix(r, Len(r.es)) = r.m
<1>1. Node(text, S, r) /\ r.m \in Documents
      BY NodeType DEF Structure
<1>2. {r.es[i].k : i \in 1 .. Len(r.es)} = DOMAIN r.m
      BY <1>1 DEF Node, Keys
<1>3. r.m = [k \in DOMAIN r.m |-> r.m[k]]
      BY <1>1, DocumentType
<1>4. QED
      BY <1>2, <1>3 DEF Prefix

(* The innermost call, at position i of its part, which ends at z.         *)
Inner(S, fr, r, j, i, z) ==
    /\ r = fr[Len(calls)].r /\ j = fr[Len(calls)].j /\ i = Now.it /\ z = Now.end
    /\ text \in Seq(Chars) /\ Structure(text, S) /\ Now \in CallSet
    /\ j \in 1 .. Len(r.es) /\ z = r.end /\ Now.first \in 1 .. i + 1 /\ i <= z
    /\ Reading(Now, r, j)

LEMMA ParsingInner ==
  ASSUME NEW S, NEW fr, Parsing(S, calls, fr), calls # <<>>
  PROVE  \E r \in S, j \in Nat, i \in Nat, z \in Nat : Inner(S, fr, r, j, i, z)
<1>1. /\ calls \in Seq(CallSet) /\ fr \in Seq([r : S, j : Nat]) /\ Len(fr) = Len(calls)
      /\ text \in Seq(Chars) /\ Structure(text, S)
      /\ Reading(calls[Len(calls)], fr[Len(calls)].r, fr[Len(calls)].j)
      /\ \A i \in 1 .. Len(calls) : Located(calls[i], fr[i].r, fr[i].j)
      BY DEF Parsing
<1> DEFINE n == Len(calls)
           r == fr[n].r
           j == fr[n].j
<1>2. n \in Nat \ {0} /\ n \in 1 .. n
      BY <1>1
<1>3. fr[n] \in [r : S, j : Nat]
  <2> DEFINE T == [r : S, j : Nat]
  <2>1. fr \in Seq(T) /\ n \in 1 .. Len(fr)
        BY <1>1, <1>2
  <2> HIDE DEF T, n
  <2>2. fr[n] \in T
        BY <2>1
  <2>3. QED
        BY <2>2 DEF T
<1>4. r \in S /\ j \in Nat
      BY <1>3
<1>5. n = Len(calls)
      OBVIOUS
<1> HIDE DEF n
<1>6. Now = calls[n] /\ Now \in CallSet
      BY <1>1, <1>2, PopStack DEF Now, n
<1>7. Located(Now, r, j) /\ Reading(Now, r, j)
      BY <1>1, <1>2, <1>5, <1>6
<1>8. Now.it \in Nat /\ Now.end \in Nat
      BY <1>6 DEF CallSet
<1>9. r = fr[Len(calls)].r /\ j = fr[Len(calls)].j
      BY <1>5
<1> HIDE DEF r, j
<1>10. Inner(S, fr, r, j, Now.it, Now.end)
       BY <1>1, <1>4, <1>6, <1>7, <1>8, <1>9 DEF Inner, Located
<1>11. QED
       BY <1>4, <1>8, <1>10

(* Entry y of the map r: its key begins behind q and has l characters, its *)
(* value begins at v and ends before e.                                    *)
Spans(S, r, j, y, p, q, l, v, e) ==
    /\ y = r.es[j] /\ p = y.p /\ q = Quote(y) /\ l = Len(y.k) /\ v = y.v /\ e = y.e
    /\ y.k \in Seq(Plain) /\ p < q /\ v = q + l + 3 /\ v < e /\ e < r.end
    /\ p = IF j = 1 THEN r.at ELSE r.es[j - 1].e
    /\ Value(text, S, r.m[y.k], v, e)

LEMMA EntrySpans ==
  ASSUME NEW S, text \in Seq(Chars), Structure(text, S), NEW r \in S, NEW j \in 1 .. Len(r.es)
  PROVE  \E y \in EntrySet, p \in Nat \ {0}, q \in Nat \ {0}, l \in Nat, v \in Nat \ {0},
            e \in Nat \ {0} : Spans(S, r, j, y, p, q, l, v, e)
<1> DEFINE y == r.es[j]
<1>1. y = r.es[j]
      OBVIOUS
<1> HIDE DEF y
<1>2. /\ y \in EntrySet /\ y.k \in Seq(Plain) /\ Len(y.k) \in Nat /\ Len(y.g) \in Nat
      /\ y.p \in Nat \ {0} /\ y.v \in Nat \ {0} /\ y.e \in Nat \ {0}
      /\ Entry(text, S, r.m, j = 1, y)
  <2>1. r.es \in Seq(EntrySet) /\ Node(text, S, r)
        BY NodeType DEF Structure
  <2>2. y \in EntrySet
        BY <1>1, <2>1
  <2>3. Entry(text, S, r.m, j = 1, y)
        BY <1>1, <2>1 DEF Node, Entries
  <2>4. QED
        BY <2>2, <2>3 DEF EntrySet
<1>3. /\ y.v = y.p + Len(y.g) + Len(y.k) + 4 /\ y.v < y.e
      /\ Value(text, S, r.m[y.k], y.v, y.e)
      BY <1>2 DEF Entry
<1>4. /\ y.p = IF j = 1 THEN r.at ELSE r.es[j - 1].e
      /\ y.e < r.end
  <2>1. Node(text, S, r) /\ r.end \in Nat /\ Behind(r.at, r.es) = r.end - 1
        BY NodeType DEF Structure
  <2>2. y.p = (IF j = 1 THEN r.at ELSE r.es[j - 1].e) /\ y.e <= Behind(r.at, r.es)
        BY <1>1, <2>1 DEF Node, Entries
  <2>3. QED
        BY <1>2, <2>1, <2>2
<1>5. /\ Quote(y) \in Nat \ {0} /\ y.p < Quote(y) /\ y.v = Quote(y) + Len(y.k) + 3
  <2> DEFINE p == y.p
             a == Len(y.g)
             b == Len(y.k)
  <2>1. p \in Nat \ {0} /\ a \in Nat /\ b \in Nat /\ y.v = p + a + b + 4 /\ Quote(y) = p + a + 1
        BY <1>2, <1>3 DEF Quote
  <2> HIDE DEF p, a, b
  <2>2. Quote(y) \in Nat \ {0} /\ p < Quote(y) /\ y.v = Quote(y) + b + 3
        BY <2>1
  <2>3. QED
        BY <2>2 DEF p, b
<1>6. Spans(S, r, j, y, y.p, Quote(y), Len(y.k), y.v, y.e)
      BY <1>1, <1>2, <1>3, <1>4, <1>5 DEF Spans
<1>7. QED
      BY <1>2, <1>5, <1>6

(* The characters of the head of an entry.                                 *)
LEMMA SpanSign ==
  ASSUME NEW S, text \in Seq(Chars), Structure(text, S), NEW r \in S, NEW j \in 1 .. Len(r.es),
         NEW y, NEW p, NEW q, NEW l, NEW v, NEW e, Spans(S, r, j, y, p, q, l, v, e)
  PROVE  text[p] = IF j = 1 THEN BRO ELSE COA
<1>1. y = r.es[j] /\ p = y.p /\ q = Quote(y) /\ l = Len(y.k)
      BY DEF Spans
<1>2. EntryAt(text, j, y)
      BY <1>1, EntryChars
<1>3. text[y.p] = IF j = 1 THEN BRO ELSE COA
      BY <1>2 DEF EntryAt
<1>4. QED
      BY <1>1, <1>3

LEMMA SpanGap ==
  ASSUME NEW S, text \in Seq(Chars), Structure(text, S), NEW r \in S, NEW j \in 1 .. Len(r.es),
         NEW y, NEW p, NEW q, NEW l, NEW v, NEW e, Spans(S, r, j, y, p, q, l, v, e)
  PROVE  \A i \in p + 1 .. q - 1 : text[i] # QTM
<1>1. y = r.es[j] /\ p = y.p /\ q = Quote(y) /\ l = Len(y.k)
      BY DEF Spans
<1>2. EntryAt(text, j, y)
      BY <1>1, EntryChars
<1>3. \A i \in y.p + 1 .. Quote(y) - 1 : text[i] # QTM
      BY <1>2 DEF EntryAt
<1>4. QED
      BY <1>1, <1>3

LEMMA SpanKey ==
  ASSUME NEW S, text \in Seq(Chars), Structure(text, S), NEW r \in S, NEW j \in 1 .. Len(r.es),
         NEW y, NEW p, NEW q, NEW l, NEW v, NEW e, Spans(S, r, j, y, p, q, l, v, e)
  PROVE  \A i \in q + 1 .. q + l : text[i] # QTM
<1>1. y = r.es[j] /\ p = y.p /\ q = Quote(y) /\ l = Len(y.k)
      BY DEF Spans
<1>2. EntryAt(text, j, y)
      BY <1>1, EntryChars
<1>3. \A i \in Quote(y) + 1 .. Quote(y) + Len(y.k) : text[i] # QTM
      BY <1>2 DEF EntryAt
<1>4. QED
      BY <1>1, <1>3

Spelt(y, q, l) == SubSeq(text, q + 1, q + l) = y.k

LEMMA SpanWord ==
  ASSUME NEW S, text \in Seq(Chars), Structure(text, S), NEW r \in S, NEW j \in 1 .. Len(r.es),
         NEW y, NEW p, NEW q, NEW l, NEW v, NEW e, Spans(S, r, j, y, p, q, l, v, e)
  PROVE  Spelt(y, q, l)
<1>1. y = r.es[j] /\ p = y.p /\ q = Quote(y) /\ l = Len(y.k)
      BY DEF Spans
<1>2. EntryAt(text, j, y)
      BY <1>1, EntryChars
<1>3. SubSeq(text, Quote(y) + 1, Quote(y) + Len(y.k)) = y.k
      BY <1>2 DEF EntryAt
<1>4. QED
      BY <1>1, <1>3 DEF Spelt

LEMMA SpanMarks ==
  ASSUME NEW S, text \in Seq(Chars), Structure(text, S), NEW r \in S, NEW j \in 1 .. Len(r.es),
         NEW y, NEW p, NEW q, NEW l, NEW v, NEW e, Spans(S, r, j, y, p, q, l, v, e)
  PROVE  text[q] = QTM /\ text[q + l + 1] = QTM /\ text[q + l + 2] = COL
<1>1. y = r.es[j] /\ p = y.p /\ q = Quote(y) /\ l = Len(y.k)
      BY DEF Spans
<1>2. EntryAt(text, j, y)
      BY <1>1, EntryChars
<1>3. /\ text[Quote(y)] = QTM
      /\ text[Quote(y) + Len(y.k) + 1] = QTM /\ text[Quote(y) + Len(y.k) + 2] = COL
      BY <1>2 DEF EntryAt
<1>4. QED
      BY <1>1, <1>3

(* A turn: the innermost call goes on.                                     *)
LEMMA TurnKeeps ==
  ASSUME NEW S, NEW cs, NEW fr, Parsing(S, cs, fr), cs # <<>>, NEW c, NEW j
  PROVE  /\ c \in CallSet /\ j \in Nat
         /\ Located(c, fr[Len(cs)].r, j) /\ Reading(c, fr[Len(cs)].r, j)
         => \E fr2 : Parsing(S, Append(Front(cs), c), fr2)
<1>1. SUFFICES ASSUME c \in CallSet, j \in Nat,
                      Located(c, fr[Len(cs)].r, j), Reading(c, fr[Len(cs)].r, j)
               PROVE  \E fr2 : Parsing(S, Append(Front(cs), c), fr2)
      OBVIOUS
<1> DEFINE n == Len(cs)
           f == [fr[n] EXCEPT !.j = j]
           ds == Append(Front(cs), c)
           fr2 == Append(Front(fr), f)
           T == [r : S, j : Nat]
<1>2. /\ cs \in Seq(CallSet) /\ fr \in Seq(T) /\ Len(fr) = n
      /\ text \in Seq(Chars) /\ Structure(text, S) /\ fr[1].r.m = doc
      /\ \A i \in 1 .. n : Located(cs[i], fr[i].r, fr[i].j)
      /\ \A i \in 1 .. n - 1 : Awaits(cs[i], fr[i].r, fr[i].j, fr[i + 1].r)
      BY DEF Parsing
<1>3. n \in Nat \ {0} /\ n = Len(cs)
      BY <1>2
<1>4. /\ Located(c, fr[n].r, j) /\ Reading(c, fr[n].r, j)
      BY <1>1
<1> HIDE DEF n
<1>5. fr[n] \in T
  <2>1. fr \in Seq(T) /\ n \in 1 .. Len(fr)
        BY <1>2, <1>3
  <2> HIDE DEF T
  <2>2. QED
        BY <2>1
<1>6. f \in T /\ f.r = fr[n].r /\ f.j = j
      BY <1>1, <1>5
<1> HIDE DEF T, f
<1>7. /\ ds \in Seq(CallSet) /\ Len(ds) = n /\ ds[n] = c
      /\ \A i \in 1 .. n - 1 : ds[i] = cs[i]
      BY <1>1, <1>2, <1>3, TurnStack
<1>8. /\ fr2 \in Seq(T) /\ Len(fr2) = n /\ fr2[n] = f
      /\ \A i \in 1 .. n - 1 : fr2[i] = fr[i]
      BY <1>2, <1>3, <1>6, TurnStack
<1> HIDE DEF ds, fr2
<1>9. \A i \in 1 .. n : Located(ds[i], fr2[i].r, fr2[i].j)
  <2>1. SUFFICES ASSUME NEW i \in 1 .. n PROVE Located(ds[i], fr2[i].r, fr2[i].j)
        OBVIOUS
  <2>2. CASE i = n
        BY <1>4, <1>6, <1>7, <1>8, <2>2
  <2>3. CASE i # n
    <3>1. i \in 1 .. n - 1
          BY <1>3, <2>3
    <3>2. QED
          BY <1>2, <1>7, <1>8, <3>1
  <2>4. QED
        BY <2>2, <2>3
<1>10. \A i \in 1 .. n - 1 : Awaits(ds[i], fr2[i].r, fr2[i].j, fr2[i + 1].r)
  <2>1. SUFFICES ASSUME NEW i \in 1 .. n - 1
        PROVE  Awaits(ds[i], fr2[i].r, fr2[i].j, fr2[i + 1].r)
        OBVIOUS
  <2>2. i + 1 \in 1 .. n - 1 \/ i + 1 = n
        BY <1>3
  <2>3. fr2[i + 1].r = fr[i + 1].r
        BY <1>6, <1>8, <2>2
  <2>4. ds[i] = cs[i] /\ fr2[i] = fr[i]
        BY <1>7, <1>8
  <2>5. QED
        BY <1>2, <2>3, <2>4
<1>11. Reading(ds[n], fr2[n].r, fr2[n].j)
       BY <1>4, <1>6, <1>7, <1>8
<1>12. fr2[1].r.m = doc
  <2>1. CASE n = 1
        BY <1>2, <1>6, <1>8, <2>1
  <2>2. CASE n # 1
    <3>1. 1 \in 1 .. n - 1
          BY <1>3, <2>2
    <3>2. QED
          BY <1>2, <1>8, <3>1
  <2>3. QED
        BY <2>1, <2>2
<1>13. Parsing(S, ds, fr2)
       BY <1>2, <1>7, <1>8, <1>9, <1>10, <1>11, <1>12 DEF Parsing, T
<1>14. QED
       BY <1>13 DEF ds

(* The calls that the turns make of one.                                   *)
LEMMA CallNext ==
  ASSUME NEW c \in CallSet, NEW x, x = [c EXCEPT !.it = @ + 1]
  PROVE  /\ x \in CallSet /\ x.it = c.it + 1 /\ x.end = c.end /\ x.status = c.status
         /\ x.first = c.first /\ x.key = c.key /\ x.m = c.m
BY DEF CallSet

LEMMA CallStatus ==
  ASSUME NEW c \in CallSet, NEW s \in 0 .. 7
  PROVE  [c EXCEPT !.status = s] \in CallSet
BY DEF CallSet

LEMMA CallFirst ==
  ASSUME NEW c \in CallSet, NEW s \in 0 .. 7, NEW f \in Nat
  PROVE  [c EXCEPT !.status = s, !.first = f] \in CallSet
BY DEF CallSet

LEMMA CallKey ==
  ASSUME NEW c \in CallSet, NEW s \in 0 .. 7, NEW k \in Seq(Chars)
  PROVE  [c EXCEPT !.status = s, !.key = k] \in CallSet
BY DEF CallSet

LEMMA CallMap ==
  ASSUME NEW c \in CallSet, NEW s \in 0 .. 7, NEW m \in PartSet
  PROVE  [c EXCEPT !.status = s, !.m = m] \in CallSet
BY DEF CallSet

LEMMA CallBack ==
  ASSUME NEW c \in CallSet, NEW i \in Nat, NEW s \in 0 .. 7, NEW m \in PartSet
  PROVE  [c EXCEPT !.it = i, !.status = s, !.m = m] \in CallSet
BY DEF CallSet

(* What a turn has to show of the call that it leaves behind.              *)
LEMMA TurnMade ==
  ASSUME NEW S, NEW fr, Parsing(S, calls, fr), calls # <<>>, NEW c, NEW x, NEW r, NEW j
  PROVE  /\ Turn(c) /\ c \in CallSet /\ x = [c EXCEPT !.it = @ + 1]
         /\ r = fr[Len(calls)].r /\ j \in Nat /\ Located(x, r, j) /\ Reading(x, r, j)
         => \E fr2 : Parsing(S, calls', fr2)
<1>1. SUFFICES ASSUME Turn(c), c \in CallSet, x = [c EXCEPT !.it = @ + 1],
                      r = fr[Len(calls)].r, j \in Nat, Located(x, r, j), Reading(x, r, j)
               PROVE  \E fr2 : Parsing(S, calls', fr2)
      OBVIOUS
<1>2. x \in CallSet
      BY <1>1, CallNext
<1>3. calls' = Append(Front(calls), x)
      BY <1>1 DEF Turn
<1>4. \E fr2 : Parsing(S, Append(Front(calls), x), fr2)
      BY <1>1, <1>2, TurnKeeps
<1>5. QED
      BY <1>3, <1>4

(* Behind a comma.                                                         *)
LEMMA NextEntry ==
  ASSUME NEW S, text \in Seq(Chars), Structure(text, S), NEW r \in S, NEW j \in 1 .. Len(r.es),
         j < Len(r.es), NEW c, c.status = 1, c.it = r.es[j].e + 1, c.m = Prefix(r, j)
  PROVE  Reading(c, r, j + 1)
<1> DEFINE h == j + 1
<1>1. h \in 1 .. Len(r.es) /\ h # 1 /\ h - 1 = j
  <2>1. Len(r.es) \in Nat
        BY NodeType
  <2>2. QED
        BY <2>1
<1> HIDE DEF h
<1>2. PICK y \in EntrySet, p \in Nat \ {0}, q \in Nat \ {0}, l \in Nat, v \in Nat \ {0},
           e \in Nat \ {0} : Spans(S, r, h, y, p, q, l, v, e)
      BY <1>1, EntrySpans
<1>3. y = r.es[h] /\ p = y.p /\ q = Quote(y) /\ p < q /\ p = r.es[j].e
      BY <1>1, <1>2 DEF Spans
<1>4. c.it \in p + 1 .. q
      BY <1>3
<1>5. AtKey(c, y)
      BY <1>3, <1>4 DEF AtKey
<1>6. Reading(c, r, h)
      BY <1>1, <1>3, <1>5 DEF Reading
<1>7. QED
      BY <1>6 DEF h

LEMMA AwaitsOpenKeeps ==
  ASSUME NEW S, NEW fr, Parsing(S, calls, fr), AwaitsOpen
  PROVE  \E fr2 : Parsing(S, calls', fr2)
<1>1. calls # <<>> /\ Now.it < Now.end /\ Now.status = 0
      BY DEF AwaitsOpen, InLoop
<1>2. PICK r \in S, j \in Nat, i \in Nat, z \in Nat : Inner(S, fr, r, j, i, z)
      BY <1>1, ParsingInner
<1>3. /\ r = fr[Len(calls)].r /\ i = Now.it /\ z = Now.end /\ z = r.end /\ i < z
      /\ Now \in CallSet /\ Now.first \in 1 .. i + 1
      BY <1>1, <1>2 DEF Inner
<1>0. Now \in CallSet
      BY <1>3
<1>4. text \in Seq(Chars) /\ Structure(text, S) /\ j \in 1 .. Len(r.es)
      BY <1>2 DEF Inner
<1>5. PICK y \in EntrySet, p \in Nat \ {0}, q \in Nat \ {0}, l \in Nat, v \in Nat \ {0},
           e \in Nat \ {0} : Spans(S, r, j, y, p, q, l, v, e)
      BY <1>4, EntrySpans
<1>6. y = r.es[j] /\ p = y.p /\ q = Quote(y) /\ l = Len(y.k) /\ v = y.v /\ e = y.e
      BY <1>5 DEF Spans
<1>7. y.k \in Seq(Plain) /\ p < q /\ v = q + l + 3 /\ v < e /\ e < z
      BY <1>3, <1>5 DEF Spans
<1>8. i = r.at /\ j = 1 /\ Now.m = Prefix(r, 0)
  <2>1. Reading(Now, r, j)
        BY <1>2 DEF Inner
  <2>2. QED
        BY <1>1, <1>3, <2>1 DEF Reading, AtKey, AtValue
<1>9. p = i
      BY <1>5, <1>8 DEF Spans
<1>10. Read = BRO
  <2>1. text[p] = IF j = 1 THEN BRO ELSE COA
        BY <1>4, <1>5, SpanSign
  <2>2. QED
        BY <1>3, <1>8, <1>9, <2>1 DEF Read
<1> DEFINE c == [Now EXCEPT !.status = 1]
           x == [c EXCEPT !.it = @ + 1]
<1>11. c = [Now EXCEPT !.status = 1]
      OBVIOUS
<1>12. Turn(c)
      BY <1>10 DEF AwaitsOpen
<1> HIDE DEF c
<1>13. /\ c \in CallSet /\ c.it = i /\ c.end = z
       /\ c.status = 1 /\ c.first = Now.first /\ c.m = Now.m
  <2>1. 1 \in 0 .. 7
        OBVIOUS
  <2>3. c \in CallSet
        BY <1>0, <1>11, <2>1, CallStatus
  <2>4. /\ c.it = Now.it /\ c.end = Now.end /\ c.status = 1
        /\ c.first = Now.first /\ c.m = Now.m
        BY <1>0, <1>11 DEF CallSet
  <2>5. QED
        BY <1>3, <2>3, <2>4
<1>14. x = [c EXCEPT !.it = @ + 1]
      OBVIOUS
<1> HIDE DEF x
<1>15. x.it = i + 1 /\ x.end = z /\ x.status = 1 /\ x.first = Now.first /\ x.m = Now.m
      BY <1>13, <1>14, CallNext
<1>16. Located(x, r, j)
       BY <1>3, <1>4, <1>15 DEF Located
<1>17. Reading(x, r, j)
  <2>1. x.it \in p + 1 .. q
        BY <1>7, <1>9, <1>15
  <2>2. AtKey(x, y)
        BY <1>6, <1>15, <2>1 DEF AtKey
  <2>3. x.m = Prefix(r, j - 1)
        BY <1>8, <1>15
  <2>4. QED
        BY <1>6, <2>2, <2>3 DEF Reading
<1>18. QED
       BY <1>1, <1>3, <1>12, <1>13, <1>14, <1>16, <1>17, TurnMade

LEMMA AwaitsKeyKeeps ==
  ASSUME NEW S, NEW fr, Parsing(S, calls, fr), AwaitsKey
  PROVE  \E fr2 : Parsing(S, calls', fr2)
<1>1. calls # <<>> /\ Now.it < Now.end /\ Now.status = 1
      BY DEF AwaitsKey, InLoop
<1>2. PICK r \in S, j \in Nat, i \in Nat, z \in Nat : Inner(S, fr, r, j, i, z)
      BY <1>1, ParsingInner
<1>3. /\ r = fr[Len(calls)].r /\ i = Now.it /\ z = Now.end /\ z = r.end /\ i < z
      /\ Now \in CallSet /\ Now.first \in 1 .. i + 1
      BY <1>1, <1>2 DEF Inner
<1>0. Now \in CallSet
      BY <1>3
<1>4. text \in Seq(Chars) /\ Structure(text, S) /\ j \in 1 .. Len(r.es)
      BY <1>2 DEF Inner
<1>5. PICK y \in EntrySet, p \in Nat \ {0}, q \in Nat \ {0}, l \in Nat, v \in Nat \ {0},
           e \in Nat \ {0} : Spans(S, r, j, y, p, q, l, v, e)
      BY <1>4, EntrySpans
<1>6. y = r.es[j] /\ p = y.p /\ q = Quote(y) /\ l = Len(y.k) /\ v = y.v /\ e = y.e
      BY <1>5 DEF Spans
<1>7. y.k \in Seq(Plain) /\ p < q /\ v = q + l + 3 /\ v < e /\ e < z
      BY <1>3, <1>5 DEF Spans
<1>8. i \in p + 1 .. q /\ Now.m = Prefix(r, j - 1)
  <2>1. Reading(Now, r, j)
        BY <1>2 DEF Inner
  <2>2. AtKey(Now, y) /\ Now.m = Prefix(r, j - 1)
        BY <1>1, <1>6, <2>1 DEF Reading, AtValue
  <2>3. QED
        BY <1>1, <1>3, <1>6, <2>2 DEF AtKey
<1>9. CASE Read = QTM
  <2> DEFINE c == [Now EXCEPT !.status = 2, !.first = Now.it + 1]
             x == [c EXCEPT !.it = @ + 1]
  <2>1. c = [Now EXCEPT !.status = 2, !.first = Now.it + 1]
        OBVIOUS
  <2>2. Turn(c)
        BY <1>9 DEF AwaitsKey
  <2> HIDE DEF c
  <2>3. /\ c \in CallSet /\ c.it = i /\ c.end = z
        /\ c.status = 2 /\ c.first = i + 1 /\ c.m = Now.m
    <3>1. 2 \in 0 .. 7
          OBVIOUS
    <3>2. Now.it + 1 \in Nat
          BY <1>0 DEF CallSet
    <3>3. c \in CallSet
          BY <1>0, <2>1, <3>1, <3>2, CallFirst
    <3>4. /\ c.it = Now.it /\ c.end = Now.end /\ c.status = 2
          /\ c.first = Now.it + 1 /\ c.m = Now.m
          BY <1>0, <2>1 DEF CallSet
    <3>5. QED
          BY <1>3, <3>3, <3>4
  <2>4. x = [c EXCEPT !.it = @ + 1]
        OBVIOUS
  <2> HIDE DEF x
  <2>5. x.it = i + 1 /\ x.end = z /\ x.status = 2 /\ x.first = i + 1 /\ x.m = Now.m
        BY <2>3, <2>4, CallNext
  <2>6. i = q
    <3>1. \A u \in p + 1 .. q - 1 : text[u] # QTM
          BY <1>4, <1>5, SpanGap
    <3>2. i \notin p + 1 .. q - 1
          BY <1>3, <1>9, <3>1 DEF Read
    <3>3. QED
          BY <1>8, <3>2
  <2>7. Located(x, r, j)
        BY <1>3, <1>4, <2>5 DEF Located
  <2>8. Reading(x, r, j)
    <3>1. x.first = q + 1 /\ x.it \in q + 1 .. q + l + 1
          BY <2>5, <2>6
    <3>2. AtKey(x, y)
          BY <1>6, <2>5, <3>1 DEF AtKey
    <3>3. QED
          BY <1>6, <1>8, <2>5, <3>2 DEF Reading
  <2>9. QED
        BY <1>1, <1>3, <2>2, <2>3, <2>4, <2>7, <2>8, TurnMade
<1>10. CASE Read # QTM
  <2> DEFINE x == [Now EXCEPT !.it = @ + 1]
  <2>1. Turn(Now)
        BY <1>10 DEF AwaitsKey
  <2>2. x = [Now EXCEPT !.it = @ + 1]
        OBVIOUS
  <2> HIDE DEF x
  <2>3. /\ x.it = i + 1 /\ x.end = z /\ x.status = 1 /\ x.first = Now.first
        /\ x.key = Now.key /\ x.m = Now.m
    <3>1. x.it = Now.it + 1 /\ x.end = Now.end /\ x.status = Now.status
          BY <1>0, <2>2 DEF CallSet
    <3>2. x.first = Now.first /\ x.key = Now.key /\ x.m = Now.m
          BY <1>0, <2>2 DEF CallSet
    <3>3. QED
          BY <1>1, <1>3, <3>1, <3>2
  <2>4. i # q
    <3>1. text[q] = QTM
          BY <1>4, <1>5, SpanMarks
    <3>2. QED
          BY <1>3, <1>10, <3>1 DEF Read
  <2>5. Located(x, r, j)
        BY <1>3, <1>4, <2>3 DEF Located
  <2>6. Reading(x, r, j)
    <3>1. x.it \in p + 1 .. q
          BY <1>8, <2>3, <2>4
    <3>2. AtKey(x, y)
          BY <1>6, <1>8, <2>3, <3>1 DEF AtKey
    <3>3. QED
          BY <1>6, <1>8, <2>3, <3>2 DEF Reading
  <2>7. QED
        BY <1>1, <1>3, <2>1, <2>2, <2>5, <2>6, TurnMade
<1>11. QED
       BY <1>9, <1>10

LEMMA KeyEndsKeeps ==
  ASSUME NEW S, NEW fr, Parsing(S, calls, fr), KeyEnds
  PROVE  \E fr2 : Parsing(S, calls', fr2)
<1>1. calls # <<>> /\ Now.it < Now.end /\ Now.status = 2
      BY DEF KeyEnds, InLoop
<1>2. PICK r \in S, j \in Nat, i \in Nat, z \in Nat : Inner(S, fr, r, j, i, z)
      BY <1>1, ParsingInner
<1>3. /\ r = fr[Len(calls)].r /\ i = Now.it /\ z = Now.end /\ z = r.end /\ i < z
      /\ Now \in CallSet /\ Now.first \in 1 .. i + 1
      BY <1>1, <1>2 DEF Inner
<1>0. Now \in CallSet
      BY <1>3
<1>4. text \in Seq(Chars) /\ Structure(text, S) /\ j \in 1 .. Len(r.es)
      BY <1>2 DEF Inner
<1>5. PICK y \in EntrySet, p \in Nat \ {0}, q \in Nat \ {0}, l \in Nat, v \in Nat \ {0},
           e \in Nat \ {0} : Spans(S, r, j, y, p, q, l, v, e)
      BY <1>4, EntrySpans
<1>6. y = r.es[j] /\ p = y.p /\ q = Quote(y) /\ l = Len(y.k) /\ v = y.v /\ e = y.e
      BY <1>5 DEF Spans
<1>7. y.k \in Seq(Plain) /\ p < q /\ v = q + l + 3 /\ v < e /\ e < z
      BY <1>3, <1>5 DEF Spans
<1>8. Now.first = q + 1 /\ i \in q + 1 .. q + l + 1 /\ Now.m = Prefix(r, j - 1)
  <2>1. Reading(Now, r, j)
        BY <1>2 DEF Inner
  <2>2. AtKey(Now, y) /\ Now.m = Prefix(r, j - 1)
        BY <1>1, <1>6, <2>1 DEF Reading, AtValue
  <2>3. QED
        BY <1>1, <1>3, <1>6, <2>2 DEF AtKey
<1>9. CASE Read = QTM
  <2>11. i = q + l + 1
    <3>1. \A u \in q + 1 .. q + l : text[u] # QTM
          BY <1>4, <1>5, SpanKey
    <3>2. i \notin q + 1 .. q + l
          BY <1>3, <1>9, <3>1 DEF Read
    <3>3. QED
          BY <1>8, <3>2
  <2>12. Scanned = y.k /\ Scanned \in Seq(Chars)
    <3>1. SubSeq(text, q + 1, q + l) = y.k
      <4>1. Spelt(y, q, l)
            BY <1>4, <1>5, SpanWord
      <4>2. QED
            BY <4>1 DEF Spelt
    <3>2. i - 1 = q + l
          BY <2>11
    <3>3. Scanned = y.k
          BY <1>3, <1>8, <3>1, <3>2 DEF Scanned
    <3>4. y.k \in Seq(Chars)
          BY <1>7 DEF Chars
    <3>5. QED
          BY <3>3, <3>4
  <2> DEFINE c == [Now EXCEPT !.status = 3, !.key = Scanned]
             x == [c EXCEPT !.it = @ + 1]
  <2>1. c = [Now EXCEPT !.status = 3, !.key = Scanned]
        OBVIOUS
  <2>2. Turn(c)
        BY <1>9 DEF KeyEnds
  <2> HIDE DEF c
  <2>3. /\ c \in CallSet /\ c.it = i /\ c.end = z /\ c.status = 3
        /\ c.first = Now.first /\ c.key = y.k /\ c.m = Now.m
    <3>1. 3 \in 0 .. 7
          OBVIOUS
    <3>2. Scanned \in Seq(Chars)
          BY <2>12
    <3>3. c \in CallSet
          BY <1>0, <2>1, <3>1, <3>2, CallKey
    <3>4. /\ c.it = Now.it /\ c.end = Now.end /\ c.status = 3
          /\ c.first = Now.first /\ c.key = Scanned /\ c.m = Now.m
          BY <1>0, <2>1 DEF CallSet
    <3>5. QED
          BY <1>3, <2>12, <3>3, <3>4
  <2>4. x = [c EXCEPT !.it = @ + 1]
        OBVIOUS
  <2> HIDE DEF x
  <2>5. /\ x.it = i + 1 /\ x.end = z /\ x.status = 3
        /\ x.first = Now.first /\ x.key = y.k /\ x.m = Now.m
        BY <2>3, <2>4, CallNext
  <2>7. Located(x, r, j)
        BY <1>3, <1>4, <2>5 DEF Located
  <2>8. Reading(x, r, j)
    <3>1. x.it = q + l + 2
          BY <2>5, <2>11
    <3>2. AtKey(x, y)
          BY <1>6, <2>5, <3>1 DEF AtKey
    <3>3. QED
          BY <1>6, <1>8, <2>5, <3>2 DEF Reading
  <2>9. QED
        BY <1>1, <1>3, <2>2, <2>3, <2>4, <2>7, <2>8, TurnMade
<1>10. CASE Read # QTM
  <2> DEFINE x == [Now EXCEPT !.it = @ + 1]
  <2>1. Turn(Now)
        BY <1>10 DEF KeyEnds
  <2>2. x = [Now EXCEPT !.it = @ + 1]
        OBVIOUS
  <2> HIDE DEF x
  <2>3. /\ x.it = i + 1 /\ x.end = z /\ x.status = 2 /\ x.first = Now.first
        /\ x.key = Now.key /\ x.m = Now.m
    <3>1. x.it = Now.it + 1 /\ x.end = Now.end /\ x.status = Now.status
          BY <1>0, <2>2 DEF CallSet
    <3>2. x.first = Now.first /\ x.key = Now.key /\ x.m = Now.m
          BY <1>0, <2>2 DEF CallSet
    <3>3. QED
          BY <1>1, <1>3, <3>1, <3>2
  <2>4. i # q + l + 1
    <3>1. text[q + l + 1] = QTM
          BY <1>4, <1>5, SpanMarks
    <3>2. QED
          BY <1>3, <1>10, <3>1 DEF Read
  <2>5. Located(x, r, j)
        BY <1>3, <1>4, <2>3 DEF Located
  <2>6. Reading(x, r, j)
    <3>1. x.it \in q + 1 .. q + l + 1
          BY <1>8, <2>3, <2>4
    <3>2. AtKey(x, y)
          BY <1>6, <1>8, <2>3, <3>1 DEF AtKey
    <3>3. QED
          BY <1>6, <1>8, <2>3, <3>2 DEF Reading
  <2>7. QED
        BY <1>1, <1>3, <2>1, <2>2, <2>5, <2>6, TurnMade
<1>11. QED
       BY <1>9, <1>10

LEMMA AwaitsColonKeeps ==
  ASSUME NEW S, NEW fr, Parsing(S, calls, fr), AwaitsColon
  PROVE  \E fr2 : Parsing(S, calls', fr2)
<1>1. calls # <<>> /\ Now.it < Now.end /\ Now.status = 3
      BY DEF AwaitsColon, InLoop
<1>2. PICK r \in S, j \in Nat, i \in Nat, z \in Nat : Inner(S, fr, r, j, i, z)
      BY <1>1, ParsingInner
<1>3. /\ r = fr[Len(calls)].r /\ i = Now.it /\ z = Now.end /\ z = r.end /\ i < z
      /\ Now \in CallSet /\ Now.first \in 1 .. i + 1
      BY <1>1, <1>2 DEF Inner
<1>0. Now \in CallSet
      BY <1>3
<1>4. text \in Seq(Chars) /\ Structure(text, S) /\ j \in 1 .. Len(r.es)
      BY <1>2 DEF Inner
<1>5. PICK y \in EntrySet, p \in Nat \ {0}, q \in Nat \ {0}, l \in Nat, v \in Nat \ {0},
           e \in Nat \ {0} : Spans(S, r, j, y, p, q, l, v, e)
      BY <1>4, EntrySpans
<1>6. y = r.es[j] /\ p = y.p /\ q = Quote(y) /\ l = Len(y.k) /\ v = y.v /\ e = y.e
      BY <1>5 DEF Spans
<1>7. y.k \in Seq(Plain) /\ p < q /\ v = q + l + 3 /\ v < e /\ e < z
      BY <1>3, <1>5 DEF Spans
<1>8. i = q + l + 2 /\ Now.key = y.k /\ Now.m = Prefix(r, j - 1)
  <2>1. Reading(Now, r, j)
        BY <1>2 DEF Inner
  <2>2. AtKey(Now, y) /\ Now.m = Prefix(r, j - 1)
        BY <1>1, <1>6, <2>1 DEF Reading, AtValue
  <2>3. QED
        BY <1>1, <1>3, <1>6, <2>2 DEF AtKey
<1>9. Read = COL
  <2>1. text[q + l + 2] = COL
        BY <1>4, <1>5, SpanMarks
  <2>2. QED
        BY <1>3, <1>8, <2>1 DEF Read
<1> DEFINE c == [Now EXCEPT !.status = 4]
           x == [c EXCEPT !.it = @ + 1]
<1>10. c = [Now EXCEPT !.status = 4]
      OBVIOUS
<1>11. Turn(c)
      BY <1>9 DEF AwaitsColon
<1> HIDE DEF c
<1>12. /\ c \in CallSet /\ c.it = i /\ c.end = z /\ c.status = 4
       /\ c.first = Now.first /\ c.key = y.k /\ c.m = Now.m
  <2>1. 4 \in 0 .. 7
        OBVIOUS
  <2>3. c \in CallSet
        BY <1>0, <1>10, <2>1, CallStatus
  <2>4. /\ c.it = Now.it /\ c.end = Now.end /\ c.status = 4
        /\ c.first = Now.first /\ c.key = Now.key /\ c.m = Now.m
        BY <1>0, <1>10 DEF CallSet
  <2>5. QED
        BY <1>3, <1>8, <2>3, <2>4
<1>13. x = [c EXCEPT !.it = @ + 1]
      OBVIOUS
<1> HIDE DEF x
<1>14. /\ x.it = i + 1 /\ x.end = z /\ x.status = 4
       /\ x.first = Now.first /\ x.key = y.k /\ x.m = Now.m
      BY <1>12, <1>13, CallNext
<1>15. Located(x, r, j)
       BY <1>3, <1>4, <1>14 DEF Located
<1>16. Reading(x, r, j)
  <2>1. x.it = v
        BY <1>7, <1>8, <1>14
  <2>2. AtValue(x, y, r.m[y.k])
        BY <1>6, <1>14, <2>1 DEF AtValue
  <2>3. QED
        BY <1>6, <1>8, <1>14, <2>2 DEF Reading
<1>17. QED
       BY <1>1, <1>3, <1>11, <1>12, <1>13, <1>15, <1>16, TurnMade

LEMMA ValueStartsKeeps ==
  ASSUME NEW S, NEW fr, Parsing(S, calls, fr), ValueStarts
  PROVE  \E fr2 : Parsing(S, calls', fr2)
<1>1. calls # <<>> /\ Now.it < Now.end /\ Now.status = 4
      BY DEF ValueStarts, InLoop
<1>2. PICK r \in S, j \in Nat, i \in Nat, z \in Nat : Inner(S, fr, r, j, i, z)
      BY <1>1, ParsingInner
<1>3. /\ r = fr[Len(calls)].r /\ i = Now.it /\ z = Now.end /\ z = r.end /\ i < z
      /\ Now \in CallSet /\ Now.first \in 1 .. i + 1
      BY <1>1, <1>2 DEF Inner
<1>0. Now \in CallSet
      BY <1>3
<1>4. text \in Seq(Chars) /\ Structure(text, S) /\ j \in 1 .. Len(r.es)
      BY <1>2 DEF Inner
<1>5. PICK y \in EntrySet, p \in Nat \ {0}, q \in Nat \ {0}, l \in Nat, v \in Nat \ {0},
           e \in Nat \ {0} : Spans(S, r, j, y, p, q, l, v, e)
      BY <1>4, EntrySpans
<1>6. y = r.es[j] /\ p = y.p /\ q = Quote(y) /\ l = Len(y.k) /\ v = y.v /\ e = y.e
      BY <1>5 DEF Spans
<1>7. y.k \in Seq(Plain) /\ p < q /\ v = q + l + 3 /\ v < e /\ e < z
      BY <1>3, <1>5 DEF Spans
<1>8. i = v /\ Now.key = y.k /\ Now.m = Prefix(r, j - 1)
  <2>1. Reading(Now, r, j)
        BY <1>2 DEF Inner
  <2>2. AtValue(Now, y, r.m[y.k]) /\ Now.m = Prefix(r, j - 1)
        BY <1>1, <1>6, <2>1 DEF Reading, AtKey
  <2>3. QED
        BY <1>1, <1>3, <1>6, <2>2 DEF AtValue
<1>9. Value(text, S, r.m[y.k], v, e)
      BY <1>5 DEF Spans
<1>10. \/ StringAt(text, r.m[y.k], v, e) \/ NumAt(text, r.m[y.k], v, e)
       \/ ChildAt(text, S, r.m[y.k], v, e)
       BY <1>4, <1>9, ValueChars
<1>11. CASE StringAt(text, r.m[y.k], v, e)
  <2>11. Read = QTM
         BY <1>3, <1>8, <1>11 DEF StringAt, Read
  <2> DEFINE c == [Now EXCEPT !.status = 5, !.first = Now.it + 1]
             x == [c EXCEPT !.it = @ + 1]
  <2>1. c = [Now EXCEPT !.status = 5, !.first = Now.it + 1]
        OBVIOUS
  <2>2. Turn(c)
        BY <2>11 DEF ValueStarts, BelowColon, Digits, QTM, COA, SPC
  <2> HIDE DEF c
  <2>3. /\ c \in CallSet /\ c.it = i /\ c.end = z /\ c.status = 5
        /\ c.first = i + 1 /\ c.key = y.k /\ c.m = Now.m
    <3>1. 5 \in 0 .. 7
          OBVIOUS
    <3>2. Now.it + 1 \in Nat
          BY <1>0 DEF CallSet
    <3>3. c \in CallSet
          BY <1>0, <2>1, <3>1, <3>2, CallFirst
    <3>4. /\ c.it = Now.it /\ c.end = Now.end /\ c.status = 5
          /\ c.first = Now.it + 1 /\ c.key = Now.key /\ c.m = Now.m
          BY <1>0, <2>1 DEF CallSet
    <3>5. QED
          BY <1>3, <1>8, <3>3, <3>4
  <2>4. x = [c EXCEPT !.it = @ + 1]
        OBVIOUS
  <2> HIDE DEF x
  <2>5. /\ x.it = i + 1 /\ x.end = z /\ x.status = 5
        /\ x.first = i + 1 /\ x.key = y.k /\ x.m = Now.m
        BY <2>3, <2>4, CallNext
  <2>7. Located(x, r, j)
        BY <1>3, <1>4, <1>7, <1>8, <2>5 DEF Located
  <2>8. Reading(x, r, j)
    <3>1. x.it \in v + 1 .. e - 1
          BY <1>7, <1>8, <1>11, <2>5 DEF StringAt
    <3>2. AtValue(x, y, r.m[y.k])
          BY <1>6, <1>8, <1>11, <2>5, <3>1 DEF AtValue
    <3>3. QED
          BY <1>6, <1>8, <2>5, <3>2 DEF Reading
  <2>9. QED
        BY <1>1, <1>3, <2>2, <2>3, <2>4, <2>7, <2>8, TurnMade
<1>12. CASE NumAt(text, r.m[y.k], v, e)
  <2>11. Read # QTM /\ Read \in Digits \cup {"-", COA, SPC}
    <3>1. Read \in Digits \cup {"-"}
          BY <1>3, <1>8, <1>12 DEF NumAt, Read
    <3>2. QED
          BY <3>1 DEF Digits, QTM
  <2> DEFINE c == [Now EXCEPT !.status = 6, !.first = Now.it]
             x == [c EXCEPT !.it = @ + 1]
  <2>1. c = [Now EXCEPT !.status = 6, !.first = Now.it]
        OBVIOUS
  <2>2. Turn(c)
        BY <2>11 DEF ValueStarts, BelowColon, Digits, QTM, COA, SPC
  <2> HIDE DEF c
  <2>3. /\ c \in CallSet /\ c.it = i /\ c.end = z /\ c.status = 6
        /\ c.first = i /\ c.key = y.k /\ c.m = Now.m
    <3>1. 6 \in 0 .. 7
          OBVIOUS
    <3>2. Now.it \in Nat
          BY <1>0 DEF CallSet
    <3>3. c \in CallSet
          BY <1>0, <2>1, <3>1, <3>2, CallFirst
    <3>4. /\ c.it = Now.it /\ c.end = Now.end /\ c.status = 6
          /\ c.first = Now.it /\ c.key = Now.key /\ c.m = Now.m
          BY <1>0, <2>1 DEF CallSet
    <3>5. QED
          BY <1>3, <1>8, <3>3, <3>4
  <2>4. x = [c EXCEPT !.it = @ + 1]
        OBVIOUS
  <2> HIDE DEF x
  <2>5. /\ x.it = i + 1 /\ x.end = z /\ x.status = 6
        /\ x.first = i /\ x.key = y.k /\ x.m = Now.m
        BY <2>3, <2>4, CallNext
  <2>7. Located(x, r, j)
        BY <1>3, <1>4, <1>7, <1>8, <2>5 DEF Located
  <2>8. Reading(x, r, j)
    <3>1. x.it \in v + 1 .. e
          BY <1>7, <1>8, <1>12, <2>5 DEF NumAt
    <3>2. AtValue(x, y, r.m[y.k])
          BY <1>6, <1>8, <1>12, <2>5, <3>1 DEF AtValue
    <3>3. QED
          BY <1>6, <1>8, <2>5, <3>2 DEF Reading
  <2>9. QED
        BY <1>1, <1>3, <2>2, <2>3, <2>4, <2>7, <2>8, TurnMade
<1>13. CASE ChildAt(text, S, r.m[y.k], v, e)
  <2>1. Read = BRO
        BY <1>3, <1>8, <1>13 DEF ChildAt, Read
  <2>2. QED
        BY <2>1 DEF ValueStarts
<1>14. QED
       BY <1>10, <1>11, <1>12, <1>13

LEMMA StringEndsKeeps ==
  ASSUME NEW S, NEW fr, Parsing(S, calls, fr), StringEnds
  PROVE  \E fr2 : Parsing(S, calls', fr2)
<1>1. calls # <<>> /\ Now.it < Now.end /\ Now.status = 5
      BY DEF StringEnds, InLoop
<1>2. PICK r \in S, j \in Nat, i \in Nat, z \in Nat : Inner(S, fr, r, j, i, z)
      BY <1>1, ParsingInner
<1>3. /\ r = fr[Len(calls)].r /\ i = Now.it /\ z = Now.end /\ z = r.end /\ i < z
      /\ Now \in CallSet /\ Now.first \in 1 .. i + 1
      BY <1>1, <1>2 DEF Inner
<1>0. Now \in CallSet
      BY <1>3
<1>4. text \in Seq(Chars) /\ Structure(text, S) /\ j \in 1 .. Len(r.es)
      BY <1>2 DEF Inner
<1>5. PICK y \in EntrySet, p \in Nat \ {0}, q \in Nat \ {0}, l \in Nat, v \in Nat \ {0},
           e \in Nat \ {0} : Spans(S, r, j, y, p, q, l, v, e)
      BY <1>4, EntrySpans
<1>6. y = r.es[j] /\ p = y.p /\ q = Quote(y) /\ l = Len(y.k) /\ v = y.v /\ e = y.e
      BY <1>5 DEF Spans
<1>7. y.k \in Seq(Plain) /\ p < q /\ v = q + l + 3 /\ v < e /\ e < z
      BY <1>3, <1>5 DEF Spans
<1>8. /\ Now.first = v + 1 /\ i \in v + 1 .. e - 1 /\ StringAt(text, r.m[y.k], v, e)
      /\ Now.key = y.k /\ Now.m = Prefix(r, j - 1)
  <2>1. Reading(Now, r, j)
        BY <1>2 DEF Inner
  <2>2. AtValue(Now, y, r.m[y.k]) /\ Now.m = Prefix(r, j - 1)
        BY <1>1, <1>6, <2>1 DEF Reading, AtKey
  <2>3. /\ Now.key = y.k /\ Now.first = y.v + 1
        /\ Now.it \in y.v + 1 .. y.e - 1
        BY <1>1, <2>2 DEF AtValue
  <2>4. StringAt(text, r.m[y.k], y.v, y.e)
        BY <1>1, <2>2 DEF AtValue
  <2>5. QED
        BY <1>3, <1>6, <2>2, <2>3, <2>4
<1>9. CASE Read = QTM
  <2>11. i = e - 1
    <3>1. \A u \in v + 1 .. e - 2 : text[u] # QTM
          BY <1>8 DEF StringAt
    <3>2. i \notin v + 1 .. e - 2
          BY <1>3, <1>9, <3>1 DEF Read
    <3>3. QED
          BY <1>8, <3>2
  <2>12. With(Now.key, Str(Scanned), Now.m) = Prefix(r, j)
    <3>1. Str(Scanned) = r.m[y.k]
      <4>1. r.m[y.k] = Str(SubSeq(text, v + 1, e - 2))
            BY <1>8 DEF StringAt
      <4>2. i - 1 = e - 2
            BY <2>11
      <4>3. QED
            BY <1>3, <1>8, <4>1, <4>2 DEF Scanned
    <3>2. With(r.es[j].k, r.m[r.es[j].k], Prefix(r, j - 1)) = Prefix(r, j)
          BY <1>4, PrefixNext
    <3>3. QED
          BY <1>6, <1>8, <3>1, <3>2
  <2> DEFINE c == [Now EXCEPT !.status = 7, !.m = Prefix(r, j)]
             x == [c EXCEPT !.it = @ + 1]
  <2>1. c = [Now EXCEPT !.status = 7, !.m = Prefix(r, j)]
        OBVIOUS
  <2>2. Turn(c)
        BY <1>9, <2>12 DEF StringEnds
  <2> HIDE DEF c
  <2>3. /\ c \in CallSet /\ c.it = i /\ c.end = z
        /\ c.status = 7 /\ c.first = Now.first /\ c.m = Prefix(r, j)
    <3>1. 7 \in 0 .. 7
          OBVIOUS
    <3>2. Prefix(r, j) \in PartSet
          BY <1>4, PrefixType
    <3>3. c \in CallSet
          BY <1>0, <2>1, <3>1, <3>2, CallMap
    <3>4. /\ c.it = Now.it /\ c.end = Now.end /\ c.status = 7
          /\ c.first = Now.first /\ c.m = Prefix(r, j)
          BY <1>0, <2>1 DEF CallSet
    <3>5. QED
          BY <1>3, <3>3, <3>4
  <2>4. x = [c EXCEPT !.it = @ + 1]
        OBVIOUS
  <2> HIDE DEF x
  <2>5. /\ x.it = i + 1 /\ x.end = z /\ x.status = 7
        /\ x.first = Now.first /\ x.m = Prefix(r, j)
        BY <2>3, <2>4, CallNext
  <2>7. Located(x, r, j)
        BY <1>3, <1>4, <1>7, <2>5, <2>11 DEF Located
  <2>8. Reading(x, r, j)
    <3>1. x.it = e
          BY <2>5, <2>11
    <3>2. x.it = r.es[j].e
          BY <1>6, <3>1
    <3>3. QED
          BY <2>5, <3>2 DEF Reading
  <2>9. QED
        BY <1>1, <1>3, <2>2, <2>3, <2>4, <2>7, <2>8, TurnMade
<1>10. CASE Read # QTM
  <2> DEFINE x == [Now EXCEPT !.it = @ + 1]
  <2>1. Turn(Now)
        BY <1>10 DEF StringEnds
  <2>2. x = [Now EXCEPT !.it = @ + 1]
        OBVIOUS
  <2> HIDE DEF x
  <2>3. /\ x.it = i + 1 /\ x.end = z /\ x.status = 5 /\ x.first = Now.first
        /\ x.key = Now.key /\ x.m = Now.m
    <3>1. x.it = Now.it + 1 /\ x.end = Now.end /\ x.status = Now.status
          BY <1>0, <2>2 DEF CallSet
    <3>2. x.first = Now.first /\ x.key = Now.key /\ x.m = Now.m
          BY <1>0, <2>2 DEF CallSet
    <3>3. QED
          BY <1>1, <1>3, <3>1, <3>2
  <2>4. i # e - 1
    <3>1. text[e - 1] = QTM
          BY <1>8 DEF StringAt
    <3>2. QED
          BY <1>3, <1>10, <3>1 DEF Read
  <2>5. Located(x, r, j)
        BY <1>3, <1>4, <2>3 DEF Located
  <2>6. Reading(x, r, j)
    <3>1. x.it \in v + 1 .. e - 1
          BY <1>8, <2>3, <2>4
    <3>2. AtValue(x, y, r.m[y.k])
          BY <1>1, <1>6, <1>8, <2>3, <3>1 DEF AtValue
    <3>3. QED
          BY <1>6, <1>8, <2>3, <3>2 DEF Reading
  <2>7. QED
        BY <1>1, <1>3, <2>1, <2>2, <2>5, <2>6, TurnMade
<1>11. QED
       BY <1>9, <1>10

LEMMA NumberEndsKeeps ==
  ASSUME NEW S, NEW fr, Parsing(S, calls, fr), NumberEnds
  PROVE  \E fr2 : Parsing(S, calls', fr2)
<1>1. calls # <<>> /\ Now.it < Now.end /\ Now.status = 6
      BY DEF NumberEnds, InLoop
<1>2. PICK r \in S, j \in Nat, i \in Nat, z \in Nat : Inner(S, fr, r, j, i, z)
      BY <1>1, ParsingInner
<1>3. /\ r = fr[Len(calls)].r /\ i = Now.it /\ z = Now.end /\ z = r.end /\ i < z
      /\ Now \in CallSet /\ Now.first \in 1 .. i + 1
      BY <1>1, <1>2 DEF Inner
<1>0. Now \in CallSet
      BY <1>3
<1>4. text \in Seq(Chars) /\ Structure(text, S) /\ j \in 1 .. Len(r.es)
      BY <1>2 DEF Inner
<1>5. PICK y \in EntrySet, p \in Nat \ {0}, q \in Nat \ {0}, l \in Nat, v \in Nat \ {0},
           e \in Nat \ {0} : Spans(S, r, j, y, p, q, l, v, e)
      BY <1>4, EntrySpans
<1>6. y = r.es[j] /\ p = y.p /\ q = Quote(y) /\ l = Len(y.k) /\ v = y.v /\ e = y.e
      BY <1>5 DEF Spans
<1>7. y.k \in Seq(Plain) /\ p < q /\ v = q + l + 3 /\ v < e /\ e < z
      BY <1>3, <1>5 DEF Spans
<1>8. /\ Now.first = v /\ i \in v + 1 .. e /\ NumAt(text, r.m[y.k], v, e)
      /\ Now.key = y.k /\ Now.m = Prefix(r, j - 1)
  <2>1. Reading(Now, r, j)
        BY <1>2 DEF Inner
  <2>2. AtValue(Now, y, r.m[y.k]) /\ Now.m = Prefix(r, j - 1)
        BY <1>1, <1>6, <2>1 DEF Reading, AtKey
  <2>3. /\ Now.key = y.k /\ Now.first = y.v
        /\ Now.it \in y.v + 1 .. y.e
        BY <1>1, <2>2 DEF AtValue
  <2>4. NumAt(text, r.m[y.k], y.v, y.e)
        BY <1>1, <2>2 DEF AtValue
  <2>5. QED
        BY <1>3, <1>6, <2>2, <2>3, <2>4
<1>9. CASE Read \notin Digits
  <2>11. i = e
    <3>1. \A u \in v + 1 .. e - 1 : text[u] \in Digits
          BY <1>8 DEF NumAt
    <3>2. i \notin v + 1 .. e - 1
          BY <1>3, <1>9, <3>1 DEF Read
    <3>3. QED
          BY <1>8, <3>2
  <2>12. With(Now.key, Num(Scanned), Now.m) = Prefix(r, j)
    <3>1. Num(Scanned) = r.m[y.k]
      <4>1. r.m[y.k] = Num(SubSeq(text, v, e - 1))
            BY <1>8 DEF NumAt
      <4>2. i - 1 = e - 1
            BY <2>11
      <4>3. QED
            BY <1>3, <1>8, <4>1, <4>2 DEF Scanned
    <3>2. With(r.es[j].k, r.m[r.es[j].k], Prefix(r, j - 1)) = Prefix(r, j)
          BY <1>4, PrefixNext
    <3>3. QED
          BY <1>6, <1>8, <3>1, <3>2
  <2> DEFINE c == [Now EXCEPT !.it = Now.it - 1, !.status = 7, !.m = Prefix(r, j)]
             x == [c EXCEPT !.it = @ + 1]
  <2>1. c = [Now EXCEPT !.it = Now.it - 1, !.status = 7, !.m = Prefix(r, j)]
        OBVIOUS
  <2>2. Turn(c)
        BY <1>9, <2>12 DEF NumberEnds
  <2> HIDE DEF c
  <2>3. /\ c \in CallSet /\ c.it = i - 1 /\ c.end = z
        /\ c.status = 7 /\ c.first = Now.first /\ c.m = Prefix(r, j)
    <3>1. 7 \in 0 .. 7
          OBVIOUS
    <3>2. Prefix(r, j) \in PartSet /\ Now.it - 1 \in Nat
          BY <1>3, <1>4, <2>11, PrefixType
    <3>3. c \in CallSet
          BY <1>0, <2>1, <3>1, <3>2, CallBack
    <3>4. /\ c.it = Now.it - 1 /\ c.end = Now.end /\ c.status = 7
          /\ c.first = Now.first /\ c.m = Prefix(r, j)
          BY <1>0, <2>1 DEF CallSet
    <3>5. QED
          BY <1>3, <3>3, <3>4
  <2>4. x = [c EXCEPT !.it = @ + 1]
        OBVIOUS
  <2> HIDE DEF x
  <2>5. x.it = i /\ x.end = z /\ x.status = 7 /\ x.first = Now.first /\ x.m = Prefix(r, j)
        BY <2>3, <2>4, CallNext
  <2>7. Located(x, r, j)
        BY <1>3, <1>4, <1>7, <2>5, <2>11 DEF Located
  <2>8. Reading(x, r, j)
    <3>1. x.it = e
          BY <2>5, <2>11
    <3>2. x.it = r.es[j].e
          BY <1>6, <3>1
    <3>3. QED
          BY <2>5, <3>2 DEF Reading
  <2>9. QED
        BY <1>1, <1>3, <2>2, <2>3, <2>4, <2>7, <2>8, TurnMade
<1>10. CASE Read \in Digits
  <2> DEFINE x == [Now EXCEPT !.it = @ + 1]
  <2>1. Turn(Now)
        BY <1>10 DEF NumberEnds
  <2>2. x = [Now EXCEPT !.it = @ + 1]
        OBVIOUS
  <2> HIDE DEF x
  <2>3. /\ x.it = i + 1 /\ x.end = z /\ x.status = 6 /\ x.first = Now.first
        /\ x.key = Now.key /\ x.m = Now.m
    <3>1. x.it = Now.it + 1 /\ x.end = Now.end /\ x.status = Now.status
          BY <1>0, <2>2 DEF CallSet
    <3>2. x.first = Now.first /\ x.key = Now.key /\ x.m = Now.m
          BY <1>0, <2>2 DEF CallSet
    <3>3. QED
          BY <1>1, <1>3, <3>1, <3>2
  <2>4. i # e
    <3>1. Comma(text, r, j, y) \/ Brace(text, r, j, y)
          BY <1>4, <1>6, EntryNext
    <3>2. text[e] \notin Digits
          BY <1>6, <3>1 DEF Comma, Brace, Digits, COA, BRC
    <3>3. QED
          BY <1>3, <1>10, <3>2 DEF Read
  <2>5. Located(x, r, j)
        BY <1>3, <1>4, <2>3 DEF Located
  <2>6. Reading(x, r, j)
    <3>1. x.it \in v + 1 .. e
          BY <1>8, <2>3, <2>4
    <3>2. AtValue(x, y, r.m[y.k])
          BY <1>1, <1>6, <1>8, <2>3, <3>1 DEF AtValue
    <3>3. QED
          BY <1>6, <1>8, <2>3, <3>2 DEF Reading
  <2>7. QED
        BY <1>1, <1>3, <2>1, <2>2, <2>5, <2>6, TurnMade
<1>11. QED
       BY <1>9, <1>10

LEMMA AwaitsCommaKeeps ==
  ASSUME NEW S, NEW fr, Parsing(S, calls, fr), AwaitsComma
  PROVE  \E fr2 : Parsing(S, calls', fr2)
<1>1. calls # <<>> /\ Now.it < Now.end /\ Now.status = 7
      BY DEF AwaitsComma, InLoop
<1>2. PICK r \in S, j \in Nat, i \in Nat, z \in Nat : Inner(S, fr, r, j, i, z)
      BY <1>1, ParsingInner
<1>3. /\ r = fr[Len(calls)].r /\ i = Now.it /\ z = Now.end /\ z = r.end /\ i < z
      /\ Now \in CallSet /\ Now.first \in 1 .. i + 1
      BY <1>1, <1>2 DEF Inner
<1>0. Now \in CallSet
      BY <1>3
<1>4. text \in Seq(Chars) /\ Structure(text, S) /\ j \in 1 .. Len(r.es)
      BY <1>2 DEF Inner
<1>5. PICK y \in EntrySet, p \in Nat \ {0}, q \in Nat \ {0}, l \in Nat, v \in Nat \ {0},
           e \in Nat \ {0} : Spans(S, r, j, y, p, q, l, v, e)
      BY <1>4, EntrySpans
<1>6. y = r.es[j] /\ p = y.p /\ q = Quote(y) /\ l = Len(y.k) /\ v = y.v /\ e = y.e
      BY <1>5 DEF Spans
<1>7. y.k \in Seq(Plain) /\ p < q /\ v = q + l + 3 /\ v < e /\ e < z
      BY <1>3, <1>5 DEF Spans
<1>8. i = e /\ Now.m = Prefix(r, j)
  <2>1. Reading(Now, r, j)
        BY <1>2 DEF Inner
  <2>2. QED
        BY <1>1, <1>3, <1>6, <2>1 DEF Reading, AtKey, AtValue
<1>9. Len(r.es) \in Nat
      BY <1>4, NodeType
<1>10. Comma(text, r, j, y) \/ Brace(text, r, j, y)
       BY <1>4, <1>6, EntryNext
<1>11. CASE Comma(text, r, j, y)
  <2>11. Read = COA
         BY <1>3, <1>6, <1>8, <1>11 DEF Comma, Read
  <2> DEFINE c == [Now EXCEPT !.status = 1]
             x == [c EXCEPT !.it = @ + 1]
  <2>1. c = [Now EXCEPT !.status = 1]
        OBVIOUS
  <2>2. Turn(c)
        BY <2>11 DEF AwaitsComma
  <2> HIDE DEF c
  <2>3. /\ c \in CallSet /\ c.it = i /\ c.end = z
        /\ c.status = 1 /\ c.first = Now.first /\ c.m = Now.m
    <3>1. 1 \in 0 .. 7
          OBVIOUS
    <3>3. c \in CallSet
          BY <1>0, <2>1, <3>1, CallStatus
    <3>4. /\ c.it = Now.it /\ c.end = Now.end /\ c.status = 1
          /\ c.first = Now.first /\ c.m = Now.m
          BY <1>0, <2>1 DEF CallSet
    <3>5. QED
          BY <1>3, <3>3, <3>4
  <2>4. x = [c EXCEPT !.it = @ + 1]
        OBVIOUS
  <2> HIDE DEF x
  <2>5. x.it = i + 1 /\ x.end = z /\ x.status = 1 /\ x.first = Now.first /\ x.m = Now.m
        BY <2>3, <2>4, CallNext
  <2>6. j + 1 \in 1 .. Len(r.es) /\ j + 1 \in Nat
        BY <1>4, <1>9, <1>11 DEF Comma
  <2>7. Located(x, r, j + 1)
        BY <1>3, <1>4, <2>5, <2>6 DEF Located
  <2>8. Reading(x, r, j + 1)
    <3>1. x.it = r.es[j].e + 1
          BY <1>6, <1>8, <2>5
    <3>2. j < Len(r.es) /\ x.m = Prefix(r, j)
          BY <1>8, <1>11, <2>5 DEF Comma
    <3>3. QED
          BY <1>4, <2>5, <3>1, <3>2, NextEntry
  <2>9. QED
        BY <1>1, <1>3, <2>2, <2>3, <2>4, <2>6, <2>7, <2>8, TurnMade
<1>12. CASE Brace(text, r, j, y)
  <2>11. Read # COA
         BY <1>3, <1>6, <1>8, <1>12 DEF Brace, Read, COA, BRC
  <2> DEFINE c == [Now EXCEPT !.status = 7]
             x == [c EXCEPT !.it = @ + 1]
  <2>1. c = [Now EXCEPT !.status = 7]
        OBVIOUS
  <2>2. Turn(c)
        BY <2>11 DEF AwaitsComma
  <2> HIDE DEF c
  <2>3. /\ c \in CallSet /\ c.it = i /\ c.end = z
        /\ c.status = 7 /\ c.first = Now.first /\ c.m = Now.m
    <3>1. 7 \in 0 .. 7
          OBVIOUS
    <3>3. c \in CallSet
          BY <1>0, <2>1, <3>1, CallStatus
    <3>4. /\ c.it = Now.it /\ c.end = Now.end /\ c.status = 7
          /\ c.first = Now.first /\ c.m = Now.m
          BY <1>0, <2>1 DEF CallSet
    <3>5. QED
          BY <1>3, <3>3, <3>4
  <2>4. x = [c EXCEPT !.it = @ + 1]
        OBVIOUS
  <2> HIDE DEF x
  <2>5. x.it = i + 1 /\ x.end = z /\ x.status = 7 /\ x.first = Now.first /\ x.m = Now.m
        BY <2>3, <2>4, CallNext
  <2>6. i + 1 = z
        BY <1>3, <1>6, <1>8, <1>12 DEF Brace
  <2>7. Located(x, r, j)
        BY <1>3, <1>4, <2>5, <2>6 DEF Located
  <2>8. Reading(x, r, j)
        BY <1>3, <1>6, <1>8, <1>12, <2>5 DEF Brace, Reading
  <2>9. QED
        BY <1>1, <1>3, <2>2, <2>3, <2>4, <2>7, <2>8, TurnMade
<1>13. QED
       BY <1>10, <1>11, <1>12
-----------------------------------------------------------------------------
(* A call begins with the map that its part is of.                         *)
LEMMA CallBegins ==
  ASSUME NEW S, text \in Seq(Chars), Structure(text, S), NEW r \in S, NEW c, c = Call(r.at, r.end)
  PROVE  c \in CallSet /\ Located(c, r, 1) /\ Reading(c, r, 1)
<1>1. r.at \in Nat \ {0} /\ r.end \in Nat /\ r.at < r.end /\ Len(r.es) \in Nat \ {0}
      BY NodeType
<1>2. Empty \in PartSet
  <2>1. Empty \in [{} -> Values]
        BY DEF Empty
  <2>2. {} \in SUBSET ToSet(KeyOrder)
        OBVIOUS
  <2>3. QED
        BY <2>1, <2>2 DEF PartSet
<1>3. Prefix(r, 0) = Empty
  <2>1. {r.es[i].k : i \in 1 .. 0} = {}
        OBVIOUS
  <2>2. QED
        BY <2>1 DEF Prefix, Empty
<1>4. <<>> \in Seq(Chars) /\ 0 \in 0 .. 7
      OBVIOUS
<1>5. c \in CallSet
      BY <1>1, <1>2, <1>4 DEF Call, CallSet
<1>6. /\ c.it = r.at /\ c.end = r.end /\ c.status = 0 /\ c.first = r.at /\ c.m = Empty
      BY DEF Call
<1>7. Located(c, r, 1)
      BY <1>1, <1>6 DEF Located
<1>8. Reading(c, r, 1)
      BY <1>3, <1>6 DEF Reading
<1>9. QED
      BY <1>5, <1>7, <1>8

(* A call for a child.                                                     *)
LEMMA PushKeeps ==
  ASSUME NEW S, NEW fr, Parsing(S, calls, fr), calls # <<>>, NEW d \in S, NEW c
  PROVE  /\ c \in CallSet /\ Located(c, d, 1) /\ Reading(c, d, 1)
         /\ Awaits(Now, fr[Len(calls)].r, fr[Len(calls)].j, d)
         => \E fr2 : Parsing(S, Append(calls, c), fr2)
<1> DEFINE n == Len(calls)
           f == [r |-> d, j |-> 1]
           ds == Append(calls, c)
           fr2 == Append(fr, f)
           T == [r : S, j : Nat]
<1>1. SUFFICES ASSUME c \in CallSet, Located(c, d, 1), Reading(c, d, 1),
                      Awaits(Now, fr[n].r, fr[n].j, d)
               PROVE  \E g : Parsing(S, ds, g)
      OBVIOUS
<1>2. /\ calls \in Seq(CallSet) /\ fr \in Seq(T) /\ Len(fr) = n
      /\ text \in Seq(Chars) /\ Structure(text, S) /\ fr[1].r.m = doc
      /\ \A i \in 1 .. n : Located(calls[i], fr[i].r, fr[i].j)
      /\ \A i \in 1 .. n - 1 : Awaits(calls[i], fr[i].r, fr[i].j, fr[i + 1].r)
      BY DEF Parsing
<1>3. n \in Nat \ {0} /\ n = Len(calls)
      BY <1>2
<1>4. f \in T /\ f.r = d /\ f.j = 1
      OBVIOUS
<1>5. Awaits(Now, fr[n].r, fr[n].j, d) /\ n = Len(calls)
      BY <1>1
<1> HIDE DEF n, T, f
<1>6. Now = calls[n]
  <2>1. calls \in Seq(CallSet) /\ n \in Nat \ {0} /\ n = Len(calls)
        BY <1>2, <1>3
  <2>2. Last(calls) = calls[n]
        BY <2>1, PopStack
  <2>3. QED
        BY <2>2 DEF Now
<1>7. /\ ds \in Seq(CallSet) /\ Len(ds) = n + 1 /\ ds[n + 1] = c
      /\ \A i \in 1 .. n : ds[i] = calls[i]
      BY <1>1, <1>2, <1>3, PushStack
<1>8. /\ fr2 \in Seq(T) /\ Len(fr2) = n + 1 /\ fr2[n + 1] = f
      /\ \A i \in 1 .. n : fr2[i] = fr[i]
      BY <1>2, <1>3, <1>4, PushStack
<1> HIDE DEF ds, fr2
<1>9. \A i \in 1 .. n + 1 : Located(ds[i], fr2[i].r, fr2[i].j)
  <2>1. SUFFICES ASSUME NEW i \in 1 .. n + 1 PROVE Located(ds[i], fr2[i].r, fr2[i].j)
        OBVIOUS
  <2>2. CASE i = n + 1
        BY <1>1, <1>4, <1>7, <1>8, <2>2
  <2>3. CASE i # n + 1
    <3>1. i \in 1 .. n
          BY <1>3, <2>3
    <3>2. QED
          BY <1>2, <1>7, <1>8, <3>1
  <2>4. QED
        BY <2>2, <2>3
<1>10. \A i \in 1 .. n : Awaits(ds[i], fr2[i].r, fr2[i].j, fr2[i + 1].r)
  <2>1. SUFFICES ASSUME NEW i \in 1 .. n
        PROVE  Awaits(ds[i], fr2[i].r, fr2[i].j, fr2[i + 1].r)
        OBVIOUS
  <2>2. ds[i] = calls[i] /\ fr2[i] = fr[i]
        BY <1>7, <1>8
  <2>3. CASE i = n
        BY <1>4, <1>5, <1>6, <1>8, <2>2, <2>3
  <2>4. CASE i # n
    <3>1. i \in 1 .. n - 1 /\ i + 1 \in 1 .. n
          BY <1>3, <2>4
    <3>2. fr2[i + 1] = fr[i + 1]
          BY <1>8, <3>1
    <3>3. QED
          BY <1>2, <2>2, <3>1, <3>2
  <2>5. QED
        BY <2>3, <2>4
<1>11. Reading(ds[n + 1], fr2[n + 1].r, fr2[n + 1].j)
       BY <1>1, <1>4, <1>7, <1>8
<1>12. fr2[1].r.m = doc
  <2>1. 1 \in 1 .. n
        BY <1>3
  <2>2. QED
        BY <1>2, <1>8, <2>1
<1>13. (n + 1) - 1 = n
       BY <1>3
<1>14. Parsing(S, ds, fr2)
       BY <1>2, <1>7, <1>8, <1>9, <1>10, <1>11, <1>12, <1>13 DEF Parsing, T
<1>15. QED
       BY <1>14

LEMMA ChildStartsKeeps ==
  ASSUME NEW S, NEW fr, Parsing(S, calls, fr), ChildStarts
  PROVE  \E fr2 : Parsing(S, calls', fr2)
<1>1. calls # <<>> /\ Now.it < Now.end /\ Now.status = 4
      BY DEF ChildStarts, InLoop
<1>2. PICK r \in S, j \in Nat, i \in Nat, z \in Nat : Inner(S, fr, r, j, i, z)
      BY <1>1, ParsingInner
<1>3. /\ r = fr[Len(calls)].r /\ i = Now.it /\ z = Now.end /\ z = r.end /\ i < z
      /\ Now \in CallSet /\ Now.first \in 1 .. i + 1
      BY <1>1, <1>2 DEF Inner
<1>0. Now \in CallSet
      BY <1>3
<1>4. text \in Seq(Chars) /\ Structure(text, S) /\ j \in 1 .. Len(r.es)
      BY <1>2 DEF Inner
<1>5. PICK y \in EntrySet, p \in Nat \ {0}, q \in Nat \ {0}, l \in Nat, v \in Nat \ {0},
           e \in Nat \ {0} : Spans(S, r, j, y, p, q, l, v, e)
      BY <1>4, EntrySpans
<1>6. y = r.es[j] /\ p = y.p /\ q = Quote(y) /\ l = Len(y.k) /\ v = y.v /\ e = y.e
      BY <1>5 DEF Spans
<1>7. y.k \in Seq(Plain) /\ p < q /\ v = q + l + 3 /\ v < e /\ e < z
      BY <1>3, <1>5 DEF Spans
<1>8. i = v /\ Now.it = y.v /\ Now.key = y.k /\ Now.m = Prefix(r, j - 1)
  <2>1. Reading(Now, r, j)
        BY <1>2 DEF Inner
  <2>2. AtValue(Now, y, r.m[y.k]) /\ Now.m = Prefix(r, j - 1)
        BY <1>1, <1>6, <2>1 DEF Reading, AtKey
  <2>3. QED
        BY <1>1, <1>3, <1>6, <2>2 DEF AtValue
<1>9. Read = BRO /\ text[v] = BRO
      BY <1>3, <1>8 DEF ChildStarts, Read
<1>10. ChildAt(text, S, r.m[y.k], v, e)
  <2>1. Value(text, S, r.m[y.k], v, e)
        BY <1>5 DEF Spans
  <2>2. \/ StringAt(text, r.m[y.k], v, e) \/ NumAt(text, r.m[y.k], v, e)
        \/ ChildAt(text, S, r.m[y.k], v, e)
        BY <1>4, <2>1, ValueChars
  <2>3. ~ StringAt(text, r.m[y.k], v, e)
        BY <1>9 DEF StringAt, BRO, QTM
  <2>4. ~ NumAt(text, r.m[y.k], v, e)
        BY <1>9 DEF NumAt, BRO, Digits
  <2>5. QED
        BY <2>2, <2>3, <2>4
<1>11. PICK d \in S : r.m[y.k] = Child(d.m) /\ d.at = v /\ d.end = e
       BY <1>10 DEF ChildAt
<1>12. Closes(Now.it, Now.end) = d.end
  <2>1. d.end <= z
        BY <1>7, <1>11
  <2>2. Closes(d.at, z) = d.end
        BY <1>4, <2>1, ClosesBehind
  <2>3. QED
        BY <1>3, <1>8, <1>11, <2>2
<1> DEFINE c == Call(d.at, d.end)
<1>13. calls' = Append(calls, c)
       BY <1>3, <1>8, <1>11, <1>12 DEF ChildStarts
<1>14. c = Call(d.at, d.end)
       OBVIOUS
<1> HIDE DEF c
<1>15. c \in CallSet /\ Located(c, d, 1) /\ Reading(c, d, 1)
       BY <1>4, <1>14, CallBegins
<1>16. Awaits(Now, r, j, d)
       BY <1>1, <1>6, <1>8, <1>11 DEF Awaits
<1>17. j = fr[Len(calls)].j
       BY <1>2 DEF Inner
<1>18. \E fr2 : Parsing(S, Append(calls, c), fr2)
       BY <1>1, <1>3, <1>15, <1>16, <1>17, PushKeeps
<1>19. QED
       BY <1>13, <1>18

(* A call that is at the end of its part has read its map.                 *)
LEMMA CallOver ==
  ASSUME NEW S, NEW fr, NEW r \in S, NEW j \in Nat, NEW i \in Nat, NEW z \in Nat,
         Inner(S, fr, r, j, i, z), i = z
  PROVE  Now.m = r.m
<1>1. i = Now.it /\ i = r.end
      BY DEF Inner
<1>2. text \in Seq(Chars) /\ Structure(text, S) /\ j \in 1 .. Len(r.es) /\ Reading(Now, r, j)
      BY DEF Inner
<1>3. PICK y \in EntrySet, p \in Nat \ {0}, q \in Nat \ {0}, l \in Nat, v \in Nat \ {0},
           e \in Nat \ {0} : Spans(S, r, j, y, p, q, l, v, e)
      BY <1>2, EntrySpans
<1>4. /\ y = r.es[j] /\ p = y.p /\ q = Quote(y) /\ l = Len(y.k) /\ v = y.v /\ e = y.e
      /\ p < q /\ v = q + l + 3 /\ v < e /\ e < i
      BY <1>1, <1>3 DEF Spans
<1>5. r.at < i
      BY <1>1, <1>2, NodeType
<1>6. ~ AtKey(Now, y)
  <2>1. p < q /\ q + l + 3 < i
        BY <1>4
  <2>2. i \notin p + 1 .. q /\ i \notin q + 1 .. q + l + 1 /\ i # q + l + 2
        BY <2>1
  <2>3. QED
        BY <1>1, <1>4, <2>2 DEF AtKey
<1>7. ~ AtValue(Now, y, r.m[y.k])
  <2>1. v < e /\ e < i
        BY <1>4
  <2>2. i # v /\ i \notin v + 1 .. e - 1 /\ i \notin v + 1 .. e
        BY <2>1
  <2>3. QED
        BY <1>1, <1>4, <2>2 DEF AtValue
<1>8. Now.it # r.at /\ Now.it # r.es[j].e
      BY <1>1, <1>4, <1>5
<1>9. Now.m = Prefix(r, j) /\ j = Len(r.es)
      BY <1>2, <1>4, <1>6, <1>7, <1>8 DEF Reading
<1>10. QED
       BY <1>2, <1>9, PrefixWhole

(* The caller of the innermost call.                                       *)
LEMMA CallerWaits ==
  ASSUME NEW S, NEW fr, Parsing(S, calls, fr), Len(calls) > 1,
         NEW cs, NEW gs, NEW c, cs = Front(calls), gs = Front(fr), c = Last(cs)
  PROVE  \E R \in S, J \in Nat :
            /\ cs # <<>> /\ Parsing(S, cs, gs)
            /\ R = gs[Len(cs)].r /\ J \in 1 .. Len(R.es) /\ c \in CallSet
            /\ Located(c, R, J) /\ Awaits(c, R, J, fr[Len(calls)].r)
<1> DEFINE n == Len(calls)
           T == [r : S, j : Nat]
           l == n - 1
<1>1. /\ calls \in Seq(CallSet) /\ fr \in Seq(T) /\ Len(fr) = n
      /\ text \in Seq(Chars) /\ Structure(text, S)
      /\ calls # <<>> /\ fr[1].r.m = doc
      /\ \A i \in 1 .. n : Located(calls[i], fr[i].r, fr[i].j)
      /\ \A i \in 1 .. n - 1 : Awaits(calls[i], fr[i].r, fr[i].j, fr[i + 1].r)
      BY DEF Parsing
<1>2. n \in Nat \ {0} /\ n = Len(calls) /\ l \in Nat \ {0} /\ l = n - 1 /\ l \in 1 .. n
      /\ l + 1 = n /\ l \in 1 .. n - 1
      BY <1>1
<1> HIDE DEF n, T, l
<1>3. cs \in Seq(CallSet) /\ Len(cs) = l /\ \A i \in 1 .. l : cs[i] = calls[i]
  <2>1. calls \in Seq(CallSet) /\ cs = Front(calls)
        BY <1>1
  <2>2. QED
        BY <1>2, <2>1, PopStack
<1>4. gs \in Seq(T) /\ Len(gs) = l /\ \A i \in 1 .. l : gs[i] = fr[i]
      BY <1>1, <1>2, PopStack
<1>5. c = calls[l] /\ c \in CallSet /\ c = cs[l] /\ gs[l] = fr[l]
  <2>1. c = cs[l] /\ c \in CallSet
        BY <1>2, <1>3, PopStack
  <2>2. l \in 1 .. l
        BY <1>2
  <2>3. QED
        BY <1>3, <1>4, <2>1, <2>2
<1>6. gs[l] \in T
  <2>1. l \in 1 .. Len(gs)
        BY <1>2, <1>4
  <2>2. QED
        BY <1>4, <2>1
<1>7. gs[l].r \in S /\ gs[l].j \in Nat
      BY <1>6 DEF T
<1>8. Located(c, gs[l].r, gs[l].j) /\ Awaits(c, gs[l].r, gs[l].j, fr[n].r)
      BY <1>1, <1>2, <1>5
<1>9. Reading(c, gs[l].r, gs[l].j)
  <2> DEFINE R == gs[l].r
             J == gs[l].j
             y == R.es[J]
  <2>1. c.status = 4 /\ c.it = y.v /\ c.key = y.k /\ c.m = Prefix(R, J - 1)
        BY <1>8 DEF Awaits
  <2> HIDE DEF y
  <2>2. AtValue(c, y, R.m[y.k])
        BY <2>1 DEF AtValue
  <2>3. QED
        BY <2>1, <2>2 DEF Reading, y
<1>10. \A i \in 1 .. l : Located(cs[i], gs[i].r, gs[i].j)
       BY <1>1, <1>2, <1>3, <1>4
<1>11. \A i \in 1 .. l - 1 : Awaits(cs[i], gs[i].r, gs[i].j, gs[i + 1].r)
  <2>1. SUFFICES ASSUME NEW i \in 1 .. l - 1
        PROVE  Awaits(cs[i], gs[i].r, gs[i].j, gs[i + 1].r)
        OBVIOUS
  <2>2. i \in 1 .. l /\ i + 1 \in 1 .. l /\ i \in 1 .. n - 1
        BY <1>2
  <2>3. cs[i] = calls[i] /\ gs[i] = fr[i] /\ gs[i + 1] = fr[i + 1]
        BY <1>3, <1>4, <2>2
  <2>4. QED
        BY <1>1, <2>2, <2>3
<1>12. gs[1].r.m = doc
  <2>1. 1 \in 1 .. l
        BY <1>2
  <2>2. QED
        BY <1>1, <1>4, <2>1
<1>13. Parsing(S, cs, gs)
       BY <1>1, <1>3, <1>4, <1>5, <1>9, <1>10, <1>11, <1>12 DEF Parsing, T
<1>14. gs[l].j \in 1 .. Len(gs[l].r.es)
       BY <1>8 DEF Located
<1>15. cs # <<>>
       BY <1>2, <1>3
<1>16. QED
       BY <1>3, <1>5, <1>7, <1>8, <1>13, <1>14, <1>15, <1>2 DEF n

LEMMA ChildReturnsKeeps ==
  ASSUME NEW S, NEW fr, Parsing(S, calls, fr), ChildReturns
  PROVE  \E fr2 : Parsing(S, calls', fr2)
<1>1. Len(calls) > 1 /\ Now.it = Now.end /\ calls # <<>>
      BY DEF ChildReturns
<1>2. PICK d \in S, k \in Nat, i \in Nat, z \in Nat : Inner(S, fr, d, k, i, z)
      BY <1>1, ParsingInner
<1>3. d = fr[Len(calls)].r /\ i = Now.it /\ z = Now.end /\ z = d.end /\ i = z
      BY <1>1, <1>2 DEF Inner
<1>4. Now.m = d.m
      BY <1>2, <1>3, CallOver
<1>5. text \in Seq(Chars) /\ Structure(text, S)
      BY <1>2 DEF Inner
<1> DEFINE cs == Front(calls)
           gs == Front(fr)
           c  == Last(cs)
<1>6. cs = Front(calls) /\ gs = Front(fr) /\ c = Last(cs)
      OBVIOUS
<1>7. calls' = Append(Front(cs),
                 [c EXCEPT !.it = Now.end + 1,
                           !.status = IF Now.end <= Len(text) /\ text[Now.end] = COA THEN 1 ELSE 7,
                           !.m = With(c.key, Child(Now.m), c.m)])
      BY DEF ChildReturns
<1> HIDE DEF cs, gs, c
<1>8. PICK r \in S, j \in Nat :
         /\ cs # <<>> /\ Parsing(S, cs, gs)
         /\ r = gs[Len(cs)].r /\ j \in 1 .. Len(r.es) /\ c \in CallSet
         /\ Located(c, r, j) /\ Awaits(c, r, j, fr[Len(calls)].r)
      BY <1>1, <1>6, CallerWaits
<1>9. /\ c.key = r.es[j].k /\ c.m = Prefix(r, j - 1) /\ r.m[r.es[j].k] = Child(d.m)
      /\ z = r.es[j].e
      BY <1>3, <1>8 DEF Awaits
<1>10. With(c.key, Child(Now.m), c.m) = Prefix(r, j)
  <2>1. With(r.es[j].k, r.m[r.es[j].k], Prefix(r, j - 1)) = Prefix(r, j)
        BY <1>5, <1>8, PrefixNext
  <2>2. QED
        BY <1>4, <1>9, <2>1
<1> DEFINE y == r.es[j]
<1>11. y = r.es[j]
       OBVIOUS
<1>12. y.e = z /\ y.e < r.end /\ r.end <= Len(text) + 1 /\ r.end \in Nat /\ Len(r.es) \in Nat
       /\ Len(text) \in Nat
  <2>1. PICK w \in EntrySet, p \in Nat \ {0}, q \in Nat \ {0}, l \in Nat, v \in Nat \ {0},
             e \in Nat \ {0} : Spans(S, r, j, w, p, q, l, v, e)
        BY <1>5, <1>8, EntrySpans
  <2>2. y.e < r.end
        BY <1>11, <2>1 DEF Spans
  <2>3. r.end \in Nat /\ r.end <= Len(text) + 1 /\ Len(r.es) \in Nat
        BY <1>5, NodeType
  <2>4. Len(text) \in Nat
        BY <1>5
  <2>5. QED
        BY <1>9, <1>11, <2>2, <2>3, <2>4
<1> HIDE DEF y
<1>13. Comma(text, r, j, y) \/ Brace(text, r, j, y)
       BY <1>5, <1>8, <1>11, EntryNext
<1>14. z <= Len(text)
       BY <1>12
<1>15. Prefix(r, j) \in PartSet /\ z + 1 \in Nat
       BY <1>5, <1>8, PrefixType
<1>16. c.first \in 1 .. c.it + 1 /\ c.it < z /\ c.end = r.end
  <2>1. Located(c, r, j) /\ c.it = y.v
        BY <1>8, <1>11 DEF Awaits
  <2>2. PICK w \in EntrySet, p \in Nat \ {0}, q \in Nat \ {0}, l \in Nat, v \in Nat \ {0},
             e \in Nat \ {0} : Spans(S, r, j, w, p, q, l, v, e)
        BY <1>5, <1>8, EntrySpans
  <2>3. y.v < y.e
        BY <1>11, <2>2 DEF Spans
  <2>4. QED
        BY <1>12, <2>1, <2>3 DEF Located
<1>17. c.it \in Nat /\ c.first \in Nat
       BY <1>8 DEF CallSet
<1>18. CASE Comma(text, r, j, y)
  <2> DEFINE x == [c EXCEPT !.it = z + 1, !.status = 1, !.m = Prefix(r, j)]
  <2>1. Now.end <= Len(text) /\ text[Now.end] = COA
        BY <1>3, <1>12, <1>14, <1>18 DEF Comma
  <2>2. calls' = Append(Front(cs), x)
        BY <1>3, <1>7, <1>10, <2>1
  <2>3. 1 \in 0 .. 7 /\ x = [c EXCEPT !.it = z + 1, !.status = 1, !.m = Prefix(r, j)]
        OBVIOUS
  <2> HIDE DEF x
  <2>4. x \in CallSet
        BY <1>8, <1>15, <2>3, CallBack
  <2>5. /\ x.it = z + 1 /\ x.status = 1 /\ x.m = Prefix(r, j)
        /\ x.end = c.end /\ x.first = c.first
        BY <1>8, <2>3 DEF CallSet
  <2>6. j + 1 \in 1 .. Len(r.es) /\ j + 1 \in Nat
        BY <1>8, <1>12, <1>18 DEF Comma
  <2>7. Located(x, r, j + 1)
    <3>1. x.first \in 1 .. x.it + 1 /\ x.it <= x.end
          BY <1>12, <1>16, <1>17, <2>5
    <3>2. QED
          BY <1>16, <2>5, <2>6, <3>1 DEF Located
  <2>8. Reading(x, r, j + 1)
    <3>0. j < Len(r.es)
          BY <1>18 DEF Comma
    <3>1. x.it = r.es[j].e + 1
          BY <1>9, <2>5
    <3>2. QED
          BY <1>5, <1>8, <2>5, <3>0, <3>1, NextEntry
  <2>9. \E fr2 : Parsing(S, Append(Front(cs), x), fr2)
        BY <1>8, <2>4, <2>6, <2>7, <2>8, TurnKeeps
  <2>10. QED
         BY <2>2, <2>9
<1>19. CASE Brace(text, r, j, y)
  <2> DEFINE x == [c EXCEPT !.it = z + 1, !.status = 7, !.m = Prefix(r, j)]
  <2>1. Now.end <= Len(text) /\ text[Now.end] # COA
        BY <1>3, <1>12, <1>14, <1>19 DEF Brace, COA, BRC
  <2>2. calls' = Append(Front(cs), x)
        BY <1>3, <1>7, <1>10, <2>1
  <2>3. 7 \in 0 .. 7 /\ x = [c EXCEPT !.it = z + 1, !.status = 7, !.m = Prefix(r, j)]
        OBVIOUS
  <2> HIDE DEF x
  <2>4. x \in CallSet
        BY <1>8, <1>15, <2>3, CallBack
  <2>5. /\ x.it = z + 1 /\ x.status = 7 /\ x.m = Prefix(r, j)
        /\ x.end = c.end /\ x.first = c.first
        BY <1>8, <2>3 DEF CallSet
  <2>6. j \in Nat /\ x.it = r.end
        BY <1>12, <1>19, <2>5 DEF Brace
  <2>7. Located(x, r, j)
    <3>1. x.first \in 1 .. x.it + 1 /\ x.it <= x.end
          BY <1>12, <1>16, <1>17, <2>5, <2>6
    <3>2. QED
          BY <1>8, <1>16, <2>5, <3>1 DEF Located
  <2>8. Reading(x, r, j)
        BY <1>19, <2>5, <2>6 DEF Reading, Brace
  <2>9. \E fr2 : Parsing(S, Append(Front(cs), x), fr2)
        BY <1>8, <2>4, <2>6, <2>7, <2>8, TurnKeeps
  <2>10. QED
         BY <2>2, <2>9
<1>20. QED
       BY <1>13, <1>18, <1>19
-----------------------------------------------------------------------------
Written == \E S, fr : Under(text, S, writes, fr)
Parsed  == \E S, fr : Parsing(S, calls, fr)

(* The inductive invariant: a text that is being written is a sequence of  *)
(* complete maps and of the heads of the documents under way; each call of *)
(* json_parse is of such a map, and has of it the entries that it has read.*)
JsonInv ==
    /\ writes # <<>> => calls = <<>> /\ Written
    /\ calls # <<>> => Parsed
    /\ Done => result = doc

LEMMA WritingBegins == Init => Written
<1> SUFFICES ASSUME Init PROVE Written
    OBVIOUS
<1> DEFINE w == Write(doc)
           f == [at |-> 1, es |-> <<>>, g |-> <<>>, k |-> <<>>]
<1>1. doc \in Documents /\ text = <<>> /\ writes = <<w>>
      BY DEF Init
<1>2. w \in WriteSet /\ w.m = doc /\ w.left = DOMAIN doc
      BY <1>1, DocumentType DEF Write, WriteSet
<1>3. f \in FrameSet /\ f.at = 1 /\ f.es = <<>>
      BY DEF FrameSet
<1> HIDE DEF w, f
<1>4. text \in Seq(Chars) /\ Len(text) = 0
      BY <1>1
<1>5. Partial(text, {}, w, f)
      BY <1>2, <1>3 DEF Partial, Entries, Behind
<1>6. Top(text, w, f)
  <2>1. Keys(f.es) = {} /\ Behind(f.at, f.es) = 1
        BY <1>3 DEF Keys, Behind
  <2>2. QED
        BY <1>2, <1>4, <2>1 DEF Top
<1>7. writes \in Seq(WriteSet) /\ Len(writes) = 1 /\ writes[1] = w
      BY <1>1, <1>2
<1>8. <<f>> \in Seq(FrameSet) /\ Len(<<f>>) = 1 /\ <<f>>[1] = f
      BY <1>3
<1>9. Below(text, {}, writes, <<f>>) /\ Structure(text, {})
      BY <1>7 DEF Below, Structure
<1>10. Under(text, {}, writes, <<f>>)
       BY <1>2, <1>3, <1>4, <1>5, <1>6, <1>7, <1>8, <1>9 DEF Under
<1>11. QED
       BY <1>10 DEF Written

LEMMA WrittenNext ==
  ASSUME NEW S, NEW fr, Under(text', S, writes', fr), doc' = doc
  PROVE  Written'
<1>1. Under(text, S, writes, fr)'
      BY DEF Under
<1>2. QED
      BY <1>1 DEF Written

LEMMA WriteEntryWrites ==
  ASSUME Written, WriteEntry
  PROVE  Written'
<1>1. writes # <<>> /\ doc' = doc
      BY DEF WriteEntry
<1>2. PICK S, fr : Under(text, S, writes, fr)
      BY DEF Written
<1>3. PICK k \in Writing.left, gap \in Gaps :
         LET v     == Writing.m[k]
             head  == EntryHead(Writing.left = DOMAIN Writing.m, gap, k)
             frame == [Writing EXCEPT !.left = @ \ {k}]
         IN  IF v.type = "child"
             THEN /\ text' = text \o head
                  /\ writes' = Append(Append(Front(writes), frame), Write(v.value))
             ELSE /\ text' = text \o head \o LeafText(v)
                  /\ writes' = Append(Front(writes), frame)
      BY DEF WriteEntry
<1>4. Writing \in WriteSet /\ Writing.left \subseteq DOMAIN Writing.m
  <2>1. PICK n \in Nat \ {0}, w \in WriteSet, f \in FrameSet :
           w = Writing /\ Partial(text, S, w, f)
        BY <1>1, <1>2, WritingParts
  <2>2. QED
        BY <2>1 DEF Partial
<1>5. Writing.m \in Documents /\ k \in DOMAIN Writing.m
      BY <1>4 DEF WriteSet
<1> DEFINE v == Writing.m[k]
           first == Writing.left = DOMAIN Writing.m
           frame == [Writing EXCEPT !.left = @ \ {k}]
<1>6. \/ v \in Leaves /\ v.type \in {"string", "num"}
      \/ v = Child(v.value) /\ v.value \in Documents /\ v.type = "child"
      BY <1>5, DocumentType
<1>7. first \in BOOLEAN /\ (first <=> Writing.left = DOMAIN Writing.m) /\ v = Writing.m[k]
      OBVIOUS
<1>8. IF v.type = "child"
      THEN /\ text' = text \o EntryHead(first, gap, k)
           /\ writes' = Append(Append(Front(writes), frame), Write(v.value))
      ELSE /\ text' = text \o EntryHead(first, gap, k) \o LeafText(v)
           /\ writes' = Append(Front(writes), frame)
      BY <1>3
<1>9. frame = [Writing EXCEPT !.left = @ \ {k}]
      OBVIOUS
<1> HIDE DEF v, first, frame
<1>10. CASE v \in Leaves /\ v.type \in {"string", "num"}
  <2>1. /\ text' = text \o EntryHead(first, gap, k) \o LeafText(v)
        /\ writes' = Append(Front(writes), frame)
        BY <1>8, <1>10
  <2>2. PICK fr2 : Under(text \o EntryHead(first, gap, k) \o LeafText(v), S,
                         Append(Front(writes), [Writing EXCEPT !.left = @ \ {k}]), fr2)
        BY <1>1, <1>2, <1>7, <1>10, LeafWritten
  <2>3. Under(text', S, writes', fr2)
        BY <1>9, <2>1, <2>2
  <2>4. QED
        BY <1>1, <2>3, WrittenNext
<1>11. CASE v = Child(v.value) /\ v.value \in Documents /\ v.type = "child"
  <2>1. /\ text' = text \o EntryHead(first, gap, k)
        /\ writes' = Append(Append(Front(writes), frame), Write(v.value))
        BY <1>8, <1>11
  <2>2. PICK fr2 : Under(text \o EntryHead(first, gap, k), S,
                         Append(Append(Front(writes), [Writing EXCEPT !.left = @ \ {k}]),
                                Write(v.value)), fr2)
        BY <1>1, <1>2, <1>7, <1>11, HeadWritten
  <2>3. Under(text', S, writes', fr2)
        BY <1>9, <2>1, <2>2
  <2>4. QED
        BY <1>1, <2>3, WrittenNext
<1>12. QED
       BY <1>6, <1>10, <1>11

(* json_parse gets the text of the outermost map.                          *)
Begun ==
    /\ text \in Seq(Chars)
    /\ \E S : /\ Structure(text, S)
              /\ \E r \in S : r.m = doc /\ r.at = 1 /\ calls = <<Call(r.at, r.end)>>

LEMMA ParsingBegins == Begun => Parsed
<1> SUFFICES ASSUME Begun PROVE Parsed
    OBVIOUS
<1>0. PICK S : /\ Structure(text, S)
               /\ \E r \in S : r.m = doc /\ r.at = 1 /\ calls = <<Call(r.at, r.end)>>
      BY DEF Begun
<1>1. PICK r \in S : /\ text \in Seq(Chars) /\ Structure(text, S)
                     /\ r.m = doc /\ calls = <<Call(r.at, r.end)>>
      BY <1>0 DEF Begun
<1> DEFINE c == Call(r.at, r.end)
           f == [r |-> r, j |-> 1]
           T == [r : S, j : Nat]
<1>2. calls = <<c>> /\ c = Call(r.at, r.end)
      BY <1>1
<1>3. f \in T /\ f.r = r /\ f.j = 1
      OBVIOUS
<1> HIDE DEF c, f, T
<1>4. c \in CallSet /\ Located(c, r, 1) /\ Reading(c, r, 1)
      BY <1>1, <1>2, CallBegins
<1>5. calls \in Seq(CallSet) /\ Len(calls) = 1 /\ calls[1] = c
      BY <1>2, <1>4
<1>6. <<f>> \in Seq(T) /\ Len(<<f>>) = 1 /\ <<f>>[1] = f
      BY <1>3
<1>7. Parsing(S, calls, <<f>>)
      BY <1>1, <1>3, <1>4, <1>5, <1>6 DEF Parsing, T
<1>8. QED
      BY <1>7 DEF Parsed

LEMMA WriteEndsWrites ==
  ASSUME Written, WriteEnds
  PROVE  /\ writes' # <<>> => calls' = <<>> /\ Written'
         /\ calls' # <<>> => Begun'
         /\ writes' # <<>> \/ calls' # <<>>
<1>1. writes # <<>> /\ Writing.left = {} /\ doc' = doc /\ writes' = Front(writes)
      /\ text' = Append(text, BRC)
      /\ calls' = IF Len(writes) = 1 THEN <<Call(1, Len(text) + 2)>> ELSE <<>>
      BY DEF WriteEnds
<1>2. PICK S, fr : Under(text, S, writes, fr)
      BY DEF Written
<1>3. PICK S2, fr2 :
         /\ Under(text \o <<BRC>>, S2, Front(writes), fr2)
         /\ Len(writes) = 1 => \E r \in S2 : r.m = doc /\ r.at = 1 /\ r.end = Len(text) + 2
      BY <1>1, <1>2, MapWritten
<1>4. writes \in Seq(WriteSet) /\ text \in Seq(Chars)
      BY <1>2 DEF Under
<1>5. text' = text \o <<BRC>>
      BY <1>1, <1>4 DEF Chars
<1>6. Under(text', S2, writes', fr2)
      BY <1>1, <1>3, <1>5
<1>7. Len(writes) \in Nat \ {0} /\ writes' \in Seq(WriteSet) /\ Len(writes') = Len(writes) - 1
  <2>1. Len(writes) \in Nat \ {0}
        BY <1>1, <1>4
  <2>2. Front(writes) \in Seq(WriteSet) /\ Len(Front(writes)) = Len(writes) - 1
        BY <1>4, <2>1, PopStack
  <2>3. QED
        BY <1>1, <2>1, <2>2
<1>8. CASE Len(writes) = 1
  <2>1. writes' = <<>>
        BY <1>7, <1>8
  <2>2. text' \in Seq(Chars) /\ Structure(text', S2)
        BY <1>6 DEF Under
  <2>3. PICK r \in S2 : r.m = doc /\ r.at = 1 /\ r.end = Len(text) + 2
        BY <1>3, <1>8
  <2>4. calls' = <<Call(r.at, r.end)>>
        BY <1>1, <1>8, <2>3
  <2>5. Begun'
        BY <1>1, <2>2, <2>3, <2>4 DEF Begun
  <2>6. QED
        BY <2>1, <2>4, <2>5
<1>9. CASE Len(writes) # 1
  <2>1. calls' = <<>> /\ writes' # <<>>
        BY <1>1, <1>7, <1>9
  <2>2. Written'
        BY <1>1, <1>6, WrittenNext
  <2>3. QED
        BY <2>1, <2>2
<1>10. QED
       BY <1>8, <1>9
-----------------------------------------------------------------------------
LEMMA ParsedNext ==
  ASSUME NEW S, NEW fr, Parsing(S, calls', fr), text' = text, doc' = doc
  PROVE  Parsed'
<1>1. Parsing(S, calls, fr)'
      BY DEF Parsing, Reading, AtValue
<1>2. QED
      BY <1>1 DEF Parsed

(* Every turn of json_parse, the start and the return of a child among     *)
(* them, leaves each call with the entries that it has read of its map.    *)
LEMMA TurnsKeep ==
  ASSUME Parsed, text' = text, doc' = doc,
         \/ AwaitsOpen \/ AwaitsKey \/ KeyEnds \/ AwaitsColon
         \/ ValueStarts \/ ChildStarts \/ StringEnds \/ NumberEnds \/ AwaitsComma
         \/ ChildReturns
  PROVE  Parsed'
<1>1. PICK S, fr : Parsing(S, calls, fr)
      BY DEF Parsed
<1>2. \E fr2 : Parsing(S, calls', fr2)
  <2>1. CASE AwaitsOpen
        BY <1>1, <2>1, AwaitsOpenKeeps
  <2>2. CASE AwaitsKey
        BY <1>1, <2>2, AwaitsKeyKeeps
  <2>3. CASE KeyEnds
        BY <1>1, <2>3, KeyEndsKeeps
  <2>4. CASE AwaitsColon
        BY <1>1, <2>4, AwaitsColonKeeps
  <2>5. CASE ValueStarts
        BY <1>1, <2>5, ValueStartsKeeps
  <2>6. CASE ChildStarts
        BY <1>1, <2>6, ChildStartsKeeps
  <2>7. CASE StringEnds
        BY <1>1, <2>7, StringEndsKeeps
  <2>8. CASE NumberEnds
        BY <1>1, <2>8, NumberEndsKeeps
  <2>9. CASE AwaitsComma
        BY <1>1, <2>9, AwaitsCommaKeeps
  <2>10. CASE ChildReturns
        BY <1>1, <2>10, ChildReturnsKeeps
  <2>11. QED
         BY <2>1, <2>2, <2>3, <2>4, <2>5, <2>6, <2>7, <2>8, <2>9, <2>10
<1>3. QED
      BY <1>2, ParsedNext

(* The outermost call returns the document.                                *)
LEMMA ResultIsDoc ==
  ASSUME Parsed, Returns
  PROVE  result' = doc
<1>1. Len(calls) = 1 /\ Now.it = Now.end /\ result' = Now.m
      BY DEF Returns
<1>2. PICK S, fr : Parsing(S, calls, fr)
      BY DEF Parsed
<1>3. calls # <<>>
  <2>1. Len(calls) = 1 /\ Len(<<>>) = 0
        BY <1>1
  <2>2. QED
        BY <2>1
<1>4. PICK r \in S, j \in Nat, i \in Nat, z \in Nat : Inner(S, fr, r, j, i, z)
      BY <1>2, <1>3, ParsingInner
<1>5. r = fr[1].r /\ i = z
      BY <1>1, <1>4 DEF Inner
<1>6. Now.m = r.m
      BY <1>4, <1>5, CallOver
<1>7. r.m = doc
      BY <1>2, <1>3, <1>5 DEF Parsing
<1>8. QED
      BY <1>1, <1>6, <1>7

(* No call reads outside its part, and no part is outside the caller's.    *)
LEMMA PartsNested ==
  ASSUME Parsed
  PROVE  StaysInPart
<1>1. PICK S, fr : Parsing(S, calls, fr)
      BY DEF Parsed
<1> DEFINE n == Len(calls)
<1>2. /\ calls \in Seq(CallSet) /\ n \in Nat /\ DOMAIN calls = 1 .. n
      /\ fr \in Seq([r : S, j : Nat]) /\ Len(fr) = n
      /\ text \in Seq(Chars) /\ Structure(text, S)
      /\ \A i \in 1 .. n : Located(calls[i], fr[i].r, fr[i].j)
      /\ \A i \in 1 .. n - 1 : Awaits(calls[i], fr[i].r, fr[i].j, fr[i + 1].r)
      BY <1>1 DEF Parsing
<1> HIDE DEF n
<1>3. SUFFICES ASSUME NEW i \in 1 .. n
               PROVE  /\ calls[i].first \in 1 .. calls[i].it + 1
                      /\ calls[i].it <= calls[i].end
                      /\ i > 1 => calls[i].end <= calls[i - 1].end
      BY <1>2 DEF StaysInPart
<1>4. Located(calls[i], fr[i].r, fr[i].j)
      BY <1>2
<1>5. ASSUME i > 1
      PROVE  calls[i].end <= calls[i - 1].end
  <2> DEFINE h == i - 1
             r == fr[h].r
             j == fr[h].j
  <2>1. h \in 1 .. n - 1 /\ h \in 1 .. n /\ h + 1 = i
        BY <1>2, <1>5
  <2> HIDE DEF h
  <2>2. Located(calls[h], r, j) /\ Awaits(calls[h], r, j, fr[i].r)
        BY <1>2, <2>1
  <2> DEFINE T == [r : S, j : Nat]
  <2>0. fr \in Seq(T) /\ h \in 1 .. Len(fr)
        BY <1>2, <2>1
  <2> HIDE DEF T
  <2>3. fr[h] \in T
        BY <2>0
  <2>4. r \in S
        BY <2>3 DEF T
  <2> HIDE DEF r, j
  <2>5. calls[i].end = r.es[j].e /\ calls[h].end = r.end /\ j \in 1 .. Len(r.es)
        BY <1>4, <2>2 DEF Located, Awaits
  <2>6. PICK w \in EntrySet, p \in Nat \ {0}, q \in Nat \ {0}, l \in Nat, v \in Nat \ {0},
             e \in Nat \ {0} : Spans(S, r, j, w, p, q, l, v, e)
        BY <1>2, <2>4, <2>5, EntrySpans
  <2>7. r.es[j].e = e /\ e < r.end
        BY <2>6 DEF Spans
  <2>8. r.end \in Nat
        BY <1>2, <2>4, NodeType
  <2>9. calls[i].end <= calls[h].end
        BY <2>5, <2>7, <2>8
  <2>10. QED
         BY <2>9 DEF h
<1>6. QED
      BY <1>4, <1>5 DEF Located

LEMMA JsonInit == Init => JsonInv
<1> SUFFICES ASSUME Init PROVE JsonInv
    OBVIOUS
<1>1. writes # <<>> /\ calls = <<>>
      BY DEF Init
<1>2. QED
      BY <1>1, WritingBegins DEF JsonInv, Done

LEMMA JsonNext ==
  ASSUME JsonInv, [Next]_vars
  PROVE  JsonInv'
<1>1. CASE WriteEntry
  <2>1. writes # <<>> /\ calls' = calls
        BY <1>1 DEF WriteEntry
  <2>2. Written /\ calls = <<>>
        BY <2>1 DEF JsonInv
  <2>3. Written'
        BY <1>1, <2>2, WriteEntryWrites
  <2>4. writes' # <<>>
    <3>1. \E s, x : writes' = Append(s, x)
          BY <1>1 DEF WriteEntry
    <3>2. QED
          BY <3>1
  <2>5. QED
        BY <2>1, <2>2, <2>3, <2>4 DEF JsonInv, Done
<1>2. CASE WriteEnds
  <2>1. writes # <<>>
        BY <1>2 DEF WriteEnds
  <2>2. Written
        BY <2>1 DEF JsonInv
  <2>3. /\ writes' # <<>> => calls' = <<>> /\ Written'
        /\ calls' # <<>> => Begun'
        /\ writes' # <<>> \/ calls' # <<>>
        BY <1>2, <2>2, WriteEndsWrites
  <2>4. Begun' => Parsed'
        BY ParsingBegins, PTL
  <2>5. QED
        BY <2>3, <2>4 DEF JsonInv, Done
<1>3. CASE Returns
  <2>1. calls # <<>> /\ calls' = <<>> /\ writes' = writes /\ doc' = doc
    <3>1. Len(calls) = 1 /\ Len(<<>>) = 0
          BY <1>3 DEF Returns
    <3>2. calls # <<>>
          BY <3>1
    <3>3. QED
          BY <1>3, <3>2 DEF Returns
  <2>2. Parsed /\ writes = <<>>
        BY <2>1 DEF JsonInv
  <2>3. result' = doc
        BY <1>3, <2>2, ResultIsDoc
  <2>4. QED
        BY <2>1, <2>2, <2>3 DEF JsonInv, Done
<1>4. CASE \/ AwaitsOpen \/ AwaitsKey \/ KeyEnds \/ AwaitsColon
           \/ ValueStarts \/ ChildStarts \/ StringEnds \/ NumberEnds \/ AwaitsComma
           \/ ChildReturns
  <2>1. calls # <<>> /\ text' = text /\ doc' = doc /\ writes' = writes
    <3>1. CASE ChildReturns
      <4>1. Len(calls) > 1 /\ Len(<<>>) = 0
            BY <3>1 DEF ChildReturns
      <4>2. calls # <<>>
            BY <4>1
      <4>3. QED
            BY <3>1, <4>2 DEF ChildReturns
    <3>2. CASE ChildStarts
          BY <3>2 DEF ChildStarts, InLoop
    <3>3. CASE ~ ChildReturns /\ ~ ChildStarts
          BY <1>4, <3>3 DEF AwaitsOpen, AwaitsKey, KeyEnds, AwaitsColon, ValueStarts,
             StringEnds, NumberEnds, AwaitsComma, InLoop, Turn
    <3>4. QED
          BY <3>1, <3>2, <3>3
  <2>2. Parsed /\ writes = <<>>
        BY <2>1 DEF JsonInv
  <2>3. Parsed'
        BY <1>4, <2>1, <2>2, TurnsKeep
  <2>4. calls' # <<>>
    <3>1. \E s, x : calls' = Append(s, x)
      <4>1. CASE ChildReturns
            BY <4>1 DEF ChildReturns
      <4>2. CASE ChildStarts
            BY <4>2 DEF ChildStarts
      <4>3. CASE ~ ChildReturns /\ ~ ChildStarts
            BY <1>4, <4>3 DEF AwaitsOpen, AwaitsKey, KeyEnds, AwaitsColon, ValueStarts,
               StringEnds, NumberEnds, AwaitsComma, Turn
      <4>4. QED
            BY <4>1, <4>2, <4>3
    <3>2. QED
          BY <3>1
  <2>5. QED
        BY <2>1, <2>2, <2>3, <2>4 DEF JsonInv, Done
<1>5. CASE UNCHANGED vars
  <2>1. /\ doc' = doc /\ text' = text /\ writes' = writes /\ calls' = calls
        /\ result' = result
        BY <1>5 DEF vars
  <2>2. ASSUME writes # <<>>
        PROVE  Written'
    <3>1. PICK S, fr : Under(text, S, writes, fr)
          BY <2>2 DEF JsonInv, Written
    <3>2. QED
          BY <2>1, <3>1, WrittenNext
  <2>3. ASSUME calls # <<>>
        PROVE  Parsed'
    <3>1. PICK S, fr : Parsing(S, calls, fr)
          BY <2>3 DEF JsonInv, Parsed
    <3>2. QED
          BY <2>1, <3>1, ParsedNext
  <2>4. QED
        BY <2>1, <2>2, <2>3 DEF JsonInv, Done
<1>6. QED
      BY <1>1, <1>2, <1>3, <1>4, <1>5 DEF Next

LEMMA JsonSafe == JsonInv => ParsesAsWritten
<1>1. CASE calls = <<>>
      BY <1>1 DEF JsonInv, ParsesAsWritten, StaysInPart
<1>2. CASE calls # <<>>
      BY <1>2, PartsNested DEF JsonInv, ParsesAsWritten, Done
<1>3. QED
      BY <1>1, <1>2

(* Whatever the documents, their depth, the keys, the strings, the numbers *)
(* and the gaps that a sender leaves: json_parse makes of the text that    *)
(* json_writer has made of a document that document again, and reads no    *)
(* character outside the part of the text that a call is for.              *)
THEOREM DocumentsComeBack == Spec => []ParsesAsWritten
<1>1. Init => JsonInv
      BY JsonInit
<1>2. JsonInv /\ [Next]_vars => JsonInv'
      BY JsonNext
<1>3. JsonInv => ParsesAsWritten
      BY JsonSafe
<1>4. QED
      BY <1>1, <1>2, <1>3, PTL DEF Spec
=========================================================================
