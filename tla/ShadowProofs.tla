---------------------------- MODULE ShadowProofs ----------------------------
(***************************************************************************)
(* What TLAPS proves of Shadow: the token of awsiot_sem; and, as long as   *)
(* every try_acquire has had its token and the connection holds, that the  *)
(* messages are ones the shadow takes and that it agrees with the buttons  *)
(* when nothing is under way.                                              *)
(***************************************************************************)
EXTENDS Shadow, TLAPS, WellFoundedInduction, SequenceTheorems

Blocked == {"get", "publish", "reconnect", "holding", "lost", "yield", "again",
            "delay", "acquire", "fault"}

(* TokenKept alone is not inductive: try_acquire must not find the main    *)
(* loop holding a token already, and a count is needed to add to.          *)
TokenInv ==
    /\ sem \in Nat /\ held \in {0, 1} /\ aws \in Blocked
    /\ held = 1 => main \in {"key", "value", "release"}
    /\ TokenKept

LEMMA TokenInit == Init => TokenInv
<1>1. Init => sem = 1 /\ aws = "get" /\ held = 0
      BY DEF Init
<1>2. sem = 1 /\ aws = "get" /\ held = 0 => TokenInv
      BY DEF TokenInv, TokenKept, Blocked
<1>3. QED
      BY <1>1, <1>2

(* The main loop.                                                          *)
LEMMA TokenMain == TokenInv /\ (Touch \/ MainNext) => TokenInv'
<1> SUFFICES ASSUME TokenInv, Touch \/ MainNext PROVE TokenInv'
    OBVIOUS
<1> USE DEF TokenInv, TokenKept, Blocked, awsVars, mainVars
<1>1. CASE Touch
      BY <1>1 DEF Touch
<1>2. CASE NotYetPublishing
      BY <1>2 DEF NotYetPublishing
<1>3. CASE TryAcquire
      BY <1>3 DEF TryAcquire
<1>4. CASE AppendKey
      BY <1>4 DEF AppendKey
<1>5. CASE AppendValue
      BY <1>5 DEF AppendValue
<1>6. CASE Release
      BY <1>6 DEF Release
<1>7. QED
      BY <1>1, <1>2, <1>3, <1>4, <1>5, <1>6 DEF MainNext

(* The AWS thread.                                                         *)
LEMMA TokenAws == TokenInv /\ (AwsNext \/ PublishFails \/ YieldFails) => TokenInv'
<1> SUFFICES ASSUME TokenInv, AwsNext \/ PublishFails \/ YieldFails
             PROVE  TokenInv'
    OBVIOUS
<1> USE DEF TokenInv, TokenKept, Blocked, mainVars
<1>1. CASE Acquire
      BY <1>1 DEF Acquire
<1>2. CASE NothingToSend
      BY <1>2 DEF NothingToSend
<1>3. CASE Publish
      BY <1>3 DEF Publish
<1>4. CASE Published
      BY <1>4 DEF Published
<1>5. CASE GetPublished
      BY <1>5 DEF GetPublished
<1>6. CASE PublishReconnected
      BY <1>6 DEF PublishReconnected
<1>7. CASE YieldReconnected
      BY <1>7 DEF YieldReconnected
<1>8. CASE Arrive
      BY <1>8 DEF Arrive
<1>9. CASE Apply
  <2>1. /\ UNCHANGED <<aws, main, held>>
        /\ sem' = sem \/ sem' = IF sem > 0 THEN sem ELSE 1
        BY <1>9 DEF Apply
  <2>2. QED
        BY <2>1
<1>10. CASE YieldReturns
      BY <1>10 DEF YieldReturns
<1>11. CASE PublishFails
      BY <1>11 DEF PublishFails
<1>12. CASE YieldFails
      BY <1>12 DEF YieldFails
<1>13. QED
      BY <1>1, <1>2, <1>3, <1>4, <1>5, <1>6, <1>7, <1>8, <1>9, <1>10, <1>11, <1>12
      DEF AwsNext

(* The shadow service touches nothing of the device.                       *)
LEMMA TokenCloud == TokenInv /\ (ShadowUpdate \/ RemoteCommand) => TokenInv'
BY DEF TokenInv, TokenKept, Blocked, ShadowUpdate, RemoteCommand, awsVars, mainVars

LEMMA TokenStep == TokenInv /\ [Next]_vars => TokenInv'
<1>1. TokenInv /\ UNCHANGED vars => TokenInv'
      BY DEF TokenInv, TokenKept, vars, awsVars, mainVars
<1>2. QED
      BY <1>1, TokenMain, TokenAws, TokenCloud DEF Next

(* Whatever fails and however often a token is given back that nobody took,*)
(* awsiot_sem is never empty with no one to fill it: the AWS thread is not *)
(* blocked for ever in acquire (awsiot.cpp:168).                           *)
THEOREM TokenNeverLost == Spec => []TokenKept
<1>1. TokenInv => TokenKept
      BY DEF TokenInv
<1>2. QED
      BY <1>1, TokenInit, TokenStep, PTL DEF Spec
-----------------------------------------------------------------------------
(* A string of tokens, a document, and what a string says.                 *)
Tokens  == {Prefix, Suffix} \cup {Key(n, c) : n \in Names, c \in BOOLEAN}
                            \cup {Value(v) : v \in Values}
Docs    == UNION {[S -> Values] : S \in SUBSET Names}
Entry(s, i) == IF i % 2 = 1 THEN s[i].t = "key" /\ s[i].comma = (i > 1)
                            ELSE s[i].t = "value"
Speaks(s, b) == \E i \in DOMAIN s : s[i].t = "key" /\ s[i].n = b

LEMMA TokenParts ==
  /\ Prefix \in Tokens /\ Suffix \in Tokens
  /\ \A n \in Names, c \in BOOLEAN : Key(n, c) \in Tokens
  /\ \A v \in Values : Value(v) \in Tokens
  /\ \A k \in Tokens : k.t = "key" => k.n \in Names
  /\ \A k \in Tokens : k.t = "value" => k.v \in Values
<1>1. ASSUME NEW k \in Tokens
      PROVE  (k.t = "key" => k.n \in Names) /\ (k.t = "value" => k.v \in Values)
  <2>1. CASE k \in {Prefix, Suffix}
        BY <2>1 DEF Prefix, Suffix
  <2>2. CASE \E n \in Names, c \in BOOLEAN : k = Key(n, c)
        BY <2>2 DEF Key
  <2>3. CASE \E v \in Values : k = Value(v)
        BY <2>3 DEF Value
  <2>4. QED
        BY <2>1, <2>2, <2>3 DEF Tokens
<1>2. QED
      BY <1>1 DEF Tokens

(* A set of naturals below a bound has a largest member.                   *)
LEMMA Largest ==
  ASSUME NEW n \in Nat, NEW S, S \subseteq 0 .. n, S # {}
  PROVE  \E i \in S : \A j \in S : j <= i
<1> DEFINE T == {n - j : j \in S}
<1>1. T \subseteq Nat /\ T # {}
  <2>1. \A j \in S : j \in 0 .. n /\ n - j \in Nat
        OBVIOUS
  <2>2. T \subseteq Nat
        BY <2>1
  <2>3. T # {}
        OBVIOUS
  <2>4. QED
        BY <2>2, <2>3
<1>2. PICK x \in T : \A y \in T : ~(<<y, x>> \in OpToRel(<, Nat))
      BY <1>1, NatLessThanWellFounded, WFMin
<1>3. PICK i \in S : x = n - i
      BY <1>2
<1>4. ASSUME NEW j \in S
      PROVE  j <= i
  <2>1. n - j \in T /\ n - j \in Nat /\ x \in Nat
        BY <1>1
  <2>2. ~(n - j < x)
        BY <2>1, <1>2 DEF OpToRel
  <2>3. QED
        BY <2>1, <2>2, <1>3
<1>5. QED
      BY <1>4

(* What the shadow makes of a message is a document, and it has every name *)
(* that the message has.                                                   *)
LEMMA StateIsDoc ==
  ASSUME NEW p \in Seq(Tokens), WellFormed(p)
  PROVE  /\ State(p) \in Docs
         /\ DOMAIN State(p) \subseteq Names
         /\ \A b \in Names : Speaks(p, b) => b \in DOMAIN State(p)
<1> DEFINE D == {m \in Names : Says(p, m) # {}}
           At(n) == CHOOSE i \in Says(p, n) : \A j \in Says(p, n) : j <= i
<1>1. Len(p) \in Nat /\ DOMAIN p = 1 .. Len(p) /\ \A i \in 1 .. Len(p) : p[i] \in Tokens
      OBVIOUS
<1>2. State(p) = [n \in D |-> p[At(n) + 1].v]
      BY DEF State
<1>3. ASSUME NEW n \in D
      PROVE  p[At(n) + 1].v \in Values
  <2>1. Says(p, n) \subseteq 0 .. Len(p) /\ Says(p, n) # {}
        BY <1>1 DEF Says
  <2>2. \E i \in Says(p, n) : \A j \in Says(p, n) : j <= i
        BY <2>1, <1>1, Largest
  <2>3. At(n) \in Says(p, n)
        BY <2>2
  <2> HIDE DEF At
  <2>4. At(n) \in 2 .. Len(p) - 2 /\ p[At(n)].t = "key"
        BY <2>3 DEF Says
  <2>5. At(n) % 2 = 0
        BY <2>4, <1>1 DEF WellFormed
  <2>6. At(n) + 1 \in 2 .. Len(p) - 1 /\ (At(n) + 1) % 2 # 0
        BY <2>4, <2>5, <1>1
  <2>7. p[At(n) + 1].t = "value"
        BY <2>6 DEF WellFormed
  <2>8. QED
        BY <2>6, <2>7, <1>1, TokenParts
<1>4. State(p) \in Docs
  <2> HIDE DEF D, At
  <2>1. State(p) \in [D -> Values]
        BY <1>2, <1>3
  <2>2. D \subseteq Names
        BY DEF D
  <2>3. QED
        BY <2>1, <2>2 DEF Docs
<1>5. ASSUME NEW b \in Names, Speaks(p, b)
      PROVE  b \in DOMAIN State(p)
  <2>1. PICK i \in 1 .. Len(p) : p[i].t = "key" /\ p[i].n = b
        BY <1>1, <1>5 DEF Speaks
  <2>2. /\ Len(p) >= 4 /\ Len(p) % 2 = 0
        /\ p[1].t # "key" /\ p[Len(p)].t # "key"
        BY DEF WellFormed, Prefix, Suffix
  <2>3. i \in 2 .. Len(p) - 1
        BY <2>1, <2>2, <1>1
  <2>4. i % 2 = 0
        BY <2>1, <2>3 DEF WellFormed
  <2>5. i \in Says(p, b)
        BY <2>1, <2>2, <2>3, <2>4, <1>1 DEF Says
  <2>6. QED
        BY <2>5, <1>2
<1>6. QED
      BY <1>2, <1>4, <1>5

(* The string as it grows, and as the cycle frames it.                     *)
Entries(s) == \A i \in DOMAIN s : Entry(s, i)

LEMMA Framed ==
  ASSUME NEW s \in Seq(Tokens), s # <<>>, Len(s) % 2 = 0, Entries(s)
  PROVE  LET p == <<Prefix>> \o s \o <<Suffix>>
         IN  p \in Seq(Tokens) /\ WellFormed(p) /\ \A b : Speaks(s, b) => Speaks(p, b)
<1> DEFINE p == <<Prefix>> \o s \o <<Suffix>>
<1>1. Len(s) \in Nat /\ Len(s) > 0 /\ DOMAIN s = 1 .. Len(s)
      OBVIOUS
<1>2. p \in Seq(Tokens) /\ Len(p) = Len(s) + 2 /\ DOMAIN p = 1 .. Len(s) + 2
      BY <1>1, TokenParts
<1>3. /\ p[1] = Prefix /\ p[Len(p)] = Suffix
      /\ \A i \in 1 .. Len(s) : p[i + 1] = s[i]
      BY <1>1, TokenParts
<1> HIDE DEF p
<1>4. ASSUME NEW i \in 2 .. Len(p) - 1
      PROVE  IF i % 2 = 0 THEN p[i].t = "key" /\ p[i].comma = (i > 2)
                          ELSE p[i].t = "value"
  <2>1. i - 1 \in 1 .. Len(s) /\ p[i] = s[i - 1]
        BY <1>1, <1>2, <1>3
  <2>2. Entry(s, i - 1)
        BY <2>1, <1>1 DEF Entries
  <2>3. (i % 2 = 0) = ((i - 1) % 2 = 1) /\ (i > 2) = (i - 1 > 1)
        BY <1>1, <1>2
  <2>4. QED
        BY <2>1, <2>2, <2>3 DEF Entry
<1>5. WellFormed(p)
      BY <1>1, <1>2, <1>3, <1>4 DEF WellFormed
<1>6. ASSUME NEW b, Speaks(s, b)
      PROVE  Speaks(p, b)
  <2>1. PICK i \in 1 .. Len(s) : s[i].t = "key" /\ s[i].n = b
        BY <1>1, <1>6 DEF Speaks
  <2>2. i + 1 \in DOMAIN p /\ p[i + 1] = s[i]
        BY <1>1, <1>2, <1>3
  <2>3. QED
        BY <2>1, <2>2 DEF Speaks
<1>7. QED
      BY <1>2, <1>5, <1>6 DEF p

LEMMA KeyAdded ==
  ASSUME NEW s \in Seq(Tokens), Len(s) % 2 = 0, Entries(s), NEW n \in Names
  PROVE  /\ AddedKey(s, n) \in Seq(Tokens)
         /\ Len(AddedKey(s, n)) % 2 = 1 /\ Entries(AddedKey(s, n))
         /\ \A b : Speaks(s, b) \/ b = n => Speaks(AddedKey(s, n), b)
<1> DEFINE k == Key(n, s # <<>>)
           u == Append(s, k)
<1>1. k \in Tokens /\ k.t = "key" /\ k.n = n /\ k.comma = (s # <<>>)
      BY TokenParts DEF Key
<1>2. Len(s) \in Nat /\ DOMAIN s = 1 .. Len(s) /\ (s # <<>>) = (Len(s) + 1 > 1)
      OBVIOUS
<1>3. AddedKey(s, n) = u
      BY DEF AddedKey
<1> HIDE DEF k
<1>4. /\ u \in Seq(Tokens) /\ Len(u) = Len(s) + 1 /\ DOMAIN u = 1 .. Len(s) + 1
      /\ u[Len(s) + 1] = k /\ \A i \in 1 .. Len(s) : u[i] = s[i]
      BY <1>1, <1>2
<1> HIDE DEF u
<1>5. Len(u) % 2 = 1
      BY <1>2, <1>4
<1>6. ASSUME NEW i \in DOMAIN u
      PROVE  Entry(u, i)
  <2>1. CASE i \in 1 .. Len(s)
        BY <2>1, <1>2, <1>4 DEF Entries, Entry
  <2>2. CASE i = Len(s) + 1
        BY <2>2, <1>1, <1>2, <1>4, <1>5 DEF Entry
  <2>3. QED
        BY <2>1, <2>2, <1>2, <1>4
<1>7. ASSUME NEW b, Speaks(s, b) \/ b = n
      PROVE  Speaks(u, b)
  <2>1. CASE Speaks(s, b)
        BY <2>1, <1>2, <1>4 DEF Speaks
  <2>2. CASE b = n
        BY <2>2, <1>1, <1>2, <1>4 DEF Speaks
  <2>3. QED
        BY <2>1, <2>2, <1>7
<1>8. QED
      BY <1>3, <1>4, <1>5, <1>6, <1>7 DEF Entries

LEMMA ValueAdded ==
  ASSUME NEW s \in Seq(Tokens), Len(s) % 2 = 1, Entries(s), NEW v \in Values
  PROVE  LET u == Append(s, Value(v))
         IN  /\ u \in Seq(Tokens) /\ Len(u) % 2 = 0 /\ Entries(u)
             /\ \A b : Speaks(s, b) => Speaks(u, b)
<1> DEFINE k == Value(v)
           u == Append(s, k)
<1>1. k \in Tokens /\ k.t = "value"
      BY TokenParts DEF Value
<1>2. Len(s) \in Nat /\ DOMAIN s = 1 .. Len(s)
      OBVIOUS
<1> HIDE DEF k
<1>3. /\ u \in Seq(Tokens) /\ Len(u) = Len(s) + 1 /\ DOMAIN u = 1 .. Len(s) + 1
      /\ u[Len(s) + 1] = k /\ \A i \in 1 .. Len(s) : u[i] = s[i]
      BY <1>1, <1>2
<1> HIDE DEF u
<1>4. Len(u) % 2 = 0
      BY <1>2, <1>3
<1>5. ASSUME NEW i \in DOMAIN u
      PROVE  Entry(u, i)
  <2>1. CASE i \in 1 .. Len(s)
        BY <2>1, <1>2, <1>3 DEF Entries, Entry
  <2>2. CASE i = Len(s) + 1
        BY <2>2, <1>1, <1>2, <1>3, <1>4 DEF Entry
  <2>3. QED
        BY <2>1, <2>2, <1>2, <1>3
<1>6. \A b : Speaks(s, b) => Speaks(u, b)
      BY <1>2, <1>3 DEF Speaks
<1>7. QED
      BY <1>3, <1>4, <1>5, <1>6 DEF Entries, u, k

LEMMA Shifted ==
  ASSUME NEW a \in Nat, NEW m \in Nat
  PROVE  /\ \A k \in 1 .. m : a + k \in 1 .. a + m
         /\ \A i \in 1 .. a + m : i \in 1 .. a \/ \E k \in 1 .. m : i = a + k
         /\ a % 2 = 0 => \A k \in 0 .. m : (a + k) % 2 = k % 2
<1>1. ASSUME NEW i \in 1 .. a + m, i \notin 1 .. a
      PROVE  \E k \in 1 .. m : i = a + k
  <2>1. i - a \in 1 .. m /\ i = a + (i - a)
        BY <1>1
  <2>2. QED
        BY <2>1
<1>2. QED
      BY <1>1

(* What awsiot_update makes of the changes of a whole document.            *)
LEMMA ChangesReported ==
  ASSUME NEW s \in Seq(Tokens), Len(s) % 2 = 0, Entries(s),
         NEW D \in SUBSET Names, NEW doc \in [D -> Values], NEW S \in SUBSET D,
         NEW news \in InMapOrder(S)
  PROVE  LET u == Reported(s, news, doc)
         IN  /\ u \in Seq(Tokens) /\ Len(u) % 2 = 0 /\ Entries(u)
             /\ \A b : Speaks(s, b) \/ b \in S => Speaks(u, b)
<1> DEFINE e == [k \in 1 .. 2 * Len(news) |->
                   IF k % 2 = 1 THEN Key(news[(k + 1) \div 2], s # <<>> \/ k > 1)
                                ELSE Value(doc[news[k \div 2]])]
           u == s \o e
<1>1. /\ news \in Seq(S) /\ Len(news) \in Nat /\ DOMAIN news = 1 .. Len(news)
      /\ \A n \in S : \E i \in DOMAIN news : news[i] = n
  <2>1. PICK m \in 0 .. Len(KeyOrder) : news \in [1 .. m -> S]
        BY DEF InMapOrder, SeqOf
  <2>2. Len(KeyOrder) \in Nat
        BY NamesAssumption
  <2>3. m \in Nat /\ news \in Seq(S) /\ Len(news) = m
        BY <2>1, <2>2
  <2>4. QED
        BY <2>3 DEF InMapOrder
<1>2. Len(s) \in Nat /\ DOMAIN s = 1 .. Len(s) /\ (s # <<>>) = (Len(s) > 0)
      OBVIOUS
<1>3. ASSUME NEW k \in 1 .. 2 * Len(news)
      PROVE  /\ e[k] \in Tokens
             /\ k % 2 = 1 => e[k].t = "key" /\ e[k].comma = (Len(s) + k > 1)
                             /\ e[k].n = news[(k + 1) \div 2]
             /\ k % 2 # 1 => e[k].t = "value"
  <2>1. CASE k % 2 = 1
    <3>1. (k + 1) \div 2 \in 1 .. Len(news)
          BY <1>1, <2>1
    <3>2. news[(k + 1) \div 2] \in Names
          BY <3>1, <1>1
    <3>3. e[k] = Key(news[(k + 1) \div 2], s # <<>> \/ k > 1)
          BY <2>1
    <3>4. (s # <<>> \/ k > 1) = (Len(s) + k > 1)
          BY <1>1, <1>2
    <3>5. e[k] \in Tokens
          BY <3>2, <3>3, TokenParts
    <3>6. e[k].t = "key" /\ e[k].n = news[(k + 1) \div 2]
          /\ e[k].comma = (s # <<>> \/ k > 1)
          BY <3>3 DEF Key
    <3>7. QED
          BY <2>1, <3>4, <3>5, <3>6
  <2>2. CASE k % 2 # 1
    <3>1. k \div 2 \in 1 .. Len(news)
          BY <1>1, <2>2
    <3>2. doc[news[k \div 2]] \in Values
          BY <3>1, <1>1
    <3>3. e[k] = Value(doc[news[k \div 2]])
          BY <2>2
    <3>4. QED
          BY <2>2, <3>2, <3>3, TokenParts DEF Value
  <2>3. QED
        BY <2>1, <2>2
<1> DEFINE m == 2 * Len(news)
<1>4. m \in Nat /\ m % 2 = 0 /\ e \in Seq(Tokens) /\ Len(e) = m /\ DOMAIN e = 1 .. m
  <2>1. m \in Nat /\ m % 2 = 0
        BY <1>1
  <2>2. e \in [1 .. m -> Tokens]
        BY <1>3
  <2> HIDE DEF e, m
  <2>3. QED
        BY <2>1, <2>2
<1>5. u = Reported(s, news, doc)
      BY DEF Reported
<1> HIDE DEF e
<1>6. /\ u \in Seq(Tokens) /\ Len(u) = Len(s) + m /\ DOMAIN u = 1 .. Len(s) + m
      /\ \A i \in 1 .. Len(s) : u[i] = s[i]
      /\ \A k \in 1 .. m : u[Len(s) + k] = e[k]
  <2> HIDE DEF m
  <2>1. u \in Seq(Tokens) /\ Len(u) = Len(s) + m /\ DOMAIN u = 1 .. Len(s) + m
        BY <1>2, <1>4
  <2>2. \A i \in 1 .. Len(s) : u[i] = s[i]
        BY <1>2, <1>4
  <2>3. \A k \in 1 .. m : u[Len(s) + k] = e[k]
        BY <1>2, <1>4
  <2>4. QED
        BY <2>1, <2>2, <2>3
<1> HIDE DEF u, m
<1>m. /\ \A k \in 1 .. m : Len(s) + k \in 1 .. Len(s) + m
      /\ \A i \in 1 .. Len(s) + m :
            i \in 1 .. Len(s) \/ \E k \in 1 .. m : i = Len(s) + k
      /\ \A k \in 0 .. m : (Len(s) + k) % 2 = k % 2
      BY <1>2, <1>4, Shifted
<1>7. Len(u) % 2 = 0
  <2>1. m \in 0 .. m
        BY <1>4
  <2>2. (Len(s) + m) % 2 = m % 2
        BY <2>1, <1>m
  <2>3. QED
        BY <2>2, <1>4, <1>6
<1>8. ASSUME NEW i \in DOMAIN u
      PROVE  Entry(u, i)
  <2>1. CASE i \in 1 .. Len(s)
        BY <2>1, <1>2, <1>6 DEF Entries, Entry
  <2>2. CASE i \notin 1 .. Len(s)
    <3>1. PICK k \in 1 .. m : i = Len(s) + k
          BY <2>2, <1>6, <1>m
    <3>2. i % 2 = k % 2
          BY <3>1, <1>4, <1>m
    <3>3. u[i] = e[k]
          BY <3>1, <1>6
    <3>4. /\ k % 2 = 1 => e[k].t = "key" /\ e[k].comma = (i > 1)
          /\ k % 2 # 1 => e[k].t = "value"
          BY <3>1, <1>3 DEF m
    <3>5. QED
          BY <3>2, <3>3, <3>4 DEF Entry
  <2>3. QED
        BY <2>1, <2>2
<1>9. ASSUME NEW b, Speaks(s, b) \/ b \in S
      PROVE  Speaks(u, b)
  <2>1. CASE Speaks(s, b)
        BY <2>1, <1>2, <1>4, <1>6 DEF Speaks
  <2>2. CASE b \in S
    <3>1. PICK i \in 1 .. Len(news) : news[i] = b
          BY <2>2, <1>1
    <3> DEFINE k == 2 * i - 1
    <3>2. k \in 1 .. m /\ k % 2 = 1 /\ (k + 1) \div 2 = i
          BY <1>1 DEF m
    <3>3. e[k].t = "key" /\ e[k].n = b
          BY <3>1, <3>2, <1>3 DEF m
    <3> HIDE DEF k
    <3>4. Len(s) + k \in DOMAIN u /\ u[Len(s) + k] = e[k]
          BY <3>2, <1>6, <1>m
    <3>5. QED
          BY <3>3, <3>4 DEF Speaks
  <2>3. QED
        BY <2>1, <2>2, <1>9
<1>10. QED
      BY <1>5, <1>6, <1>7, <1>8, <1>9 DEF Entries

(* A document that says v of b, and a message that speaks of b, in a queue.*)
Told(s, b, v) == \E i \in DOMAIN s : b \in DOMAIN s[i] /\ s[i][b] = v
Spoken(s, b)  == \E i \in DOMAIN s : Speaks(s[i], b)

LEMMA QueueParts ==
  ASSUME NEW T, NEW s \in Seq(T)
  PROVE  /\ \A d \in T : /\ Append(s, d) \in Seq(T) /\ <<d>> \o s \in Seq(T)
                         /\ DOMAIN Append(s, d) = 1 .. Len(s) + 1
                         /\ DOMAIN (<<d>> \o s) = 1 .. Len(s) + 1
                         /\ Append(s, d)[Len(s) + 1] = d /\ (<<d>> \o s)[1] = d
                         /\ \A i \in 1 .. Len(s) : /\ Append(s, d)[i] = s[i]
                                                   /\ (<<d>> \o s)[i + 1] = s[i]
         /\ Len(s) \in Nat /\ DOMAIN s = 1 .. Len(s) /\ \A i \in 1 .. Len(s) : s[i] \in T
         /\ s # <<>> => /\ Len(s) > 0 /\ Head(s) = s[1] /\ Head(s) \in T
                        /\ Tail(s) \in Seq(T) /\ DOMAIN Tail(s) = 1 .. Len(s) - 1
                        /\ \A i \in 1 .. Len(s) - 1 : Tail(s)[i] = s[i + 1]
<1>1. ASSUME NEW d \in T
      PROVE  /\ Append(s, d) \in Seq(T) /\ <<d>> \o s \in Seq(T)
             /\ DOMAIN Append(s, d) = 1 .. Len(s) + 1
             /\ DOMAIN (<<d>> \o s) = 1 .. Len(s) + 1
             /\ Append(s, d)[Len(s) + 1] = d /\ (<<d>> \o s)[1] = d
             /\ \A i \in 1 .. Len(s) : Append(s, d)[i] = s[i] /\ (<<d>> \o s)[i + 1] = s[i]
      OBVIOUS
<1>2. QED
      BY <1>1

LEMMA ToldParts ==
  ASSUME NEW s \in Seq(Docs), NEW b, NEW v
  PROVE  /\ \A d \in Docs : Told(s, b, v) \/ (b \in DOMAIN d /\ d[b] = v) =>
                               Told(Append(s, d), b, v) /\ Told(<<d>> \o s, b, v)
         /\ s # <<>> /\ Told(s, b, v) =>
               \/ Told(Tail(s), b, v)
               \/ b \in DOMAIN Head(s) /\ Head(s)[b] = v
<1>1. ASSUME NEW d \in Docs, Told(s, b, v) \/ (b \in DOMAIN d /\ d[b] = v)
      PROVE  Told(Append(s, d), b, v) /\ Told(<<d>> \o s, b, v)
  <2> DEFINE p == <<d>> \o s
             a == Append(s, d)
  <2>1. /\ Len(s) \in Nat /\ DOMAIN s = 1 .. Len(s)
        /\ DOMAIN a = 1 .. Len(s) + 1 /\ DOMAIN p = 1 .. Len(s) + 1
        /\ a[Len(s) + 1] = d /\ p[1] = d
        /\ \A i \in 1 .. Len(s) : a[i] = s[i] /\ p[i + 1] = s[i]
        BY QueueParts
  <2> HIDE DEF a, p
  <2>2. Told(a, b, v) /\ Told(p, b, v)
    <3>1. CASE Told(s, b, v)
      <4>1. PICK i \in 1 .. Len(s) : b \in DOMAIN s[i] /\ s[i][b] = v
            BY <3>1, <2>1 DEF Told
      <4>2. i \in DOMAIN a /\ i + 1 \in DOMAIN p
            BY <2>1
      <4>3. QED
            BY <4>1, <4>2, <2>1 DEF Told
    <3>2. CASE b \in DOMAIN d /\ d[b] = v
      <4>1. Len(s) + 1 \in DOMAIN a /\ 1 \in DOMAIN p
            BY <2>1
      <4>2. QED
            BY <4>1, <3>2, <2>1 DEF Told
    <3>3. QED
          BY <3>1, <3>2, <1>1
  <2>3. QED
        BY <2>2 DEF a, p
<1>2. ASSUME s # <<>>, Told(s, b, v)
      PROVE  Told(Tail(s), b, v) \/ (b \in DOMAIN Head(s) /\ Head(s)[b] = v)
  <2>1. PICK i \in 1 .. Len(s) : b \in DOMAIN s[i] /\ s[i][b] = v
        BY <1>2, QueueParts DEF Told
  <2>2. CASE i = 1
        BY <2>1, <2>2, <1>2, QueueParts
  <2>3. CASE i # 1
    <3>1. i - 1 \in DOMAIN Tail(s) /\ Tail(s)[i - 1] = s[i]
          BY <2>3, <1>2, QueueParts
    <3>2. QED
          BY <3>1, <2>1 DEF Told
  <2>4. QED
        BY <2>2, <2>3
<1>3. QED
      BY <1>1, <1>2

LEMMA SpokenParts ==
  ASSUME NEW s \in Seq(Seq(Tokens)), NEW b
  PROVE  /\ \A m \in Seq(Tokens) : Spoken(s, b) \/ Speaks(m, b) => Spoken(Append(s, m), b)
         /\ s # <<>> /\ Spoken(s, b) => Spoken(Tail(s), b) \/ Speaks(Head(s), b)
<1>1. ASSUME NEW m \in Seq(Tokens), Spoken(s, b) \/ Speaks(m, b)
      PROVE  Spoken(Append(s, m), b)
  <2>1. CASE Spoken(s, b)
    <3>1. PICK i \in 1 .. Len(s) : Speaks(s[i], b)
          BY <2>1, QueueParts DEF Spoken
    <3>2. i \in DOMAIN Append(s, m) /\ Append(s, m)[i] = s[i]
          BY QueueParts
    <3>3. QED
          BY <3>1, <3>2 DEF Spoken
  <2>2. CASE Speaks(m, b)
    <3>1. Len(s) + 1 \in DOMAIN Append(s, m) /\ Append(s, m)[Len(s) + 1] = m
          BY QueueParts
    <3>2. QED
          BY <3>1, <2>2 DEF Spoken
  <2>3. QED
        BY <2>1, <2>2, <1>1
<1>2. ASSUME s # <<>>, Spoken(s, b)
      PROVE  Spoken(Tail(s), b) \/ Speaks(Head(s), b)
  <2>1. PICK i \in 1 .. Len(s) : Speaks(s[i], b)
        BY <1>2, QueueParts DEF Spoken
  <2>2. CASE i = 1
        BY <2>1, <2>2, <1>2, QueueParts
  <2>3. CASE i # 1
    <3>1. i - 1 \in DOMAIN Tail(s) /\ Tail(s)[i - 1] = s[i]
          BY <2>3, <1>2, QueueParts
    <3>2. QED
          BY <3>1, <2>1 DEF Spoken
  <2>4. QED
        BY <2>2, <2>3
<1>3. QED
      BY <1>1, <1>2
-----------------------------------------------------------------------------
(* As long as every try_acquire has had its token and the connection holds.*)
Undisturbed == ~contended /\ failures = 0

ShadowType ==
    /\ hw \in [Names -> Values] /\ reported \in [Names -> Values]
    /\ hw_aws_publish \in BOOLEAN
    /\ shadow_status \in Seq(Tokens) /\ payload \in Seq(Tokens)
    /\ up \in Seq(Seq(Tokens)) /\ down \in Seq(Docs) /\ stack \in Seq(Docs)
    /\ main \in {"idle", "send", "key", "value", "release"}
    /\ main # "idle" => report \in Names \X Values

(* Who has the token of awsiot_sem, and what its holder makes of the string*)
StringInv ==
    /\ client /\ aws \in {"get", "publish", "yield", "delay", "acquire"}
    /\ sem + held + (IF aws = "publish" THEN 1 ELSE 0) = 1
    /\ main \in {"key", "value", "release"} => held = 1
    /\ IF aws = "publish"
       THEN payload = shadow_status /\ WellFormed(payload)
       ELSE /\ Entries(shadow_status)
            /\ Len(shadow_status) % 2 = IF main = "value" THEN 1 ELSE 0
    /\ main = "value" => Speaks(shadow_status, report[1])
    /\ \A i \in DOMAIN up : WellFormed(up[i])

(* A button that differs from what the shadow holds of it is being reported*)
(* to the shadow, or the shadow has told the device what it holds.         *)
Reporting(b) == \/ main \in {"send", "key", "value"} /\ report[1] = b
                \/ Speaks(shadow_status, b)
                \/ Spoken(up, b)
Echoed(b) == Told(down, b, reported[b]) \/ Told(stack, b, reported[b])

ChaseInv ==
    /\ aws = "get" => ~hw_aws_publish
    /\ ~hw_aws_publish =>
          /\ up = <<>> /\ shadow_status = <<>> /\ main \in {"idle", "send"}
          /\ aws = "get" \/ \A b \in Buttons : Echoed(b)
    /\ hw_aws_publish =>
          \A b \in Buttons : hw[b] = reported[b] \/ Reporting(b) \/ Echoed(b)

Calm == TokenInv /\ ShadowType /\ StringInv /\ ChaseInv
Still == ShadowType /\ StringInv /\ ChaseInv

(* The token has one holder at a time.                                     *)
LEMMA OneHolder ==
  ASSUME Calm
  PROVE  /\ sem > 0 => held = 0 /\ aws # "publish" /\ sem = 1 /\ main \in {"idle", "send"}
         /\ held = 1 => sem = 0 /\ aws # "publish"
         /\ aws = "publish" => sem = 0 /\ held = 0 /\ main \in {"idle", "send"}
BY DEF Calm, TokenInv, ShadowType, StringInv

LEMMA EchoesKept ==
  ASSUME UNCHANGED <<down, stack, reported>>, NEW b
  PROVE  Echoed(b)' = Echoed(b)
BY DEF Echoed, Told

LEMMA CalmTouch == Calm /\ Touch => Still'
<1> SUFFICES ASSUME Calm, Touch PROVE Still'
    OBVIOUS
<1> USE DEF Calm, awsVars, cloudVars
<1>1. PICK n \in Names, v \in Values : hw' = [hw EXCEPT ![n] = v] /\ report' = <<n, v>>
      BY DEF Touch
<1>2. /\ main = "idle" /\ main' = "send"
      /\ UNCHANGED <<hw_aws_publish, shadow_status, sem, held, client, aws, payload,
                     stack, up, down, reported>>
      BY DEF Touch
<1>3. ShadowType'
      BY <1>1, <1>2 DEF ShadowType
<1>4. StringInv'
      BY <1>2 DEF StringInv
<1>5. ChaseInv'
  <2>1. \A b : Echoed(b)' = Echoed(b)
        BY <1>2, EchoesKept
  <2>2. ASSUME NEW b \in Buttons, hw_aws_publish
        PROVE  (hw[b] = reported[b] \/ Reporting(b) \/ Echoed(b))'
    <3>1. CASE b = n
      <4>1. report'[1] = b
            BY <1>1, <3>1
      <4>2. QED
            BY <4>1, <1>2 DEF Reporting
    <3>2. CASE b # n
      <4>1. hw'[b] = hw[b]
            BY <1>1, <3>2 DEF ShadowType, Names
      <4>2. hw[b] = reported[b] \/ Reporting(b) \/ Echoed(b)
            BY <2>2 DEF ChaseInv
      <4>3. Reporting(b) => Reporting(b)'
            BY <1>2 DEF Reporting
      <4>4. QED
            BY <4>1, <4>2, <4>3, <2>1, <1>2
    <3>3. QED
          BY <3>1, <3>2
  <2>3. QED
        BY <2>1, <2>2, <1>2 DEF ChaseInv
<1>6. QED
      BY <1>3, <1>4, <1>5 DEF Still

LEMMA CalmMain ==
  Calm /\ Undisturbed' /\ (NotYetPublishing \/ TryAcquire \/ Release) => Still'
<1> SUFFICES ASSUME Calm, Undisturbed', NotYetPublishing \/ TryAcquire \/ Release
             PROVE  Still'
    OBVIOUS
<1>1. /\ UNCHANGED <<hw, hw_aws_publish, shadow_status, client, aws, payload, stack,
                     up, down, reported>>
      /\ main' = "idle" \/ UNCHANGED report
      /\ \/ main = "send" /\ main' = "idle" /\ ~hw_aws_publish /\ UNCHANGED <<sem, held>>
         \/ main = "send" /\ main' = "key" /\ hw_aws_publish /\ sem > 0
            /\ held' = 1 /\ sem' = sem - 1
         \/ main = "release" /\ main' = "idle" /\ sem' = sem + 1 /\ held' = 0
  <2>1. CASE NotYetPublishing
        BY <2>1 DEF NotYetPublishing, hwVars, awsVars, cloudVars
  <2>2. CASE TryAcquire
    <3>1. sem # 0
          BY <2>2 DEF TryAcquire, Undisturbed
    <3>2. sem > 0
          BY <3>1 DEF Calm, TokenInv
    <3>3. QED
          BY <2>2, <3>2 DEF TryAcquire, hwVars, awsVars, cloudVars
  <2>3. CASE Release
        BY <2>3 DEF Release, hwVars, awsVars, cloudVars
  <2>4. QED
        BY <2>1, <2>2, <2>3
<1>2. ShadowType'
      BY <1>1 DEF Calm, ShadowType
<1>3. StringInv'
      BY <1>1, OneHolder DEF Calm, StringInv, TokenInv
<1>4. ChaseInv'
  <2>1. \A b : Echoed(b)' = Echoed(b)
        BY <1>1, EchoesKept
  <2>2. ASSUME NEW b, hw_aws_publish
        PROVE  Reporting(b) => Reporting(b)'
        BY <1>1, <2>2 DEF Reporting
  <2>3. QED
        BY <2>1, <2>2, <1>1 DEF Calm, ChaseInv
<1>5. QED
      BY <1>2, <1>3, <1>4 DEF Still

LEMMA CalmAppend == Calm /\ (AppendKey \/ AppendValue) => Still'
<1> SUFFICES ASSUME Calm, AppendKey \/ AppendValue PROVE Still'
    OBVIOUS
<1>1. /\ UNCHANGED <<hw, hw_aws_publish, sem, held, report, client, aws, payload, stack,
                     up, down, reported>>
      /\ \/ main = "key" /\ main' = "value"
            /\ shadow_status' = AddedKey(shadow_status, report[1])
         \/ main = "value" /\ main' = "release"
            /\ shadow_status' = Append(shadow_status, Value(report[2]))
      BY DEF AppendKey, AppendValue, hwVars, awsVars, mainVars, cloudVars
<1>2. /\ held = 1 /\ aws # "publish" /\ hw_aws_publish
      /\ report[1] \in Names /\ report[2] \in Values
      BY <1>1, OneHolder DEF Calm, StringInv, ShadowType, ChaseInv
<1>3. /\ shadow_status \in Seq(Tokens) /\ Entries(shadow_status)
      /\ Len(shadow_status) % 2 = IF main = "value" THEN 1 ELSE 0
      BY <1>2 DEF Calm, StringInv, ShadowType
<1>4. /\ shadow_status' \in Seq(Tokens) /\ Entries(shadow_status')
      /\ Len(shadow_status') % 2 = IF main' = "value" THEN 1 ELSE 0
      /\ \A b : Speaks(shadow_status, b) => Speaks(shadow_status', b)
      /\ main' = "value" => Speaks(shadow_status', report[1])
  <2>1. CASE main = "key"
        BY <2>1, <1>1, <1>2, <1>3, KeyAdded
  <2>2. CASE main = "value"
        BY <2>2, <1>1, <1>2, <1>3, ValueAdded
  <2>3. QED
        BY <2>1, <2>2, <1>1
<1>5. ShadowType'
      BY <1>1, <1>4 DEF Calm, ShadowType
<1>6. StringInv'
  <2>1. Entries(shadow_status)'
        BY <1>4 DEF Entries, Entry
  <2>2. main' = "value" => Speaks(shadow_status, report[1])'
        BY <1>1, <1>4 DEF Speaks
  <2>3. QED
        BY <2>1, <2>2, <1>1, <1>2, <1>4 DEF Calm, StringInv
<1>7. ChaseInv'
  <2>1. \A b : Echoed(b)' = Echoed(b)
        BY <1>1, EchoesKept
  <2>2. ASSUME NEW b, Reporting(b)
        PROVE  Reporting(b)'
    <3>1. CASE Spoken(up, b)
          BY <3>1, <1>1 DEF Reporting
    <3>2. CASE Speaks(shadow_status, b)
      <4>1. Speaks(shadow_status', b)
            BY <3>2, <1>4
      <4>2. QED
            BY <4>1 DEF Reporting
    <3>3. CASE report[1] = b
      <4>1. CASE main' = "value"
            BY <4>1, <3>3, <1>1 DEF Reporting
      <4>2. CASE main = "value"
        <5>1. Speaks(shadow_status, b)
              BY <4>2, <3>3 DEF Calm, StringInv
        <5>2. QED
              BY <5>1, <3>2
      <4>3. QED
            BY <4>1, <4>2, <1>1
    <3>4. QED
          BY <3>1, <3>2, <3>3, <2>2 DEF Reporting
  <2>3. QED
        BY <2>1, <2>2, <1>1, <1>2 DEF Calm, ChaseInv
<1>8. QED
      BY <1>5, <1>6, <1>7 DEF Still

LEMMA CalmCycle ==
  Calm /\ (Acquire \/ NothingToSend \/ YieldReturns \/ PublishReconnected \/ YieldReconnected)
  => Still'
<1> SUFFICES ASSUME Calm, \/ Acquire \/ NothingToSend \/ YieldReturns
                          \/ PublishReconnected \/ YieldReconnected
             PROVE  Still'
    OBVIOUS
<1>1. /\ UNCHANGED <<hw, hw_aws_publish, shadow_status, sem, held, main, report, client,
                     payload, stack, up, down, reported>>
      /\ aws \notin {"get", "publish"} /\ aws' \in {"acquire", "yield", "delay"}
  <2>1. client /\ aws \notin {"reconnect", "again"}
        BY DEF Calm, StringInv
  <2>2. QED
        BY <2>1 DEF Acquire, NothingToSend, YieldReturns, PublishReconnected,
           YieldReconnected, hwVars, mainVars, cloudVars
<1>2. ShadowType'
      BY <1>1 DEF Calm, ShadowType
<1>3. StringInv'
  <2>1. /\ Entries(shadow_status)' = Entries(shadow_status)
        /\ Speaks(shadow_status, report[1])' = Speaks(shadow_status, report[1])
        BY <1>1
  <2>2. QED
        BY <1>1, <2>1 DEF Calm, StringInv
<1>4. ChaseInv'
  <2>1. \A b : Echoed(b)' = Echoed(b) /\ Reporting(b)' = Reporting(b)
        BY <1>1, EchoesKept DEF Reporting
  <2>2. QED
        BY <2>1, <1>1 DEF Calm, ChaseInv
<1>5. QED
      BY <1>2, <1>3, <1>4 DEF Still

LEMMA CalmPublish == Calm /\ Publish => Still'
<1> SUFFICES ASSUME Calm, Publish PROVE Still'
    OBVIOUS
<1> DEFINE message == <<Prefix>> \o shadow_status \o <<Suffix>>
<1>1. client /\ sem > 0 /\ aws # "get" /\ aws # "publish" /\ shadow_status # <<>>
      BY DEF Calm, StringInv, Publish
<1>2. /\ UNCHANGED <<hw, hw_aws_publish, held, main, report, client, stack, up, down,
                     reported>>
      /\ sem' = sem - 1 /\ shadow_status' = message /\ payload' = message
      /\ aws' = "publish"
      BY <1>1 DEF Publish, hwVars, mainVars, cloudVars
<1>3. held = 0 /\ sem = 1 /\ main \in {"idle", "send"}
      BY <1>1, OneHolder
<1>4. /\ message \in Seq(Tokens) /\ WellFormed(message)
      /\ \A b : Speaks(shadow_status, b) => Speaks(message, b)
  <2>1. /\ shadow_status \in Seq(Tokens) /\ Entries(shadow_status)
        /\ Len(shadow_status) % 2 = 0
        BY <1>1, <1>3 DEF Calm, StringInv, ShadowType
  <2>2. QED
        BY <2>1, <1>1, Framed
<1> HIDE DEF message
<1>5. ShadowType'
      BY <1>2, <1>4 DEF Calm, ShadowType
<1>6. StringInv'
  <2>1. WellFormed(payload)'
        BY <1>2, <1>4 DEF WellFormed
  <2>2. QED
        BY <2>1, <1>2, <1>3 DEF Calm, StringInv
<1>7. ChaseInv'
  <2>1. \A b : Echoed(b)' = Echoed(b)
        BY <1>2, EchoesKept
  <2>2. ASSUME NEW b, Reporting(b)
        PROVE  Reporting(b)'
    <3>1. Speaks(shadow_status, b) => Speaks(shadow_status', b)
          BY <1>2, <1>4
    <3>2. QED
          BY <3>1, <2>2, <1>2 DEF Reporting
  <2>3. QED
        BY <2>1, <2>2, <1>1, <1>2 DEF Calm, ChaseInv
<1>8. QED
      BY <1>5, <1>6, <1>7 DEF Still

LEMMA CalmPublished == Calm /\ Published => Still'
<1> SUFFICES ASSUME Calm, Published PROVE Still'
    OBVIOUS
<1>1. /\ UNCHANGED <<hw, hw_aws_publish, held, main, report, client, stack, down, reported>>
      /\ aws = "publish" /\ aws' = "yield" /\ sem' = sem + 1
      /\ up' = Append(up, payload) /\ shadow_status' = <<>> /\ payload' = <<>>
      BY DEF Published, hwVars, mainVars
<1>2. /\ sem = 0 /\ held = 0 /\ main \in {"idle", "send"}
      /\ payload = shadow_status /\ WellFormed(payload)
      BY <1>1, OneHolder DEF Calm, StringInv
<1>3. /\ up \in Seq(Seq(Tokens)) /\ payload \in Seq(Tokens)
      /\ payload # <<>> /\ hw_aws_publish
  <2>1. up \in Seq(Seq(Tokens)) /\ payload \in Seq(Tokens)
        BY DEF Calm, ShadowType
  <2>2. payload # <<>>
        BY <1>2 DEF WellFormed
  <2>3. hw_aws_publish
        BY <2>2, <1>2 DEF Calm, ChaseInv
  <2>4. QED
        BY <2>1, <2>2, <2>3
<1>4. <<>> \in Seq(Tokens) /\ Len(<<>>) % 2 = 0 /\ Entries(<<>>)
      BY DEF Entries
<1>5. ShadowType'
      BY <1>1, <1>3, <1>4 DEF Calm, ShadowType
<1>6. StringInv'
  <2>1. \A i \in DOMAIN up' : WellFormed(up'[i])
        BY <1>1, <1>2, <1>3, QueueParts DEF Calm, StringInv
  <2>2. (\A i \in DOMAIN up : WellFormed(up[i]))'
        BY <2>1 DEF WellFormed
  <2>3. Entries(shadow_status)' /\ Len(shadow_status') % 2 = 0
        BY <1>1, <1>4 DEF Entries, Entry
  <2>4. QED
        BY <2>2, <2>3, <1>1, <1>2 DEF Calm, StringInv
<1>7. ChaseInv'
  <2>1. \A b : Echoed(b)' = Echoed(b)
        BY <1>1, EchoesKept
  <2>2. ASSUME NEW b, Reporting(b)
        PROVE  Reporting(b)'
    <3>1. Speaks(shadow_status, b) \/ Spoken(up, b) => Spoken(up', b)
          BY <1>1, <1>2, <1>3, SpokenParts
    <3>2. Spoken(up', b) => Spoken(up, b)'
          BY DEF Spoken, Speaks
    <3>3. QED
          BY <3>1, <3>2, <2>2, <1>1 DEF Reporting
  <2>3. QED
        BY <2>1, <2>2, <1>1, <1>3 DEF Calm, ChaseInv
<1>8. QED
      BY <1>5, <1>6, <1>7 DEF Still

LEMMA CalmDown == Calm /\ (GetPublished \/ RemoteCommand) => Still'
<1> SUFFICES ASSUME Calm, GetPublished \/ RemoteCommand PROVE Still'
    OBVIOUS
<1>1. PICK d \in Docs : /\ down' = Append(down, d)
                        /\ GetPublished => d = reported /\ \A b \in Buttons : b \in DOMAIN d
  <2>1. CASE GetPublished
    <3>1. reported \in Docs
          BY DEF Calm, ShadowType, Docs
    <3>2. \A b \in Buttons : b \in DOMAIN reported
          BY DEF Calm, ShadowType, Names
    <3>3. QED
          BY <2>1, <3>1, <3>2 DEF GetPublished
  <2>2. CASE RemoteCommand
    <3>1. PICK n \in Names, v \in Values : down' = Append(down, [x \in {n} |-> v])
          BY <2>2 DEF RemoteCommand
    <3>2. [x \in {n} |-> v] \in [{n} -> Values] /\ {n} \in SUBSET Names
          OBVIOUS
    <3>3. [x \in {n} |-> v] \in Docs
          BY <3>2 DEF Docs
    <3>4. ~GetPublished
          BY <2>2 DEF RemoteCommand, GetPublished, awsVars
    <3>5. QED
          BY <3>1, <3>3, <3>4
  <2>3. QED
        BY <2>1, <2>2
<1>2. /\ UNCHANGED <<hw, hw_aws_publish, shadow_status, sem, held, main, report, client,
                     payload, stack, up, reported>>
      /\ \/ GetPublished /\ aws = "get" /\ aws' = "delay"
         \/ UNCHANGED aws
      BY DEF GetPublished, RemoteCommand, hwVars, mainVars, awsVars
<1>3. down \in Seq(Docs)
      BY DEF Calm, ShadowType
<1>4. ShadowType'
      BY <1>1, <1>2, <1>3 DEF Calm, ShadowType
<1>5. StringInv'
  <2>1. /\ Entries(shadow_status)' = Entries(shadow_status)
        /\ Speaks(shadow_status, report[1])' = Speaks(shadow_status, report[1])
        BY <1>2
  <2>2. QED
        BY <1>2, <2>1 DEF Calm, StringInv
<1>6. ChaseInv'
  <2>1. ASSUME NEW b \in Buttons, Echoed(b) \/ GetPublished
        PROVE  Echoed(b)'
    <3>1. /\ Told(down, b, reported[b]) \/ GetPublished => Told(down', b, reported[b])
          BY <1>1, <1>3, ToldParts
    <3>2. Told(down', b, reported[b]) => Told(down, b, reported[b])'
          BY <1>2 DEF Told
    <3>3. Told(stack, b, reported[b])' = Told(stack, b, reported[b])
          BY <1>2
    <3>4. QED
          BY <3>1, <3>2, <3>3, <2>1 DEF Echoed
  <2>2. \A b : Reporting(b)' = Reporting(b)
        BY <1>2 DEF Reporting
  <2>3. QED
        BY <2>1, <2>2, <1>2 DEF Calm, ChaseInv
<1>7. QED
      BY <1>4, <1>5, <1>6 DEF Still

LEMMA CalmArrive == Calm /\ Arrive => Still'
<1> SUFFICES ASSUME Calm, Arrive PROVE Still'
    OBVIOUS
<1>1. /\ UNCHANGED <<hw, hw_aws_publish, shadow_status, sem, held, main, report, client, aws,
                     payload, up, reported>>
      /\ down # <<>> /\ stack' = <<Head(down)>> \o stack /\ down' = Tail(down)
      BY DEF Arrive, hwVars, mainVars
<1>2. /\ down \in Seq(Docs) /\ stack \in Seq(Docs)
      /\ Head(down) \in Docs /\ down' \in Seq(Docs) /\ stack' \in Seq(Docs)
  <2>1. down \in Seq(Docs) /\ stack \in Seq(Docs)
        BY DEF Calm, ShadowType
  <2>2. Head(down) \in Docs /\ Tail(down) \in Seq(Docs)
        BY <2>1, <1>1, QueueParts
  <2>3. QED
        BY <2>1, <2>2, <1>1, QueueParts
<1>3. ShadowType'
      BY <1>1, <1>2 DEF Calm, ShadowType
<1>4. StringInv'
  <2>1. /\ Entries(shadow_status)' = Entries(shadow_status)
        /\ Speaks(shadow_status, report[1])' = Speaks(shadow_status, report[1])
        BY <1>1
  <2>2. QED
        BY <1>1, <2>1 DEF Calm, StringInv
<1>5. ChaseInv'
  <2>1. ASSUME NEW b, Echoed(b)
        PROVE  Echoed(b)'
    <3> DEFINE v == reported[b]
    <3>1. CASE Told(stack, b, v)
      <4>1. Told(stack', b, v)
            BY <3>1, <1>1, <1>2, ToldParts
      <4>2. QED
            BY <4>1, <1>1 DEF Echoed, Told
    <3>2. CASE Told(down, b, v)
      <4>1. Told(Tail(down), b, v) \/ (b \in DOMAIN Head(down) /\ Head(down)[b] = v)
            BY <3>2, <1>1, <1>2, ToldParts
      <4>2. Told(down', b, v) \/ Told(stack', b, v)
            BY <4>1, <1>1, <1>2, ToldParts
      <4>3. QED
            BY <4>2, <1>1 DEF Echoed, Told
    <3>3. QED
          BY <3>1, <3>2, <2>1 DEF Echoed
  <2>2. \A b : Reporting(b)' = Reporting(b)
        BY <1>1 DEF Reporting
  <2>3. QED
        BY <2>1, <2>2, <1>1 DEF Calm, ChaseInv
<1>6. QED
      BY <1>3, <1>4, <1>5 DEF Still

(* A document is applied while nobody has the token, or the try_acquire of *)
(* its report would fail.                                                  *)
LEMMA CalmApply == Calm /\ Undisturbed' /\ Apply => Still'
<1> SUFFICES ASSUME Calm, Undisturbed', Apply PROVE Still'
    OBVIOUS
<1> DEFINE doc == Head(stack)
<1>1. /\ aws = "yield" /\ stack # <<>>
      /\ hw' = [n \in Names |-> IF n \in News(doc) THEN doc[n] ELSE hw[n]]
      /\ hw_aws_publish' = TRUE /\ stack' = Tail(stack)
      /\ UNCHANGED <<client, aws, payload, main, report, held, up, down, reported>>
      /\ \/ /\ hw_aws_publish /\ sem # 0 /\ sem' = IF sem > 0 THEN sem ELSE 1
            /\ \E news \in InMapOrder(News(doc)) :
                  shadow_status' = Reported(shadow_status, news, doc)
         \/ /\ UNCHANGED <<shadow_status, sem>>
            /\ ~hw_aws_publish \/ News(doc) = {}
      BY DEF Apply, mainVars, cloudVars, Undisturbed
<1>2. /\ stack \in Seq(Docs) /\ doc \in Docs /\ stack' \in Seq(Docs)
  <2>1. stack \in Seq(Docs)
        BY DEF Calm, ShadowType
  <2>2. QED
        BY <2>1, <1>1, QueueParts
<1>3. PICK D \in SUBSET Names : doc \in [D -> Values]
      BY <1>2 DEF Docs
<1> HIDE DEF doc
<1>4. /\ News(doc) \in SUBSET D
      /\ \A b \in Buttons : b \in D /\ hw[b] # doc[b] => b \in News(doc)
      BY <1>3, NamesAssumption DEF News
<1>5. /\ shadow_status' \in Seq(Tokens)
      /\ \A b : Speaks(shadow_status, b) => Speaks(shadow_status', b)
      /\ hw_aws_publish => \A b \in News(doc) : Speaks(shadow_status', b)
      /\ Entries(shadow_status')
      /\ Len(shadow_status') % 2 = IF main = "value" THEN 1 ELSE 0
      /\ sem' = sem
  <2>1. /\ shadow_status \in Seq(Tokens) /\ Entries(shadow_status)
        /\ Len(shadow_status) % 2 = IF main = "value" THEN 1 ELSE 0
        BY <1>1 DEF Calm, ShadowType, StringInv
  <2>2. CASE UNCHANGED <<shadow_status, sem>> /\ (~hw_aws_publish \/ News(doc) = {})
        BY <2>1, <2>2
  <2>3. ASSUME sem # 0, sem' = IF sem > 0 THEN sem ELSE 1,
               NEW news \in InMapOrder(News(doc)),
               shadow_status' = Reported(shadow_status, news, doc)
        PROVE  <1>5!:
    <3>1. sem > 0 /\ main \in {"idle", "send"}
      <4>1. sem \in Nat
            BY DEF Calm, TokenInv
      <4>2. sem > 0
            BY <4>1, <2>3
      <4>3. QED
            BY <4>2, OneHolder
    <3>2. Len(shadow_status) % 2 = 0
          BY <2>1, <3>1
    <3>3. LET u == Reported(shadow_status, news, doc)
          IN  /\ u \in Seq(Tokens) /\ Len(u) % 2 = 0 /\ Entries(u)
              /\ \A b : Speaks(shadow_status, b) \/ b \in News(doc) => Speaks(u, b)
          BY <2>1, <3>2, <1>3, <1>4, ChangesReported
    <3>4. QED
          BY <3>1, <3>3, <2>3
  <2>4. QED
        BY <2>2, <2>3, <1>1
<1>6. ShadowType'
  <2>1. hw' \in [Names -> Values]
        BY <1>1, <1>3, <1>4 DEF Calm, ShadowType
  <2>2. QED
        BY <2>1, <1>1, <1>2, <1>5 DEF Calm, ShadowType
<1>7. StringInv'
  <2>1. Entries(shadow_status)'
        BY <1>5 DEF Entries, Entry
  <2>2. main' = "value" => Speaks(shadow_status, report[1])'
    <3>1. main = "value" => Speaks(shadow_status', report[1])
          BY <1>5 DEF Calm, StringInv
    <3>2. QED
          BY <3>1, <1>1 DEF Speaks
  <2>3. QED
        BY <2>1, <2>2, <1>1, <1>5 DEF Calm, StringInv
<1>8. ChaseInv'
  <2>1. ASSUME NEW b \in Buttons
        PROVE  (hw[b] = reported[b] \/ Reporting(b) \/ Echoed(b))'
    <3>1. b \in Names
          BY DEF Names
    <3>2. CASE b \in News(doc) /\ hw_aws_publish
      <4>1. Speaks(shadow_status', b)
            BY <3>2, <1>5
      <4>2. QED
            BY <4>1 DEF Reporting
    <3>3. CASE b \notin News(doc) \/ ~hw_aws_publish
      <4>1. hw[b] = reported[b] \/ Reporting(b) \/ Echoed(b)
            BY <3>3, <1>1 DEF Calm, ChaseInv
      <4>2. hw_aws_publish \/ Echoed(b)
            BY <1>1 DEF Calm, ChaseInv
      <4>3. CASE Echoed(b)
        <5>1. Told(down, b, reported[b]) => Echoed(b)'
              BY <1>1 DEF Echoed, Told
        <5>2. Told(Tail(stack), b, reported[b]) => Echoed(b)'
              BY <1>1 DEF Echoed, Told
        <5>3. CASE b \in DOMAIN doc /\ doc[b] = reported[b]
          <6>1. hw'[b] = IF b \in News(doc) THEN doc[b] ELSE hw[b]
                BY <1>1, <3>1
          <6>2. b \notin News(doc) => hw[b] = doc[b]
                BY <5>3, <1>3, <1>4
          <6>3. hw'[b] = reported[b]
                BY <6>1, <6>2, <5>3
          <6>4. QED
                BY <6>3, <1>1
        <5>4. QED
              BY <5>1, <5>2, <5>3, <4>3, <1>1, <1>2, ToldParts DEF Echoed, doc
      <4>4. CASE Reporting(b)
        <5>1. Speaks(shadow_status, b) => Speaks(shadow_status', b)
              BY <1>5
        <5>2. QED
              BY <5>1, <4>4, <1>1 DEF Reporting
      <4>5. CASE hw[b] = reported[b] /\ hw_aws_publish
        <5>1. hw'[b] = hw[b]
              BY <1>1, <3>1, <3>3, <4>5
        <5>2. QED
              BY <5>1, <4>5, <1>1
      <4>6. QED
            BY <4>1, <4>2, <4>3, <4>4, <4>5
    <3>4. QED
          BY <3>2, <3>3
  <2>2. QED
        BY <2>1, <1>1 DEF ChaseInv
<1>9. QED
      BY <1>6, <1>7, <1>8 DEF Still

(* What the shadow takes over it tells the device.                         *)
LEMMA CalmCloud == Calm /\ ShadowUpdate => Still'
<1> SUFFICES ASSUME Calm, ShadowUpdate PROVE Still'
    OBVIOUS
<1> DEFINE p == Head(up)
           doc == State(p)
<1>1. /\ up \in Seq(Seq(Tokens)) /\ up # <<>> /\ p \in Seq(Tokens) /\ WellFormed(p)
      /\ Tail(up) \in Seq(Seq(Tokens)) /\ \A i \in DOMAIN Tail(up) : WellFormed(Tail(up)[i])
  <2>1. up \in Seq(Seq(Tokens)) /\ up # <<>> /\ \A i \in DOMAIN up : WellFormed(up[i])
        BY DEF ShadowUpdate, Calm, ShadowType, StringInv
  <2>2. QED
        BY <2>1, QueueParts
<1>2. /\ UNCHANGED <<hw, hw_aws_publish, shadow_status, sem, held, main, report, client, aws,
                     payload, stack>>
      /\ up' = Tail(up) /\ down' = Append(down, doc)
      /\ reported' = [n \in Names |-> IF n \in DOMAIN doc THEN doc[n] ELSE reported[n]]
      BY <1>1 DEF ShadowUpdate, hwVars, awsVars, mainVars
<1>3. doc \in Docs /\ \A b \in Names : Speaks(p, b) => b \in DOMAIN doc
      BY <1>1, StateIsDoc
<1> HIDE DEF p, doc
<1>4. down \in Seq(Docs) /\ stack \in Seq(Docs) /\ down' \in Seq(Docs)
  <2>1. down \in Seq(Docs) /\ stack \in Seq(Docs)
        BY DEF Calm, ShadowType
  <2>2. QED
        BY <2>1, <1>2, <1>3, QueueParts
<1>5. ShadowType'
  <2>1. PICK D \in SUBSET Names : doc \in [D -> Values]
        BY <1>3 DEF Docs
  <2>2. reported' \in [Names -> Values]
        BY <2>1, <1>2 DEF Calm, ShadowType
  <2>3. QED
        BY <2>2, <1>1, <1>2, <1>4 DEF Calm, ShadowType
<1>6. StringInv'
  <2>1. /\ Entries(shadow_status)' = Entries(shadow_status)
        /\ Speaks(shadow_status, report[1])' = Speaks(shadow_status, report[1])
        /\ WellFormed(payload)' = WellFormed(payload)
        BY <1>2
  <2>2. (\A i \in DOMAIN up : WellFormed(up[i]))'
        BY <1>1, <1>2 DEF WellFormed
  <2>3. QED
        BY <2>1, <2>2, <1>2 DEF Calm, StringInv
<1>7. ChaseInv'
  <2>1. hw_aws_publish
        BY <1>1 DEF Calm, ChaseInv
  <2>2. ASSUME NEW b \in Buttons
        PROVE  (hw[b] = reported[b] \/ Reporting(b) \/ Echoed(b))'
    <3>1. b \in Names
          BY DEF Names
    <3>2. CASE b \in DOMAIN doc
      <4>1. doc[b] = reported'[b]
            BY <3>1, <3>2, <1>2
      <4>2. Told(down', b, reported'[b])
            BY <4>1, <3>2, <1>2, <1>3, <1>4, ToldParts
      <4>3. QED
            BY <4>2 DEF Echoed, Told
    <3>3. CASE b \notin DOMAIN doc
      <4>1. reported'[b] = reported[b] /\ ~Speaks(p, b)
            BY <3>1, <3>3, <1>2, <1>3
      <4>2. Reporting(b) => Reporting(b)'
        <5>1. Spoken(up, b) => Spoken(up', b)
              BY <4>1, <1>1, <1>2, SpokenParts DEF p
        <5>2. Spoken(up', b) => Spoken(up, b)'
              BY DEF Spoken, Speaks
        <5>3. QED
              BY <5>1, <5>2, <1>2 DEF Reporting
      <4>3. Echoed(b) => Echoed(b)'
        <5>1. Told(down, b, reported[b]) => Told(down', b, reported[b])
              BY <1>2, <1>3, <1>4, ToldParts
        <5>2. QED
              BY <5>1, <4>1, <1>2 DEF Echoed, Told
      <4>4. QED
            BY <4>1, <4>2, <4>3, <2>1, <1>2 DEF Calm, ChaseInv
    <3>4. QED
          BY <3>2, <3>3
  <2>3. QED
        BY <2>1, <2>2, <1>2 DEF Calm, ChaseInv
<1>8. QED
      BY <1>5, <1>6, <1>7 DEF Still

MessageInv == /\ TokenInv /\ failures \in Nat
              /\ Undisturbed => Still

LEMMA MessageInit == Init => MessageInv
<1> SUFFICES ASSUME Init PROVE MessageInv
    OBVIOUS
<1>1. <<>> \in Seq(Tokens) /\ <<>> \in Seq(Docs) /\ <<>> \in Seq(Seq(Tokens))
      OBVIOUS
<1>2. ShadowType
      BY <1>1, NamesAssumption DEF Init, ShadowType
<1>3. StringInv
      BY DEF Init, StringInv, Entries
<1>4. ChaseInv
      BY DEF Init, ChaseInv
<1>5. QED
      BY <1>2, <1>3, <1>4, TokenInit DEF Init, MessageInv, Still

(* Nothing makes a try_acquire or a connection unfailed.                   *)
LEMMA Disturbs ==
  ASSUME failures \in Nat, Next
  PROVE  /\ failures' \in Nat
         /\ Undisturbed' => Undisturbed /\ ~PublishFails /\ ~YieldFails
<1>1. ASSUME PublishFails \/ YieldFails
      PROVE  failures' = failures + 1
      BY <1>1 DEF PublishFails, YieldFails, Disconnect
<1>2. ASSUME ~PublishFails, ~YieldFails
      PROVE  failures' = failures /\ (~contended' => ~contended)
  <2>1. CASE Apply
    <3>1. failures' = failures /\ (contended' = (contended \/ sem = 0) \/ contended' = contended)
          BY <2>1 DEF Apply
    <3>2. ~contended' => ~contended
          BY <3>1, Zenon
    <3>3. QED
          BY <3>1, <3>2
  <2>2. CASE TryAcquire
    <3>1. failures' = failures /\ contended' = (contended \/ sem = 0)
          BY <2>2 DEF TryAcquire
    <3>2. ~contended' => ~contended
          BY <3>1, Zenon
    <3>3. QED
          BY <3>1, <3>2
  <2>3. CASE Touch \/ NotYetPublishing \/ AppendKey \/ AppendValue \/ Release
        BY <2>3 DEF Touch, NotYetPublishing, AppendKey, AppendValue, Release, history
  <2>4. CASE Acquire \/ NothingToSend \/ Publish \/ Published \/ GetPublished
        BY <2>4 DEF Acquire, NothingToSend, Publish, Published, GetPublished, history
  <2>5. CASE PublishReconnected \/ YieldReconnected \/ Arrive \/ YieldReturns
        BY <2>5 DEF PublishReconnected, YieldReconnected, Arrive, YieldReturns, history
  <2>6. CASE ShadowUpdate \/ RemoteCommand
        BY <2>6 DEF ShadowUpdate, RemoteCommand, history
  <2>7. QED
        BY <2>1, <2>2, <2>3, <2>4, <2>5, <2>6, <1>2 DEF Next, MainNext, AwsNext
<1>3. QED
      BY <1>1, <1>2 DEF Undisturbed

LEMMA MessageStep == MessageInv /\ [Next]_vars => MessageInv'
<1> SUFFICES ASSUME MessageInv, [Next]_vars PROVE MessageInv'
    OBVIOUS
<1>1. TokenInv'
      BY TokenStep DEF MessageInv
<1>2. CASE UNCHANGED vars
  <2>1. UNCHANGED <<hw, hw_aws_publish, shadow_status, sem, client, aws, payload, stack, main,
                    report, held, up, down, reported, contended, failures>>
        BY <1>2 DEF vars, hwVars, awsVars, mainVars, cloudVars, history
  <2>2. Still' = Still /\ Undisturbed' = Undisturbed
        BY <2>1 DEF Still, ShadowType, StringInv, ChaseInv, Reporting, Echoed, Undisturbed
  <2>3. QED
        BY <1>1, <2>1, <2>2 DEF MessageInv
<1>3. CASE Next
  <2>1. failures' \in Nat /\ (Undisturbed' => Undisturbed /\ ~PublishFails /\ ~YieldFails)
        BY <1>3, Disturbs DEF MessageInv
  <2>2. ASSUME Undisturbed'
        PROVE  Still'
    <3>1. Calm
          BY <2>1, <2>2 DEF MessageInv, Still, Calm
    <3>2. QED
          BY <3>1, <2>1, <2>2, <1>3, CalmTouch, CalmMain, CalmAppend, CalmCycle, CalmPublish,
             CalmPublished, CalmDown, CalmArrive, CalmApply, CalmCloud
          DEF Next, MainNext, AwsNext
  <2>3. QED
        BY <1>1, <2>1, <2>2 DEF MessageInv
<1>4. QED
      BY <1>2, <1>3

(* For any buttons, sliders and values, and any order of touches, commands,*)
(* echoes and nested callbacks: as long as no try_acquire and no connection*)
(* has failed, what awsiot_update appends (awsiot.cpp:587-594) and the     *)
(* cycle frames (183-184) is a message the shadow takes.                   *)
THEOREM MessagesAlwaysWellFormed == Spec => []MessagesWellFormed
<1>1. MessageInv => MessagesWellFormed
      BY DEF MessageInv, MessagesWellFormed, Undisturbed, Still, StringInv
<1>2. QED
      BY <1>1, MessageInit, MessageStep, PTL DEF Spec

(* As long as nothing has failed, the shadow holds the buttons of the      *)
(* device whenever nothing is under way, whatever order echoes, commands,  *)
(* touches and nested callbacks came in.                                   *)
THEOREM ButtonsAlwaysAgree == Spec => []ButtonsAgree
<1>1. ASSUME MessageInv, Quiet, ~contended, failures = 0
      PROVE  \A b \in Buttons : hw[b] = reported[b]
  <2>1. Still
        BY <1>1 DEF MessageInv, Undisturbed
  <2>2. \A b : ~Reporting(b) /\ ~Echoed(b)
        BY <1>1 DEF Quiet, Reporting, Echoed, Speaks, Spoken, Told
  <2>3. QED
        BY <2>1, <2>2, <1>1 DEF Still, ChaseInv, Quiet
<1>2. MessageInv => ButtonsAgree
      BY <1>1 DEF ButtonsAgree
<1>3. QED
      BY <1>2, MessageInit, MessageStep, PTL DEF Spec
=============================================================================
