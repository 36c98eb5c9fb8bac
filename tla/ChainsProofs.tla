---------------------------- MODULE ChainsProofs ----------------------------
(***************************************************************************)
(* Proofs about Chains and the modules it composes, Identity, Principals   *)
(* and Analysis.                                                           *)
(***************************************************************************)
EXTENDS Chains, ListProofs, SequenceTheorems

-----------------------------------------------------------------------------
(* Identities of authenticated contexts are unambiguous, whatever the      *)
(* label and the session are: the number before a field ends at the first  *)
(* colon, hence says how long the field is.                                *)

Framable == {s \in Seq(Bytes) : Len(s) \in DOMAIN Decimal}

(* The two parts of a concatenation. *)
LEMMA ConcatParts ==
  ASSUME NEW S, NEW a \in Seq(S), NEW b \in Seq(S)
  PROVE  /\ a \o b \in Seq(S) /\ Len(a \o b) = Len(a) + Len(b)
         /\ Len(a) \in Nat /\ Len(b) \in Nat
         /\ \A i \in 1..Len(a) : (a \o b)[i] = a[i]
         /\ \A i \in 1..Len(b) : (a \o b)[Len(a) + i] = b[i]
<1>1. Len(a) \in Nat /\ Len(b) \in Nat
  OBVIOUS
<1>2. \A i \in 1..Len(a) : i \in 1..(Len(a) + Len(b)) /\ i <= Len(a)
  BY <1>1
<1>3. \A i \in 1..Len(b) : Len(a) + i \in 1..(Len(a) + Len(b)) /\ ~(Len(a) + i <= Len(a)) /\ (Len(a) + i) - Len(a) = i
  BY <1>1
<1> QED
  BY <1>1, <1>2, <1>3, ConcatProperties

Number(s) == Decimal[Len(s)]

(* w is the text s, framed, and then u, byte by byte. *)
Framed(w, s, u) ==
  /\ Number(s) \in Seq(Bytes) /\ Number(s) \in Seq(Bytes \ {Colon})
  /\ Len(w) = Len(Number(s)) + 1 + Len(s) + Len(u)
  /\ \A i \in 1..Len(Number(s)) : w[i] = Number(s)[i]
  /\ w[Len(Number(s)) + 1] = Colon
  /\ \A i \in 1..Len(s) : w[Len(Number(s)) + 1 + i] = s[i]
  /\ \A i \in 1..Len(u) : w[Len(Number(s)) + 1 + Len(s) + i] = u[i]

LEMMA FramedBytes ==
  ASSUME NEW s \in Framable, NEW u \in Seq(Bytes), NEW w, w = canonicalField(s) \o u
  PROVE  Framed(w, s, u)
<1> DEFINE d == Number(s)
           h == d \o <<Colon>>
           f == h \o s
<1>0. w = f \o u /\ f = h \o s /\ h = d \o <<Colon>>
  BY DEF canonicalField, Number
<1>1. s \in Seq(Bytes) /\ Len(s) \in DOMAIN Decimal
  BY DEF Framable
<1>2. d \in Seq(Bytes \ {Colon}) /\ Colon \in Bytes
  BY <1>1, IdentityAssumption DEF Number
<1>3. d \in Seq(Bytes)
  BY <1>2
<1>4. <<Colon>> \in Seq(Bytes) /\ Len(<<Colon>>) = 1 /\ <<Colon>>[1] = Colon
  BY <1>2
<1> HIDE DEF d, h, f
<1>5. /\ h \in Seq(Bytes) /\ Len(h) = Len(d) + 1
      /\ \A i \in 1..Len(d) : h[i] = d[i]
      /\ \A i \in 1..1 : h[Len(d) + i] = <<Colon>>[i]
  BY <1>0, <1>3, <1>4, ConcatParts
<1>6. h[Len(d) + 1] = Colon
  BY <1>5
<1>7. Len(d) \in Nat /\ Len(s) \in Nat /\ Len(u) \in Nat
  BY <1>1, <1>3
<1>8. /\ f \in Seq(Bytes) /\ Len(f) = Len(d) + 1 + Len(s)
      /\ \A i \in 1..(Len(d) + 1) : f[i] = h[i]
      /\ \A i \in 1..Len(s) : f[Len(d) + 1 + i] = s[i]
  <2>1. /\ f \in Seq(Bytes) /\ Len(f) = Len(h) + Len(s)
        /\ \A i \in 1..Len(h) : f[i] = h[i]
        /\ \A i \in 1..Len(s) : f[Len(h) + i] = s[i]
    BY <1>0, <1>1, <1>5, ConcatParts
  <2> QED
    BY <2>1, <1>5
<1>9. /\ w \in Seq(Bytes) /\ Len(w) = Len(f) + Len(u)
      /\ \A i \in 1..Len(f) : w[i] = f[i]
      /\ \A i \in 1..Len(u) : w[Len(f) + i] = u[i]
  BY <1>0, <1>8, ConcatParts
<1>10. \A i \in 1..Len(d) : w[i] = d[i]
  <2>1. \A i \in 1..Len(d) : i \in 1..(Len(d) + 1) /\ i \in 1..Len(f)
    BY <1>7, <1>8
  <2> QED
    BY <2>1, <1>5, <1>8, <1>9
<1>11. w[Len(d) + 1] = Colon
  <2>1. Len(d) + 1 \in 1..(Len(d) + 1) /\ Len(d) + 1 \in 1..Len(f)
    BY <1>7, <1>8
  <2> QED
    BY <2>1, <1>6, <1>8, <1>9
<1>12. \A i \in 1..Len(s) : w[Len(d) + 1 + i] = s[i]
  <2>1. \A i \in 1..Len(s) : Len(d) + 1 + i \in 1..Len(f)
    BY <1>7, <1>8
  <2> QED
    BY <2>1, <1>8, <1>9
<1>13. /\ Len(w) = Len(d) + 1 + Len(s) + Len(u)
       /\ \A i \in 1..Len(u) : w[Len(d) + 1 + Len(s) + i] = u[i]
  BY <1>8, <1>9
<1> QED
  BY <1>2, <1>3, <1>9, <1>10, <1>11, <1>12, <1>13 DEF d, Framed

(* Of two framed texts that begin alike, the first number is no shorter.   *)
LEMMA NumberNotShorter ==
  ASSUME NEW s \in Framable, NEW t \in Framable, NEW u \in Seq(Bytes), NEW v \in Seq(Bytes),
         NEW w, w = canonicalField(s) \o u, w = canonicalField(t) \o v
  PROVE  Len(Number(s)) >= Len(Number(t))
<1>0. Framed(w, s, u) /\ Framed(w, t, v)
  BY FramedBytes
<1>1. Number(s) \in Seq(Bytes) /\ w[Len(Number(s)) + 1] = Colon
  BY <1>0 DEF Framed
<1>2. Number(t) \in Seq(Bytes \ {Colon}) /\ \A i \in 1..Len(Number(t)) : w[i] = Number(t)[i]
  BY <1>0 DEF Framed
<1>3. ASSUME Len(Number(s)) < Len(Number(t))  PROVE FALSE
  <2>1. Len(Number(s)) \in Nat /\ Len(Number(t)) \in Nat /\ Len(Number(s)) + 1 \in 1..Len(Number(t))
    BY <1>1, <1>2, <1>3
  <2>2. Number(t)[Len(Number(s)) + 1] = Colon
    BY <1>1, <1>2, <2>1
  <2>3. Number(t)[Len(Number(s)) + 1] \in Bytes \ {Colon}
    BY <1>2, <2>1
  <2> QED
    BY <2>2, <2>3
<1> QED
  BY <1>1, <1>2, <1>3

(* A framed text is known from any text that begins with it, and so is     *)
(* what follows.                                                           *)
LEMMA FieldIsFramed ==
  ASSUME NEW s \in Framable, NEW t \in Framable, NEW u \in Seq(Bytes), NEW v \in Seq(Bytes),
         NEW w, w = canonicalField(s) \o u, w = canonicalField(t) \o v
  PROVE  s = t /\ u = v
<1>0. s \in Seq(Bytes) /\ t \in Seq(Bytes) /\ Len(s) \in DOMAIN Decimal /\ Len(t) \in DOMAIN Decimal
  BY DEF Framable
<1>a. Framed(w, s, u) /\ Framed(w, t, v)
  BY FramedBytes
<1>1. /\ Number(s) \in Seq(Bytes) /\ Len(w) = Len(Number(s)) + 1 + Len(s) + Len(u)
      /\ \A i \in 1..Len(Number(s)) : w[i] = Number(s)[i]
      /\ \A i \in 1..Len(s) : w[Len(Number(s)) + 1 + i] = s[i]
      /\ \A i \in 1..Len(u) : w[Len(Number(s)) + 1 + Len(s) + i] = u[i]
  BY <1>a DEF Framed
<1>2. /\ Number(t) \in Seq(Bytes) /\ Len(w) = Len(Number(t)) + 1 + Len(t) + Len(v)
      /\ \A i \in 1..Len(Number(t)) : w[i] = Number(t)[i]
      /\ \A i \in 1..Len(t) : w[Len(Number(t)) + 1 + i] = t[i]
      /\ \A i \in 1..Len(v) : w[Len(Number(t)) + 1 + Len(t) + i] = v[i]
  BY <1>a DEF Framed
<1>3. Len(Number(s)) >= Len(Number(t)) /\ Len(Number(t)) >= Len(Number(s))
  BY NumberNotShorter
<1>4. Number(s) = Number(t)
  <2>1. Len(Number(s)) = Len(Number(t))
    BY <1>1, <1>2, <1>3
  <2>2. \A i \in 1..Len(Number(s)) : Number(s)[i] = Number(t)[i]
    BY <1>1, <1>2, <2>1
  <2> QED
    BY <1>1, <1>2, <2>1, <2>2, SeqEqual
<1>5. Len(s) = Len(t)
  BY <1>0, <1>4, IdentityAssumption DEF Number
<1>6. s = t
  <2>1. \A i \in 1..Len(s) : s[i] = t[i]
    BY <1>1, <1>2, <1>4, <1>5
  <2> QED
    BY <1>0, <1>5, <2>1, SeqEqual
<1>7. Len(u) = Len(v)
  BY <1>0, <1>1, <1>2, <1>4, <1>5
<1>8. u = v
  BY <1>0, <1>1, <1>2, <1>4, <1>5, <1>7, SeqEqual
<1> QED
  BY <1>6, <1>8

(* Two contexts share an identity only when they agree in the label of the *)
(* principal and in the session: hashing two fields back to back "can      *)
(* never be ambiguous regardless of what characters either field contains" *)
(* (auth_context.go 143-156).                                              *)
THEOREM IdentityInjective ==
  ASSUME NEW label1 \in Framable, NEW session1 \in Framable,
         NEW label2 \in Framable, NEW session2 \in Framable,
         identity(label1, session1) = identity(label2, session2)
  PROVE  label1 = label2 /\ session1 = session2
<1>1. \A s \in Framable : canonicalField(s) \in Seq(Bytes) /\ canonicalField(s) = canonicalField(s) \o <<>>
  <2>1. TAKE s \in Framable
  <2>2. s \in Seq(Bytes) /\ Decimal[Len(s)] \in Seq(Bytes) /\ <<Colon>> \in Seq(Bytes)
    BY IdentityAssumption, FramedBytes, EmptySeq DEF Framable
  <2>3. canonicalField(s) \in Seq(Bytes)
    BY <2>2 DEF canonicalField
  <2> QED
    BY <2>3, ConcatEmptySeq
<1> DEFINE w == identity(label1, session1)
           c1 == canonicalField(session1)
           c2 == canonicalField(session2)
<1>2. /\ c1 \in Seq(Bytes) /\ c2 \in Seq(Bytes)
      /\ w = canonicalField(label1) \o c1 /\ w = canonicalField(label2) \o c2
  BY <1>1 DEF identity
<1>3. c1 = canonicalField(session1) \o <<>> /\ c2 = canonicalField(session2) \o <<>> /\ <<>> \in Seq(Bytes)
  BY <1>1
<1> HIDE DEF w, c1, c2
<1>4. label1 = label2 /\ c1 = c2
  BY <1>2, FieldIsFramed
<1>5. session1 = session2
  BY <1>3, <1>4, FieldIsFramed
<1> QED
  BY <1>4, <1>5

-----------------------------------------------------------------------------
(* Scores, strength and merging.                                           *)
Fields == {"id", "endpoint", "severity", "cvss", "confidence", "verification", "status",
           "evidence", "idor", "occurrences", "score"}

GoodFinding(f) ==
  /\ DOMAIN f = Fields
  /\ f.severity \in DOMAIN SeverityOrder /\ f.confidence \in DOMAIN ConfidenceOrder
  /\ f.verification \in DOMAIN VerificationOrder
  /\ f.cvss \in Nat /\ f.score = riskScore(f) /\ f.occurrences = 1
  /\ f.idor = f.id[3]

LEMMA ParseMakesGood ==
  ASSUME NEW raw, raw.cvss \in Int \cup {None}
  PROVE  GoodFinding([parseFinding(raw) EXCEPT !.score = riskScore(parseFinding(raw))])
<1> DEFINE p == parseFinding(raw)
           g == [p EXCEPT !.score = riskScore(p)]
<1>1. /\ DOMAIN p = Fields
      /\ p.severity \in DOMAIN SeverityOrder /\ p.confidence \in DOMAIN ConfidenceOrder
      /\ p.verification \in DOMAIN VerificationOrder
      /\ p.occurrences = 1 /\ p.idor = p.id[3]
  BY DEF parseFinding, Fields, MapTo, SeverityOrder, ConfidenceOrder, VerificationOrder, Fingerprint
<1>2. p.cvss \in Nat
  <2>1. \A s \in DOMAIN SeverityOrder : DefaultCvss[s] \in Nat
    BY DEF SeverityOrder, DefaultCvss
  <2>2. p.cvss = IF raw.cvss = None THEN DefaultCvss[p.severity] ELSE Clamp(0, raw.cvss, 100)
    BY DEF parseFinding
  <2>3. raw.cvss # None => Clamp(0, raw.cvss, 100) \in Nat
    BY DEF Clamp
  <2> QED
    BY <1>1, <2>1, <2>2, <2>3
<1> HIDE DEF p
<1>3. /\ DOMAIN g = Fields /\ g.score = riskScore(p)
      /\ g.severity = p.severity /\ g.confidence = p.confidence /\ g.verification = p.verification
      /\ g.cvss = p.cvss /\ g.occurrences = p.occurrences /\ g.id = p.id /\ g.idor = p.idor
  BY <1>1 DEF Fields
<1>4. riskScore(g) = riskScore(p)
  BY <1>3 DEF riskScore, weightedSum
<1> QED
  BY <1>1, <1>2, <1>3, <1>4 DEF GoodFinding, p

(* Only what was disproven scores nothing. *)
LEMMA ScoreSign ==
  ASSUME NEW f, GoodFinding(f)
  PROVE  /\ f.score \in Nat
         /\ f.score = 0 <=> f.verification = "FALSE_POSITIVE"
<1> DEFINE s == SeverityWeights[f.severity]
           c == ConfidenceWeights[f.confidence]
           v == VerificationMultipliers[f.verification]
           base == IF f.cvss > 0 THEN f.cvss ELSE s
           sum == 50 * base + 25 * s + 15 * c + 10 * v
<1>1. s \in 5..100
  BY DEF GoodFinding, SeverityWeights, SeverityOrder
<1>2. c \in 40..100
  BY DEF GoodFinding, ConfidenceWeights, ConfidenceOrder
<1>3. /\ v \in {100, 80, 60, 40, 30, 0}
      /\ v = 0 <=> f.verification = "FALSE_POSITIVE"
  BY DEF GoodFinding, VerificationMultipliers, VerificationOrder
<1>4. f.score = (sum * v + 50) \div 100
  BY DEF GoodFinding, riskScore, weightedSum
<1>5. base \in Nat /\ base > 0
  BY <1>1 DEF GoodFinding
<1> HIDE DEF s, c, v, base
<1>6. sum \in Nat /\ sum >= 100
  BY <1>1, <1>2, <1>3, <1>5
<1> HIDE DEF sum
<1>7. v = 0 => f.score = 0
  BY <1>4, <1>6
<1>8. ASSUME v # 0 PROVE f.score \in Nat /\ f.score > 0
  <2>1. PICK t \in Nat : t = sum * v + 50
    BY <1>3, <1>6
  <2>2. t >= 100
    BY <1>3, <1>6, <1>8, <2>1
  <2> QED
    BY <1>4, <2>1, <2>2
<1> QED
  BY <1>3, <1>7, <1>8

(* KeyOf is compared lexicographically. *)
Keys5 == [1..5 -> Int]
Lex(a, b) == \E i \in 1..5 : a[i] > b[i] /\ \A j \in 1..(i - 1) : a[j] = b[j]

LEMMA LexUnfolds ==
  ASSUME NEW a \in Keys5, NEW b \in Keys5
  PROVE  Lex(a, b) <=>
           \/ a[1] > b[1]
           \/ a[1] = b[1] /\ a[2] > b[2]
           \/ a[1] = b[1] /\ a[2] = b[2] /\ a[3] > b[3]
           \/ a[1] = b[1] /\ a[2] = b[2] /\ a[3] = b[3] /\ a[4] > b[4]
           \/ a[1] = b[1] /\ a[2] = b[2] /\ a[3] = b[3] /\ a[4] = b[4] /\ a[5] > b[5]
<1>1. 1..5 = {1, 2, 3, 4, 5} /\ 1..(1 - 1) = {} /\ 1..(2 - 1) = {1} /\ 1..(3 - 1) = {1, 2}
      /\ 1..(4 - 1) = {1, 2, 3} /\ 1..(5 - 1) = {1, 2, 3, 4}
  OBVIOUS
<1> QED
  BY <1>1 DEF Lex, Keys5

LEMMA LexOrders ==
  /\ \A a \in Keys5 : ~ Lex(a, a)
  /\ \A a, b \in Keys5 : a = b \/ Lex(a, b) \/ Lex(b, a)
  /\ \A a, b \in Keys5 : ~ (Lex(a, b) /\ Lex(b, a))
  /\ \A a, b, c \in Keys5 : Lex(a, b) /\ Lex(b, c) => Lex(a, c)
  /\ \A a, b \in Keys5 : Lex(a, b) => a[1] >= b[1]
<1>1. ASSUME NEW a \in Keys5  PROVE a[1] \in Int /\ a[2] \in Int /\ a[3] \in Int /\ a[4] \in Int /\ a[5] \in Int
  BY DEF Keys5
<1>2. ASSUME NEW a \in Keys5  PROVE ~ Lex(a, a)
  BY <1>1, LexUnfolds
<1>3. ASSUME NEW a \in Keys5, NEW b \in Keys5  PROVE a = b \/ Lex(a, b) \/ Lex(b, a)
  <2>1. CASE a[1] = b[1] /\ a[2] = b[2] /\ a[3] = b[3] /\ a[4] = b[4] /\ a[5] = b[5]
    <3>1. \A i \in 1..5 : a[i] = b[i]
      BY <2>1
    <3> QED
      BY <3>1 DEF Keys5
  <2>2. CASE ~ (a[1] = b[1] /\ a[2] = b[2] /\ a[3] = b[3] /\ a[4] = b[4] /\ a[5] = b[5])
    BY <1>1, <2>2, LexUnfolds
  <2> QED
    BY <2>1, <2>2
<1>4. ASSUME NEW a \in Keys5, NEW b \in Keys5  PROVE ~ (Lex(a, b) /\ Lex(b, a)) /\ (Lex(a, b) => a[1] >= b[1])
  BY <1>1, LexUnfolds
<1>5. ASSUME NEW a \in Keys5, NEW b \in Keys5, NEW c \in Keys5, Lex(a, b), Lex(b, c)  PROVE Lex(a, c)
  BY <1>1, <1>5, LexUnfolds
<1> QED
  BY <1>2, <1>3, <1>4, <1>5

LEMMA KeyIsKey ==
  ASSUME NEW f, GoodFinding(f)
  PROVE  KeyOf(f) \in Keys5 /\ KeyOf(f)[1] = f.score
<1>1. f.score \in Int
  BY ScoreSign
<1>2. SeverityOrder[f.severity] \in Int /\ VerificationOrder[f.verification] \in Int
      /\ ConfidenceOrder[f.confidence] \in Int /\ f.cvss \in Int
  BY DEF GoodFinding, SeverityOrder, VerificationOrder, ConfidenceOrder
<1> QED
  BY <1>1, <1>2 DEF KeyOf, Keys5

(* A list of findings that were parsed and scored. *)
GoodList(fs) ==
  /\ fs \in Seq(Range(fs))
  /\ \A i \in DOMAIN fs : GoodFinding(fs[i])

(* The strongest of some duplicates beats the others, or equals them and   *)
(* comes before.                                                           *)
Strongest5(fs, K, i) ==
  /\ i \in K
  /\ \A j \in K : isBetter(fs[i], fs[j]) \/ KeyOf(fs[i]) = KeyOf(fs[j])

LEMMA StrongestIsBest ==
  ASSUME NEW fs, GoodList(fs), NEW K \in SUBSET DOMAIN fs, K # {}
  PROVE  Strongest5(fs, K, strongest(fs, K))
<1> DEFINE key(i) == KeyOf(fs[i])
           R == {p \in K \X K : Lex(key(p[1]), key(p[2])) \/ (key(p[1]) = key(p[2]) /\ p[1] < p[2])}
           l == Listing(K, R)
           Top(i) == \A j \in K \ {i} : isBetter(fs[i], fs[j]) \/ (i < j /\ ~isBetter(fs[j], fs[i]))
<1>1. Len(fs) \in Nat /\ DOMAIN fs = 1..Len(fs)
  BY DEF GoodList
<1>2. IsFiniteSet(K) /\ \A i \in K : i \in Nat
  <2>1. IsFiniteSet(1..Len(fs))
    BY <1>1, FS_Interval
  <2> QED
    BY <1>1, <2>1, FS_Subset
<1>3. \A i \in K : key(i) \in Keys5
  BY KeyIsKey DEF GoodList
<1>4. \A i, j \in K : isBetter(fs[i], fs[j]) <=> Lex(key(i), key(j))
  BY DEF isBetter, Lex
<1> HIDE DEF key
<1>5. StrictOrder(K, R)
  <2>1. \A x \in K : <<x, x>> \notin R
    BY <1>2, <1>3, LexOrders
  <2>2. \A x, y \in K : x = y \/ <<x, y>> \in R \/ <<y, x>> \in R
    BY <1>2, <1>3, LexOrders
  <2>3. ASSUME NEW x \in K, NEW y \in K, NEW z \in K, <<x, y>> \in R, <<y, z>> \in R  PROVE <<x, z>> \in R
    <3>1. key(x) \in Keys5 /\ key(y) \in Keys5 /\ key(z) \in Keys5 /\ x \in Nat /\ y \in Nat /\ z \in Nat
      BY <1>2, <1>3
    <3>2. Lex(key(x), key(z)) \/ (key(x) = key(z) /\ x < z)
      BY <2>3, <3>1, LexOrders
    <3> QED
      BY <3>2
  <2> QED
    BY <2>1, <2>2, <2>3 DEF StrictOrder
<1>6. PICK top \in K : \A j \in K \ {top} : <<top, j>> \in R
  <2>1. Lists(l, K, R)
    BY <1>2, <1>5, ListingLists
  <2> HIDE DEF l, R
  <2>2. PICK n \in Nat : n = Cardinality(K) /\ l \in [1..n -> K] /\ (\A x \in K : \E k \in 1..n : l[k] = x)
            /\ \A i, j \in 1..n : i < j <=> <<l[i], l[j]>> \in R
    BY <2>1 DEF Lists
  <2>3. 1 \in 1..n
    BY <2>2
  <2>4. ASSUME NEW j \in K \ {l[1]}  PROVE <<l[1], j>> \in R
    <3>1. PICK k \in 1..n : l[k] = j
      BY <2>2
    <3>2. 1 < k
      BY <2>2, <3>1
    <3> QED
      BY <2>2, <2>3, <3>1, <3>2
  <2> QED
    BY <2>2, <2>3, <2>4
<1>7. Top(top)
  <2> SUFFICES ASSUME NEW j \in K \ {top}  PROVE isBetter(fs[top], fs[j]) \/ (top < j /\ ~isBetter(fs[j], fs[top]))
    OBVIOUS
  <2>1. Lex(key(top), key(j)) \/ (key(top) = key(j) /\ top < j)
    BY <1>6
  <2> QED
    BY <1>3, <1>4, <2>1, LexOrders
<1>8. strongest(fs, K) \in K /\ Top(strongest(fs, K))
  <2>1. strongest(fs, K) = CHOOSE i \in K : Top(i)
    BY DEF strongest
  <2> HIDE DEF Top
  <2> QED
    BY <1>7, <2>1
<1>9. PICK s \in K : s = strongest(fs, K) /\ Top(s)
  BY <1>8
<1>10. ASSUME NEW j \in K  PROVE isBetter(fs[s], fs[j]) \/ key(s) = key(j)
  <2>1. CASE j = s
    BY <2>1
  <2>2. CASE j # s
    BY <1>3, <1>4, <1>9, <2>2, LexOrders
  <2> QED
    BY <2>1, <2>2
<1> QED
  BY <1>9, <1>10 DEF Strongest5, key

(* What a merged finding has of the strongest, and what of all of them. *)
Merged(fs, K, m) ==
  LET s == strongest(fs, K) IN
  /\ DOMAIN m = Fields
  /\ m.id = fs[s].id /\ m.endpoint = fs[s].endpoint /\ m.severity = fs[s].severity
  /\ m.cvss = fs[s].cvss /\ m.confidence = fs[s].confidence /\ m.verification = fs[s].verification
  /\ m.idor = fs[s].idor /\ m.score = fs[s].score
  /\ m.occurrences = Cardinality(K)
  /\ m.evidence = None <=> \A i \in K : fs[i].evidence = None
  /\ m.status = "OPEN" <=> \A i \in K : fs[i].status = "OPEN"

LEMMA MergedIsMerged ==
  ASSUME NEW fs, GoodList(fs), NEW K \in SUBSET DOMAIN fs, K # {}
  PROVE  Merged(fs, K, merged(fs, K))
<1> DEFINE s == strongest(fs, K)
           f == fs[s]
           having == {i \in K : fs[i].evidence # None}
           closed == {i \in K : fs[i].status # "OPEN"}
           m == mergeMissingFields(f, fs, K)
           n == [i \in K |-> fs[i].occurrences]
           c == SumFunctionOnSet(n, K)
<1>1. Len(fs) \in Nat /\ DOMAIN fs = 1..Len(fs)
  BY DEF GoodList
<1>2. IsFiniteSet(K) /\ \A i \in K : i \in Nat
  <2>1. IsFiniteSet(1..Len(fs))
    BY <1>1, FS_Interval
  <2> QED
    BY <1>1, <2>1, FS_Subset
<1>3. s \in K /\ GoodFinding(f)
  BY StrongestIsBest DEF Strongest5, GoodList
<1>4. (having # {} => Min(having) \in having) /\ (closed # {} => Min(closed) \in closed)
  <2>1. having \in SUBSET Nat /\ closed \in SUBSET Nat
    BY <1>2
  <2> HIDE DEF having, closed
  <2> QED
    BY <2>1, Least DEF Min
<1>5. c = Cardinality(K)
  <2>1. c = Total(n, K)
    BY DEF SumFunctionOnSet, FoldFunctionOnSet, Total, MapThenSumSet
  <2>2. \A x \in K : n[x] = 1
    BY DEF GoodList, GoodFinding
  <2> HIDE DEF n, c
  <2> QED
    BY <1>2, <2>1, <2>2, OnesCount
<1> HIDE DEF s, c
<1>6. /\ DOMAIN m = Fields
      /\ m.id = f.id /\ m.endpoint = f.endpoint /\ m.severity = f.severity /\ m.cvss = f.cvss
      /\ m.confidence = f.confidence /\ m.verification = f.verification /\ m.idor = f.idor /\ m.score = f.score
      /\ m.evidence = (IF f.evidence = None /\ having # {} THEN fs[Min(having)].evidence ELSE f.evidence)
      /\ m.status = (IF f.status = "OPEN" /\ closed # {} THEN fs[Min(closed)].status ELSE f.status)
  <2>1. DOMAIN f = Fields
    BY <1>3 DEF GoodFinding
  <2> HIDE DEF f
  <2> QED
    BY <2>1 DEF mergeMissingFields, Fields
<1>7. merged(fs, K) = [m EXCEPT !.occurrences = c]
  BY DEF merged, s, c
<1>8. m.evidence = None <=> \A i \in K : fs[i].evidence = None
  <2>1. CASE having = {}
    BY <1>3, <1>6, <2>1
  <2>2. CASE having # {}
    <3>1. fs[Min(having)].evidence # None
      BY <1>4, <2>2
    <3>2. Min(having) \in K
      BY <1>4, <2>2
    <3> HIDE DEF m
    <3> QED
      BY <1>6, <2>2, <3>1, <3>2
  <2> QED
    BY <2>1, <2>2
<1>9. m.status = "OPEN" <=> \A i \in K : fs[i].status = "OPEN"
  <2>1. CASE closed = {}
    BY <1>3, <1>6, <2>1
  <2>2. CASE closed # {}
    <3>1. fs[Min(closed)].status # "OPEN"
      BY <1>4, <2>2
    <3>2. Min(closed) \in K
      BY <1>4, <2>2
    <3> HIDE DEF m
    <3> QED
      BY <1>6, <2>2, <3>1, <3>2
  <2> QED
    BY <2>1, <2>2
<1> HIDE DEF m
<1>10. PICK q : q = merged(fs, K)
  OBVIOUS
<1>11. /\ DOMAIN q = Fields /\ q.occurrences = c
       /\ q.id = m.id /\ q.endpoint = m.endpoint /\ q.severity = m.severity /\ q.cvss = m.cvss
       /\ q.confidence = m.confidence /\ q.verification = m.verification /\ q.idor = m.idor /\ q.score = m.score
       /\ q.evidence = m.evidence /\ q.status = m.status
  BY <1>6, <1>7, <1>10 DEF Fields
<1>12. Merged(fs, K, q)
  BY <1>5, <1>6, <1>8, <1>9, <1>11 DEF Merged, s
<1> QED
  BY <1>10, <1>12

(* The list q has one finding for each fingerprint of fs, in order. *)
Deduped(fs, q) ==
  /\ Len(q) \in Nat /\ DOMAIN q = 1..Len(q)
  /\ \A n \in 1..Len(q) :
       /\ Places(fs, q[n].id) \in SUBSET DOMAIN fs /\ Places(fs, q[n].id) # {}
       /\ Merged(fs, Places(fs, q[n].id), q[n])
       /\ Strongest5(fs, Places(fs, q[n].id), strongest(fs, Places(fs, q[n].id)))
  /\ \A i \in DOMAIN fs : \E n \in 1..Len(q) : q[n].id = fs[i].id
  /\ \A m, n \in 1..Len(q) : q[m].id = q[n].id => m = n
  /\ \A m, n \in 1..Len(q) : m < n => ~ ReportBefore(q[n], q[m])

LEMMA DeduplicateDedups ==
  ASSUME NEW fs, GoodList(fs), NEW q \in deduplicate(fs)
  PROVE  Deduped(fs, q)
<1> DEFINE one(id) == merged(fs, Places(fs, id))
           all == {one(fs[i].id) : i \in DOMAIN fs}
<1>1. Len(fs) \in Nat /\ DOMAIN fs = 1..Len(fs)
  BY DEF GoodList
<1>2. ASSUME NEW i \in DOMAIN fs
      PROVE  LET K == Places(fs, fs[i].id) IN
             /\ K \in SUBSET DOMAIN fs /\ K # {}
             /\ Merged(fs, K, one(fs[i].id)) /\ Strongest5(fs, K, strongest(fs, K))
             /\ one(fs[i].id).id = fs[i].id
  <2> DEFINE K == Places(fs, fs[i].id)
  <2>1. K \in SUBSET DOMAIN fs /\ i \in K /\ \A j \in K : fs[j].id = fs[i].id
    BY DEF Places
  <2> HIDE DEF K
  <2>2. Merged(fs, K, merged(fs, K)) /\ Strongest5(fs, K, strongest(fs, K))
    BY <2>1, MergedIsMerged, StrongestIsBest
  <2>3. merged(fs, K).id = fs[i].id
    BY <2>1, <2>2 DEF Merged, Strongest5
  <2> QED
    BY <2>1, <2>2, <2>3 DEF K
<1>3. IsFiniteSet(all)
  <2> DEFINE f == [i \in DOMAIN fs |-> one(fs[i].id)]
  <2>1. f \in Surjection(DOMAIN fs, all)
    BY DEF Surjection
  <2>2. IsFiniteSet(DOMAIN fs)
    BY <1>1, FS_Interval
  <2> HIDE DEF f, all
  <2> QED
    BY <2>1, <2>2, FS_Surjection
<1>4. PICK n : n = Cardinality(all)
  OBVIOUS
<1>5. q \in [1..n -> all] /\ \A i, j \in 1..n : i < j => q[i] # q[j] /\ ~ ReportBefore(q[j], q[i])
  BY <1>4 DEF deduplicate, Sorts
<1>6. /\ n \in Nat /\ Len(q) = n /\ DOMAIN q = 1..n
      /\ \A i, j \in 1..n : q[i] = q[j] => i = j
      /\ \A x \in all : \E i \in 1..n : q[i] = x
  <2> HIDE DEF all
  <2>1. q \in [1..Cardinality(all) -> all] /\ NoTwice(q, Cardinality(all))
    BY <1>4, <1>5 DEF NoTwice
  <2>2. AllOnce(q, Cardinality(all), all)
    BY <1>3, <2>1, ListsAll
  <2> QED
    BY <1>4, <2>2 DEF AllOnce
<1> HIDE DEF one
<1>7. ASSUME NEW k \in 1..n  PROVE \E i \in DOMAIN fs : q[k] = one(fs[i].id) /\ q[k].id = fs[i].id
  <2>1. q[k] \in all
    BY <1>5
  <2>2. PICK i \in DOMAIN fs : q[k] = one(fs[i].id)
    BY <2>1
  <2> QED
    BY <1>2, <2>2
<1>8. ASSUME NEW k \in 1..n
      PROVE  /\ Places(fs, q[k].id) \in SUBSET DOMAIN fs /\ Places(fs, q[k].id) # {}
             /\ Merged(fs, Places(fs, q[k].id), q[k])
             /\ Strongest5(fs, Places(fs, q[k].id), strongest(fs, Places(fs, q[k].id)))
  BY <1>2, <1>7
<1>9. ASSUME NEW i \in DOMAIN fs  PROVE \E k \in 1..n : q[k].id = fs[i].id
  <2>1. PICK k \in 1..n : q[k] = one(fs[i].id)
    BY <1>6
  <2> QED
    BY <1>2, <2>1
<1>10. ASSUME NEW k \in 1..n, NEW m \in 1..n, q[k].id = q[m].id  PROVE k = m
  <2>1. q[k] = one(q[k].id) /\ q[m] = one(q[m].id)
    BY <1>7
  <2> QED
    BY <1>6, <1>10, <2>1
<1> QED
  BY <1>5, <1>6, <1>8, <1>9, <1>10 DEF Deduped

-----------------------------------------------------------------------------
(* The heuristics' own variables.                                          *)
IdorInv ==
  /\ params \in Endpoints
  /\ heuristic \in {"neighbours", "principals", "done"}
  /\ at \in 1..Len(params)
  /\ turn \in 0..(IF heuristic = "neighbours" THEN 2 ELSE Len(Others))
  /\ flagged \in Seq(Flaggable)

LEMMA IdorInvInit == IdorInit => IdorInv
<1> SUFFICES ASSUME IdorInit  PROVE IdorInv
  OBVIOUS
<1>1. params \in Seq({params[i] : i \in DOMAIN params}) /\ params # <<>>
  BY PrincipalsAssumption DEF IdorInit
<1>2. 1 \in 1..Len(params)
  BY <1>1
<1> QED
  BY <1>2 DEF IdorInit, IdorInv

(* A step asks at the parameter that is due, on behalf of the principal    *)
(* that is due.                                                            *)
LEMMA Due ==
  ASSUME IdorInv
  PROVE  /\ Param.name \in Names
         /\ Len(Others) \in Nat \ {0} /\ Len(params) \in Nat
         /\ (heuristic = "principals" /\ turn > 0) => Others[turn] \in Range(Others)
<1>1. params \in Seq({params[i] : i \in DOMAIN params})
  BY PrincipalsAssumption DEF IdorInv
<1>2. at \in DOMAIN params
  BY <1>1 DEF IdorInv
<1>3. Param.name \in Names
  BY <1>2 DEF IdorInv, Param, Names
<1>4. Others \in Seq(Range(Others)) /\ Others # <<>>
  BY PrincipalsAssumption DEF Range
<1>5. Len(Others) \in Nat \ {0} /\ DOMAIN Others = 1..Len(Others)
  BY <1>4
<1>6. (heuristic = "principals" /\ turn > 0) => Others[turn] \in Range(Others)
  BY <1>5 DEF IdorInv, Range
<1> QED
  BY <1>1, <1>3, <1>5, <1>6

LEMMA NextParamKeeps ==
  ASSUME IdorInv, NextParam, params' = params, flagged' \in Seq(Flaggable), heuristic # "done"
  PROVE  IdorInv'
BY Due DEF IdorInv, NextParam

LEMMA NextTurnKeeps ==
  ASSUME IdorInv, NEW last, last = (IF heuristic = "neighbours" THEN 2 ELSE Len(Others)), NextTurn(last),
         params' = params, flagged' \in Seq(Flaggable), heuristic # "done"
  PROVE  IdorInv'
<1>1. CASE NextParam
  BY <1>1, NextParamKeeps
<1>2. CASE turn < last /\ turn' = turn + 1 /\ UNCHANGED <<heuristic, at, baseline>>
  BY <1>2, Due DEF IdorInv
<1> QED
  BY <1>1, <1>2 DEF NextTurn

LEMMA IdorInvKept ==
  ASSUME IdorInv, IdorNext
  PROVE  IdorInv'
<1>1. CASE SkipParam
  BY <1>1, NextParamKeeps DEF SkipParam, IdorInv
<1>2. CASE Baseline
  <2>1. params' = params /\ flagged' = flagged /\ heuristic # "done"
    BY <1>2 DEF Baseline
  <2>2. CASE NextParam
    BY <2>1, <2>2, NextParamKeeps DEF IdorInv
  <2>3. CASE turn' = 1 /\ UNCHANGED <<heuristic, at>>
    BY <2>1, <2>3, Due DEF IdorInv
  <2> QED
    BY <1>2, <2>2, <2>3 DEF Baseline
<1>3. CASE AskNeighbour
  <2>1. NextTurn(2) /\ params' = params /\ heuristic = "neighbours"
    BY <1>3 DEF AskNeighbour, delta
  <2>2. flagged' = flagged \/ flagged' = Append(flagged, Neighbour(Param.name))
    BY <1>3 DEF AskNeighbour
  <2>3. Neighbour(Param.name) \in Flaggable
    BY Due DEF Flaggable
  <2>4. flagged' \in Seq(Flaggable)
    BY <2>2, <2>3 DEF IdorInv
  <2> QED
    BY <2>1, <2>4, NextTurnKeeps
<1>4. CASE SkipPrincipal
  BY <1>4, NextTurnKeeps DEF SkipPrincipal, IdorInv
<1>5. CASE AskPrincipal
  <2>1. NextTurn(Len(Others)) /\ params' = params /\ heuristic = "principals" /\ turn > 0 /\ ~Insufficient(Others[turn])
    BY <1>5 DEF AskPrincipal
  <2>2. flagged' = flagged \/ flagged' = Append(flagged, CrossPrincipal(Param.name, Others[turn]))
    BY <1>5 DEF AskPrincipal
  <2>3. CrossPrincipal(Param.name, Others[turn]) \in Flaggable
    <3>1. <<Param.name, Others[turn]>> \in Names \X Accessors
      BY <2>1, Due DEF Accessors
    <3> QED
      BY <3>1 DEF Flaggable
  <2>4. flagged' \in Seq(Flaggable)
    BY <2>2, <2>3 DEF IdorInv
  <2> QED
    BY <2>1, <2>4, NextTurnKeeps
<1> QED
  BY <1>1, <1>2, <1>3, <1>4, <1>5 DEF IdorNext

(* Which list every stage works on.                                        *)
DataInv ==
  /\ IdorInv
  /\ stage # "scan" => IsInput(input)
  /\ (stage \in {"score", "deduplicate"} \/ Deduplicated) => input.wellFormed
  /\ stage = "score" => findings = Parsed
  /\ stage = "deduplicate" => findings = Scored
  /\ Deduplicated => findings \in deduplicate(Scored)
  /\ (Deduplicated /\ stage # "correlate") => correlated = correlate(findings) /\ chains = attackChains(findings)

(* Writing the findings down keeps every one, in whatever order.           *)
LEMMA WrittenKeepsAll ==
  ASSUME NEW S, NEW d \in Seq(S), NEW fs \in Written(d)
  PROVE  fs \in Seq(S) /\ Range(fs) = Range(d)
<1> DEFINE C == {f \in Range(d) : f.idor # Nil}
           O == Range(d) \ C
           e == [i \in 1..Len(d) |-> d[i]]
<1>1. IsFiniteSet(Range(d)) /\ Range(d) \in SUBSET S
  <2>1. Len(d) \in Nat /\ DOMAIN d = 1..Len(d) /\ Range(d) \in SUBSET S
    BY DEF Range
  <2>2. e \in Surjection(1..Len(d), Range(d))
    BY <2>1 DEF Range, Surjection
  <2>3. IsFiniteSet(1..Len(d))
    BY <2>1, FS_Interval
  <2> HIDE DEF e
  <2> QED
    BY <2>1, <2>2, <2>3, FS_Surjection
<1>2. fs \in {p[1] \o p[2] : p \in Orders(C) \X Orders(O)}
  BY DEF Written
<1>3. C \in SUBSET Range(d) /\ O \in SUBSET Range(d) /\ C \cup O = Range(d)
  OBVIOUS
<1> HIDE DEF C, O
<1>4. ASSUME NEW A \in SUBSET Range(d), NEW s \in Orders(A)  PROVE s \in Seq(S) /\ Range(s) = A
  <2>1. PICK n \in Nat : n = Cardinality(A)
    BY <1>1, FS_Subset, FS_CardinalityType
  <2>2. s \in [1..n -> A] /\ Range(s) = A
    BY <2>1 DEF Orders
  <2>3. A \in SUBSET S
    BY <1>1
  <2> QED
    BY <2>2, <2>3
<1>5. PICK c \in Orders(C), o \in Orders(O) : fs = c \o o
  BY <1>2
<1>6. c \in Seq(S) /\ Range(c) = C /\ o \in Seq(S) /\ Range(o) = O
  BY <1>3, <1>4
<1>7. c \o o \in Seq(S) /\ Range(c \o o) = Range(c) \cup Range(o)
  BY <1>6, ConcatRange
<1> QED
  BY <1>3, <1>5, <1>6, <1>7

(* What the scanner writes is a list of findings. *)
LEMMA WrittenIsInput ==
  ASSUME IdorInv, NEW fs \in Written(dedup(flagged))
  PROVE  IsInput([wellFormed |-> TRUE, findings |-> [i \in DOMAIN fs |-> RawFinding(fs[i])]])
<1> DEFINE K == {i \in DOMAIN flagged : \A j \in 1..(i - 1) : fingerprint(flagged[j]) # fingerprint(flagged[i])}
           S == Flaggable
<1>1. dedup(flagged) \in Seq(S)
  <2>1. flagged \in Seq(S) /\ K \in SUBSET (1..Len(flagged))
    BY DEF IdorInv
  <2> HIDE DEF K, S
  <2>2. Sublist(flagged, K) \in Seq(S)
    BY <2>1, SublistPicks
  <2> QED
    BY <2>2 DEF dedup, K
<1> HIDE DEF S
<1>2. PICK d \in Seq(S) : d = dedup(flagged)
  BY <1>1
<1>3. fs \in Written(d)
  BY <1>2
<1>4. fs \in Seq(S)
  BY <1>3, WrittenKeepsAll
<1> DEFINE raws == [i \in DOMAIN fs |-> RawFinding(fs[i])]
<1>5. DOMAIN raws = 1..Len(fs) /\ Len(fs) \in Nat
  BY <1>4
<1>6. \A i \in DOMAIN raws : raws[i].cvss \in Int
  BY DEF RawFinding
<1> HIDE DEF raws
<1>7. raws \in Seq(Range(raws))
  <2>1. \A i \in 1..Len(fs) : raws[i] \in Range(raws)
    BY <1>5 DEF Range
  <2>2. raws = [i \in 1..Len(fs) |-> raws[i]]
    BY <1>5 DEF raws
  <2> QED
    BY <1>5, <2>1, <2>2
<1>8. Hashed({Fingerprint(raws[i]) : i \in DOMAIN raws})
  <2> DEFINE ids == {Fingerprint(RawFinding(f)) : f \in Flaggable}
             some == {Fingerprint(raws[i]) : i \in DOMAIN raws}
  <2>1. some \in SUBSET ids
    <3>1. ASSUME NEW i \in DOMAIN raws  PROVE \E f \in Flaggable : raws[i] = RawFinding(f)
      BY <1>4, <1>5 DEF raws, S
    <3> QED
      BY <3>1
  <2> HIDE DEF ids, some
  <2>2. Hashed(ids)
    BY ChainsAssumption DEF ids
  <2> QED
    BY <2>1, <2>2 DEF Hashed, some
<1> QED
  BY <1>6, <1>7, <1>8 DEF IsInput, raws

LEMMA ScoredIsGood ==
  ASSUME IsInput(input), input.wellFormed
  PROVE  /\ GoodList(Scored) /\ DOMAIN Scored = DOMAIN Parsed /\ Len(Scored) \in Nat /\ DOMAIN Scored = 1..Len(Scored)
         /\ \A i \in DOMAIN Parsed : /\ Scored[i].id = Parsed[i].id /\ Scored[i].verification = Parsed[i].verification
                                     /\ Scored[i].evidence = Parsed[i].evidence /\ Scored[i].status = Parsed[i].status
<1> DEFINE raws == input.findings
<1>1. raws \in Seq(Range(raws)) /\ \A i \in DOMAIN raws : raws[i].cvss \in Int \cup {None}
  BY DEF IsInput
<1>2. PICK n \in Nat : DOMAIN raws = 1..n
  BY <1>1
<1>3. DOMAIN Parsed = 1..n /\ DOMAIN Scored = 1..n
  BY <1>2 DEF Parsed, Scored
<1>4. ASSUME NEW i \in 1..n
      PROVE  /\ Parsed[i] = parseFinding(raws[i])
             /\ Scored[i] = [parseFinding(raws[i]) EXCEPT !.score = riskScore(parseFinding(raws[i]))]
  BY <1>2, <1>3 DEF Parsed, Scored
<1>5. ASSUME NEW i \in 1..n  PROVE GoodFinding(Scored[i])
  BY <1>1, <1>2, <1>4, ParseMakesGood
<1>6. ASSUME NEW i \in 1..n
      PROVE  /\ Scored[i].id = Parsed[i].id /\ Scored[i].verification = Parsed[i].verification
             /\ Scored[i].evidence = Parsed[i].evidence /\ Scored[i].status = Parsed[i].status
  <2> DEFINE p == parseFinding(raws[i])
  <2>1. DOMAIN p = Fields
    BY DEF parseFinding, Fields
  <2>2. Parsed[i] = p /\ Scored[i] = [p EXCEPT !.score = riskScore(p)]
    BY <1>4
  <2> HIDE DEF p
  <2> QED
    BY <2>1, <2>2 DEF Fields
<1>7. Scored \in Seq(Range(Scored)) /\ Len(Scored) = n
  <2>1. PICK s : s = Scored
    OBVIOUS
  <2>2. s = [i \in DOMAIN Parsed |-> s[i]]
    BY <2>1 DEF Scored
  <2>3. s = [i \in 1..n |-> s[i]] /\ \A i \in 1..n : s[i] \in Range(s)
    BY <1>3, <2>1, <2>2 DEF Range
  <2>4. s \in Seq(Range(s)) /\ Len(s) = n
    BY <2>3
  <2> QED
    BY <2>1, <2>4
<1> QED
  BY <1>3, <1>5, <1>6, <1>7 DEF GoodList

LEMMA DataInit == Init => DataInv
<1> SUFFICES ASSUME Init  PROVE DataInv
  OBVIOUS
<1>1. (stage = "parse" /\ IsInput(input)) \/ stage = "scan"
  BY AnalysisAssumption DEF Init
<1>2. IdorInv
  BY IdorInvInit DEF Init
<1> QED
  BY <1>1, <1>2 DEF DataInv, Deduplicated

LEMMA DataKept == DataInv /\ [Next]_vars => DataInv'
<1> SUFFICES ASSUME DataInv, [Next]_vars  PROVE DataInv'
  OBVIOUS
<1>0. UNCHANGED idorVars => IdorInv'
  BY DEF DataInv, IdorInv, idorVars
<1> USE DEF DataInv
<1>1. CASE Compare
  <2>1. stage = "scan" /\ UNCHANGED analysisVars /\ IdorInv'
    BY <1>1, IdorInvKept DEF Compare
  <2> QED
    BY <2>1 DEF analysisVars, Deduplicated
<1>2. CASE HandOver
  <2>1. IsInput(input)' 
    BY <1>2, WrittenIsInput DEF HandOver
  <2> QED
    BY <1>0, <1>2, <2>1 DEF HandOver, Deduplicated
<1>3. CASE AnalyseInput
  <2>1. IdorInv' /\ Analyse
    BY <1>0, <1>3 DEF AnalyseInput
  <2>2. CASE Reject
    BY <2>1, <2>2 DEF Reject, Deduplicated
  <2>3. CASE Parse
    BY <2>1, <2>3 DEF Parse, Deduplicated, Parsed
  <2>4. CASE Score
    BY <2>1, <2>4 DEF Score, Deduplicated, Parsed, Scored
  <2>5. CASE Deduplicate
    BY <2>1, <2>5 DEF Deduplicate, Deduplicated, Parsed, Scored
  <2>6. CASE Correlate
    BY <2>1, <2>6 DEF Correlate, Deduplicated, Parsed, Scored
  <2>7. CASE Summarise \/ Ask \/ Answer \/ Quote \/ Assemble
    BY <2>1, <2>7 DEF Summarise, Ask, Answer, Quote, Assemble, Deduplicated, Parsed, Scored, llmVars
  <2> QED
    BY <2>1, <2>2, <2>3, <2>4, <2>5, <2>6, <2>7 DEF Analyse
<1>4. CASE UNCHANGED vars
  BY <1>0, <1>4 DEF vars, analysisVars, Deduplicated, Parsed, Scored
<1> QED
  BY <1>1, <1>2, <1>3, <1>4 DEF Next

LEMMA DataAlways == Spec => []DataInv
BY DataInit, DataKept, PTL DEF Spec

(* From deduplication on, the findings are the scored ones, deduplicated.  *)
LEMMA FindingsDeduped ==
  ASSUME DataInv, Deduplicated
  PROVE  /\ Deduped(Scored, findings) /\ \A f \in Range(findings) : \E n \in 1..Len(findings) : f = findings[n]
         /\ \A id : Group(id) = Places(Scored, id)
<1>1. IsInput(input) /\ input.wellFormed /\ findings \in deduplicate(Scored)
  BY DEF DataInv, Deduplicated
<1>2. Deduped(Scored, findings)
  BY <1>1, ScoredIsGood, DeduplicateDedups
<1>3. \A id : Group(id) = Places(Scored, id)
  BY <1>1, ScoredIsGood DEF Group, Places
<1> QED
  BY <1>2, <1>3 DEF Deduped, Range

LEMMA DedupedScores ==
  ASSUME NEW fs, GoodList(fs), NEW q, Deduped(fs, q), NEW k \in 1..Len(q)
  PROVE  /\ q[k].score \in Nat
         /\ q[k].score = 0 <=> q[k].verification = "FALSE_POSITIVE"
<1> DEFINE K == Places(fs, q[k].id)
           s == strongest(fs, K)
<1>1. Merged(fs, K, q[k]) /\ Strongest5(fs, K, s) /\ K \in SUBSET DOMAIN fs
  BY DEF Deduped
<1> HIDE DEF K
<1>2. GoodFinding(fs[s])
  BY <1>1 DEF Strongest5, GoodList
<1>3. q[k].score = fs[s].score /\ q[k].verification = fs[s].verification
  BY <1>1 DEF Merged
<1> QED
  BY <1>2, <1>3, ScoreSign

LEMMA DisprovenIsWeakest ==
  ASSUME NEW fs, GoodList(fs), NEW q, Deduped(fs, q), NEW n \in 1..Len(q),
         q[n].verification = "FALSE_POSITIVE"
  PROVE  /\ \A i \in Places(fs, q[n].id) : fs[i].verification = "FALSE_POSITIVE"
         /\ \A m \in n..Len(q) : q[m].verification = "FALSE_POSITIVE"
<1> DEFINE K == Places(fs, q[n].id)
           s == strongest(fs, K)
<1>1. /\ Merged(fs, K, q[n]) /\ Strongest5(fs, K, s) /\ K \in SUBSET DOMAIN fs
      /\ Len(q) \in Nat /\ \A i, j \in 1..Len(q) : i < j => ~ ReportBefore(q[j], q[i])
  BY DEF Deduped
<1>2. q[n].score = 0
  BY DedupedScores
<1> HIDE DEF K
<1>3. fs[s].score = 0 /\ s \in K
  BY <1>1, <1>2 DEF Merged, Strongest5
<1> HIDE DEF s
<1>4. ASSUME NEW i \in K  PROVE fs[i].verification = "FALSE_POSITIVE"
  <2>1. GoodFinding(fs[i]) /\ GoodFinding(fs[s])
    BY <1>1, <1>3 DEF GoodList
  <2>2. /\ KeyOf(fs[i]) \in Keys5 /\ KeyOf(fs[i])[1] = fs[i].score
        /\ KeyOf(fs[s]) \in Keys5 /\ KeyOf(fs[s])[1] = fs[s].score
    BY <2>1, KeyIsKey
  <2>3. Lex(KeyOf(fs[s]), KeyOf(fs[i])) \/ KeyOf(fs[s]) = KeyOf(fs[i])
    BY <1>1 DEF Strongest5, isBetter, Lex
  <2>4. KeyOf(fs[s])[1] >= KeyOf(fs[i])[1]
    <3>1. CASE KeyOf(fs[s]) = KeyOf(fs[i])
      BY <2>2, <3>1 DEF Keys5
    <3>2. CASE Lex(KeyOf(fs[s]), KeyOf(fs[i]))
      BY <2>2, <3>2, LexOrders
    <3> QED
      BY <2>3, <3>1, <3>2
  <2>5. fs[i].score \in Nat /\ (fs[i].score = 0 => fs[i].verification = "FALSE_POSITIVE")
    BY <2>1, ScoreSign
  <2> QED
    BY <1>3, <2>2, <2>4, <2>5
<1>5. ASSUME NEW m \in n..Len(q)  PROVE q[m].verification = "FALSE_POSITIVE"
  <2>1. m \in 1..Len(q) /\ (m = n \/ n < m)
    BY <1>1
  <2>2. q[m].score \in Nat /\ (q[m].score = 0 => q[m].verification = "FALSE_POSITIVE")
    BY <2>1, DedupedScores
  <2>3. CASE n < m
    <3>1. ~ (q[m].score > q[n].score)
      BY <1>1, <2>1, <2>3 DEF ReportBefore
    <3> QED
      BY <1>2, <2>2, <3>1
  <2> QED
    BY <2>1, <2>3
<1> QED
  BY <1>4, <1>5 DEF K

(* A disproven finding neither hides an open one nor comes before one.     *)
THEOREM DisprovenComeLast == Spec => []DisprovenNeverRepresents
<1>1. ASSUME DataInv  PROVE DisprovenNeverRepresents
  <2> SUFFICES ASSUME Deduplicated, NEW n \in DOMAIN findings, findings[n].verification = "FALSE_POSITIVE"
               PROVE  /\ \A i \in Group(findings[n].id) : Parsed[i].verification = "FALSE_POSITIVE"
                      /\ \A m \in n..Len(findings) : findings[m].verification = "FALSE_POSITIVE"
    BY DEF DisprovenNeverRepresents
  <2>1. GoodList(Scored) /\ \A i \in DOMAIN Parsed : Scored[i].verification = Parsed[i].verification
    <3>1. IsInput(input) /\ input.wellFormed
      BY <1>1 DEF DataInv, Deduplicated
    <3> QED
      BY <3>1, ScoredIsGood
  <2>2. Deduped(Scored, findings) /\ Group(findings[n].id) = Places(Scored, findings[n].id)
    BY <1>1, FindingsDeduped
  <2>3. n \in 1..Len(findings)
    BY <2>2 DEF Deduped
  <2>4. /\ \A i \in Places(Scored, findings[n].id) : Scored[i].verification = "FALSE_POSITIVE"
        /\ \A m \in n..Len(findings) : findings[m].verification = "FALSE_POSITIVE"
    BY <2>1, <2>2, <2>3, DisprovenIsWeakest
  <2>5. \A i \in Group(findings[n].id) : i \in DOMAIN Parsed
    BY DEF Group
  <2> QED
    BY <2>1, <2>2, <2>4, <2>5
<1> QED
  BY <1>1, DataAlways, PTL

(* What the endpoints' roll-up lists; spot[a][b] is where its b-th entry   *)
(* for the a-th endpoint is from: every finding is at one place of it.     *)
Rolled(fs, c, spot) ==
  /\ \A a \in DOMAIN c, b \in Nat :
       b \in DOMAIN c[a].ids => /\ spot[a][b] \in DOMAIN fs /\ c[a].ids[b] = fs[spot[a][b]].id
                                /\ c[a].endpoint = fs[spot[a][b]].endpoint
  /\ \A k \in DOMAIN fs : \E a \in DOMAIN c : \E b \in 1..Len(fs) : b \in DOMAIN c[a].ids /\ spot[a][b] = k
  /\ \A a, d \in DOMAIN c, b, e \in Nat :
       (b \in DOMAIN c[a].ids /\ e \in DOMAIN c[d].ids /\ spot[a][b] = spot[d][e]) => a = d /\ b = e

LEMMA CorrelateRolls ==
  ASSUME NEW fs, Len(fs) \in Nat, DOMAIN fs = 1..Len(fs), \A i \in DOMAIN fs : fs[i].score \in Nat
  PROVE  \E spot : Rolled(fs, correlate(fs), spot)
<1> DEFINE group(i) == {j \in DOMAIN fs : fs[j].endpoint = fs[i].endpoint}
           risk(i)  == Max({fs[j].score : j \in group(i)})
           worst(i) == CHOOSE s \in {fs[j].severity : j \in group(i)} :
                         \A j \in group(i) : SeverityOrder[fs[j].severity] <= SeverityOrder[s]
           firsts   == {i \in DOMAIN fs : \A j \in 1..(i - 1) : fs[j].endpoint # fs[i].endpoint}
           riskier  == {p \in firsts \X firsts :
                          risk(p[1]) > risk(p[2]) \/ (risk(p[1]) = risk(p[2]) /\ p[1] < p[2])}
           ordered  == Listing(firsts, riskier)
           members(i) == Listing(group(i), Before(group(i)))
           entry(i) == [endpoint |-> fs[i].endpoint, ids |-> [k \in DOMAIN members(i) |-> fs[members(i)[k]].id],
                        severity |-> worst(i), risk |-> risk(i)]
           c == [n \in DOMAIN ordered |-> entry(ordered[n])]
           spot == [n \in DOMAIN ordered |-> members(ordered[n])]
<1>1. correlate(fs) = c
  BY DEF correlate
<1>2. IsFiniteSet(DOMAIN fs) /\ Cardinality(DOMAIN fs) = Len(fs)
  <2>1. PICK n \in Nat : n = Len(fs)
    OBVIOUS
  <2>2. IsFiniteSet(1..n) /\ Cardinality(1..n) = n
    BY FS_Interval
  <2> QED
    BY <2>1, <2>2
<1>3. ASSUME NEW i \in DOMAIN fs
      PROVE  /\ i \in group(i) /\ group(i) \in SUBSET DOMAIN fs /\ IsFiniteSet(group(i)) /\ Cardinality(group(i)) <= Len(fs)
             /\ risk(i) \in Nat
  <2>1. i \in group(i) /\ group(i) \in SUBSET DOMAIN fs
    OBVIOUS
  <2>2. \A j \in group(i) : fs[j].score \in Nat
    OBVIOUS
  <2> DEFINE g == group(i)
             S == {fs[j].score : j \in g}
             f == [j \in g |-> fs[j].score]
  <2>a. g = group(i)
    OBVIOUS
  <2> HIDE DEF g
  <2>3. IsFiniteSet(g) /\ Cardinality(g) <= Len(fs)
    BY <1>2, <2>1, <2>a, FS_Subset
  <2>4. S \in SUBSET Nat /\ S # {}
    BY <2>1, <2>2, <2>a
  <2>5. f \in Surjection(g, S)
    BY DEF Surjection
  <2> HIDE DEF f, S
  <2>6. Max(S) \in Nat
    BY <2>3, <2>4, <2>5, FS_Surjection, MaxChosen
  <2> QED
    BY <2>1, <2>3, <2>6, <2>a DEF S
<1>4. firsts \in SUBSET DOMAIN fs /\ IsFiniteSet(firsts)
  BY <1>2, FS_Subset
<1>5. \A i \in firsts : i \in Nat /\ risk(i) \in Nat
  <2> SUFFICES ASSUME NEW i \in firsts  PROVE i \in Nat /\ risk(i) \in Nat
    OBVIOUS
  <2>1. i \in DOMAIN fs
    BY <1>4
  <2> HIDE DEF risk, firsts, group
  <2>2. risk(i) \in Nat
    BY <1>3, <2>1
  <2> QED
    BY <2>1, <2>2
<1> HIDE DEF risk, firsts
<1>6. StrictOrder(firsts, riskier)
  <2>1. \A x \in firsts : <<x, x>> \notin riskier
    BY <1>5
  <2>2. \A x, y \in firsts : x = y \/ <<x, y>> \in riskier \/ <<y, x>> \in riskier
    BY <1>5
  <2>3. \A x, y, z \in firsts : <<x, y>> \in riskier /\ <<y, z>> \in riskier => <<x, z>> \in riskier
    BY <1>5
  <2> QED
    BY <2>1, <2>2, <2>3 DEF StrictOrder
<1>7. Lists(ordered, firsts, riskier)
  BY <1>4, <1>6, ListingLists
<1> HIDE DEF ordered, riskier
<1>8. PICK n \in Nat :
        /\ ordered \in [1..n -> firsts] /\ DOMAIN ordered = 1..n /\ (\A x \in firsts : \E k \in 1..n : ordered[k] = x)
        /\ \A i, j \in 1..n : ordered[i] = ordered[j] => i = j
  <2>1. PICK n \in Nat :
          /\ ordered \in [1..n -> firsts] /\ (\A x \in firsts : \E k \in 1..n : ordered[k] = x)
          /\ \A i, j \in 1..n : i < j <=> <<ordered[i], ordered[j]>> \in riskier
    BY <1>7 DEF Lists
  <2>2. ASSUME NEW i \in 1..n, NEW j \in 1..n, ordered[i] = ordered[j], i # j  PROVE FALSE
    <3>1. \A x \in firsts : <<x, x>> \notin riskier
      BY <1>6 DEF StrictOrder
    <3>2. i < j \/ j < i
      BY <2>1, <2>2
    <3> QED
      BY <2>1, <2>2, <3>1, <3>2
  <2> QED
    BY <2>1, <2>2
<1>9. ASSUME NEW i \in firsts
      PROVE  \E m \in Nat :
               /\ m <= Len(fs) /\ members(i) \in [1..m -> group(i)] /\ DOMAIN members(i) = 1..m
               /\ \A x \in group(i) : \E k \in 1..m : members(i)[k] = x
               /\ \A k, j \in 1..m : members(i)[k] = members(i)[j] => k = j
  <2> DEFINE g == group(i)
             l == members(i)
  <2>1. g \in SUBSET Nat /\ IsFiniteSet(g) /\ Cardinality(g) <= Len(fs)
    <3>1. i \in DOMAIN fs
      BY <1>4
    <3>2. g \in SUBSET DOMAIN fs /\ IsFiniteSet(g) /\ Cardinality(g) <= Len(fs)
      BY <1>3, <3>1
    <3> HIDE DEF g
    <3> QED
      BY <3>2
  <2>2. l = Listing(g, Before(g))
    OBVIOUS
  <2> HIDE DEF g, l
  <2>3. Lists(l, g, Before(g))
    BY <2>1, <2>2, BeforeOrders, ListingLists
  <2>4. PICK m \in Nat : /\ m = Cardinality(g) /\ l \in [1..m -> g] /\ (\A x \in g : \E k \in 1..m : l[k] = x)
                         /\ \A k, j \in 1..m : k < j <=> <<l[k], l[j]>> \in Before(g)
    BY <2>3 DEF Lists
  <2>5. \A k, j \in 1..m : l[k] = l[j] => k = j
    <3> SUFFICES ASSUME NEW k \in 1..m, NEW j \in 1..m, l[k] = l[j], k # j  PROVE FALSE
      OBVIOUS
    <3>1. k < j \/ j < k
      OBVIOUS
    <3>2. l[k] \in Nat /\ l[j] \in Nat
      BY <2>1, <2>4
    <3>3. <<l[k], l[j]>> \in Before(g) \/ <<l[j], l[k]>> \in Before(g)
      BY <2>4, <3>1
    <3>4. l[k] < l[j] \/ l[j] < l[k]
      BY <3>3 DEF Before
    <3> QED
      BY <3>2, <3>4
  <2> QED
    BY <2>1, <2>4, <2>5 DEF g, l
<1> HIDE DEF members
<1>10. ASSUME NEW a \in 1..n
       PROVE  /\ ordered[a] \in firsts /\ ordered[a] \in DOMAIN fs
              /\ DOMAIN c[a].ids = DOMAIN members(ordered[a]) /\ spot[a] = members(ordered[a])
              /\ c[a].endpoint = fs[ordered[a]].endpoint
              /\ \A b \in DOMAIN members(ordered[a]) : c[a].ids[b] = fs[members(ordered[a])[b]].id
  BY <1>4, <1>8
<1>11. DOMAIN c = 1..n
  BY <1>8
<1> HIDE DEF c, spot
<1>12. ASSUME NEW a \in 1..n, NEW b \in DOMAIN c[a].ids
       PROVE  /\ spot[a][b] \in DOMAIN fs /\ c[a].ids[b] = fs[spot[a][b]].id /\ c[a].endpoint = fs[spot[a][b]].endpoint
              /\ fs[spot[a][b]].endpoint = fs[ordered[a]].endpoint
  <2>1. spot[a][b] \in group(ordered[a])
    <3>1. /\ ordered[a] \in firsts /\ DOMAIN c[a].ids = DOMAIN members(ordered[a]) /\ spot[a] = members(ordered[a])
      BY <1>10
    <3> HIDE DEF group
    <3>2. PICK m \in Nat : members(ordered[a]) \in [1..m -> group(ordered[a])] /\ DOMAIN members(ordered[a]) = 1..m
      BY <1>9, <3>1
    <3> QED
      BY <3>1, <3>2
  <2>2. b \in DOMAIN members(ordered[a])
    BY <1>10
  <2>3. spot[a][b] \in DOMAIN fs /\ fs[spot[a][b]].endpoint = fs[ordered[a]].endpoint
    BY <2>1
  <2> HIDE DEF group
  <2> QED
    BY <1>10, <2>2, <2>3
<1>13. ASSUME NEW k \in DOMAIN fs
       PROVE  \E a \in 1..n : \E b \in 1..Len(fs) : b \in DOMAIN c[a].ids /\ spot[a][b] = k
  <2>1. PICK i \in group(k) : \A j \in group(k) : i <= j
    <3>1. group(k) \in SUBSET Nat /\ group(k) # {}
      BY <1>3
    <3> HIDE DEF group
    <3> QED
      BY <3>1, Least
  <2>2. i \in firsts
    <3>1. \A j \in 1..(i - 1) : j \in DOMAIN fs /\ ~ (i <= j)
      OBVIOUS
    <3> QED
      BY <2>1, <3>1 DEF firsts
  <2>3. PICK a \in 1..n : ordered[a] = i
    BY <1>8, <2>2
  <2>4. k \in group(i)
    OBVIOUS
  <2> HIDE DEF group
  <2>5. PICK m \in Nat : m <= Len(fs) /\ DOMAIN members(i) = 1..m /\ \E b \in 1..m : members(i)[b] = k
    BY <1>9, <2>2, <2>4
  <2>6. PICK b \in 1..m : members(i)[b] = k
    BY <2>5
  <2>7. DOMAIN c[a].ids = 1..m /\ spot[a][b] = k
    BY <1>10, <2>3, <2>5, <2>6
  <2>8. b \in 1..Len(fs) /\ b \in DOMAIN c[a].ids
    BY <2>5, <2>6, <2>7
  <2> QED
    BY <2>7, <2>8
<1>14. ASSUME NEW a \in 1..n, NEW d \in 1..n, NEW b \in DOMAIN c[a].ids, NEW e \in DOMAIN c[d].ids, spot[a][b] = spot[d][e]
       PROVE  a = d /\ b = e
  <2>1. fs[ordered[a]].endpoint = fs[ordered[d]].endpoint
    <3>1. fs[spot[a][b]].endpoint = fs[ordered[a]].endpoint
      BY <1>12
    <3>2. fs[spot[d][e]].endpoint = fs[ordered[d]].endpoint
      BY <1>12
    <3> QED
      BY <1>14, <3>1, <3>2
  <2>2. ordered[a] = ordered[d]
    <3>1. ordered[a] \in firsts /\ ordered[d] \in firsts
      BY <1>10
    <3> HIDE DEF group
    <3> QED
      BY <2>1, <3>1 DEF firsts
  <2>3. a = d
    BY <1>8, <2>2
  <2> HIDE DEF group
  <2>4. b \in DOMAIN members(ordered[a]) /\ e \in DOMAIN members(ordered[a]) /\ members(ordered[a])[b] = members(ordered[a])[e]
    BY <1>10, <1>14, <2>3
  <2> QED
    BY <1>9, <1>10, <2>3, <2>4
<1>15. Rolled(fs, c, spot)
  <2>1. \A a \in DOMAIN c, b \in Nat :
          b \in DOMAIN c[a].ids => /\ spot[a][b] \in DOMAIN fs /\ c[a].ids[b] = fs[spot[a][b]].id
                                   /\ c[a].endpoint = fs[spot[a][b]].endpoint
    BY <1>11, <1>12
  <2>2. \A k \in DOMAIN fs : \E a \in DOMAIN c : \E b \in 1..Len(fs) : b \in DOMAIN c[a].ids /\ spot[a][b] = k
    BY <1>11, <1>13
  <2>3. \A a, d \in DOMAIN c, b, e \in Nat :
          (b \in DOMAIN c[a].ids /\ e \in DOMAIN c[d].ids /\ spot[a][b] = spot[d][e]) => a = d /\ b = e
    BY <1>11, <1>14
  <2> HIDE DEF group, worst, entry
  <2> QED
    BY <2>1, <2>2, <2>3 DEF Rolled
<1> QED
  BY <1>1, <1>15

(* The places L of a roll-up c list every finding once, with its endpoint. *)
PlacesOf(fs, c) == {p \in (DOMAIN c) \X (1..Len(fs)) : p[2] \in DOMAIN c[p[1]].ids}

ListedOnce(fs, c, L) ==
  /\ \A p \in L : \E f \in Range(fs) : f.id = c[p[1]].ids[p[2]] /\ f.endpoint = c[p[1]].endpoint
  /\ \A f \in Range(fs) : Cardinality({p \in L : c[p[1]].ids[p[2]] = f.id}) = 1

LEMMA RolledOnce ==
  ASSUME NEW fs, Len(fs) \in Nat, DOMAIN fs = 1..Len(fs), \A i \in DOMAIN fs : fs[i].score \in Nat,
         \A i, j \in DOMAIN fs : fs[i].id = fs[j].id => i = j
  PROVE  ListedOnce(fs, correlate(fs), PlacesOf(fs, correlate(fs)))
<1>0. PICK c, L : c = correlate(fs) /\ L = PlacesOf(fs, c)
  OBVIOUS
<1>1. PICK spot : Rolled(fs, c, spot)
  BY <1>0, CorrelateRolls
<1>a. /\ \A a \in DOMAIN c, b \in Nat :
           b \in DOMAIN c[a].ids => /\ spot[a][b] \in DOMAIN fs /\ c[a].ids[b] = fs[spot[a][b]].id
                                    /\ c[a].endpoint = fs[spot[a][b]].endpoint
      /\ \A a, d \in DOMAIN c, b, e \in Nat :
           (b \in DOMAIN c[a].ids /\ e \in DOMAIN c[d].ids /\ spot[a][b] = spot[d][e]) => a = d /\ b = e
  BY <1>1 DEF Rolled
<1>2. \A p \in L : p[1] \in DOMAIN c /\ p[2] \in Nat /\ p[2] \in DOMAIN c[p[1]].ids /\ p = <<p[1], p[2]>>
  BY <1>0 DEF PlacesOf
<1>3. ASSUME NEW p \in L
      PROVE  /\ spot[p[1]][p[2]] \in DOMAIN fs /\ c[p[1]].ids[p[2]] = fs[spot[p[1]][p[2]]].id
             /\ c[p[1]].endpoint = fs[spot[p[1]][p[2]]].endpoint
  <2>1. PICK a \in DOMAIN c, b \in Nat : a = p[1] /\ b = p[2] /\ b \in DOMAIN c[a].ids
    BY <1>2
  <2>2. /\ spot[a][b] \in DOMAIN fs /\ c[a].ids[b] = fs[spot[a][b]].id /\ c[a].endpoint = fs[spot[a][b]].endpoint
    BY <1>a, <2>1
  <2> QED
    BY <2>1, <2>2
<1>4. ASSUME NEW p \in L
      PROVE  \E f \in Range(fs) : f.id = c[p[1]].ids[p[2]] /\ f.endpoint = c[p[1]].endpoint
  <2>1. fs[spot[p[1]][p[2]]] \in Range(fs)
    BY <1>3 DEF Range
  <2> QED
    BY <1>3, <2>1
<1>5. ASSUME NEW f \in Range(fs)
      PROVE  Cardinality({p \in L : c[p[1]].ids[p[2]] = f.id}) = 1
  <2>1. PICK k \in DOMAIN fs : f = fs[k]
    BY DEF Range
  <2>2. PICK a \in DOMAIN c, b \in 1..Len(fs) : b \in DOMAIN c[a].ids /\ spot[a][b] = k
    BY <1>1 DEF Rolled
  <2>3. <<a, b>> \in L /\ <<a, b>>[1] = a /\ <<a, b>>[2] = b
    BY <1>0, <2>2 DEF PlacesOf
  <2>4. c[a].ids[b] = f.id
    BY <1>3, <2>1, <2>2, <2>3
  <2>5. ASSUME NEW p \in L, c[p[1]].ids[p[2]] = f.id  PROVE p = <<a, b>>
    <3>1. spot[p[1]][p[2]] \in DOMAIN fs /\ fs[spot[p[1]][p[2]]].id = f.id
      BY <1>3, <2>5
    <3>2. spot[p[1]][p[2]] = spot[a][b]
      BY <2>1, <2>2, <3>1
    <3>3. p[1] = a /\ p[2] = b
      <4>1. PICK d \in DOMAIN c, e \in Nat : d = p[1] /\ e = p[2] /\ e \in DOMAIN c[d].ids
        BY <1>2
      <4>2. d = a /\ e = b
        BY <1>a, <2>2, <3>2, <4>1
      <4> QED
        BY <4>1, <4>2
    <3> QED
      BY <1>2, <3>3
  <2>6. {p \in L : c[p[1]].ids[p[2]] = f.id} = {<<a, b>>}
    BY <2>3, <2>4, <2>5
  <2> QED
    BY <2>6, FS_Singleton
<1> QED
  BY <1>0, <1>4, <1>5 DEF ListedOnce

(* Of what was parsed nothing is lost: see NothingLost.                    *)
THEOREM AnalysisLosesNothing == Spec => []NothingLost
<1>1. ASSUME DataInv, Deduplicated
      PROVE  /\ {Parsed[i].id : i \in DOMAIN Parsed} = {f.id : f \in Range(findings)}
             /\ \A f \in Range(findings) :
                  /\ f.occurrences = Cardinality(Group(f.id))
                  /\ f.evidence = None <=> \A i \in Group(f.id) : Parsed[i].evidence = None
                  /\ f.status = "OPEN" <=> \A i \in Group(f.id) : Parsed[i].status = "OPEN"
  <2> DEFINE fs == Scored
  <2>1. /\ Deduped(fs, findings) /\ \A f \in Range(findings) : \E n \in 1..Len(findings) : f = findings[n]
        /\ \A id : Group(id) = Places(fs, id)
    BY <1>1, FindingsDeduped
  <2>2. /\ GoodList(fs) /\ DOMAIN fs = DOMAIN Parsed
        /\ \A i \in DOMAIN Parsed : /\ fs[i].id = Parsed[i].id /\ fs[i].evidence = Parsed[i].evidence
                                    /\ fs[i].status = Parsed[i].status
    <3>1. IsInput(input) /\ input.wellFormed
      BY <1>1 DEF DataInv, Deduplicated
    <3> QED
      BY <3>1, ScoredIsGood
  <2> HIDE DEF fs
  <2>3. ASSUME NEW n \in 1..Len(findings)
        PROVE  /\ findings[n] \in Range(findings)
               /\ \E i \in DOMAIN fs : fs[i].id = findings[n].id
               /\ findings[n].occurrences = Cardinality(Places(fs, findings[n].id))
               /\ findings[n].evidence = None <=> \A i \in Places(fs, findings[n].id) : fs[i].evidence = None
               /\ findings[n].status = "OPEN" <=> \A i \in Places(fs, findings[n].id) : fs[i].status = "OPEN"
    <3>1. DOMAIN findings = 1..Len(findings)
      BY <2>1 DEF Deduped
    <3>2. Merged(fs, Places(fs, findings[n].id), findings[n]) /\ Places(fs, findings[n].id) # {}
      BY <2>1 DEF Deduped
    <3>3. \E i \in DOMAIN fs : fs[i].id = findings[n].id
      BY <3>2 DEF Places
    <3> QED
      BY <3>1, <3>2, <3>3 DEF Merged, Range
  <2>4. \A i \in DOMAIN Parsed : \E f \in Range(findings) : Parsed[i].id = f.id
    <3>1. \A i \in DOMAIN fs : \E n \in 1..Len(findings) : findings[n].id = fs[i].id
      BY <2>1 DEF Deduped
    <3> QED
      BY <2>2, <2>3, <3>1
  <2>5. \A f \in Range(findings) : \E i \in DOMAIN Parsed : Parsed[i].id = f.id
    BY <2>1, <2>2, <2>3
  <2>6. ASSUME NEW f \in Range(findings)
        PROVE  /\ f.occurrences = Cardinality(Group(f.id))
               /\ f.evidence = None <=> \A i \in Group(f.id) : Parsed[i].evidence = None
               /\ f.status = "OPEN" <=> \A i \in Group(f.id) : Parsed[i].status = "OPEN"
    <3>1. PICK n \in 1..Len(findings) : f = findings[n]
      BY <2>1
    <3>2. Group(f.id) = Places(fs, f.id) /\ \A i \in Places(fs, f.id) : i \in DOMAIN Parsed
      BY <2>1, <2>2 DEF Places
    <3> QED
      BY <2>2, <2>3, <3>1, <3>2
  <2> QED
    BY <2>4, <2>5, <2>6
<1>2. ASSUME DataInv, Deduplicated, stage # "correlate"
      PROVE  /\ \A p \in Listed : \E f \in Range(findings) :
                  f.id = correlated[p[1]].ids[p[2]] /\ f.endpoint = correlated[p[1]].endpoint
             /\ \A f \in Range(findings) : Cardinality({p \in Listed : correlated[p[1]].ids[p[2]] = f.id}) = 1
  <2>1. GoodList(Scored) /\ correlated = correlate(findings)
    <3>1. IsInput(input) /\ input.wellFormed
      BY <1>2 DEF DataInv, Deduplicated
    <3> QED
      BY <1>2, <3>1, ScoredIsGood DEF DataInv
  <2>2. Deduped(Scored, findings)
    BY <1>2, FindingsDeduped
  <2>3. /\ Len(findings) \in Nat /\ DOMAIN findings = 1..Len(findings)
        /\ \A i, j \in DOMAIN findings : findings[i].id = findings[j].id => i = j
    BY <2>2 DEF Deduped
  <2>4. \A i \in DOMAIN findings : findings[i].score \in Nat
    BY <2>1, <2>2, <2>3, DedupedScores
  <2>5. ListedOnce(findings, correlate(findings), PlacesOf(findings, correlate(findings)))
    BY <2>3, <2>4, RolledOnce
  <2>6. Listed = PlacesOf(findings, correlated)
    BY DEF Listed, PlacesOf
  <2>7. ListedOnce(findings, correlated, Listed)
    BY <2>1, <2>5, <2>6
  <2> QED
    BY <2>7 DEF ListedOnce
<1>3. DataInv => NothingLost
  BY <1>1, <1>2 DEF NothingLost
<1> QED
  BY <1>3, DataAlways, PTL

(* fs and gs have the same findings, in another order p. *)
Shuffled(fs, gs, p) ==
  /\ DOMAIN gs = DOMAIN fs
  /\ p \in Bijection(DOMAIN fs, DOMAIN fs)
  /\ \A i \in DOMAIN fs : gs[i] = fs[p[i]]

LEMMA ExchangeShuffles ==
  ASSUME NEW fs, GoodList(fs), NEW a \in DOMAIN fs, NEW b \in DOMAIN fs, a < b,
         NEW gs, gs = [fs EXCEPT ![a] = fs[b], ![b] = fs[a]]
  PROVE  GoodList(gs) /\ \E p : Shuffled(fs, gs, p)
<1> DEFINE p == [i \in DOMAIN fs |-> IF i = a THEN b ELSE IF i = b THEN a ELSE i]
<1>1. PICK n \in Nat : DOMAIN fs = 1..n /\ fs \in Seq(Range(fs)) /\ Len(fs) = n
  BY DEF GoodList
<1>2. DOMAIN gs = 1..n /\ \A i \in 1..n : gs[i] = fs[p[i]]
  BY <1>1
<1>3. p \in Bijection(1..n, 1..n)
  BY <1>1 DEF Bijection, Injection, Surjection, IsInjective
<1>4. \A i \in 1..n : p[i] \in 1..n
  BY <1>1
<1> HIDE DEF p
<1>5. \A i \in DOMAIN gs : GoodFinding(gs[i])
  BY <1>1, <1>2, <1>4 DEF GoodList
<1>6. gs \in Seq(Range(gs))
  <2>1. PICK q : q = gs
    OBVIOUS
  <2>2. gs = [i \in DOMAIN fs |-> gs[i]]
    BY <1>1
  <2>3. q = [i \in 1..n |-> q[i]] /\ \A i \in 1..n : q[i] \in Range(q)
    BY <1>1, <1>2, <2>1, <2>2 DEF Range
  <2>4. q \in Seq(Range(q))
    BY <2>3
  <2> QED
    BY <2>1, <2>4
<1> QED
  BY <1>1, <1>2, <1>3, <1>5, <1>6 DEF GoodList, Shuffled

(* The duplicates of one fingerprint are as many and as strong.            *)
LEMMA GroupsAgree ==
  ASSUME NEW fs, GoodList(fs), NEW gs, GoodList(gs), NEW p, Shuffled(fs, gs, p), NEW id,
         NEW s, Strongest5(fs, Places(fs, id), s), NEW t, Strongest5(gs, Places(gs, id), t)
  PROVE  Cardinality(Places(gs, id)) = Cardinality(Places(fs, id)) /\ KeyOf(gs[t]) = KeyOf(fs[s])
<1> DEFINE D == DOMAIN fs
           K == Places(fs, id)
           L == Places(gs, id)
           h == [i \in L |-> p[i]]
<1>1. PICK n \in Nat : D = 1..n
  BY DEF GoodList
<1>2. /\ D = DOMAIN gs /\ p \in [D -> D] /\ (\A i, j \in D : p[i] = p[j] => i = j) /\ (\A j \in D : \E i \in D : p[i] = j)
      /\ \A i \in D : gs[i] = fs[p[i]]
  BY DEF Shuffled, Bijection, Injection, Surjection, IsInjective
<1> HIDE DEF D
<1>3. L \in SUBSET D /\ K \in SUBSET D /\ \A i \in D : i \in L <=> p[i] \in K
  BY <1>2 DEF Places, D
<1>4. \A j \in K : \E i \in L : p[i] = j
  <2> SUFFICES ASSUME NEW j \in K  PROVE \E i \in L : p[i] = j
    OBVIOUS
  <2>1. PICK i \in D : p[i] = j
    BY <1>2, <1>3
  <2> HIDE DEF K, L
  <2> QED
    BY <1>3, <2>1
<1>5. Cardinality(L) = Cardinality(K)
  <2>1. h \in Bijection(L, K)
    <3> HIDE DEF K, L
    <3> QED
      BY <1>2, <1>3, <1>4 DEF Bijection, Injection, Surjection, IsInjective
  <2>2. IsFiniteSet(L)
    <3>1. IsFiniteSet(D)
      BY <1>1, FS_Interval
    <3> HIDE DEF L
    <3> QED
      BY <1>3, <3>1, FS_Subset
  <2> HIDE DEF h, K, L
  <2> QED
    BY <2>1, <2>2, FS_Bijection DEF ExistsBijection
<1>6. s \in K /\ (\A j \in K : isBetter(fs[s], fs[j]) \/ KeyOf(fs[s]) = KeyOf(fs[j]))
  BY DEF Strongest5
<1>7. t \in L /\ (\A j \in L : isBetter(gs[t], gs[j]) \/ KeyOf(gs[t]) = KeyOf(gs[j]))
  BY DEF Strongest5
<1> HIDE DEF K, L
<1>8. p[t] \in K /\ gs[t] = fs[p[t]]
  BY <1>2, <1>3, <1>7
<1>9. PICK i \in L : p[i] = s
  BY <1>4, <1>6
<1>10. gs[i] = fs[s]
  BY <1>2, <1>3, <1>9
<1>11. isBetter(fs[s], gs[t]) \/ KeyOf(fs[s]) = KeyOf(gs[t])
  BY <1>6, <1>8
<1>12. isBetter(gs[t], fs[s]) \/ KeyOf(gs[t]) = KeyOf(fs[s])
  BY <1>7, <1>10
<1>13. KeyOf(fs[s]) \in Keys5 /\ KeyOf(gs[t]) \in Keys5
  <2>1. s \in DOMAIN fs /\ t \in DOMAIN gs
    BY <1>2, <1>3, <1>6, <1>7 DEF D
  <2> QED
    BY <2>1, KeyIsKey DEF GoodList
<1>14. ~ (isBetter(fs[s], gs[t]) /\ isBetter(gs[t], fs[s]))
  BY <1>13, LexOrders DEF isBetter, Lex
<1> QED
  BY <1>5, <1>11, <1>12, <1>14 DEF K, L

(* What the order of the report goes by is part of the rank. *)
Above(r, s) ==
  \/ r[7] > s[7]
  \/ r[7] = s[7] /\ SeverityOrder[r[2]] > SeverityOrder[s[2]]
  \/ r[7] = s[7] /\ r[2] = s[2] /\ HashBefore(r[1], s[1])

LEMMA SeverityIsOrdered ==
  /\ \A s \in DOMAIN SeverityOrder : SeverityOrder[s] \in Nat
  /\ \A s, t \in DOMAIN SeverityOrder : SeverityOrder[s] = SeverityOrder[t] => s = t
BY DEF SeverityOrder

LEMMA ConfidenceIsOrdered ==
  \A s, t \in DOMAIN ConfidenceOrder : ConfidenceOrder[s] = ConfidenceOrder[t] => s = t
BY DEF ConfidenceOrder

(* What a merged finding looks like. *)
Shown(fs, m) ==
  LET K == Places(fs, m.id)
      s == strongest(fs, K)
  IN  /\ K \in SUBSET DOMAIN fs /\ Strongest5(fs, K, s) /\ GoodFinding(fs[s]) /\ Merged(fs, K, m)

LEMMA DedupedShown ==
  ASSUME NEW fs, GoodList(fs), NEW q, Deduped(fs, q), NEW k \in 1..Len(q)
  PROVE  /\ Shown(fs, q[k]) /\ q[k].score \in Nat /\ q[k].severity \in DOMAIN SeverityOrder
         /\ q[k].verification \in DOMAIN VerificationOrder /\ q[k].idor = q[k].id[3]
<1>1. PICK m, K : m = q[k] /\ K = Places(fs, m.id)
  OBVIOUS
<1>2. K \in SUBSET DOMAIN fs /\ Merged(fs, K, m) /\ Strongest5(fs, K, strongest(fs, K))
  BY <1>1 DEF Deduped
<1>3. GoodFinding(fs[strongest(fs, K)])
  BY <1>2 DEF Strongest5, GoodList
<1>4. m.severity \in DOMAIN SeverityOrder /\ m.verification \in DOMAIN VerificationOrder /\ m.idor = m.id[3]
  BY <1>2, <1>3 DEF Merged, GoodFinding
<1>5. m.score \in Nat
  BY <1>1, DedupedScores
<1> QED
  BY <1>1, <1>2, <1>3, <1>4, <1>5 DEF Shown

LEMMA RanksAgree ==
  ASSUME NEW fs, GoodList(fs), NEW gs, GoodList(gs), NEW p, Shuffled(fs, gs, p),
         NEW m, Shown(fs, m), NEW w, Shown(gs, w), m.id = w.id
  PROVE  Rank(m) = Rank(w)
<1>1. PICK K, L, s, t : K = Places(fs, m.id) /\ L = Places(gs, m.id) /\ s = strongest(fs, K) /\ t = strongest(gs, L)
  OBVIOUS
<1>2. Strongest5(fs, K, s) /\ GoodFinding(fs[s]) /\ Merged(fs, K, m)
  BY <1>1 DEF Shown
<1>3. Strongest5(gs, L, t) /\ GoodFinding(gs[t]) /\ Merged(gs, L, w)
  BY <1>1 DEF Shown
<1>4. Cardinality(L) = Cardinality(K) /\ KeyOf(gs[t]) = KeyOf(fs[s])
  BY <1>1, <1>2, <1>3, GroupsAgree
<1>5. /\ gs[t].score = fs[s].score /\ SeverityOrder[gs[t].severity] = SeverityOrder[fs[s].severity]
      /\ VerificationOrder[gs[t].verification] = VerificationOrder[fs[s].verification]
      /\ ConfidenceOrder[gs[t].confidence] = ConfidenceOrder[fs[s].confidence] /\ gs[t].cvss = fs[s].cvss
  BY <1>4 DEF KeyOf
<1>6. gs[t].severity = fs[s].severity /\ gs[t].confidence = fs[s].confidence
  BY <1>2, <1>3, <1>5, SeverityIsOrdered, ConfidenceIsOrdered DEF GoodFinding
<1>7. /\ m.severity = fs[s].severity /\ m.cvss = fs[s].cvss /\ m.confidence = fs[s].confidence
      /\ m.verification = fs[s].verification /\ m.occurrences = Cardinality(K) /\ m.score = fs[s].score
  BY <1>1, <1>2 DEF Merged
<1>8. /\ w.severity = gs[t].severity /\ w.cvss = gs[t].cvss /\ w.confidence = gs[t].confidence
      /\ w.verification = gs[t].verification /\ w.occurrences = Cardinality(L) /\ w.score = gs[t].score
  BY <1>1, <1>3 DEF Merged
<1> QED
  BY <1>4, <1>5, <1>6, <1>7, <1>8 DEF Rank

LEMMA DedupedIds ==
  ASSUME NEW fs, NEW q, Deduped(fs, q), NEW k \in 1..Len(q)
  PROVE  \E i \in DOMAIN fs : fs[i].id = q[k].id
<1>1. PICK i : i \in Places(fs, q[k].id)
  BY DEF Deduped
<1> QED
  BY <1>1 DEF Places

(* Every fingerprint in the one list is in the other. *)
LEMMA SameFingerprints ==
  ASSUME NEW fs, GoodList(fs), NEW gs, GoodList(gs), NEW p, Shuffled(fs, gs, p),
         NEW q, Deduped(fs, q), NEW r, Deduped(gs, r)
  PROVE  /\ AllIn(Ranks(q), Len(q), Ranks(r), Len(r))
         /\ AllIn(Ranks(r), Len(r), Ranks(q), Len(q))
<1>1. /\ DOMAIN gs = DOMAIN fs /\ p \in [DOMAIN fs -> DOMAIN fs] /\ (\A j \in DOMAIN fs : \E i \in DOMAIN fs : p[i] = j)
      /\ \A i \in DOMAIN fs : gs[i] = fs[p[i]]
  BY DEF Shuffled, Bijection, Surjection, Injection
<1>2. \A k \in 1..Len(q) : \E i \in DOMAIN fs : fs[i].id = q[k].id
  BY DedupedIds
<1>3. \A k \in 1..Len(r) : \E i \in DOMAIN gs : gs[i].id = r[k].id
  BY DedupedIds
<1>4. (\A i \in DOMAIN fs : \E n \in 1..Len(q) : q[n].id = fs[i].id) /\ DOMAIN q = 1..Len(q)
  BY DEF Deduped
<1>5. (\A i \in DOMAIN gs : \E n \in 1..Len(r) : r[n].id = gs[i].id) /\ DOMAIN r = 1..Len(r)
  BY DEF Deduped
<1>6. \A k \in 1..Len(q), n \in 1..Len(r) : q[k].id = r[n].id => Rank(q[k]) = Rank(r[n])
  <2> SUFFICES ASSUME NEW k \in 1..Len(q), NEW n \in 1..Len(r), q[k].id = r[n].id  PROVE Rank(q[k]) = Rank(r[n])
    OBVIOUS
  <2>1. Shown(fs, q[k]) /\ Shown(gs, r[n])
    BY DedupedShown
  <2> QED
    BY <2>1, RanksAgree
<1>7. \A k \in 1..Len(q) : \E n \in 1..Len(r) : q[k].id = r[n].id
  <2> SUFFICES ASSUME NEW k \in 1..Len(q)  PROVE \E n \in 1..Len(r) : q[k].id = r[n].id
    OBVIOUS
  <2>1. PICK j \in DOMAIN fs : fs[j].id = q[k].id
    BY <1>2
  <2>2. PICK i \in DOMAIN fs : p[i] = j
    BY <1>1
  <2>3. i \in DOMAIN gs /\ gs[i].id = q[k].id
    BY <1>1, <2>1, <2>2
  <2>4. PICK n \in 1..Len(r) : r[n].id = gs[i].id
    BY <1>5, <2>3
  <2> QED
    BY <2>3, <2>4
<1>8. \A n \in 1..Len(r) : \E k \in 1..Len(q) : q[k].id = r[n].id
  <2> SUFFICES ASSUME NEW n \in 1..Len(r)  PROVE \E k \in 1..Len(q) : q[k].id = r[n].id
    OBVIOUS
  <2>1. PICK i \in DOMAIN gs : gs[i].id = r[n].id
    BY <1>3
  <2>2. p[i] \in DOMAIN fs /\ fs[p[i]].id = r[n].id
    BY <1>1, <2>1
  <2> QED
    BY <1>4, <2>2
<1>9. (\A k \in 1..Len(q) : Ranks(q)[k] = Rank(q[k])) /\ \A n \in 1..Len(r) : Ranks(r)[n] = Rank(r[n])
  BY <1>4, <1>5 DEF Ranks
<1> QED
  BY <1>6, <1>7, <1>8, <1>9 DEF AllIn

(* Rank by rank, the list is sorted strictly. *)
AboveIn(X) == {x \in X \X X : Above(x[1], x[2])}

LEMMA RanksSorted ==
  ASSUME NEW fs, GoodList(fs), Hashed({fs[i].id : i \in DOMAIN fs}), NEW q, Deduped(fs, q),
         NEW X, \A k \in 1..Len(q) : Rank(q[k]) \in X
  PROVE  SortedBy(Ranks(q), Len(q), AboveIn(X))
<1>1. Len(q) \in Nat /\ DOMAIN q = 1..Len(q)
  BY DEF Deduped
<1> SUFFICES ASSUME NEW i \in 1..Len(q), NEW j \in 1..Len(q), i < j
             PROVE  <<Rank(q[i]), Rank(q[j])>> \in AboveIn(X)
  BY <1>1 DEF SortedBy, Ranks
<1>2. ~ ReportBefore(q[j], q[i]) /\ q[i].id # q[j].id
  BY <1>1 DEF Deduped
<1>3. /\ q[i].score \in Nat /\ q[i].severity \in DOMAIN SeverityOrder
      /\ q[j].score \in Nat /\ q[j].severity \in DOMAIN SeverityOrder
  BY DedupedShown
<1>4. HashBefore(q[i].id, q[j].id) \/ HashBefore(q[j].id, q[i].id)
  <2>1. q[i].id \in {fs[k].id : k \in DOMAIN fs} /\ q[j].id \in {fs[k].id : k \in DOMAIN fs}
    BY DedupedIds
  <2> QED
    BY <1>2, <2>1 DEF Hashed
<1>5. PICK r, s : r = Rank(q[i]) /\ s = Rank(q[j])
  OBVIOUS
<1>6. /\ r[7] = q[i].score /\ r[2] = q[i].severity /\ r[1] = q[i].id
      /\ s[7] = q[j].score /\ s[2] = q[j].severity /\ s[1] = q[j].id
  BY <1>5 DEF Rank
<1>7. Above(r, s)
  BY <1>2, <1>3, <1>4, <1>6, SeverityIsOrdered DEF ReportBefore, Above
<1> QED
  BY <1>5, <1>7 DEF AboveIn

(* Chains go by the rank, too. *)
ChainsOfRanks(rs) == {<<r[1], r[1][3], r[5]>> : r \in {x \in rs : x[1][3] # None /\ x[5] >= 3}}

LEMMA ChainsByRank ==
  ASSUME NEW fs, GoodList(fs), NEW q, Deduped(fs, q)
  PROVE  ChainRanks(q) = ChainsOfRanks({Ranks(q)[k] : k \in 1..Len(q)})
<1> DEFINE Eligibles == {g \in Range(q) : g.idor # None /\ g.verification \in Eligible}
           RS == {Ranks(q)[k] : k \in 1..Len(q)}
<1>1. DOMAIN q = 1..Len(q)
  BY DEF Deduped
<1>2. \A k \in 1..Len(q) : Ranks(q)[k] = Rank(q[k]) /\ q[k] \in Range(q)
  BY <1>1 DEF Ranks, Range
<1>3. ASSUME NEW k \in 1..Len(q)
      PROVE  /\ Rank(q[k])[1] = q[k].id /\ Rank(q[k])[1][3] = q[k].idor /\ Rank(q[k])[5] = VerificationOrder[q[k].verification]
             /\ q[k].verification \in Eligible <=> Rank(q[k])[5] >= 3
  <2>1. q[k].verification \in DOMAIN VerificationOrder /\ q[k].idor = q[k].id[3]
    BY DedupedShown
  <2>2. q[k].verification \in Eligible <=> VerificationOrder[q[k].verification] >= 3
    BY <2>1 DEF VerificationOrder, Eligible
  <2>3. Rank(q[k])[1] = q[k].id /\ Rank(q[k])[5] = VerificationOrder[q[k].verification]
    BY DEF Rank
  <2> QED
    BY <2>1, <2>2, <2>3
<1>4. ChainRanks(q) = {<<g.id, g.idor, VerificationOrder[g.verification]>> : g \in Eligibles}
  <2> DEFINE chain(g) == [finding |-> g.id, proof |-> g.idor, verification |-> g.verification]
             rank(c) == <<c.finding, c.proof, VerificationOrder[c.verification]>>
             short(g) == <<g.id, g.idor, VerificationOrder[g.verification]>>
  <2>1. attackChains(q) = {chain(g) : g \in Eligibles}
    BY DEF attackChains
  <2>2. ChainRanks(q) = {rank(c) : c \in attackChains(q)}
    BY DEF ChainRanks
  <2>3. \A g : rank(chain(g)) = short(g)
    OBVIOUS
  <2> HIDE DEF Eligibles, chain, rank, short
  <2>4. ChainRanks(q) = {short(g) : g \in Eligibles}
    BY <2>1, <2>2, <2>3
  <2> QED
    BY <2>4 DEF short
<1>5. ASSUME NEW y \in ChainRanks(q)  PROVE y \in ChainsOfRanks(RS)
  <2>1. PICK g \in Eligibles : y = <<g.id, g.idor, VerificationOrder[g.verification]>>
    BY <1>4
  <2>2. PICK k \in 1..Len(q) : g = q[k]
    BY <1>1 DEF Range
  <2>3. PICK r : r = Rank(q[k])
    OBVIOUS
  <2>4. r \in RS /\ r[1][3] # None /\ r[5] >= 3 /\ y = <<r[1], r[1][3], r[5]>>
    BY <1>2, <1>3, <2>1, <2>2, <2>3
  <2> HIDE DEF RS
  <2> QED
    BY <2>4 DEF ChainsOfRanks
<1>6. ASSUME NEW y \in ChainsOfRanks(RS)  PROVE y \in ChainRanks(q)
  <2>1. PICK r \in RS : r[1][3] # None /\ r[5] >= 3 /\ y = <<r[1], r[1][3], r[5]>>
    BY DEF ChainsOfRanks
  <2>2. PICK k \in 1..Len(q) : r = Rank(q[k])
    BY <1>2
  <2>3. q[k] \in Eligibles
    BY <1>2, <1>3, <2>1, <2>2
  <2>4. y = <<q[k].id, q[k].idor, VerificationOrder[q[k].verification]>>
    BY <1>3, <2>1, <2>2
  <2> QED
    BY <1>4, <2>3, <2>4
<1> QED
  BY <1>5, <1>6

(* Two orders of the same findings are reported alike. *)
LEMMA ShuffledAlike ==
  ASSUME NEW fs, GoodList(fs), Hashed({fs[i].id : i \in DOMAIN fs}), NEW gs, GoodList(gs), NEW p, Shuffled(fs, gs, p),
         NEW q, Deduped(fs, q), NEW r, Deduped(gs, r)
  PROVE  Ranks(r) = Ranks(q) /\ ChainRanks(r) = ChainRanks(q)
<1> DEFINE X == {Rank(q[k]) : k \in 1..Len(q)} \cup {Rank(r[k]) : k \in 1..Len(r)}
           R == AboveIn(X)
           u == Ranks(q)
           v == Ranks(r)
<1>1. Len(q) \in Nat /\ DOMAIN q = 1..Len(q) /\ Len(r) \in Nat /\ DOMAIN r = 1..Len(r)
  BY DEF Deduped
<1>2. {gs[i].id : i \in DOMAIN gs} = {fs[i].id : i \in DOMAIN fs}
  <2>1. /\ DOMAIN gs = DOMAIN fs /\ p \in [DOMAIN fs -> DOMAIN fs] /\ (\A j \in DOMAIN fs : \E i \in DOMAIN fs : p[i] = j)
        /\ \A i \in DOMAIN fs : gs[i] = fs[p[i]]
    BY DEF Shuffled, Bijection, Surjection, Injection
  <2> QED
    BY <2>1
<1>3. SortedBy(u, Len(q), R) /\ SortedBy(v, Len(r), R)
  <2>1. \A k \in 1..Len(q) : Rank(q[k]) \in X
    OBVIOUS
  <2>2. \A k \in 1..Len(r) : Rank(r[k]) \in X
    OBVIOUS
  <2>3. Hashed({gs[i].id : i \in DOMAIN gs})
    BY <1>2
  <2> HIDE DEF X
  <2> QED
    BY <2>1, <2>2, <2>3, RanksSorted
<1>4. AllIn(u, Len(q), v, Len(r)) /\ AllIn(v, Len(r), u, Len(q))
  BY SameFingerprints
<1>5. ASSUME NEW x \in X  PROVE x[7] \in Nat /\ x[2] \in DOMAIN SeverityOrder /\ x[1] \in {fs[i].id : i \in DOMAIN fs}
  <2>1. CASE \E k \in 1..Len(q) : x = Rank(q[k])
    <3>1. PICK k \in 1..Len(q) : x = Rank(q[k])
      BY <2>1
    <3>2. q[k].score \in Nat /\ q[k].severity \in DOMAIN SeverityOrder /\ \E i \in DOMAIN fs : fs[i].id = q[k].id
      BY DedupedShown, DedupedIds
    <3> QED
      BY <3>1, <3>2 DEF Rank
  <2>2. CASE \E k \in 1..Len(r) : x = Rank(r[k])
    <3>1. PICK k \in 1..Len(r) : x = Rank(r[k])
      BY <2>2
    <3>2. r[k].score \in Nat /\ r[k].severity \in DOMAIN SeverityOrder /\ \E i \in DOMAIN gs : gs[i].id = r[k].id
      BY DedupedShown, DedupedIds
    <3>3. r[k].id \in {fs[i].id : i \in DOMAIN fs}
      BY <1>2, <3>2
    <3> QED
      BY <3>1, <3>2, <3>3 DEF Rank
  <2> QED
    BY <2>1, <2>2
<1>6. \A x, y : ~ (<<x, y>> \in R /\ <<y, x>> \in R)
  <2> SUFFICES ASSUME NEW x \in X, NEW y \in X, Above(x, y), Above(y, x)  PROVE FALSE
    BY DEF AboveIn
  <2>1. /\ x[7] \in Nat /\ x[2] \in DOMAIN SeverityOrder /\ x[1] \in {fs[i].id : i \in DOMAIN fs}
        /\ y[7] \in Nat /\ y[2] \in DOMAIN SeverityOrder /\ y[1] \in {fs[i].id : i \in DOMAIN fs}
    BY <1>5
  <2>2. ~ (HashBefore(x[1], y[1]) /\ HashBefore(y[1], x[1]))
    BY <2>1 DEF Hashed
  <2>3. SeverityOrder[x[2]] \in Nat /\ SeverityOrder[y[2]] \in Nat
    BY <2>1, SeverityIsOrdered
  <2> QED
    BY <2>1, <2>2, <2>3 DEF Above
<1> HIDE DEF R, u, v
<1>7. Len(q) = Len(r) /\ \A i \in 1..Len(q) : u[i] = v[i]
  BY <1>1, <1>3, <1>4, <1>6, SortedAlike
<1>8. u = v
  <2>1. u = [i \in 1..Len(q) |-> u[i]] /\ v = [i \in 1..Len(r) |-> v[i]]
    BY <1>1 DEF Ranks, u, v
  <2> QED
    BY <1>7, <2>1
<1>9. ChainRanks(q) = ChainsOfRanks({u[k] : k \in 1..Len(q)}) /\ ChainRanks(r) = ChainsOfRanks({v[k] : k \in 1..Len(r)})
  BY ChainsByRank DEF u, v
<1> QED
  BY <1>7, <1>8, <1>9 DEF u, v

(* The order of the input does not show: see InputOrderInvisible.          *)
THEOREM OrderDoesNotShow == Spec => []InputOrderInvisible
<1>1. ASSUME DataInv  PROVE InputOrderInvisible
  <2> SUFFICES ASSUME stage = "correlate", NEW x \in Exchanges,
                      NEW other \in deduplicate([Scored EXCEPT ![x[1]] = Scored[x[2]], ![x[2]] = Scored[x[1]]])
               PROVE  Ranks(other) = Ranks(findings) /\ ChainRanks(other) = ChainRanks(findings)
    BY DEF InputOrderInvisible
  <2>1. Deduplicated
    BY DEF Deduplicated
  <2>2. IsInput(input) /\ input.wellFormed
    BY <1>1, <2>1 DEF DataInv
  <2>3. GoodList(Scored) /\ DOMAIN Scored = DOMAIN Parsed /\ \A i \in DOMAIN Parsed : Scored[i].id = Parsed[i].id
    BY <2>2, ScoredIsGood
  <2>4. Deduped(Scored, findings)
    BY <1>1, <2>1, FindingsDeduped
  <2>5. Hashed({Scored[i].id : i \in DOMAIN Scored})
    <3>1. DOMAIN Parsed = DOMAIN input.findings /\ \A i \in DOMAIN Parsed : Parsed[i].id = Fingerprint(input.findings[i])
      BY DEF Parsed, parseFinding
    <3>2. {Scored[i].id : i \in DOMAIN Scored} = {Fingerprint(input.findings[i]) : i \in DOMAIN input.findings}
      BY <2>3, <3>1
    <3> QED
      BY <2>2, <3>2 DEF IsInput
  <2>6. x[1] \in DOMAIN Scored /\ x[2] \in DOMAIN Scored /\ x[1] < x[2]
    BY <2>3 DEF Exchanges, Parsed
  <2>7. PICK fs, gs, a, b : fs = Scored /\ a = x[1] /\ b = x[2] /\ gs = [fs EXCEPT ![a] = fs[b], ![b] = fs[a]]
    OBVIOUS
  <2>8. GoodList(gs) /\ \E p : Shuffled(fs, gs, p)
    BY <2>3, <2>6, <2>7, ExchangeShuffles
  <2>9. PICK p : Shuffled(fs, gs, p)
    BY <2>8
  <2>10. other \in deduplicate(gs)
    BY <2>7
  <2>11. Deduped(gs, other)
    BY <2>8, <2>10, DeduplicateDedups
  <2> QED
    BY <2>3, <2>4, <2>5, <2>7, <2>8, <2>9, <2>11, ShuffledAlike
<1> QED
  BY <1>1, DataAlways, PTL

(* What was asked, and what was flagged of it.                             *)
AskInv ==
  /\ IsFiniteSet(asked)
  /\ (heuristic = "principals" /\ turn > 0) => baseline.served /\ ~baseline.denial
  /\ \A a \in asked : a.who \in Accessors
  /\ \A f \in Range(flagged) : f.idor = Nil \/ \E a \in asked : Reached(a) /\ f = CrossPrincipal(a.param, a.who)
  /\ \A a \in asked : Reached(a) => CrossPrincipal(a.param, a.who) \in Range(flagged)

LEMMA AskInit == IdorInit => AskInv
<1> SUFFICES ASSUME IdorInit  PROVE AskInv
  OBVIOUS
<1>1. flagged = <<>> /\ asked = {} /\ turn = 0
  BY DEF IdorInit
<1>2. Range(flagged) = {}
  BY <1>1 DEF Range
<1> QED
  BY <1>1, <1>2, FS_EmptySet DEF AskInv

LEMMA TurnOver ==
  ASSUME AskInv, NextParam, asked' = asked, flagged' = flagged
  PROVE  AskInv'
BY DEF AskInv, NextParam, Reached

LEMMA TurnOn ==
  ASSUME NEW last, NextTurn(last), (heuristic = "principals" /\ turn > 0) => baseline.served /\ ~baseline.denial,
         heuristic = "neighbours" \/ turn > 0
  PROVE  (heuristic' = "principals" /\ turn' > 0) => baseline'.served /\ ~baseline'.denial
BY DEF NextTurn, NextParam

LEMMA AskKept ==
  ASSUME IdorInv, AskInv, IdorNext
  PROVE  AskInv'
<1>1. CASE SkipParam
  BY <1>1, TurnOver DEF SkipParam
<1>2. CASE Baseline
  <2>1. flagged' = flagged /\ asked' = asked
    BY <1>2 DEF Baseline
  <2>2. CASE NextParam
    BY <2>1, <2>2, TurnOver
  <2>3. ASSUME NEW r, Comparable(r), baseline' = r, UNCHANGED <<heuristic, at>>  PROVE AskInv'
    BY <2>1, <2>3 DEF AskInv, Comparable, Reached
  <2> QED
    BY <1>2, <2>2, <2>3 DEF Baseline
<1>3. CASE AskNeighbour
  <2>1. NextTurn(Len(delta)) /\ asked' = asked /\ heuristic = "neighbours"
    BY <1>3 DEF AskNeighbour
  <2>2. flagged' = flagged \/ flagged' = Append(flagged, Neighbour(Param.name))
    BY <1>3 DEF AskNeighbour
  <2>3. Neighbour(Param.name) \in Flaggable /\ Neighbour(Param.name).idor = Nil
    BY Due DEF Flaggable, Neighbour
  <2>4. Range(flagged') = Range(flagged) \/ Range(flagged') = Range(flagged) \cup {Neighbour(Param.name)}
    <3>1. PICK f \in Flaggable : f = Neighbour(Param.name)
      BY <2>3
    <3>2. flagged \in Seq(Flaggable)
      BY DEF IdorInv
    <3>3. Range(Append(flagged, f)) = Range(flagged) \cup {f}
      BY <3>2, AppendRange
    <3> QED
      BY <2>2, <3>1, <3>3
  <2>5. (heuristic' = "principals" /\ turn' > 0) => baseline'.served /\ ~baseline'.denial
    BY <2>1, TurnOn DEF AskInv
  <2> QED
    BY <2>1, <2>3, <2>4, <2>5 DEF AskInv, Reached
<1>4. CASE SkipPrincipal
  <2>1. (heuristic' = "principals" /\ turn' > 0) => baseline'.served /\ ~baseline'.denial
    BY <1>4, TurnOn DEF AskInv, SkipPrincipal
  <2> QED
    BY <1>4, <2>1 DEF AskInv, SkipPrincipal, Reached
<1>5. CASE AskPrincipal
  <2>1. /\ NextTurn(Len(Others)) /\ heuristic = "principals" /\ turn > 0 /\ ~Insufficient(Others[turn])
        /\ baseline.served /\ ~baseline.denial
    BY <1>5 DEF AskPrincipal, AskInv
  <2>2. (heuristic' = "principals" /\ turn' > 0) => baseline'.served /\ ~baseline'.denial
    BY <2>1, TurnOn
  <2> DEFINE f == CrossPrincipal(Param.name, Others[turn])
  <2>3. PICK a : /\ asked' = asked \cup {a} /\ a.param = Param.name /\ a.who = Others[turn]
                 /\ Reached(a) => flagged' = Append(flagged, f)
                 /\ ~Reached(a) => flagged' = flagged
    <3>1. PICK r : LET same == Substantive(r.body) /\ AtLeast(similarity(baseline.body, r.body), 90)
                       a == [param |-> Param.name, who |-> Others[turn], own |-> baseline, reply |-> r]
                   IN  /\ flagged' = IF r.served /\ ~r.denial /\ same THEN Append(flagged, f) ELSE flagged
                       /\ asked' = asked \cup {a}
      BY <1>5 DEF AskPrincipal
    <3>2. PICK a : a = [param |-> Param.name, who |-> Others[turn], own |-> baseline, reply |-> r]
      OBVIOUS
    <3>3. a.param = Param.name /\ a.who = Others[turn] /\ a.own = baseline /\ a.reply = r
      BY <3>2
    <3>4. a.who.probes /\ <<a.who.label, a.who.session>> # <<Owner.label, Owner.session>>
      BY <2>1, <3>3 DEF Insufficient, identityOf
    <3>5. Reached(a) <=> r.served /\ ~r.denial /\ Substantive(r.body) /\ AtLeast(similarity(baseline.body, r.body), 90)
      BY <2>1, <3>3, <3>4 DEF Reached
    <3> HIDE DEF f
    <3> QED
      BY <3>1, <3>2, <3>3, <3>5
  <2>4. f \in Flaggable /\ a.who \in Accessors
    <3>1. <<Param.name, Others[turn]>> \in Names \X Accessors
      BY <2>1, Due DEF Accessors
    <3> QED
      BY <2>3, <3>1 DEF Flaggable
  <2>5. f = CrossPrincipal(a.param, a.who)
    BY <2>3
  <2> HIDE DEF f
  <2>6. IsFiniteSet(asked')
    BY <2>3, FS_AddElement DEF AskInv
  <2>7. CASE Reached(a)
    <3>1. Range(flagged') = Range(flagged) \cup {f}
      <4>1. flagged \in Seq(Flaggable)
        BY DEF IdorInv
      <4>2. Range(Append(flagged, f)) = Range(flagged) \cup {f}
        BY <2>4, <4>1, AppendRange
      <4> QED
        BY <2>3, <2>7, <4>2
    <3> QED
      BY <2>2, <2>3, <2>4, <2>5, <2>6, <2>7, <3>1 DEF AskInv, Reached
  <2>8. CASE ~Reached(a)
    BY <2>2, <2>3, <2>4, <2>6, <2>8 DEF AskInv, Reached
  <2> QED
    BY <2>7, <2>8
<1> QED
  BY <1>1, <1>2, <1>3, <1>4, <1>5 DEF IdorNext

(* Where the input of the analysis is from.                                *)
RawsOf(fs) == [wellFormed |-> TRUE, findings |-> [i \in DOMAIN fs |-> RawFinding(fs[i])]]
HandInv ==
  /\ AskInv
  /\ (heuristic = "done" /\ stage # "scan") => \E fs \in Written(dedup(flagged)) : input = RawsOf(fs)
  /\ stage = "rejected" => ~input.wellFormed

LEMMA HandInit == Init => HandInv
BY AskInit DEF Init, HandInv, IdorInit

LEMMA HandKept == DataInv /\ HandInv /\ [Next]_vars => HandInv'
<1> SUFFICES ASSUME DataInv, HandInv, [Next]_vars  PROVE HandInv'
  OBVIOUS
<1>0. UNCHANGED idorVars => AskInv'
  BY DEF HandInv, AskInv, idorVars, Reached
<1>1. CASE Compare
  BY <1>1, AskKept DEF Compare, HandInv, analysisVars, DataInv
<1>2. CASE HandOver
  BY <1>0, <1>2 DEF HandOver, HandInv, RawsOf, idorVars
<1>3. CASE AnalyseInput
  <2>1. UNCHANGED <<idorVars, input>> /\ stage' # "scan" /\ stage # "scan"
    BY <1>3 DEF AnalyseInput, Analyse, Reject, Parse, Score, Deduplicate, Correlate, Summarise, Ask, Answer, Quote, Assemble
  <2>2. stage' = "rejected" => ~input.wellFormed
    BY <1>3 DEF AnalyseInput, Analyse, Reject, Parse, Score, Deduplicate, Correlate, Summarise, Ask, Answer, Quote, Assemble
  <2> QED
    BY <1>0, <2>1, <2>2 DEF HandInv, idorVars
<1>4. CASE UNCHANGED vars
  BY <1>0, <1>4 DEF vars, HandInv, idorVars, analysisVars
<1> QED
  BY <1>1, <1>2, <1>3, <1>4 DEF Next

LEMMA HandAlways == Spec => [](DataInv /\ HandInv)
<1>1. Init => DataInv /\ HandInv
  BY DataInit, HandInit
<1>2. DataInv /\ HandInv /\ [Next]_vars => (DataInv /\ HandInv)'
  BY DataKept, HandKept
<1> QED
  BY <1>1, <1>2, PTL DEF Spec

LEMMA FlaggableForms ==
  ASSUME NEW f \in Flaggable
  PROVE  \/ \E n \in Names : f = Neighbour(n)
         \/ \E n \in Names, p \in Accessors : f = CrossPrincipal(n, p)
<1>1. CASE \E x \in Names \X Accessors : f = CrossPrincipal(x[1], x[2])
  BY <1>1
<1> QED
  BY <1>1 DEF Flaggable

(* Findings of one fingerprint are one finding. *)
LEMMA FingerprintTells ==
  ASSUME NEW f \in Flaggable, NEW g \in Flaggable, fingerprint(f) = fingerprint(g)
  PROVE  f = g
<1>1. \A n : fingerprint(Neighbour(n)) = <<n, "neighbour">>
  BY DEF fingerprint, Neighbour
<1>2. \A n, p : p \in Accessors => fingerprint(CrossPrincipal(n, p)) = <<n, "principal", <<identityOf(Owner), identityOf(p)>>>>
  BY ChainsAssumption DEF fingerprint, CrossPrincipal
<1>3. CASE \E n \in Names : f = Neighbour(n)
  <2>1. PICK n \in Names : f = Neighbour(n)
    BY <1>3
  <2>2. CASE \E m \in Names : g = Neighbour(m)
    <3>1. PICK m \in Names : g = Neighbour(m)
      BY <2>2
    <3>2. <<n, "neighbour">> = <<m, "neighbour">>
      BY <1>1, <2>1, <3>1
    <3> QED
      BY <2>1, <3>1, <3>2
  <2>3. CASE \E m \in Names, p \in Accessors : g = CrossPrincipal(m, p)
    <3>1. PICK m \in Names, p \in Accessors : g = CrossPrincipal(m, p)
      BY <2>3
    <3>2. <<n, "neighbour">> = <<m, "principal", <<identityOf(Owner), identityOf(p)>>>>
      BY <1>1, <1>2, <2>1, <3>1
    <3> QED
      BY <3>2
  <2> QED
    BY <2>2, <2>3, FlaggableForms
<1>4. CASE \E n \in Names, p \in Accessors : f = CrossPrincipal(n, p)
  <2>1. PICK n \in Names, p \in Accessors : f = CrossPrincipal(n, p)
    BY <1>4
  <2>2. CASE \E m \in Names : g = Neighbour(m)
    <3>1. PICK m \in Names : g = Neighbour(m)
      BY <2>2
    <3>2. <<m, "neighbour">> = <<n, "principal", <<identityOf(Owner), identityOf(p)>>>>
      BY <1>1, <1>2, <2>1, <3>1
    <3> QED
      BY <3>2
  <2>3. CASE \E m \in Names, r \in Accessors : g = CrossPrincipal(m, r)
    <3>1. PICK m \in Names, r \in Accessors : g = CrossPrincipal(m, r)
      BY <2>3
    <3>2. <<n, "principal", <<identityOf(Owner), identityOf(p)>>>> = <<m, "principal", <<identityOf(Owner), identityOf(r)>>>>
      BY <1>2, <2>1, <3>1
    <3>3. n = m /\ <<identityOf(Owner), identityOf(p)>> = <<identityOf(Owner), identityOf(r)>>
      BY <3>2
    <3> QED
      BY <2>1, <3>1, <3>3 DEF CrossPrincipal
  <2> QED
    BY <2>2, <2>3, FlaggableForms
<1> QED
  BY <1>3, <1>4, FlaggableForms

(* The scanner's deduplication keeps every finding. *)
LEMMA DedupKeepsAll ==
  ASSUME NEW fs \in Seq(Flaggable)
  PROVE  dedup(fs) \in Seq(Flaggable) /\ Range(dedup(fs)) = Range(fs)
<1> DEFINE K == {i \in DOMAIN fs : \A j \in 1..(i - 1) : fingerprint(fs[j]) # fingerprint(fs[i])}
<1>1. DOMAIN fs = 1..Len(fs) /\ Len(fs) \in Nat /\ \A i \in DOMAIN fs : fs[i] \in Flaggable
  OBVIOUS
<1>2. K \in SUBSET (1..Len(fs))
  BY <1>1
<1>3. \A i \in DOMAIN fs : \E j \in K : fs[j] = fs[i]
  <2> SUFFICES ASSUME NEW i \in DOMAIN fs  PROVE \E j \in K : fs[j] = fs[i]
    OBVIOUS
  <2> DEFINE U == {j \in DOMAIN fs : fingerprint(fs[j]) = fingerprint(fs[i])}
  <2>1. PICK j \in U : \A k \in U : j <= k
    <3>1. U \in SUBSET Nat /\ i \in U
      BY <1>1
    <3> HIDE DEF U
    <3> QED
      BY <3>1, Least
  <2>2. \A k \in 1..(j - 1) : k \in DOMAIN fs /\ ~ (j <= k)
    BY <1>1
  <2>3. \A k \in 1..(j - 1) : fingerprint(fs[k]) # fingerprint(fs[j])
    BY <2>1, <2>2
  <2>4. fs[j] = fs[i]
    BY <1>1, FingerprintTells
  <2> QED
    BY <2>3, <2>4
<1> HIDE DEF K
<1>4. Sublist(fs, K) \in Seq(Flaggable) /\ Range(Sublist(fs, K)) = {fs[i] : i \in K}
  BY <1>2, SublistRange
<1>5. {fs[i] : i \in K} = Range(fs)
  BY <1>1, <1>2, <1>3 DEF Range
<1> QED
  BY <1>4, <1>5 DEF dedup, K

(* The chain of one who reached the owner's record.                        *)
ProofOf(p) == <<identityOf(Owner), identityOf(p)>>
ChainId(n, p) == <<<<LowerCase["cross-principal"], LowerCase[n]>>, LowerCase[Endpoint], ProofOf(p)>>
ChainOf(a) == [finding |-> ChainId(a.param, a.who), proof |-> ProofOf(a.who), verification |-> "LIKELY"]
Reachers == {a \in asked : Reached(a)}

LEMMA ParsedForms ==
  /\ \A n : Neighbour(n).idor = Nil /\ parseFinding(RawFinding(Neighbour(n))).id[3] = None
  /\ \A n, p : p \in Accessors =>
       /\ CrossPrincipal(n, p).idor # Nil /\ ProofOf(p) # None
       /\ parseFinding(RawFinding(CrossPrincipal(n, p))).id = ChainId(n, p)
       /\ parseFinding(RawFinding(CrossPrincipal(n, p))).verification = "LIKELY"
<1>1. ASSUME NEW n  PROVE Neighbour(n).idor = Nil /\ parseFinding(RawFinding(Neighbour(n))).id[3] = None
  <2>1. Neighbour(n).idor = Nil
    BY DEF Neighbour
  <2>2. RawFinding(Neighbour(n)).idor = None
    BY <2>1 DEF RawFinding
  <2> QED
    BY <2>1, <2>2 DEF parseFinding, Fingerprint
<1>2. ASSUME NEW n, NEW p \in Accessors
      PROVE  /\ CrossPrincipal(n, p).idor # Nil /\ ProofOf(p) # None
             /\ parseFinding(RawFinding(CrossPrincipal(n, p))).id = ChainId(n, p)
             /\ parseFinding(RawFinding(CrossPrincipal(n, p))).verification = "LIKELY"
  <2>1. PICK f : f = CrossPrincipal(n, p)
    OBVIOUS
  <2>2. f.idor = ProofOf(p) /\ f.param = n /\ f.verification = "LIKELY"
    BY <2>1 DEF CrossPrincipal, ProofOf
  <2>3. ProofOf(p) # Nil /\ ProofOf(p) # None
    BY ChainsAssumption DEF ProofOf
  <2>4. PICK r : r = RawFinding(f)
    OBVIOUS
  <2>5. r.what = <<"cross-principal", n>> /\ r.endpoint = Endpoint /\ r.idor = ProofOf(p) /\ r.verification = "LIKELY"
    BY <2>2, <2>3, <2>4 DEF RawFinding
  <2>6. parseFinding(r).id = ChainId(n, p)
    BY <2>5 DEF parseFinding, Fingerprint, ChainId
  <2>7. parseFinding(r).verification = "LIKELY"
    BY <2>5 DEF parseFinding, MapTo, VerificationOrder
  <2> QED
    BY <2>1, <2>2, <2>3, <2>4, <2>6, <2>7
<1> QED
  BY <1>1, <1>2

LEMMA ChainsAreReached ==
  ASSUME DataInv, HandInv, heuristic = "done", stage \notin {"scan", "parse", "score", "deduplicate", "correlate"}
  PROVE  chains = {ChainOf(a) : a \in Reachers}
<1>1. PICK fs \in Written(dedup(flagged)) : input = RawsOf(fs)
  BY DEF HandInv
<1>2. fs \in Seq(Flaggable) /\ Range(fs) = Range(flagged)
  <2>1. flagged \in Seq(Flaggable)
    BY DEF DataInv, IdorInv
  <2>2. PICK d \in Seq(Flaggable) : d = dedup(flagged) /\ Range(d) = Range(flagged)
    BY <2>1, DedupKeepsAll
  <2>3. fs \in Written(d)
    BY <2>2
  <2> QED
    BY <2>2, <2>3, WrittenKeepsAll
<1>3. input.wellFormed /\ input.findings = [i \in DOMAIN fs |-> RawFinding(fs[i])]
  BY <1>1 DEF RawsOf
<1>4. Deduplicated
  BY <1>3 DEF HandInv, Deduplicated
<1>5. chains = attackChains(findings) /\ IsInput(input)
  BY <1>4 DEF DataInv
<1>6. GoodList(Scored) /\ DOMAIN Scored = DOMAIN Parsed
      /\ \A i \in DOMAIN Parsed : Scored[i].id = Parsed[i].id /\ Scored[i].verification = Parsed[i].verification
  BY <1>3, <1>5, ScoredIsGood
<1>7. DOMAIN Parsed = DOMAIN fs /\ \A i \in DOMAIN fs : Parsed[i] = parseFinding(RawFinding(fs[i]))
  BY <1>3 DEF Parsed
<1>8. Deduped(Scored, findings)
  BY <1>4, FindingsDeduped
<1>9. ASSUME NEW i \in DOMAIN fs
      PROVE  /\ Scored[i].idor = Scored[i].id[3]
             /\ \/ Scored[i].idor = None
                \/ \E a \in Reachers : Scored[i].id = ChainId(a.param, a.who) /\ Scored[i].verification = "LIKELY"
  <2>1. fs[i] \in Range(flagged) /\ fs[i] \in Flaggable
    <3>1. fs[i] \in Range(fs)
      BY DEF Range
    <3>2. fs[i] \in Flaggable
      BY <1>2
    <3> QED
      BY <1>2, <3>1, <3>2
  <2>2. Scored[i].idor = Scored[i].id[3]
    BY <1>6, <1>7 DEF GoodList, GoodFinding
  <2>3. Scored[i].id = parseFinding(RawFinding(fs[i])).id /\ Scored[i].verification = parseFinding(RawFinding(fs[i])).verification
    BY <1>6, <1>7
  <2>4. CASE fs[i].idor = Nil
    <3>1. PICK n \in Names : fs[i] = Neighbour(n)
      BY <2>1, <2>4, FlaggableForms, ParsedForms
    <3> QED
      BY <2>2, <2>3, <3>1, ParsedForms
  <2>5. CASE fs[i].idor # Nil
    <3>1. PICK a \in asked : Reached(a) /\ fs[i] = CrossPrincipal(a.param, a.who)
      BY <2>1, <2>5 DEF HandInv, AskInv
    <3>2. a \in Reachers /\ a.who \in Accessors
      BY <3>1 DEF Reachers, HandInv, AskInv
    <3> QED
      BY <2>2, <2>3, <3>1, <3>2, ParsedForms
  <2> QED
    BY <2>4, <2>5
<1>10. ASSUME NEW a \in Reachers
       PROVE  /\ \E i \in DOMAIN fs : Scored[i].id = ChainId(a.param, a.who)
              /\ ProofOf(a.who) # None
  <2>1. a \in asked /\ Reached(a) /\ a.who \in Accessors /\ CrossPrincipal(a.param, a.who) \in Range(flagged)
    BY DEF Reachers, HandInv, AskInv
  <2>2. PICK i \in DOMAIN fs : fs[i] = CrossPrincipal(a.param, a.who)
    BY <1>2, <2>1 DEF Range
  <2> QED
    BY <1>6, <1>7, <2>1, <2>2, ParsedForms
<1>11. ASSUME NEW k \in 1..Len(findings)
       PROVE  \E i \in DOMAIN fs : /\ findings[k].id = Scored[i].id /\ findings[k].idor = Scored[i].idor
                                   /\ findings[k].verification = Scored[i].verification
  <2>1. PICK K, s : K = Places(Scored, findings[k].id) /\ s = strongest(Scored, K)
    OBVIOUS
  <2>2. K \in SUBSET DOMAIN Scored /\ Merged(Scored, K, findings[k]) /\ Strongest5(Scored, K, s)
    BY <1>8, <2>1 DEF Deduped
  <2>3. s \in DOMAIN fs
    BY <1>6, <1>7, <2>2 DEF Strongest5
  <2> QED
    BY <2>1, <2>2, <2>3 DEF Merged
<1>12. DOMAIN findings = 1..Len(findings)
  BY <1>8 DEF Deduped
<1> DEFINE Eligibles == {g \in Range(findings) : g.idor # None /\ g.verification \in Eligible}
<1>13. chains = {[finding |-> g.id, proof |-> g.idor, verification |-> g.verification] : g \in Eligibles}
  BY <1>5 DEF attackChains
<1>14. ASSUME NEW c \in chains  PROVE \E a \in Reachers : c = ChainOf(a)
  <2>1. PICK g \in Eligibles : c = [finding |-> g.id, proof |-> g.idor, verification |-> g.verification]
    BY <1>13
  <2>2. PICK k \in 1..Len(findings) : g = findings[k]
    BY <1>12 DEF Range
  <2>3. PICK i \in DOMAIN fs : g.id = Scored[i].id /\ g.idor = Scored[i].idor /\ g.verification = Scored[i].verification
    BY <1>11, <2>2
  <2>4. PICK a \in Reachers : Scored[i].id = ChainId(a.param, a.who) /\ Scored[i].verification = "LIKELY"
    BY <1>9, <2>1, <2>3
  <2>5. g.idor = ProofOf(a.who)
    BY <1>9, <2>3, <2>4 DEF ChainId
  <2> QED
    BY <2>1, <2>3, <2>4, <2>5 DEF ChainOf
<1>15. ASSUME NEW a \in Reachers  PROVE ChainOf(a) \in chains
  <2>1. PICK i \in DOMAIN fs : Scored[i].id = ChainId(a.param, a.who)
    BY <1>10
  <2>2. PICK k \in 1..Len(findings) : findings[k].id = ChainId(a.param, a.who)
    BY <1>6, <1>7, <1>8, <2>1 DEF Deduped
  <2>3. PICK j \in DOMAIN fs : /\ findings[k].id = Scored[j].id /\ findings[k].idor = Scored[j].idor
                               /\ findings[k].verification = Scored[j].verification
    BY <1>11
  <2>4. findings[k].idor = ProofOf(a.who)
    BY <1>9, <2>2, <2>3 DEF ChainId
  <2>5. findings[k].verification = "LIKELY"
    BY <1>9, <1>10, <2>3, <2>4
  <2>6. findings[k] \in Eligibles
    <3>1. findings[k] \in Range(findings)
      BY <1>12 DEF Range
    <3> QED
      BY <1>10, <2>4, <2>5, <3>1 DEF Eligible
  <2> HIDE DEF Eligibles
  <2> QED
    BY <1>13, <2>2, <2>4, <2>5, <2>6 DEF ChainOf
<1> QED
  BY <1>14, <1>15

(* Every principal that reached the owner's record has its own chain for   *)
(* every parameter up to its case, and nobody else has one: see            *)
(* AccessorsKeepChains.                                                    *)
THEOREM AccessorsHaveChains == Spec => []AccessorsKeepChains
<1>1. ASSUME DataInv, HandInv  PROVE AccessorsKeepChains
  <2> DEFINE people == {<<LowerCase[a.param], a.who.label, a.who.session>> : a \in Reachers}
  <2> SUFFICES ASSUME heuristic = "done", stage \notin {"scan", "parse", "score", "deduplicate", "correlate"}
               PROVE  /\ {<<c.finding[1][2], c.proof>> : c \in chains}
                           = {<<LowerCase[a.param], <<identityOf(Owner), identityOf(a.who)>>>> : a \in Reachers}
                      /\ Cardinality(chains) = Cardinality(people)
                      /\ \A c \in chains : c.verification = "LIKELY"
    BY DEF AccessorsKeepChains, Reachers
  <2>1. chains = {ChainOf(a) : a \in Reachers}
    BY <1>1, ChainsAreReached
  <2>2. \A a : ChainOf(a).finding[1][2] = LowerCase[a.param] /\ ChainOf(a).proof = ProofOf(a.who) /\ ChainOf(a).verification = "LIKELY"
    BY DEF ChainOf, ChainId
  <2>3. {<<c.finding[1][2], c.proof>> : c \in chains} = {<<LowerCase[a.param], <<identityOf(Owner), identityOf(a.who)>>>> : a \in Reachers}
    <3>1. \A a : <<ChainOf(a).finding[1][2], ChainOf(a).proof>> = <<LowerCase[a.param], ProofOf(a.who)>>
      BY <2>2
    <3> DEFINE shown(c) == <<c.finding[1][2], c.proof>>
    <3>2. \A a : shown(ChainOf(a)) = <<LowerCase[a.param], ProofOf(a.who)>>
      BY <3>1
    <3> HIDE DEF shown
    <3>3. {shown(c) : c \in chains} = {<<LowerCase[a.param], ProofOf(a.who)>> : a \in Reachers}
      BY <2>1, <3>2
    <3> QED
      BY <3>3 DEF shown, ProofOf
  <2>4. IsFiniteSet(Reachers)
    BY <1>1, FS_Subset DEF Reachers, HandInv, AskInv
  <2> DEFINE f == [a \in Reachers |-> ChainOf(a)]
             g == [a \in Reachers |-> <<LowerCase[a.param], a.who.label, a.who.session>>]
  <2>5. ASSUME NEW a \in Reachers, NEW b \in Reachers  PROVE f[a] = f[b] <=> g[a] = g[b]
    <3>1. a.who \in Accessors /\ b.who \in Accessors
      BY <1>1 DEF Reachers, HandInv, AskInv
    <3>2. /\ a.who.label \in Framable /\ a.who.session \in Framable
          /\ b.who.label \in Framable /\ b.who.session \in Framable
      BY <3>1, PrincipalsAssumption DEF Accessors, Range, Framable
    <3>3. ASSUME f[a] = f[b]  PROVE g[a] = g[b]
      <4>1. ChainOf(a) = ChainOf(b)
        BY <3>3
      <4>2. LowerCase[a.param] = LowerCase[b.param] /\ ProofOf(a.who) = ProofOf(b.who)
        BY <2>2, <4>1
      <4>3. identity(a.who.label, a.who.session) = identity(b.who.label, b.who.session)
        BY <4>2 DEF ProofOf, identityOf
      <4>4. a.who.label = b.who.label /\ a.who.session = b.who.session
        BY <3>2, <4>3, IdentityInjective
      <4> QED
        BY <4>2, <4>4
    <3>4. ASSUME g[a] = g[b]  PROVE f[a] = f[b]
      <4>1. LowerCase[a.param] = LowerCase[b.param] /\ a.who.label = b.who.label /\ a.who.session = b.who.session
        BY <3>4
      <4> QED
        BY <4>1 DEF ChainOf, ChainId, ProofOf, identityOf
    <3> QED
      BY <3>3, <3>4
  <2>6. Cardinality(chains) = Cardinality(people)
    <3>1. {f[a] : a \in Reachers} = chains
      BY <2>1
    <3>2. {g[a] : a \in Reachers} = people
      OBVIOUS
    <3> HIDE DEF f, g, people
    <3> QED
      BY <2>4, <2>5, <3>1, <3>2, ImagesAlike
  <2> QED
    BY <2>1, <2>2, <2>3, <2>6
<1> QED
  BY <1>1, HandAlways, PTL
=============================================================================
