------------------------- MODULE AltrQLLanguageProofs -------------------------
(***************************************************************************)
(* What every text and its query have in common, whatever the names, the   *)
(* literals and the schema.                                                *)
(***************************************************************************)
EXTENDS AltrQLLanguage, FiniteSetTheorems, WellFoundedInduction, NaturalsInduction, TLAPS

Text == Seq(STRING)
Places(ts) == 1 .. Len(ts) + 1

\* The tokens that the properties count.
Marks == {"WHERE", "LIMIT", "OFFSET", "SORT", "TOP", "BOTTOM", ";", ":", "AS"}

\* Of the marks, none but those of S are between i and j.
Only(ts, i, j, S) == \A k \in i .. j - 1 : ts[k] \notin Marks \ S

\* r is what a function reads from place i on: a value of V, or the place of an error.
Reads(ts, r, i, V, S) ==
    \/ \E j \in i .. Len(ts) + 1 : r = Err(j)
    \/ \E j \in i .. Len(ts) + 1, v \in V : r = Ok(j, v) /\ Only(ts, i, j, S)

-----------------------------------------------------------------------------
(* Tokens *)

LEMMA TokenIsThere ==
    ASSUME NEW ts \in Text, NEW i \in Places(ts), Tok(ts, i) # "EOF"
    PROVE  i \in 1 .. Len(ts) /\ ts[i] = Tok(ts, i) /\ i + 1 \in Places(ts)
  BY DEF Text, Places, Tok

LEMMA ReadsError ==
    ASSUME NEW ts, NEW i, NEW V, NEW S, NEW j \in i .. Len(ts) + 1
    PROVE  Reads(ts, Err(j), i, V, S)
  BY DEF Reads

LEMMA ReadsMore ==
    ASSUME NEW ts, NEW i, NEW r, NEW V, NEW W, NEW S, Reads(ts, r, i, V, S), V \subseteq W
    PROVE  Reads(ts, r, i, W, S)
  BY DEF Reads

LEMMA ReadsValue ==
    ASSUME NEW ts, NEW i, NEW V, NEW S, NEW j \in i .. Len(ts) + 1, NEW v \in V, Only(ts, i, j, S)
    PROVE  Reads(ts, Ok(j, v), i, V, S)
  BY DEF Reads

LEMMA OnlySplit ==
    ASSUME NEW ts, NEW i \in Int, NEW j \in Int, NEW k \in Int, NEW S, NEW T,
           Only(ts, i, j, S), Only(ts, j, k, T)
    PROVE  Only(ts, i, k, S \cup T)
  BY DEF Only

LEMMA OnlyOne ==
    ASSUME NEW ts, NEW i \in Int, NEW S, ts[i] \notin Marks \/ ts[i] \in S
    PROVE  Only(ts, i, i + 1, S)
  BY DEF Only

(* What is read after quiet tokens.                                        *)
LEMMA ReadsLater ==
    ASSUME NEW ts \in Text, NEW i \in Nat, NEW j \in i .. Len(ts) + 1, NEW r, NEW V, NEW S, Only(ts, i, j, S),
           Reads(ts, r, j, V, S)
    PROVE  Reads(ts, r, i, V, S)
  <1>0. Len(ts) \in Nat
    BY DEF Text
  <1>1. CASE \E k \in j .. Len(ts) + 1 : r = Err(k)
    BY <1>0, <1>1 DEF Reads
  <1>2. CASE \E k \in j .. Len(ts) + 1, v \in V : r = Ok(k, v) /\ Only(ts, j, k, S)
    <2>1. PICK k \in j .. Len(ts) + 1, v \in V : r = Ok(k, v) /\ Only(ts, j, k, S)
      BY <1>2
    <2>2. Only(ts, i, k, S)
      BY <1>0, <2>1 DEF Only
    <2> QED
      BY <1>0, <2>1, <2>2 DEF Reads
  <1> QED
    BY <1>1, <1>2 DEF Reads

LEMMA ReadsParts ==
    ASSUME NEW ts \in Text, NEW i \in Places(ts), NEW r, NEW V, NEW S, Reads(ts, r, i, V, S)
    PROVE  /\ r.ok \in BOOLEAN /\ r.at \in Places(ts) /\ i <= r.at
           /\ r.ok => r.val \in V /\ r = Ok(r.at, r.val) /\ Only(ts, i, r.at, S)
           /\ ~r.ok => r = Err(r.at)
  <1>0. Len(ts) \in Nat /\ i \in Nat /\ i >= 1
    BY DEF Text, Places
  <1>1. CASE \E k \in i .. Len(ts) + 1 : r = Err(k)
    <2>1. PICK k \in i .. Len(ts) + 1 : r = Err(k)
      BY <1>1
    <2>2. r.at = k /\ r.ok = FALSE
      BY <2>1 DEF Err
    <2>3. k \in Places(ts) /\ i <= k
      BY <1>0 DEF Places
    <2> QED
      BY <2>1, <2>2, <2>3
  <1>2. CASE \E k \in i .. Len(ts) + 1, v \in V : r = Ok(k, v) /\ Only(ts, i, k, S)
    <2>1. PICK k \in i .. Len(ts) + 1, v \in V : r = Ok(k, v) /\ Only(ts, i, k, S)
      BY <1>2
    <2>2. r.at = k /\ r.ok = TRUE /\ r.val = v
      BY <2>1 DEF Ok
    <2>3. k \in Places(ts) /\ i <= k
      BY <1>0 DEF Places
    <2> QED
      BY <2>1, <2>2, <2>3
  <1> QED
    BY <1>1, <1>2 DEF Reads

(* r, and s after it if r is a value: s begins where r ends.               *)
LEMMA ReadsThen ==
    ASSUME NEW ts \in Text, NEW i \in Places(ts), NEW r, NEW s, NEW V, NEW W, NEW S, Reads(ts, r, i, V, S),
           ~r.ok => s = r, r.ok => Reads(ts, s, r.at, W, S)
    PROVE  Reads(ts, s, i, W, S)
  <1>1. /\ r.ok \in BOOLEAN /\ r.at \in Places(ts) /\ i <= r.at
        /\ r.ok => Only(ts, i, r.at, S)
        /\ ~r.ok => r = Err(r.at)
    BY ReadsParts
  <1>2. Len(ts) \in Nat /\ i \in Nat /\ r.at \in i .. Len(ts) + 1
    BY <1>1 DEF Text, Places
  <1>3. CASE r.ok
    BY <1>1, <1>2, <1>3, ReadsLater
  <1>4. CASE ~r.ok
    BY <1>1, <1>2, <1>4, ReadsError
  <1> QED
    BY <1>1, <1>3, <1>4

(* A single token that is no mark, or one of S.                            *)
LEMMA TokenIsOnly ==
    ASSUME NEW ts \in Text, NEW i \in Places(ts), NEW S, Tok(ts, i) # "EOF",
           Tok(ts, i) \notin Marks \/ Tok(ts, i) \in S
    PROVE  /\ i \in 1 .. Len(ts) /\ ts[i] = Tok(ts, i)
           /\ i + 1 \in i .. Len(ts) + 1 /\ i + 1 \in Places(ts) /\ Only(ts, i, i + 1, S)
  <1>1. i \in 1 .. Len(ts) /\ ts[i] = Tok(ts, i) /\ i + 1 \in Places(ts)
    BY TokenIsThere
  <1>2. Len(ts) \in Nat /\ i \in Nat /\ i \in Int /\ i + 1 \in i .. Len(ts) + 1
    BY <1>1 DEF Text, Places
  <1>3. Only(ts, i, i + 1, S)
    BY <1>1, <1>2, OnlyOne
  <1> QED
    BY <1>1, <1>2, <1>3

(* Names and literals are no marks.                                        *)
LEMMA NameIsOnly ==
    ASSUME NEW ts \in Text, NEW i \in Places(ts), NEW S, Tok(ts, i) \in Identifiers \cup DOMAIN LiteralOf
    PROVE  /\ i \in 1 .. Len(ts) /\ ts[i] = Tok(ts, i)
           /\ i + 1 \in i .. Len(ts) + 1 /\ i + 1 \in Places(ts) /\ Only(ts, i, i + 1, S)
  <1>1. Tok(ts, i) \notin Reserved
    BY LanguageAssumption
  <1>2. "EOF" \in Reserved /\ Marks \subseteq Reserved
    BY DEF Reserved, Marks
  <1> QED
    BY <1>1, <1>2, TokenIsOnly

LEMMA PlaceIsReached ==
    ASSUME NEW ts \in Text, NEW i \in Places(ts)
    PROVE  i \in Nat /\ i \in Int /\ Len(ts) \in Nat /\ i \in i .. Len(ts) + 1 /\ \A S : Only(ts, i, i, S)
  BY DEF Text, Places, Only

LEMMA ReadsNothing ==
    ASSUME NEW ts \in Text, NEW i \in Places(ts), NEW V, NEW S, NEW v \in V
    PROVE  Reads(ts, Ok(i, v), i, V, S) /\ Reads(ts, Err(i), i, V, S)
  BY PlaceIsReached, ReadsValue, ReadsError

LEMMA ReadsRefused ==
    ASSUME NEW ts \in Text, NEW i \in Places(ts), NEW V, NEW S
    PROVE  Reads(ts, Err(i), i, V, S)
  BY PlaceIsReached, ReadsError

(* One token and a value of which it is the whole text.                    *)
LEMMA ReadsToken ==
    ASSUME NEW ts \in Text, NEW i \in Places(ts), NEW V, NEW S, Tok(ts, i) # "EOF",
           Tok(ts, i) \notin Marks \/ Tok(ts, i) \in S
    PROVE  /\ \A v \in V : Reads(ts, Ok(i + 1, v), i, V, S)
           /\ \A r : Reads(ts, r, i + 1, V, S) => Reads(ts, r, i, V, S)
  BY TokenIsOnly, ReadsValue, ReadsLater, PlaceIsReached

LEMMA ReadsConsume ==
    ASSUME NEW ts \in Text, NEW i \in Places(ts), NEW V, NEW S, NEW v \in V, NEW t,
           t # "EOF", t \notin Marks \/ t \in S
    PROVE  Reads(ts, Consume(ts, i, t, v), i, V, S)
  BY ReadsToken, ReadsRefused DEF Consume

-----------------------------------------------------------------------------
(* Paths, literals, operands *)

Path == Seq(Identifiers)
Literal == [kind : LiteralKinds, value : Int \cup {None}]
RangeOfTwo == [kind : {"range"}, start : Literal, end : Literal]
Constraint == [kind : {"constraint"}, operator : ComparisonTokens, value : Literal]
Compound == [kind : {"compound"}, constraints : Seq(Constraint)]
Element == Literal \cup RangeOfTwo \cup Constraint \cup Compound
ValueSet == [kind : {"set"}, elements : Seq(Element)]
LEMMA ReadsLiteral ==
    ASSUME NEW ts \in Text, NEW i \in Places(ts)
    PROVE  Reads(ts, ParseLiteral(ts, i), i, Literal, {})
  <1>1. CASE Tok(ts, i) \in DOMAIN LiteralOf
    <2>1. LiteralOf[Tok(ts, i)] \in Literal
      BY <1>1, LanguageAssumption DEF Literal
    <2> QED
      BY <1>1, <2>1, NameIsOnly, ReadsValue DEF ParseLiteral
  <1>2. CASE Tok(ts, i) \notin DOMAIN LiteralOf
    BY <1>2, ReadsRefused DEF ParseLiteral
  <1> QED
    BY <1>1, <1>2

LEMMA ReadsLiteralOrRange ==
    ASSUME NEW ts \in Text, NEW i \in Places(ts)
    PROVE  Reads(ts, ParseLiteralOrRange(ts, i), i, Literal \cup RangeOfTwo, {})
  <1> DEFINE a == ParseLiteral(ts, i)
             j == a.at
             b == ParseLiteral(ts, j + 1)
             V == Literal \cup RangeOfTwo
             whole == IF b.ok THEN Ok(b.at, [kind |-> "range", start |-> a.val, end |-> b.val]) ELSE b
             r == IF Tok(ts, j) # ".." THEN Ok(j, a.val) ELSE whole
  <1>1. ParseLiteralOrRange(ts, i) = IF a.ok THEN r ELSE a
    BY DEF ParseLiteralOrRange, Then
  <1>2. ASSUME a.ok PROVE Reads(ts, r, j, V, {})
    <2>1. j \in Places(ts) /\ a.val \in Literal
      BY <1>2, ReadsLiteral, ReadsParts
    <2>2. CASE Tok(ts, j) # ".."
      BY <2>1, <2>2, ReadsNothing
    <2>3. CASE Tok(ts, j) = ".."
      <3>1. Tok(ts, j) # "EOF" /\ Tok(ts, j) \notin Marks
        BY <2>3 DEF Marks
      <3>2. j + 1 \in Places(ts)
        BY <2>1, <3>1, TokenIsThere
      <3>3. Reads(ts, b, j + 1, Literal, {})
        BY <3>2, ReadsLiteral
      <3>4. ASSUME b.ok PROVE Reads(ts, whole, b.at, V, {})
        <4>1. b.at \in Places(ts) /\ b.val \in Literal
          BY <3>2, <3>3, <3>4, ReadsParts
        <4>2. [kind |-> "range", start |-> a.val, end |-> b.val] \in V
          BY <2>1, <4>1 DEF RangeOfTwo
        <4> QED
          BY <3>4, <4>1, <4>2, ReadsNothing
      <3> HIDE DEF b, V
      <3>5. Reads(ts, whole, j + 1, V, {})
        BY <3>2, <3>3, <3>4, ReadsThen
      <3> QED
        BY <2>1, <2>3, <3>1, <3>5, ReadsToken
    <2> QED
      BY <2>2, <2>3
  <1> HIDE DEF a, r
  <1> QED
    BY <1>1, <1>2, ReadsLiteral, ReadsThen DEF a

(* A set of numbers has a least one.                                       *)
LEMMA LeastNumber ==
  ASSUME NEW T, T \subseteq Nat, T # {}
  PROVE  \E n \in T : \A k \in T : n <= k
<1>1. \E n \in T : \A k \in T : ~ (<<k, n>> \in OpToRel(<, Nat))
  BY NatLessThanWellFounded, WFMin
<1>2. PICK n \in T : \A k \in T : ~ (<<k, n>> \in OpToRel(<, Nat))
  BY <1>1
<1>3. ASSUME NEW k \in T PROVE n <= k
  <2>1. k < n => <<k, n>> \in OpToRel(<, Nat)
    BY Zenon DEF OpToRel
  <2>2. ~ (k < n)
    BY <1>2, <2>1
  <2>. QED  BY <2>2
<1>. QED  BY <1>3

(* The last of the rounds that come one after the other: P has the rounds. *)
LEMMA LastRound ==
    ASSUME NEW N \in Nat, NEW P, N + 1 \notin P
    PROVE  \E n \in 0 .. N : (\A m \in 1 .. n : m \in P) /\ n + 1 \notin P
  <1> DEFINE T == {n \in Nat : n + 1 \notin P}
  <1>1. PICK n \in T : \A k \in T : n <= k
    <2>1. N \in T /\ T \subseteq Nat
      OBVIOUS
    <2> HIDE DEF T
    <2> QED
      BY <2>1, LeastNumber
  <1>2. n \in 0 .. N
    BY <1>1
  <1>3. ASSUME NEW m \in 1 .. n PROVE m \in P
    <2>1. m - 1 \in Nat /\ m - 1 < n /\ m - 1 + 1 = m
      BY <1>1
    <2> QED
      BY <1>1, <2>1
  <1> QED
    BY <1>1, <1>2, <1>3

LEMMA ReadsFieldPath ==
    ASSUME NEW ts \in Text, NEW i \in Places(ts)
    PROVE  /\ Reads(ts, ParseFieldPath(ts, i), i, Path, {})
           /\ ParseFieldPath(ts, i).ok => ParseFieldPath(ts, i).at > i
  <1> DEFINE segment(n) == Tok(ts, i + 2 * n - 1) = "." /\ Tok(ts, i + 2 * n) \in Identifiers
             Last(n) == (\A m \in 1 .. n : segment(m)) /\ ~segment(n + 1)
             last == CHOOSE n \in 0 .. Len(ts) : Last(n)
             j == i + 2 * last + 1
             path == [n \in 1 .. last + 1 |-> ts[i + 2 * n - 2]]
  <1>0. i \in Nat /\ i >= 1 /\ i <= Len(ts) + 1 /\ Len(ts) \in Nat
    BY DEF Places, Text
  <1>1. \E n \in 0 .. Len(ts) : Last(n)
    <2> DEFINE P == {n \in Nat : segment(n)}
    <2>1. Tok(ts, i + 2 * (Len(ts) + 1) - 1) = "EOF"
      BY <1>0 DEF Tok
    <2>2. Len(ts) + 1 \notin P
      BY <2>1
    <2>3. PICK n \in 0 .. Len(ts) : (\A m \in 1 .. n : m \in P) /\ n + 1 \notin P
      <3> HIDE DEF P
      <3> QED
        BY <1>0, <2>2, LastRound
    <2>4. n + 1 \in Nat
      BY <1>0
    <2>5. Last(n)
      BY <2>3, <2>4
    <2> QED
      BY <2>5
  <1>2. last \in 0 .. Len(ts) /\ Last(last)
    BY <1>1
  <1> HIDE DEF last
  <1>3. ParseFieldPath(ts, i) = IF Tok(ts, i) \notin Identifiers THEN Err(i)
                                ELSE IF Tok(ts, j) = "." THEN Err(j + 1)
                                ELSE Ok(j, path)
    BY DEF ParseFieldPath, last
  <1>4. CASE Tok(ts, i) \notin Identifiers
    BY <1>3, <1>4, ReadsRefused DEF Err
  <1>5. CASE Tok(ts, i) \in Identifiers
    <2>1. ASSUME NEW n \in 0 .. last
          PROVE  /\ i + 2 * n \in 1 .. Len(ts) /\ ts[i + 2 * n] \in Identifiers /\ ts[i + 2 * n] \notin Marks
                 /\ n # 0 => ts[i + 2 * n - 1] = "."
      <3>1. Tok(ts, i + 2 * n) \in Identifiers /\ (n # 0 => Tok(ts, i + 2 * n - 1) = ".")
        <4>1. CASE n = 0
          BY <1>0, <1>5, <4>1
        <4>2. CASE n # 0
          <5>1. n \in 1 .. last
            BY <1>2, <4>2
          <5> QED
            BY <1>2, <5>1
        <4> QED
          BY <4>1, <4>2
      <3>2. Tok(ts, i + 2 * n) # "EOF" /\ Tok(ts, i + 2 * n) \notin Marks
        <4>1. Tok(ts, i + 2 * n) \notin Reserved
          BY <3>1, LanguageAssumption
        <4> QED
          BY <4>1 DEF Reserved, Marks
      <3>3. i + 2 * n <= Len(ts) /\ ts[i + 2 * n] = Tok(ts, i + 2 * n)
        BY <1>0, <1>2, <3>2 DEF Tok
      <3>4. n # 0 => ts[i + 2 * n - 1] = Tok(ts, i + 2 * n - 1)
        BY <1>0, <1>2, <3>3 DEF Tok
      <3> QED
        BY <1>0, <1>2, <3>1, <3>2, <3>3, <3>4
    <2>2. j - 1 \in 1 .. Len(ts) /\ j \in Places(ts) /\ j \in i .. Len(ts) + 1
      BY <1>0, <1>2, <2>1 DEF Places
    <2>3. Only(ts, i, j, {})
      <3> SUFFICES ASSUME NEW k \in i .. j - 1 PROVE ts[k] \notin Marks
        BY DEF Only
      <3>1. \E n \in 0 .. last : k = i + 2 * n \/ (n # 0 /\ k = i + 2 * n - 1)
        <4>1. k - i \in 0 .. 2 * last
          BY <1>0, <1>2
        <4>2. (k - i + 1) \div 2 \in 0 .. last
          BY <1>2, <4>1
        <4>3. LET n == (k - i + 1) \div 2 IN k = i + 2 * n \/ (n # 0 /\ k = i + 2 * n - 1)
          BY <1>0, <4>1
        <4> QED
          BY <4>2, <4>3
      <3> QED
        BY <2>1, <3>1 DEF Marks
    <2>4. path \in Path
      <3>1. ASSUME NEW n \in 1 .. last + 1 PROVE ts[i + 2 * n - 2] \in Identifiers
        <4>1. n - 1 \in 0 .. last /\ i + 2 * (n - 1) = i + 2 * n - 2
          BY <1>0, <1>2
        <4> QED
          BY <2>1, <4>1
      <3>2. last + 1 \in Nat
        BY <1>2
      <3> HIDE DEF j
      <3> QED
        BY <3>1, <3>2 DEF Path
    <2>5. CASE Tok(ts, j) = "."
      <3>1. j + 1 \in i .. Len(ts) + 1
        BY <1>0, <2>2, <2>5 DEF Tok
      <3> QED
        BY <1>3, <1>5, <2>5, <3>1, ReadsError DEF Err
    <2>6. CASE Tok(ts, j) # "."
      <3>1. ParseFieldPath(ts, i) = Ok(j, path) /\ j > i
        BY <1>0, <1>2, <1>3, <1>5, <2>6
      <3> HIDE DEF j, path
      <3> QED
        BY <2>2, <2>3, <2>4, <3>1, ReadsValue DEF Ok
    <2> QED
      BY <2>5, <2>6
  <1> QED
    BY <1>4, <1>5

LEMMA ReadsComparisonConstraint ==
    ASSUME NEW ts \in Text, NEW i \in Places(ts)
    PROVE  Reads(ts, ParseComparisonConstraint(ts, i), i, Constraint, {})
  <1> DEFINE c == ParseComparisonConstraint(ts, i)
             v == ParseLiteral(ts, i + 1)
             r == IF v.ok THEN Ok(v.at, [kind |-> "constraint", operator |-> Tok(ts, i), value |-> v.val]) ELSE v
  <1>1. CASE Tok(ts, i) \notin ComparisonTokens
    BY <1>1, ReadsRefused DEF ParseComparisonConstraint
  <1>2. CASE Tok(ts, i) \in ComparisonTokens
    <2>1. Tok(ts, i) # "EOF" /\ Tok(ts, i) \notin Marks
      BY <1>2 DEF ComparisonTokens, Marks
    <2>2. i + 1 \in Places(ts)
      BY <2>1, TokenIsThere
    <2>3. c = r
      BY <1>2 DEF ParseComparisonConstraint, Then
    <2>4. ASSUME v.ok PROVE Reads(ts, r, v.at, Constraint, {})
      <3>1. v.at \in Places(ts) /\ v.val \in Literal
        BY <2>2, <2>4, ReadsLiteral, ReadsParts
      <3>2. [kind |-> "constraint", operator |-> Tok(ts, i), value |-> v.val] \in Constraint
        BY <1>2, <3>1 DEF Constraint
      <3> QED
        BY <2>4, <3>1, <3>2, ReadsNothing
    <2> HIDE DEF v
    <2>5. Reads(ts, r, i + 1, Constraint, {})
      BY <2>2, <2>4, ReadsLiteral, ReadsThen DEF v
    <2> QED
      BY <2>1, <2>3, <2>5, ReadsToken
  <1> QED
    BY <1>1, <1>2

(* A constraint is a comparison and a literal.                             *)
LEMMA ConstraintIsTwo ==
    ASSUME NEW ts \in Text, NEW i \in Places(ts), ParseComparisonConstraint(ts, i).ok
    PROVE  /\ i + 2 \in i .. Len(ts) + 1 /\ i + 2 \in Places(ts) /\ Only(ts, i, i + 2, {})
           /\ ParseComparisonConstraint(ts, i).at = i + 2
           /\ ParseComparisonConstraint(ts, i).val \in Constraint
  <1> DEFINE c == ParseComparisonConstraint(ts, i)
             v == ParseLiteral(ts, i + 1)
  <1>1. Tok(ts, i) \in ComparisonTokens
    BY DEF ParseComparisonConstraint, Err
  <1>2. Tok(ts, i) # "EOF" /\ Tok(ts, i) \notin Marks
    BY <1>1 DEF ComparisonTokens, Marks
  <1>3. i + 1 \in Places(ts) /\ i \in 1 .. Len(ts) /\ Len(ts) \in Nat
    BY <1>2, TokenIsThere, PlaceIsReached
  <1>4. v.ok /\ c.at = v.at
    <2>1. c = IF v.ok THEN Ok(v.at, [kind |-> "constraint", operator |-> Tok(ts, i), value |-> v.val]) ELSE v
      BY <1>1 DEF ParseComparisonConstraint, Then
    <2>2. v.ok \in BOOLEAN
      BY <1>3, ReadsLiteral, ReadsParts
    <2> HIDE DEF v
    <2>3. v.ok
      BY <2>1, <2>2
    <2> QED
      BY <2>1, <2>3 DEF Ok
  <1>5. v.at = i + 2
    <2>1. Tok(ts, i + 1) \in DOMAIN LiteralOf
      BY <1>4 DEF ParseLiteral, Err
    <2> QED
      BY <1>3, <2>1 DEF ParseLiteral, Ok
  <1>6. c.ok /\ Reads(ts, c, i, Constraint, {}) /\ c.at = i + 2
    BY <1>4, <1>5, ReadsComparisonConstraint
  <1> HIDE DEF c
  <1>7. i + 2 \in Places(ts) /\ Only(ts, i, i + 2, {}) /\ c.val \in Constraint
    BY <1>6, ReadsParts
  <1> QED
    BY <1>3, <1>6, <1>7 DEF c, Places

LEMMA ReadsValueSetElement ==
    ASSUME NEW ts \in Text, NEW i \in Places(ts)
    PROVE  Reads(ts, ParseValueSetElement(ts, i), i, Element, {})
  <1> DEFINE at(n) == i + 3 * n
             c(n) == ParseComparisonConstraint(ts, at(n))
             segment(n) == Tok(ts, i + 3 * n - 1) = "&" /\ ParseComparisonConstraint(ts, i + 3 * n).ok
             Last(n) == (\A m \in 1 .. n : segment(m)) /\ ~segment(n + 1)
             last == CHOOSE n \in 0 .. Len(ts) : Last(n)
             j == i + 3 * last + 2
             first == ParseComparisonConstraint(ts, i)
             all == [n \in 1 .. last + 1 |-> ParseComparisonConstraint(ts, i + 3 * n - 3).val]
             r == IF Tok(ts, j) = "&" THEN ParseComparisonConstraint(ts, j + 1)
                  ELSE IF last = 0 THEN Ok(j, first.val)
                  ELSE Ok(j, [kind |-> "compound", constraints |-> all])
  <1>0. i \in Nat /\ i >= 1 /\ i <= Len(ts) + 1 /\ Len(ts) \in Nat
    BY DEF Places, Text
  <1>1. \E n \in 0 .. Len(ts) : Last(n)
    <2> DEFINE P == {n \in Nat : segment(n)}
    <2>1. Tok(ts, i + 3 * (Len(ts) + 1) - 1) = "EOF"
      BY <1>0 DEF Tok
    <2>2. Len(ts) + 1 \notin P
      BY <2>1
    <2>3. PICK n \in 0 .. Len(ts) : (\A m \in 1 .. n : m \in P) /\ n + 1 \notin P
      <3> HIDE DEF P
      <3> QED
        BY <1>0, <2>2, LastRound
    <2>4. n + 1 \in Nat
      BY <1>0
    <2>5. Last(n)
      BY <2>3, <2>4
    <2> QED
      BY <2>5
  <1>2. last \in 0 .. Len(ts) /\ Last(last)
    BY <1>1
  <1> HIDE DEF last
  <1>3. ParseValueSetElement(ts, i) = IF Tok(ts, i) \notin ComparisonTokens THEN ParseLiteralOrRange(ts, i)
                                      ELSE IF first.ok THEN r ELSE first
    BY DEF ParseValueSetElement, Then, last
  <1>4. CASE Tok(ts, i) \notin ComparisonTokens
    <2>1. Reads(ts, ParseLiteralOrRange(ts, i), i, Literal \cup RangeOfTwo, {})
      BY ReadsLiteralOrRange
    <2>2. Literal \cup RangeOfTwo \subseteq Element
      BY DEF Element
    <2>3. ParseValueSetElement(ts, i) = ParseLiteralOrRange(ts, i)
      BY <1>3, <1>4
    <2> QED
      BY <2>1, <2>2, <2>3, ReadsMore
  <1>5. CASE Tok(ts, i) \in ComparisonTokens /\ ~first.ok
    <2>1. ParseValueSetElement(ts, i) = first
      BY <1>3, <1>5
    <2>2. Constraint \subseteq Element
      BY DEF Element
    <2> QED
      BY <2>1, <2>2, ReadsComparisonConstraint, ReadsMore
  <1>6. CASE Tok(ts, i) \in ComparisonTokens /\ first.ok
    <2>1. ASSUME NEW n \in 0 .. last
          PROVE  /\ c(n).val \in Constraint /\ at(n) + 2 \in i .. Len(ts) + 1
                 /\ ts[at(n)] \notin Marks /\ ts[at(n) + 1] \notin Marks
                 /\ n # 0 => ts[at(n) - 1] = "&"
      <3>1. c(n).ok /\ (n # 0 => Tok(ts, at(n) - 1) = "&")
        <4>1. CASE n = 0
          BY <1>0, <1>6, <4>1
        <4>2. CASE n # 0
          <5>1. n \in 1 .. last
            BY <1>2, <4>2
          <5>2. \A m \in 1 .. last : segment(m)
            BY <1>2
          <5>3. segment(n)
            BY <5>1, <5>2
          <5>4. i + 3 * n - 1 = at(n) - 1
            BY <1>0, <1>2
          <5> QED
            BY <5>3, <5>4
        <4> QED
          BY <4>1, <4>2
      <3>2. at(n) \in Places(ts)
        <4>1. Tok(ts, at(n)) \in ComparisonTokens
          BY <3>1 DEF ParseComparisonConstraint, Err
        <4>2. Tok(ts, at(n)) # "EOF"
          BY <4>1 DEF ComparisonTokens
        <4> QED
          BY <1>0, <1>2, <4>2 DEF Tok, Places
      <3>3. /\ at(n) + 2 \in at(n) .. Len(ts) + 1 /\ Only(ts, at(n), at(n) + 2, {}) /\ c(n).val \in Constraint
        BY <3>1, <3>2, ConstraintIsTwo
      <3>4. n # 0 => ts[at(n) - 1] = "&"
        BY <1>0, <1>2, <3>1, <3>3 DEF Tok
      <3>5. ts[at(n)] \notin Marks /\ ts[at(n) + 1] \notin Marks
        BY <1>0, <1>2, <3>3 DEF Only
      <3> QED
        BY <1>0, <1>2, <3>3, <3>4, <3>5
    <2>2. j \in i .. Len(ts) + 1 /\ j \in Places(ts)
      BY <1>0, <1>2, <2>1 DEF Places
    <2>3. Only(ts, i, j, {})
      <3> SUFFICES ASSUME NEW k \in i .. j - 1 PROVE ts[k] \notin Marks
        BY DEF Only
      <3>1. \E n \in 0 .. last : k = at(n) \/ k = at(n) + 1 \/ (n # 0 /\ k = at(n) - 1)
        <4>1. k - i \in 0 .. 3 * last + 1
          BY <1>0, <1>2
        <4>2. (k - i + 1) \div 3 \in 0 .. last
          BY <1>2, <4>1
        <4>3. LET n == (k - i + 1) \div 3 IN k = at(n) \/ k = at(n) + 1 \/ (n # 0 /\ k = at(n) - 1)
          BY <1>0, <4>1
        <4> QED
          BY <4>2, <4>3
      <3> QED
        BY <2>1, <3>1 DEF Marks
    <2>4. all \in Seq(Constraint) /\ first.val \in Constraint
      <3>1. ASSUME NEW n \in 1 .. last + 1 PROVE ParseComparisonConstraint(ts, i + 3 * n - 3).val \in Constraint
        <4>1. n - 1 \in 0 .. last /\ i + 3 * (n - 1) = i + 3 * n - 3
          BY <1>0, <1>2
        <4> QED
          BY <2>1, <4>1
      <3>2. last + 1 \in Nat
        BY <1>2
      <3>3. first.val \in Constraint
        BY <1>6, ConstraintIsTwo
      <3> HIDE DEF j, first
      <3> QED
        BY <3>1, <3>2, <3>3
    <2>5. ParseValueSetElement(ts, i) = r
      BY <1>3, <1>6
    <2>6. CASE Tok(ts, j) = "&"
      <3>1. j + 1 \in Places(ts) /\ j + 1 \in i .. Len(ts) + 1
        BY <1>0, <2>2, <2>6 DEF Tok, Places
      <3>2. Only(ts, i, j + 1, {})
        <4>1. ts[j] = "&"
          BY <1>0, <2>2, <2>6 DEF Tok
        <4>2. j \in Int
          BY <1>0, <2>2
        <4> HIDE DEF j
        <4>3. Only(ts, j, j + 1, {})
          BY <4>1, <4>2, OnlyOne DEF Marks
        <4> QED
          BY <1>0, <2>2, <2>3, <4>2, <4>3 DEF Only
      <3>3. Constraint \subseteq Element
        BY DEF Element
      <3> HIDE DEF j
      <3>4. Reads(ts, ParseComparisonConstraint(ts, j + 1), i, Constraint, {})
        BY <1>0, <3>1, <3>2, ReadsComparisonConstraint, ReadsLater
      <3> QED
        BY <2>5, <2>6, <3>3, <3>4, ReadsMore
    <2>7. CASE Tok(ts, j) # "&"
      <3>1. first.val \in Element /\ [kind |-> "compound", constraints |-> all] \in Element
        BY <2>4 DEF Element, Compound
      <3> HIDE DEF all, j, first
      <3> QED
        BY <2>2, <2>3, <2>5, <2>7, <3>1, ReadsValue
    <2> QED
      BY <2>6, <2>7
  <1>7. first.ok \in BOOLEAN
    BY ReadsComparisonConstraint, ReadsParts
  <1> QED
    BY <1>4, <1>5, <1>6, <1>7

-----------------------------------------------------------------------------
(* Counting tokens *)

\* How often the token t is between i and j.
Times(ts, t, i, j) == Cardinality({k \in i .. j - 1 : ts[k] = t})

LEMMA TimesSplit ==
    ASSUME NEW ts, NEW t, NEW i \in Int, NEW j \in Int, NEW k \in Int, i <= j, j <= k
    PROVE  /\ Times(ts, t, i, j) \in Nat /\ Times(ts, t, j, k) \in Nat
           /\ Times(ts, t, i, k) = Times(ts, t, i, j) + Times(ts, t, j, k)
  <1> DEFINE A == {l \in i .. j - 1 : ts[l] = t}
             B == {l \in j .. k - 1 : ts[l] = t}
             C == {l \in i .. k - 1 : ts[l] = t}
  <1>1. IsFiniteSet(A) /\ IsFiniteSet(B)
    <2>1. IsFiniteSet(i .. j - 1) /\ IsFiniteSet(j .. k - 1) /\ A \subseteq i .. j - 1 /\ B \subseteq j .. k - 1
      BY FS_Interval
    <2> HIDE DEF A, B
    <2> QED
      BY <2>1, FS_Subset
  <1>2. C = A \cup B /\ A \cap B = {}
    OBVIOUS
  <1> HIDE DEF A, B, C
  <1>3. Cardinality(A) \in Nat /\ Cardinality(B) \in Nat /\ Cardinality(A \cap B) = 0
    BY <1>1, <1>2, FS_CardinalityType, FS_EmptySet
  <1>4. Cardinality(C) = Cardinality(A) + Cardinality(B)
    <2>1. Cardinality(A \cup B) = Cardinality(A) + Cardinality(B) - Cardinality(A \cap B)
      BY <1>1, FS_Union
    <2> QED
      BY <1>2, <1>3, <2>1
  <1> QED
    BY <1>3, <1>4 DEF Times, A, B, C

LEMMA TimesNone ==
    ASSUME NEW ts, NEW t, NEW i, NEW j, \A k \in i .. j - 1 : ts[k] # t
    PROVE  Times(ts, t, i, j) = 0
  <1>1. {k \in i .. j - 1 : ts[k] = t} = {}
    OBVIOUS
  <1> QED
    BY <1>1, FS_EmptySet DEF Times

LEMMA TimesOnly ==
    ASSUME NEW ts, NEW t \in Marks, NEW i, NEW j, NEW S, Only(ts, i, j, S), t \notin S
    PROVE  Times(ts, t, i, j) = 0
  BY TimesNone DEF Only

LEMMA TimesOne ==
    ASSUME NEW ts, NEW t, NEW i \in Int
    PROVE  Times(ts, t, i, i + 1) = IF ts[i] = t THEN 1 ELSE 0
  <1>1. CASE ts[i] = t
    <2>1. {k \in i .. i + 1 - 1 : ts[k] = t} = {i}
      BY <1>1
    <2>2. Cardinality({i}) = 1
      BY FS_Singleton
    <2> QED
      BY <1>1, <2>1, <2>2 DEF Times
  <1>2. CASE ts[i] # t
    <2>1. \A k \in i .. i + 1 - 1 : ts[k] # t
      BY <1>2
    <2> QED
      BY <1>2, <2>1, TimesNone
  <1> QED
    BY <1>1, <1>2

LEMMA TimesFound ==
    ASSUME NEW ts, NEW t, NEW i \in Int, NEW j \in Int
    PROVE  /\ Times(ts, t, i, j) \in Nat
           /\ Times(ts, t, i, j) = 0 <=> \A k \in i .. j - 1 : ts[k] # t
  <1> DEFINE A == {k \in i .. j - 1 : ts[k] = t}
  <1>1. IsFiniteSet(A)
    <2>1. IsFiniteSet(i .. j - 1) /\ A \subseteq i .. j - 1
      BY FS_Interval
    <2> HIDE DEF A
    <2> QED
      BY <2>1, FS_Subset
  <1>2. A = {} <=> \A k \in i .. j - 1 : ts[k] # t
    OBVIOUS
  <1> HIDE DEF A
  <1>3. Cardinality(A) \in Nat /\ (Cardinality(A) = 0 <=> A = {})
    BY <1>1, FS_CardinalityType, FS_EmptySet
  <1> QED
    BY <1>2, <1>3 DEF Times, A

-----------------------------------------------------------------------------
(* Items *)

Kinds == {"element", "sort", "selection", "assignment", "unique", "record"}
SortClause == [field : Path, direction : {"ASC", "DESC"}]
Selection == [path : Path, alias : Identifiers \cup {None}]
Assignment == [field : Path, value : Literal]

Items(kind) ==
    CASE kind = "element" -> Element
      [] kind = "sort" -> SortClause
      [] kind = "selection" -> Selection
      [] kind \in {"assignment", "unique"} -> Assignment
      [] kind = "record" -> Seq(Assignment)

\* The mark that an item may have, and how often it has it.
Mark(kind) == IF kind = "selection" THEN "AS" ELSE ":"
Allowed(kind) == IF kind \in {"element", "sort"} THEN {} ELSE {Mark(kind)}
Weight(kind, x) ==
    CASE kind \in {"element", "sort"} -> 0
      [] kind = "selection" -> IF x.alias = None THEN 0 ELSE 1
      [] kind \in {"assignment", "unique"} -> 1
      [] kind = "record" -> Len(x)

\* r reads an item with its marks.
ReadsItem(kind, ts, r, i) ==
    /\ Reads(ts, r, i, Items(kind), Allowed(kind))
    /\ r.ok => Times(ts, Mark(kind), i, r.at) = Weight(kind, r.val)

LEMMA ReadsSortClause ==
    ASSUME NEW ts \in Text, NEW i \in Places(ts)
    PROVE  Reads(ts, ParseSortClause(ts, i), i, SortClause, {})
  <1> DEFINE p == ParseFieldPath(ts, i)
             r == IF Tok(ts, p.at) \in {"ASC", "DESC"} THEN Ok(p.at + 1, [field |-> p.val, direction |-> Tok(ts, p.at)])
                  ELSE Err(p.at)
  <1>1. ParseSortClause(ts, i) = IF p.ok THEN r ELSE p
    BY DEF ParseSortClause, Then
  <1>2. ASSUME p.ok PROVE Reads(ts, r, p.at, SortClause, {})
    <2>1. p.at \in Places(ts) /\ p.val \in Path
      BY <1>2, ReadsFieldPath, ReadsParts
    <2> HIDE DEF p
    <2>2. CASE Tok(ts, p.at) \in {"ASC", "DESC"}
      <3>1. Tok(ts, p.at) # "EOF" /\ Tok(ts, p.at) \notin Marks
        BY <2>2 DEF Marks
      <3>2. [field |-> p.val, direction |-> Tok(ts, p.at)] \in SortClause
        BY <2>1, <2>2 DEF SortClause
      <3> QED
        BY <2>1, <2>2, <3>1, <3>2, ReadsToken
    <2>3. CASE Tok(ts, p.at) \notin {"ASC", "DESC"}
      BY <2>1, <2>3, ReadsRefused
    <2> QED
      BY <2>2, <2>3
  <1> HIDE DEF p, r
  <1> QED
    BY <1>1, <1>2, ReadsFieldPath, ReadsThen DEF p

LEMMA ReadsSelection ==
    ASSUME NEW ts \in Text, NEW i \in Places(ts)
    PROVE  ReadsItem("selection", ts, ParseSelection(ts, i), i)
  <1> DEFINE p == ParseFieldPath(ts, i)
             j == p.at
             alias == Tok(ts, j + 1)
             x == ParseSelection(ts, i)
  <1>1. x = IF ~p.ok THEN p
            ELSE IF Tok(ts, j) # "AS" THEN Ok(j, [path |-> p.val, alias |-> None])
            ELSE IF alias \notin Identifiers THEN Err(j + 1)
            ELSE Ok(j + 2, [path |-> p.val, alias |-> alias])
    BY DEF ParseSelection, Then
  <1>2. /\ p.ok \in BOOLEAN /\ j \in Places(ts) /\ i <= j /\ j \in i .. Len(ts) + 1
        /\ p.ok => p.val \in Path /\ Only(ts, i, j, {})
        /\ ~p.ok => p = Err(j)
    BY ReadsFieldPath, ReadsParts, PlaceIsReached DEF Places
  <1>3. i \in Int /\ j \in Int
    BY <1>2, PlaceIsReached
  <1>4. Items("selection") = Selection /\ Allowed("selection") = {"AS"} /\ Mark("selection") = "AS"
    BY DEF Items, Allowed, Mark
  <1>5. \A y : Weight("selection", y) = IF y.alias = None THEN 0 ELSE 1
    BY DEF Weight
  <1> HIDE DEF p, j, x
  <1>6. CASE ~p.ok
    <2>1. x = Err(j) /\ x.ok = FALSE
      BY <1>1, <1>2, <1>6 DEF Err
    <2> QED
      BY <1>2, <1>4, <2>1, ReadsError DEF ReadsItem, x
  <1>7. CASE p.ok /\ Tok(ts, j) # "AS"
    <2> DEFINE v == [path |-> p.val, alias |-> None]
    <2>1. x = Ok(j, v)
      BY <1>1, <1>7
    <2>2. v \in Selection /\ v.alias = None
      BY <1>2, <1>7 DEF Selection
    <2>3. Only(ts, i, j, {"AS"}) /\ Times(ts, "AS", i, j) = 0
      BY <1>2, <1>7, TimesNone DEF Only, Marks
    <2>4. x.at = j /\ x.val = v
      BY <2>1 DEF Ok
    <2> HIDE DEF v
    <2>5. Reads(ts, x, i, Selection, {"AS"})
      BY <1>2, <2>1, <2>2, <2>3, ReadsValue
    <2> QED
      BY <1>4, <1>5, <2>2, <2>3, <2>4, <2>5 DEF ReadsItem, x
  <1>8. CASE p.ok /\ Tok(ts, j) = "AS"
    <2>1. j \in 1 .. Len(ts) /\ ts[j] = "AS" /\ j + 1 \in Places(ts) /\ j + 1 \in j .. Len(ts) + 1
      BY <1>2, <1>8, TokenIsOnly
    <2>2. CASE alias \notin Identifiers
      <3>1. x = Err(j + 1) /\ x.ok = FALSE
        BY <1>1, <1>8, <2>2 DEF Err
      <3>2. j + 1 \in i .. Len(ts) + 1
        BY <1>2, <1>3, <2>1 DEF Places
      <3> QED
        BY <1>4, <3>1, <3>2, ReadsError DEF ReadsItem, x
    <2>3. CASE alias \in Identifiers
      <3> DEFINE v == [path |-> p.val, alias |-> alias]
                 k == j + 2
      <3>1. x = Ok(k, v)
        BY <1>1, <1>8, <2>3
      <3>2. v \in Selection /\ v.alias # None
        BY <1>2, <1>8, <2>3, LanguageAssumption DEF Selection
      <3>3. j + 1 \in 1 .. Len(ts) /\ Only(ts, j + 1, j + 1 + 1, {})
        BY <2>1, <2>3, NameIsOnly
      <3>4. k \in i .. Len(ts) + 1 /\ j + 1 + 1 = k /\ k \in Int /\ j + 1 \in Int /\ j <= j + 1 /\ j + 1 <= k
        BY <1>2, <1>3, <3>3
      <3>5. Only(ts, j, j + 1, {"AS"})
        BY <1>3, <2>1, OnlyOne
      <3> HIDE DEF k, v
      <3>6. Only(ts, i, k, {"AS"})
        BY <1>2, <1>3, <1>8, <3>3, <3>4, <3>5 DEF Only
      <3>7. Times(ts, "AS", i, k) = 1
        <4>1. Times(ts, "AS", i, j) = 0 /\ Times(ts, "AS", j + 1, k) = 0
          BY <1>2, <1>8, <3>3, <3>4, TimesOnly DEF Marks
        <4>2. Times(ts, "AS", j, j + 1) = 1
          BY <1>3, <2>1, TimesOne
        <4>3. Times(ts, "AS", i, j + 1) = 0 + 1
          BY <1>2, <1>3, <3>4, <4>1, <4>2, TimesSplit
        <4>4. Times(ts, "AS", i, k) = 0 + 1 + 0
          BY <1>2, <1>3, <3>4, <4>1, <4>3, TimesSplit
        <4> QED
          BY <4>4
      <3>8. x.at = k /\ x.val = v
        BY <3>1 DEF Ok
      <3>9. Reads(ts, x, i, Selection, {"AS"})
        BY <3>1, <3>2, <3>4, <3>6, ReadsValue
      <3> QED
        BY <1>4, <1>5, <3>2, <3>7, <3>8, <3>9 DEF ReadsItem, x
    <2> QED
      BY <2>2, <2>3
  <1> QED
    BY <1>2, <1>6, <1>7, <1>8
LEMMA ReadsAssignment ==
    ASSUME NEW ts \in Text, NEW i \in Places(ts), NEW kind \in {"assignment", "unique"}, NEW before, NEW unique
    PROVE  ReadsItem(kind, ts, ParseAssignment(ts, i, before, unique), i)
  <1> DEFINE p == ParseFieldPath(ts, i)
             j == p.at
             k == j + 1
             l == ParseLiteral(ts, k)
             v == [field |-> p.val, value |-> l.val]
             x == ParseAssignment(ts, i, before, unique)
             again == unique /\ \E n \in DOMAIN before : before[n].field = p.val
             c == Consume(ts, j, ":", None)
  <1>1. x = IF ~p.ok THEN p
            ELSE IF again THEN Err(j)
            ELSE IF ~c.ok THEN c
            ELSE LET m == ParseLiteral(ts, c.at) IN IF m.ok THEN Ok(m.at, [field |-> p.val, value |-> m.val]) ELSE m
    BY DEF ParseAssignment, Then
  <1>2. c = IF Tok(ts, j) = ":" THEN Ok(k, None) ELSE Err(j)
    BY DEF Consume
  <1> HIDE DEF again, x, c
  <1>3. x = IF ~p.ok THEN p
            ELSE IF again \/ Tok(ts, j) # ":" THEN Err(j)
            ELSE IF l.ok THEN Ok(l.at, v) ELSE l
    BY <1>1, <1>2 DEF Ok, Err
  <1>4. /\ p.ok \in BOOLEAN /\ j \in Places(ts) /\ i <= j /\ j \in i .. Len(ts) + 1
        /\ p.ok => p.val \in Path /\ Only(ts, i, j, {})
        /\ ~p.ok => p = Err(j)
    BY ReadsFieldPath, ReadsParts, PlaceIsReached DEF Places
  <1>5. i \in Int /\ j \in Int
    BY <1>4, PlaceIsReached
  <1>6. Items(kind) = Assignment /\ Allowed(kind) = {":"} /\ Mark(kind) = ":" /\ \A y : Weight(kind, y) = 1
    BY DEF Items, Allowed, Mark, Weight
  <1> HIDE DEF p, j, l, v
  <1>7. ASSUME NEW n \in i .. Len(ts) + 1, x = Err(n) PROVE ReadsItem(kind, ts, x, i)
    <2>1. x.ok = FALSE
      BY <1>7 DEF Err
    <2> QED
      BY <1>6, <1>7, <2>1, ReadsError DEF ReadsItem
  <1>8. CASE ~p.ok \/ again \/ Tok(ts, j) # ":"
    BY <1>3, <1>4, <1>7, <1>8 DEF x
  <1>9. CASE p.ok /\ ~again /\ Tok(ts, j) = ":"
    <2>1. j \in 1 .. Len(ts) /\ ts[j] = ":" /\ k \in Places(ts) /\ k \in j .. Len(ts) + 1
      BY <1>4, <1>9, TokenIsOnly
    <2>2. /\ l.ok \in BOOLEAN /\ l.at \in Places(ts) /\ k <= l.at
          /\ l.ok => l.val \in Literal /\ Only(ts, k, l.at, {})
          /\ ~l.ok => l = Err(l.at)
      BY <2>1, ReadsLiteral, ReadsParts DEF l
    <2>3. l.at \in i .. Len(ts) + 1 /\ l.at \in Int /\ k \in Int
      BY <1>4, <1>5, <2>1, <2>2 DEF Places
    <2>4. CASE ~l.ok
      BY <1>3, <1>7, <1>9, <2>2, <2>3, <2>4 DEF x
    <2>5. CASE l.ok
      <3>1. x = Ok(l.at, v) /\ x.at = l.at /\ x.val = v
        BY <1>3, <1>9, <2>5 DEF Ok
      <3>2. v \in Assignment
        BY <1>4, <1>9, <2>2, <2>5 DEF Assignment, v
      <3>3. Only(ts, j, k, {":"})
        BY <1>5, <2>1, OnlyOne
      <3>4. Only(ts, i, l.at, {":"})
        BY <1>4, <1>5, <1>9, <2>2, <2>3, <2>5, <3>3 DEF Only
      <3>5. Times(ts, ":", i, l.at) = 1
        <4>1. Times(ts, ":", i, j) = 0 /\ Times(ts, ":", k, l.at) = 0
          BY <1>4, <1>9, <2>2, <2>5, TimesOnly DEF Marks
        <4>2. Times(ts, ":", j, k) = 1
          BY <1>5, <2>1, TimesOne
        <4>3. Times(ts, ":", i, k) = 0 + 1
          BY <1>4, <1>5, <2>3, <4>1, <4>2, TimesSplit
        <4>4. Times(ts, ":", i, l.at) = 0 + 1 + 0
          <5>1. i <= k
            BY <1>4, <1>5
          <5> QED
            BY <5>1, <1>5, <2>2, <2>3, <4>1, <4>3, TimesSplit
        <4> QED
          BY <4>4
      <3>6. Reads(ts, x, i, Assignment, {":"})
        BY <2>3, <3>1, <3>2, <3>4, ReadsValue
      <3> QED
        BY <1>6, <3>1, <3>5, <3>6 DEF ReadsItem, x
    <2> QED
      BY <2>2, <2>4, <2>5
  <1> QED
    BY <1>4, <1>8, <1>9

LEMMA QuietItem ==
    ASSUME NEW ts \in Text, NEW i \in Places(ts), NEW r, NEW kind \in {"element", "sort"},
           Reads(ts, r, i, Items(kind), {})
    PROVE  ReadsItem(kind, ts, r, i)
  <1>1. Allowed(kind) = {} /\ Mark(kind) \in Marks /\ \A x : Weight(kind, x) = 0
    BY DEF Allowed, Mark, Marks, Weight
  <1>2. r.ok => Only(ts, i, r.at, {})
    BY ReadsParts
  <1>3. r.ok => Times(ts, Mark(kind), i, r.at) = 0
    BY <1>1, <1>2, TimesOnly
  <1> QED
    BY <1>1, <1>3 DEF ReadsItem

LEMMA ItemIsRead ==
    ASSUME NEW ts \in Text, NEW i \in Places(ts), NEW kind \in Kinds \ {"record"}, NEW before
    PROVE  ReadsItem(kind, ts, Item(kind, ts, i, before), i)
  <1>1. CASE kind = "element"
    <2>1. Item(kind, ts, i, before) = ParseValueSetElement(ts, i) /\ Items(kind) = Element
      BY <1>1 DEF Item, Items
    <2> QED
      BY <1>1, <2>1, ReadsValueSetElement, QuietItem
  <1>2. CASE kind = "sort"
    <2>1. Item(kind, ts, i, before) = ParseSortClause(ts, i) /\ Items(kind) = SortClause
      BY <1>2 DEF Item, Items
    <2> QED
      BY <1>2, <2>1, ReadsSortClause, QuietItem
  <1>3. CASE kind = "selection"
    <2>1. Item(kind, ts, i, before) = ParseSelection(ts, i)
      BY <1>3 DEF Item
    <2> QED
      BY <1>3, <2>1, ReadsSelection
  <1>4. CASE kind \in {"assignment", "unique"}
    <2>1. Item(kind, ts, i, before) = ParseAssignment(ts, i, before, kind = "unique")
      BY <1>4 DEF Item
    <2> QED
      BY <1>4, <2>1, ReadsAssignment
  <1> QED
    BY <1>1, <1>2, <1>3, <1>4 DEF Kinds

-----------------------------------------------------------------------------
(* Lists *)

Total(kind, s) ==
    CASE kind \in {"element", "sort"} -> 0
      [] kind = "selection" -> Cardinality({k \in DOMAIN s : s[k].alias # None})
      [] kind \in {"assignment", "unique"} -> Len(s)
      [] kind = "record" -> Cardinality(UNION {{<<r, k>> : k \in DOMAIN s[r]} : r \in DOMAIN s})

LEMMA TotalEmpty ==
    ASSUME NEW kind \in Kinds
    PROVE  Total(kind, <<>>) = 0
  <1> DEFINE A == {k \in DOMAIN <<>> : <<>>[k].alias # None}
             B == UNION {{<<r, k>> : k \in DOMAIN <<>>[r]} : r \in DOMAIN <<>>}
  <1>1. A = {} /\ B = {}
    OBVIOUS
  <1> HIDE DEF A, B
  <1>2. Cardinality(A) = 0 /\ Cardinality(B) = 0
    BY <1>1, FS_EmptySet
  <1>3. Len(<<>>) = 0
    OBVIOUS
  <1> QED
    BY <1>2, <1>3 DEF Total, Kinds, A, B

LEMMA TotalAppendSelection ==
    ASSUME NEW s \in Seq(Selection), NEW x \in Selection
    PROVE  /\ Total("selection", s) \in Nat
           /\ Total("selection", Append(s, x)) = Total("selection", s) + Weight("selection", x)
  <1> DEFINE A == {k \in DOMAIN s : s[k].alias # None}
             B == {k \in DOMAIN Append(s, x) : Append(s, x)[k].alias # None}
             n == Len(s) + 1
  <1>1. B = IF x.alias = None THEN A ELSE A \cup {n}
    OBVIOUS
  <1>2. IsFiniteSet(A) /\ n \notin A
    <2>1. IsFiniteSet(1 .. Len(s)) /\ A \subseteq 1 .. Len(s)
      BY FS_Interval
    <2>2. n \notin A
      OBVIOUS
    <2> HIDE DEF A
    <2> QED
      BY <2>1, <2>2, FS_Subset
  <1>3. Total("selection", s) = Cardinality(A) /\ Total("selection", Append(s, x)) = Cardinality(B)
    BY DEF Total
  <1> HIDE DEF A, B
  <1>4. Cardinality(A) \in Nat /\ Cardinality(A \cup {n}) = Cardinality(A) + 1
    BY <1>2, FS_CardinalityType, FS_AddElement
  <1> QED
    BY <1>1, <1>3, <1>4 DEF Weight

\* The places of the assignments of records.
Pairs(s) == UNION {{<<r, k>> : k \in DOMAIN s[r]} : r \in DOMAIN s}

LEMMA PairsOfOne ==
    ASSUME NEW n, NEW N \in Nat
    PROVE  IsFiniteSet({<<n, k>> : k \in 1 .. N}) /\ Cardinality({<<n, k>> : k \in 1 .. N}) = N
  <1> DEFINE B == {<<n, k>> : k \in 1 .. N}
             f == [k \in 1 .. N |-> <<n, k>>]
  <1>1. f \in Bijection(1 .. N, B)
    BY DEF Bijection, Injection, Surjection, IsInjective
  <1>2. IsFiniteSet(1 .. N) /\ Cardinality(1 .. N) = N
    BY FS_Interval
  <1> HIDE DEF B, f
  <1>3. ExistsBijection(1 .. N, B)
    BY <1>1 DEF ExistsBijection
  <1>4. IsFiniteSet(B) /\ Cardinality(B) = N
    BY <1>2, <1>3, FS_Bijection
  <1> QED
    BY <1>4 DEF B

LEMMA PairsFinite ==
    ASSUME NEW s \in Seq(Seq(Assignment))
    PROVE  IsFiniteSet(Pairs(s)) /\ Cardinality(Pairs(s)) \in Nat
  <1> DEFINE of(r) == {<<r, k>> : k \in DOMAIN s[r]}
             D == DOMAIN s
             F == {of(r) : r \in D}
             f == [r \in D |-> of(r)]
  <1>1. IsFiniteSet(D)
    BY FS_Interval
  <1>2. f \in Surjection(D, F)
    BY DEF Surjection
  <1>3. ASSUME NEW r \in D PROVE IsFiniteSet(of(r))
    <2>1. Len(s[r]) \in Nat /\ DOMAIN s[r] = 1 .. Len(s[r])
      OBVIOUS
    <2>2. IsFiniteSet({<<r, k>> : k \in 1 .. Len(s[r])})
      BY <2>1, PairsOfOne
    <2> QED
      BY <2>1, <2>2
  <1>4. \A T \in F : IsFiniteSet(T)
    BY <1>3
  <1>5. Pairs(s) = UNION F
    BY DEF Pairs
  <1> HIDE DEF F, D, f
  <1>6. IsFiniteSet(F)
    BY <1>1, <1>2, FS_Surjection
  <1>7. IsFiniteSet(UNION F)
    BY <1>4, <1>6, FS_UNION
  <1> QED
    BY <1>5, <1>7, FS_CardinalityType

LEMMA TotalAppendRecord ==
    ASSUME NEW s \in Seq(Seq(Assignment)), NEW x \in Seq(Assignment)
    PROVE  /\ Total("record", s) \in Nat
           /\ Total("record", Append(s, x)) = Total("record", s) + Weight("record", x)
  <1> DEFINE n == Len(s) + 1
             A == Pairs(s)
             B == {<<n, k>> : k \in 1 .. Len(x)}
             C == Pairs(Append(s, x))
  <1>1. C = A \cup B /\ A \cap B = {}
    <2>1. DOMAIN Append(s, x) = DOMAIN s \cup {n} /\ n \notin DOMAIN s
      OBVIOUS
    <2>2. Append(s, x)[n] = x /\ \A r \in DOMAIN s : Append(s, x)[r] = s[r]
      OBVIOUS
    <2>3. DOMAIN x = 1 .. Len(x)
      OBVIOUS
    <2> HIDE DEF n
    <2> QED
      BY <2>1, <2>2, <2>3 DEF Pairs
  <1>2. IsFiniteSet(A) /\ Cardinality(A) \in Nat
    BY PairsFinite
  <1>3. IsFiniteSet(B) /\ Cardinality(B) = Len(x) /\ Len(x) \in Nat
    <2>1. Len(x) \in Nat
      OBVIOUS
    <2> QED
      BY <2>1, PairsOfOne
  <1>4. Total("record", s) = Cardinality(A) /\ Total("record", Append(s, x)) = Cardinality(C)
    BY DEF Total, Pairs
  <1>5. Weight("record", x) = Len(x)
    BY DEF Weight
  <1> HIDE DEF A, B, C
  <1>6. Cardinality(A \cap B) = 0
    BY <1>1, FS_EmptySet
  <1>7. Cardinality(A \cup B) = Cardinality(A) + Cardinality(B) - Cardinality(A \cap B)
    BY <1>2, <1>3, FS_Union
  <1> QED
    BY <1>1, <1>2, <1>3, <1>4, <1>5, <1>6, <1>7

LEMMA TotalAppend ==
    ASSUME NEW kind \in Kinds, NEW s \in Seq(Items(kind)), NEW x \in Items(kind)
    PROVE  /\ Total(kind, s) \in Nat /\ Append(s, x) \in Seq(Items(kind)) /\ Append(s, x) # <<>>
           /\ Total(kind, Append(s, x)) = Total(kind, s) + Weight(kind, x)
  <1>0. Append(s, x) \in Seq(Items(kind)) /\ Append(s, x) # <<>> /\ Len(Append(s, x)) = Len(s) + 1 /\ Len(s) \in Nat
    OBVIOUS
  <1>1. CASE kind \in {"element", "sort"}
    <2>1. Total(kind, s) = 0 /\ Total(kind, Append(s, x)) = 0 /\ Weight(kind, x) = 0
      BY <1>1 DEF Total, Weight
    <2> QED
      BY <1>0, <2>1
  <1>2. CASE kind = "selection"
    <2>1. Items(kind) = Selection
      BY <1>2 DEF Items
    <2> QED
      BY <1>0, <1>2, <2>1, TotalAppendSelection
  <1>3. CASE kind \in {"assignment", "unique"}
    <2>1. Total(kind, s) = Len(s) /\ Total(kind, Append(s, x)) = Len(Append(s, x)) /\ Weight(kind, x) = 1
      BY <1>3 DEF Total, Weight
    <2> QED
      BY <1>0, <2>1
  <1>4. CASE kind = "record"
    <2>1. Items(kind) = Seq(Assignment)
      BY <1>4 DEF Items
    <2> QED
      BY <1>0, <1>4, <2>1, TotalAppendRecord
  <1> QED
    BY <1>1, <1>2, <1>3, <1>4 DEF Kinds

\* What was read from i to j: the items s, with their marks and no others.
Read(kind, ts, i, j, s) ==
    /\ j \in i .. Len(ts) + 1 /\ s \in Seq(Items(kind))
    /\ Only(ts, i, j, Allowed(kind))
    /\ Times(ts, Mark(kind), i, j) = Total(kind, s)

LEMMA MarkIsMark ==
    ASSUME NEW kind \in Kinds
    PROVE  Mark(kind) \in Marks
  BY DEF Mark, Marks

(* Punctuation changes nothing.                                            *)
LEMMA ReadQuiet ==
    ASSUME NEW kind \in Kinds, NEW ts \in Text, NEW i \in Places(ts), NEW j, NEW s, Read(kind, ts, i, j, s),
           Tok(ts, j) # "EOF", Tok(ts, j) \notin Marks
    PROVE  Read(kind, ts, i, j + 1, s) /\ j + 1 \in Places(ts)
  <1>1. j \in Places(ts) /\ i \in Int /\ j \in Int /\ i <= j /\ Len(ts) \in Nat
    BY PlaceIsReached DEF Read, Places
  <1>2. /\ j \in 1 .. Len(ts) /\ ts[j] = Tok(ts, j)
        /\ j + 1 \in j .. Len(ts) + 1 /\ j + 1 \in Places(ts) /\ Only(ts, j, j + 1, {})
    BY <1>1, TokenIsOnly
  <1>3. Only(ts, i, j + 1, Allowed(kind))
    BY <1>1, <1>2 DEF Only, Read
  <1>4. Times(ts, Mark(kind), j, j + 1) = 0
    BY <1>2, MarkIsMark, TimesOnly
  <1>5. Times(ts, Mark(kind), i, j + 1) = Times(ts, Mark(kind), i, j) + 0 /\ Times(ts, Mark(kind), i, j) \in Nat
    BY <1>1, <1>4, TimesSplit
  <1> QED
    BY <1>1, <1>2, <1>3, <1>5 DEF Read

LEMMA ReadAppend ==
    ASSUME NEW kind \in Kinds, NEW ts \in Text, NEW i \in Places(ts), NEW j, NEW s, Read(kind, ts, i, j, s),
           NEW x, x.ok, ReadsItem(kind, ts, x, j)
    PROVE  Read(kind, ts, i, x.at, Append(s, x.val)) /\ Append(s, x.val) # <<>> /\ x.at \in Places(ts)
  <1>1. j \in Places(ts) /\ i \in Int /\ j \in Int /\ i <= j /\ Len(ts) \in Nat /\ s \in Seq(Items(kind))
    BY PlaceIsReached DEF Read, Places
  <1>2. /\ x.at \in Places(ts) /\ j <= x.at /\ x.val \in Items(kind) /\ Only(ts, j, x.at, Allowed(kind))
        /\ Times(ts, Mark(kind), j, x.at) = Weight(kind, x.val)
    BY <1>1, ReadsParts DEF ReadsItem
  <1>3. x.at \in Int /\ x.at \in i .. Len(ts) + 1
    BY <1>1, <1>2 DEF Places
  <1>4. Only(ts, i, x.at, Allowed(kind))
    BY <1>1, <1>2, <1>3 DEF Only, Read
  <1>5. Times(ts, Mark(kind), i, x.at) = Times(ts, Mark(kind), i, j) + Times(ts, Mark(kind), j, x.at)
    BY <1>1, <1>2, <1>3, TimesSplit
  <1>6. Total(kind, Append(s, x.val)) = Total(kind, s) + Weight(kind, x.val)
        /\ Append(s, x.val) \in Seq(Items(kind)) /\ Append(s, x.val) # <<>>
    BY <1>1, <1>2, TotalAppend
  <1> QED
    BY <1>2, <1>3, <1>4, <1>5, <1>6 DEF Read

\* The states of a loop that began at place i.
ListResults(kind, ts, i) ==
    {Err(j) : j \in i .. Len(ts) + 1}
    \cup {Ok(x[1], x[2]) : x \in {y \in Places(ts) \X Seq(Items(kind)) : Read(kind, ts, i, y[1], y[2])}}

ListStates(kind, ts, i) ==
    {x \in [result : ListResults(kind, ts, i), more : BOOLEAN] :
        IF x.more THEN x.result.ok ELSE x.result.ok => x.result.val # <<>>}

LEMMA ListStateOk ==
    ASSUME NEW kind \in Kinds, NEW ts \in Text, NEW i \in Places(ts), NEW j, NEW s, Read(kind, ts, i, j, s)
    PROVE  /\ More(j, s) \in ListStates(kind, ts, i)
           /\ s # <<>> => Done(Ok(j, s)) \in ListStates(kind, ts, i)
           /\ \A n \in i .. Len(ts) + 1 : Done(Err(n)) \in ListStates(kind, ts, i)
  <1>1. j \in Places(ts) /\ s \in Seq(Items(kind))
    BY PlaceIsReached DEF Read, Places
  <1>2. Ok(j, s) \in ListResults(kind, ts, i)
    <2>1. <<j, s>> \in {y \in Places(ts) \X Seq(Items(kind)) : Read(kind, ts, i, y[1], y[2])}
      BY <1>1
    <2> QED
      BY <2>1 DEF ListResults
  <1>3. \A n \in i .. Len(ts) + 1 : Err(n) \in ListResults(kind, ts, i)
    BY DEF ListResults
  <1>4. Ok(j, s).ok = TRUE /\ Ok(j, s).val = s /\ \A n : Err(n).ok = FALSE
    BY DEF Ok, Err
  <1> QED
    BY <1>2, <1>3, <1>4 DEF ListStates, More, Done

LEMMA ListResultHas ==
    ASSUME NEW kind \in Kinds, NEW ts \in Text, NEW i \in Places(ts), NEW r \in ListResults(kind, ts, i)
    PROVE  /\ r.ok \in BOOLEAN
           /\ r.ok => r = Ok(r.at, r.val) /\ Read(kind, ts, i, r.at, r.val)
           /\ ~r.ok => r = Err(r.at) /\ r.at \in i .. Len(ts) + 1
  <1>1. CASE \E j \in i .. Len(ts) + 1 : r = Err(j)
    BY <1>1 DEF Err
  <1>2. CASE \E x \in {y \in Places(ts) \X Seq(Items(kind)) : Read(kind, ts, i, y[1], y[2])} : r = Ok(x[1], x[2])
    BY <1>2 DEF Ok
  <1> QED
    BY <1>1, <1>2 DEF ListResults

LEMMA CloseIs ==
    ASSUME NEW kind \in Kinds
    PROVE  Close[kind] \in {"}", ")"}
  <1>1. /\ Close["element"] = "}" /\ Close["sort"] = "}" /\ Close["selection"] = ")"
        /\ Close["assignment"] = ")" /\ Close["unique"] = ")" /\ Close["record"] = ")"
    BY DEF Close
  <1> QED
    BY <1>1 DEF Kinds

(* AfterItem, one case after the other.                                    *)
LEMMA AfterItemIs ==
    ASSUME NEW kind \in Kinds, NEW ts, NEW x, NEW s
    PROVE  AfterItem(kind, ts, x, s) =
              IF ~x.ok THEN Done(x)
              ELSE IF Tok(ts, x.at) = "," /\ Tok(ts, x.at + 1) = Close[kind] THEN
                      Done(IF kind \in {"element", "sort"} THEN Ok(x.at + 2, Append(s, x.val)) ELSE Err(x.at + 1))
              ELSE IF Tok(ts, x.at) = "," THEN More(x.at + 1, Append(s, x.val))
              ELSE IF Tok(ts, x.at) = Close[kind] THEN Done(Ok(x.at + 1, Append(s, x.val)))
              ELSE IF kind = "sort" /\ Tok(ts, x.at) \in Identifiers THEN More(x.at, Append(s, x.val))
              ELSE Done(Err(x.at))
  <1> DEFINE t == Tok(ts, x.at)
             next == Tok(ts, x.at + 1)
             end == Close[kind]
  <1> HIDE DEF t, next, end
  <1>1. AfterItem(kind, ts, x, s) =
           CASE ~x.ok -> Done(x)
             [] x.ok /\ t = "," /\ next = end ->
                  Done(IF kind \in {"element", "sort"} THEN Ok(x.at + 2, Append(s, x.val)) ELSE Err(x.at + 1))
             [] x.ok /\ t = "," /\ next # end -> More(x.at + 1, Append(s, x.val))
             [] x.ok /\ t = end -> Done(Ok(x.at + 1, Append(s, x.val)))
             [] x.ok /\ kind = "sort" /\ t \in Identifiers -> More(x.at, Append(s, x.val))
             [] OTHER -> Done(Err(x.at))
    BY Zenon DEF AfterItem, t, next, end
  <1>2. end # "," /\ end \notin Identifiers /\ "," \notin Identifiers
    <2>1. end \in {"}", ")"}
      BY CloseIs DEF end
    <2>2. {"}", ")", ","} \subseteq Reserved
      BY DEF Reserved
    <2>3. Identifiers \cap Reserved = {}
      BY LanguageAssumption
    <2> QED
      BY <2>1, <2>2, <2>3
  <1> QED
    BY <1>1, <1>2 DEF t, next, end

LEMMA AfterItemIsRead ==
    ASSUME NEW kind \in Kinds, NEW ts \in Text, NEW i \in Places(ts), NEW j, NEW s, Read(kind, ts, i, j, s),
           NEW x, ReadsItem(kind, ts, x, j)
    PROVE  LET a == AfterItem(kind, ts, x, s)
           IN  a \in ListStates(kind, ts, i) /\ (a.result.ok => a.result.val # <<>>)
  <1> DEFINE a == AfterItem(kind, ts, x, s)
             all == Append(s, x.val)
             k == x.at
             Fine(b) == b \in ListStates(kind, ts, i) /\ (b.result.ok => b.result.val # <<>>)
  <1>1. j \in Places(ts) /\ i \in Int /\ j \in Int /\ i <= j /\ Len(ts) \in Nat
    BY PlaceIsReached DEF Read, Places
  <1>2. x.ok \in BOOLEAN /\ k \in Places(ts) /\ j <= k /\ k \in i .. Len(ts) + 1 /\ (~x.ok => x = Err(k))
    <2>1. x.ok \in BOOLEAN /\ k \in Places(ts) /\ j <= k /\ (~x.ok => x = Err(k))
      BY <1>1, ReadsParts DEF ReadsItem
    <2> QED
      BY <1>1, <2>1 DEF Places
  <1>3. ASSUME NEW n \in i .. Len(ts) + 1 PROVE Fine(Done(Err(n)))
    <2>1. Done(Err(n)).result.ok = FALSE
      BY DEF Done, Err
    <2> QED
      BY <2>1, ListStateOk
  <1>4. ASSUME NEW n, NEW t, Read(kind, ts, i, n, t), t # <<>>
        PROVE  Fine(More(n, t)) /\ Fine(Done(Ok(n, t)))
    <2>1. More(n, t).result.val = t /\ Done(Ok(n, t)).result.val = t
      BY DEF More, Done, Ok
    <2> QED
      BY <1>4, <2>1, ListStateOk
  <1>5. CASE ~x.ok
    <2>1. a = Done(x)
      BY <1>5, AfterItemIs
    <2> HIDE DEF Fine, a
    <2>2. Fine(a)
      BY <1>2, <1>3, <1>5, <2>1
    <2> QED
      BY <2>2 DEF Fine, a
  <1>6. CASE x.ok
    <2>1. Read(kind, ts, i, k, all) /\ all # <<>>
      BY <1>6, ReadAppend
    <2>2. Close[kind] \in {"}", ")"}
      BY CloseIs
    <2>3. CASE Tok(ts, k) = "," \/ Tok(ts, k) = Close[kind]
      <3>1. Tok(ts, k) # "EOF" /\ Tok(ts, k) \notin Marks
        BY <2>2, <2>3 DEF Marks
      <3>2. Read(kind, ts, i, k + 1, all) /\ k + 1 \in Places(ts)
        BY <2>1, <3>1, ReadQuiet
      <3>3. k + 1 \in i .. Len(ts) + 1
        BY <3>2 DEF Read
      <3>4. CASE Tok(ts, k) = "," /\ Tok(ts, k + 1) = Close[kind]
        <4>1. a = Done(IF kind \in {"element", "sort"} THEN Ok(k + 2, all) ELSE Err(k + 1))
          BY <1>6, <3>4, AfterItemIs
        <4>2. Tok(ts, k + 1) # "EOF" /\ Tok(ts, k + 1) \notin Marks
          BY <2>2, <3>4 DEF Marks
        <4>3. Read(kind, ts, i, k + 1 + 1, all)
          BY <3>2, <4>2, ReadQuiet
        <4>4. k + 1 + 1 = k + 2
          BY <1>2 DEF Places
        <4> HIDE DEF Fine, a, k, all
        <4>5. Fine(a)
          BY <1>3, <1>4, <2>1, <3>3, <4>1, <4>3, <4>4
        <4> QED
          BY <4>5 DEF Fine, a
      <3>5. CASE Tok(ts, k) = "," /\ Tok(ts, k + 1) # Close[kind]
        <4>1. a = More(k + 1, all)
          BY <1>6, <3>5, AfterItemIs
        <4> HIDE DEF Fine, a, k, all
        <4>2. Fine(a)
          BY <1>4, <2>1, <3>2, <4>1
        <4> QED
          BY <4>2 DEF Fine, a
      <3>6. CASE Tok(ts, k) # "," /\ Tok(ts, k) = Close[kind]
        <4>1. a = Done(Ok(k + 1, all))
          BY <1>6, <2>2, <3>6, AfterItemIs
        <4> HIDE DEF Fine, a, k, all
        <4>2. Fine(a)
          BY <1>4, <2>1, <3>2, <4>1
        <4> QED
          BY <4>2 DEF Fine, a
      <3> QED
        BY <2>3, <3>4, <3>5, <3>6
    <2>4. CASE ~(Tok(ts, k) = "," \/ Tok(ts, k) = Close[kind])
      <3>1. a = IF kind = "sort" /\ Tok(ts, k) \in Identifiers THEN More(k, all) ELSE Done(Err(k))
        BY <1>6, <2>4, AfterItemIs
      <3> HIDE DEF Fine, a, k, all
      <3>2. Fine(a)
        BY <1>2, <1>3, <1>4, <2>1, <3>1
      <3> QED
        BY <3>2 DEF Fine, a
    <2> QED
      BY <2>3, <2>4
  <1> QED
    BY <1>2, <1>5, <1>6


-----------------------------------------------------------------------------
(* Loops *)

(* Induction up to a bound: a set that has 0 and the successor of each of  *)
(* its elements below the bound has every number up to it.                 *)
LEMMA UpToBound ==
    ASSUME NEW N \in Nat, NEW G, 0 \in G, \A n \in 0 .. N - 1 : n \in G => n + 1 \in G
    PROVE  \A n \in 0 .. N : n \in G
  <1> SUFFICES ASSUME {n \in 0 .. N : n \notin G} # {} PROVE FALSE
    OBVIOUS
  <1>1. PICK n \in {k \in 0 .. N : k \notin G} : \A k \in {j \in 0 .. N : j \notin G} : n <= k
    <2>1. {k \in 0 .. N : k \notin G} \subseteq Nat
      OBVIOUS
    <2> QED
      BY <2>1, LeastNumber
  <1>2. n # 0 /\ n - 1 \in 0 .. N - 1
    BY <1>1
  <1>3. n - 1 \in G
    BY <1>1, <1>2
  <1> QED
    BY <1>1, <1>2, <1>3

\* g has the states of N rounds of D from a on.
Runs(g, N, V, a, D) ==
    /\ g \in [0 .. N -> V]
    /\ g[0] = a
    /\ \A n \in 1 .. N : g[n] = D[g[n - 1]]

(* Rounds that stay in V have their states.                                *)
LEMMA LoopExists ==
    ASSUME NEW N, NEW V, NEW a, NEW D, N \in Nat, a \in V, D \in [V -> V]
    PROVE  \E g : Runs(g, N, V, a, D)
  <1> DEFINE Prefix(m) == {h \in [0 .. m -> V] : h[0] = a /\ \A n \in 1 .. m : h[n] = D[h[n - 1]]}
             G == {m \in 0 .. N : Prefix(m) # {}}
  <1>1. 0 \in G
    <2>1. [k \in 0 .. 0 |-> a] \in Prefix(0)
      OBVIOUS
    <2> QED
      BY <2>1
  <1>2. ASSUME NEW m \in 0 .. N - 1, m \in G PROVE m + 1 \in G
    <2>1. PICK h \in Prefix(m) : TRUE
      BY <1>2
    <2> DEFINE g == [k \in 0 .. m + 1 |-> IF k = m + 1 THEN D[h[m]] ELSE h[k]]
    <2>2. h[m] \in V /\ m + 1 \in 1 .. N
      OBVIOUS
    <2>3. D[h[m]] \in V
      BY <2>2
    <2>4. g \in [0 .. m + 1 -> V] /\ g[0] = a
      BY <2>1, <2>3
    <2>5. ASSUME NEW n \in 1 .. m + 1 PROVE g[n] = D[g[n - 1]]
      <3>1. CASE n = m + 1
        BY <3>1
      <3>2. CASE n # m + 1
        <4>1. n \in 1 .. m /\ n \in 0 .. m + 1 /\ n - 1 \in 0 .. m + 1 /\ n - 1 # m + 1
          BY <3>2
        <4>2. g[n] = h[n] /\ g[n - 1] = h[n - 1]
          BY <3>2, <4>1
        <4>3. h[n] = D[h[n - 1]]
          BY <2>1, <4>1
        <4> QED
          BY <4>2, <4>3
      <3> QED
        BY <3>1, <3>2
    <2>6. g \in Prefix(m + 1)
      BY <2>4, <2>5
    <2> QED
      BY <2>2, <2>6
  <1>3. N \in G
    <2> HIDE DEF G
    <2>1. \A m \in 0 .. N - 1 : m \in G => m + 1 \in G
      BY <1>2
    <2>2. \A m \in 0 .. N : m \in G
      BY <1>1, <2>1, UpToBound, Zenon
    <2> QED
      BY <2>2
  <1> QED
    BY <1>3 DEF Runs

(* What a loop gives: a state of W, if every round takes a state of V to   *)
(* one of W.                                                               *)
LEMMA LoopStays ==
    ASSUME NEW N \in Nat, N > 0, NEW V, NEW W, W \subseteq V, NEW g, g[0] \in V,
           \A n \in 1 .. N : g[n - 1] \in V => g[n] \in W
    PROVE  g[N] \in W
  <1> DEFINE G == {n \in 0 .. N : g[n] \in V}
  <1>1. 0 \in G
    OBVIOUS
  <1>2. ASSUME NEW n \in 0 .. N - 1, n \in G PROVE n + 1 \in G
    <2>1. n + 1 \in 1 .. N /\ n + 1 - 1 = n
      OBVIOUS
    <2>2. g[n] \in V
      BY <1>2
    <2> QED
      BY <2>1, <2>2
  <1> HIDE DEF G
  <1>3. \A n \in 0 .. N : n \in G
    <2>1. \A n \in 0 .. N - 1 : n \in G => n + 1 \in G
      BY <1>2
    <2> QED
      BY <1>1, <2>1, UpToBound, Zenon
  <1>4. N - 1 \in G /\ N \in 1 .. N
    BY <1>3
  <1> QED
    BY <1>4 DEF G

(* A loop of which every round but the last goes on, each at a place after *)
(* that of the round before: it is over before the rounds are.             *)
LEMMA LoopEnds ==
    ASSUME NEW N \in Nat, NEW g, g[0].more,
           \A n \in 0 .. N : g[n].more \in BOOLEAN /\ (g[n].more => g[n].result.at \in 1 .. N),
           \A n \in 1 .. N : IF g[n - 1].more THEN g[n].more => g[n].result.at > g[n - 1].result.at
                             ELSE g[n] = g[n - 1]
    PROVE  \E n \in 1 .. N : (\A k \in 1 .. n : g[k - 1].more) /\ ~g[n].more /\ g[n] = g[N]
  <1> DEFINE F == {n \in Nat : n \in 0 .. N /\ ~g[n].more}
             G == {n \in 0 .. N : g[n].more => g[n].result.at > n}
  <1>1. 0 \in G
    OBVIOUS
  <1>2. ASSUME NEW n \in 0 .. N - 1, n \in G PROVE n + 1 \in G
    <2>1. n + 1 \in 1 .. N /\ n + 1 - 1 = n /\ n + 1 \in 0 .. N /\ n \in 0 .. N
      OBVIOUS
    <2>2. CASE ~g[n].more
      <3>1. g[n + 1] = g[n]
        BY <2>1, <2>2
      <3> QED
        BY <2>1, <2>2, <3>1
    <2>3. CASE g[n].more
      <3> DEFINE x == g[n].result.at
                 y == g[n + 1].result.at
      <3>1. ASSUME g[n + 1].more PROVE y > n + 1
        <4>1. y > x /\ x > n /\ y \in 1 .. N /\ x \in 1 .. N
          BY <1>2, <2>1, <2>3, <3>1
        <4> HIDE DEF x, y
        <4> QED
          BY <4>1
      <3> QED
        BY <2>1, <3>1
    <2> QED
      BY <2>1, <2>2, <2>3
  <1> HIDE DEF G
  <1>3. \A n \in 0 .. N : n \in G
    <2>1. \A n \in 0 .. N - 1 : n \in G => n + 1 \in G
      BY <1>2
    <2> QED
      BY <1>1, <2>1, UpToBound, Zenon
  <1>4. N \in F
    <2>1. N \in G /\ N \in 0 .. N
      BY <1>3
    <2>2. ASSUME g[N].more PROVE FALSE
      <3> DEFINE x == g[N].result.at
      <3>1. x > N /\ x \in 1 .. N
        BY <2>1, <2>2 DEF G
      <3> HIDE DEF x
      <3> QED
        BY <3>1
    <2> QED
      BY <2>1, <2>2
  <1>5. PICK n \in F : \A k \in F : n <= k
    <2>1. F \subseteq Nat /\ F # {}
      BY <1>4
    <2> HIDE DEF F
    <2> QED
      BY <2>1, LeastNumber
  <1>6. n \in 1 .. N /\ ~g[n].more
    BY <1>5
  <1>7. \A k \in 1 .. n : g[k - 1].more
    <2> SUFFICES ASSUME NEW k \in 1 .. n, ~g[k - 1].more PROVE FALSE
      OBVIOUS
    <2>1. k - 1 \in F
      BY <1>6
    <2> QED
      BY <1>5, <2>1
  <1>8. g[n] = g[N]
    <2> DEFINE H == {m \in 0 .. N : m >= n => g[m] = g[n]}
    <2>1. 0 \in H
      BY <1>6
    <2>2. ASSUME NEW m \in 0 .. N - 1, m \in H PROVE m + 1 \in H
      <3>1. m + 1 \in 1 .. N /\ m + 1 - 1 = m /\ m + 1 \in 0 .. N
        OBVIOUS
      <3>2. CASE m >= n
        <4>1. g[m] = g[n]
          BY <2>2, <3>2
        <4>2. g[m + 1] = g[m]
          BY <1>6, <3>1, <4>1
        <4> QED
          BY <3>1, <4>1, <4>2
      <3>3. CASE ~(m >= n)
        <4>1. m + 1 >= n => m + 1 = n
          BY <1>6, <3>3
        <4> QED
          BY <3>1, <4>1
      <3> QED
        BY <3>2, <3>3
    <2> HIDE DEF H
    <2>3. \A m \in 0 .. N : m \in H
      <3>1. \A m \in 0 .. N - 1 : m \in H => m + 1 \in H
        BY <2>2
      <3> QED
        BY <2>1, <3>1, UpToBound, Zenon
    <2>4. N \in H /\ N >= n
      BY <1>6, <2>3
    <2> QED
      BY <2>4 DEF H
  <1> QED
    BY <1>6, <1>7, <1>8

LEMMA ReadNothing ==
    ASSUME NEW kind \in Kinds, NEW ts \in Text, NEW i \in Places(ts)
    PROVE  Read(kind, ts, i, i, <<>>) /\ More(i, <<>>) \in ListStates(kind, ts, i)
  <1>1. i \in Nat /\ i \in i .. Len(ts) + 1 /\ Only(ts, i, i, Allowed(kind))
    BY PlaceIsReached
  <1>2. \A k \in i .. i - 1 : ts[k] # Mark(kind)
    BY <1>1
  <1>3. Times(ts, Mark(kind), i, i) = 0
    BY <1>2, TimesNone
  <1>4. <<>> \in Seq(Items(kind))
    OBVIOUS
  <1>5. Read(kind, ts, i, i, <<>>)
    BY <1>1, <1>3, <1>4, TotalEmpty DEF Read
  <1> QED
    BY <1>5, ListStateOk

LEMMA SortClauseGoesOn ==
    ASSUME NEW ts \in Text, NEW i \in Places(ts), ParseSortClause(ts, i).ok
    PROVE  ParseSortClause(ts, i).at > i
  <1> DEFINE f == ParseFieldPath(ts, i)
  <1>1. ParseSortClause(ts, i) = IF f.ok THEN IF Tok(ts, f.at) \in {"ASC", "DESC"}
                                              THEN Ok(f.at + 1, [field |-> f.val, direction |-> Tok(ts, f.at)])
                                              ELSE Err(f.at)
                                 ELSE f
    BY DEF ParseSortClause, Then
  <1>2. f.at \in Places(ts) /\ (f.ok => f.at > i)
    BY ReadsFieldPath, ReadsParts
  <1> HIDE DEF f
  <1>3. f.ok /\ ParseSortClause(ts, i).at = f.at + 1
    BY <1>1 DEF Ok, Err
  <1> QED
    BY <1>2, <1>3 DEF Places

(* A list goes on after a comma or, of sort clauses, after one of them.    *)
LEMMA AfterItemGoesOn ==
    ASSUME NEW kind \in Kinds, NEW ts \in Text, NEW j \in Places(ts), NEW x, NEW s, ReadsItem(kind, ts, x, j),
           kind = "sort" /\ x.ok => x.at > j, AfterItem(kind, ts, x, s).more
    PROVE  AfterItem(kind, ts, x, s).result.at > j
  <1>1. x.ok \in BOOLEAN /\ x.at \in Places(ts) /\ j <= x.at
    BY ReadsParts DEF ReadsItem
  <1>2. \A k, v, r : /\ More(k, v).more = TRUE /\ More(k, v).result.at = k
                     /\ Done(r).more = FALSE
    BY DEF More, Done, Ok
  <1>3. \/ AfterItem(kind, ts, x, s) = More(x.at + 1, Append(s, x.val))
        \/ kind = "sort" /\ x.ok /\ AfterItem(kind, ts, x, s) = More(x.at, Append(s, x.val))
    <2> DEFINE a == AfterItem(kind, ts, x, s)
               t == Tok(ts, x.at)
               end == IF kind \in {"element", "sort"} THEN Ok(x.at + 2, Append(s, x.val)) ELSE Err(x.at + 1)
    <2>1. a = IF ~x.ok THEN Done(x)
              ELSE IF t = "," /\ Tok(ts, x.at + 1) = Close[kind] THEN Done(end)
              ELSE IF t = "," THEN More(x.at + 1, Append(s, x.val))
              ELSE IF t = Close[kind] THEN Done(Ok(x.at + 1, Append(s, x.val)))
              ELSE IF kind = "sort" /\ t \in Identifiers THEN More(x.at, Append(s, x.val))
              ELSE Done(Err(x.at))
      BY AfterItemIs
    <2>2. a.more
      OBVIOUS
    <2> HIDE DEF a, t, end
    <2>3. a = More(x.at + 1, Append(s, x.val)) \/ (kind = "sort" /\ x.ok /\ a = More(x.at, Append(s, x.val)))
      BY <1>1, <1>2, <2>1, <2>2
    <2> QED
      BY <2>3 DEF a
  <1>4. CASE AfterItem(kind, ts, x, s) = More(x.at + 1, Append(s, x.val))
    BY <1>1, <1>2, <1>4 DEF Places
  <1>5. CASE kind = "sort" /\ x.ok /\ AfterItem(kind, ts, x, s) = More(x.at, Append(s, x.val))
    BY <1>1, <1>2, <1>5 DEF Places
  <1> QED
    BY <1>3, <1>4, <1>5

\* A list of each kind, a batch being one of records, and what it is a list of.
ListOf(kind, ts, i) == IF kind = "record" THEN ParseBatchCreateRecords(ts, i) ELSE List(kind, ts, i)
ItemOf(kind, ts, i, before) == IF kind = "record" THEN ParseCreateRecord(ts, i) ELSE Item(kind, ts, i, before)
Round(kind, ts, v) == AfterItem(kind, ts, ItemOf(kind, ts, v.result.at, v.result.val), v.result.val)

\* The loop of a list, as it runs: g has its states, and all rounds but the last go on.
ListLoop(kind, ts, i, n, g) ==
    /\ g[0] = More(i, <<>>)
    /\ \A k \in 1 .. n : g[k - 1].more /\ g[k] = Round(kind, ts, g[k - 1])
    /\ ~g[n].more

LEMMA LoopIsRead ==
    ASSUME NEW kind \in Kinds, NEW ts \in Text, NEW i \in Places(ts),
           \A j \in Places(ts) : \A before :
              LET x == ItemOf(kind, ts, j, before) IN ReadsItem(kind, ts, x, j) /\ (kind = "sort" /\ x.ok => x.at > j)
    PROVE  /\ ListOf(kind, ts, i) \in ListResults(kind, ts, i)
           /\ ListOf(kind, ts, i).ok => ListOf(kind, ts, i).val # <<>>
           /\ \E n \in 1 .. Len(ts) + 1 : \E g : ListLoop(kind, ts, i, n, g) /\ ListOf(kind, ts, i) = g[n].result
  <1> DEFINE N == Len(ts) + 1
             V == ListStates(kind, ts, i)
             W == {v \in V : v.result.ok => v.result.val # <<>>}
             Step(v) == IF v.more THEN Round(kind, ts, v) ELSE v
             D == [v \in V |-> Step(v)]
             a == More(i, <<>>)
             Loop(g) == g = [n \in 0 .. N |-> IF n = 0 THEN a ELSE Step(g[n - 1])]
             loop == CHOOSE g : Loop(g)
  <1>1. N \in Nat /\ N > 0
    BY DEF Text
  <1>2. ASSUME NEW v \in V
        PROVE  /\ Step(v) \in W /\ v.more \in BOOLEAN
               /\ v.more => v.result.at \in Places(ts)
               /\ v.more /\ Step(v).more => Step(v).result.at > v.result.at
    <2>1. /\ v.result \in ListResults(kind, ts, i) /\ v.more \in BOOLEAN
          /\ IF v.more THEN v.result.ok ELSE v.result.ok => v.result.val # <<>>
      BY DEF ListStates
    <2>2. CASE v.more
      <3> DEFINE x == ItemOf(kind, ts, v.result.at, v.result.val)
      <3>1. Read(kind, ts, i, v.result.at, v.result.val)
        BY <2>1, <2>2, ListResultHas
      <3>2. v.result.at \in Places(ts)
        BY <3>1, PlaceIsReached DEF Read, Places
      <3>3. ReadsItem(kind, ts, x, v.result.at) /\ (kind = "sort" /\ x.ok => x.at > v.result.at)
        BY <3>2
      <3>4. Step(v) = AfterItem(kind, ts, x, v.result.val)
        BY <2>2 DEF Round
      <3> HIDE DEF Step, V, x
      <3>5. Step(v) \in V /\ (Step(v).result.ok => Step(v).result.val # <<>>)
        BY <3>1, <3>3, <3>4, AfterItemIsRead DEF V
      <3>6. Step(v).more => Step(v).result.at > v.result.at
        BY <3>2, <3>3, <3>4, AfterItemGoesOn
      <3> QED
        BY <2>1, <3>2, <3>5, <3>6
    <2>3. CASE ~v.more
      <3>1. Step(v) = v
        BY <2>3
      <3> HIDE DEF Step, V
      <3> QED
        BY <2>1, <2>3, <3>1
    <2> QED
      BY <2>2, <2>3
  <1>3. D \in [V -> V] /\ (\A v \in V : D[v] \in W /\ D[v] = Step(v)) /\ a \in V
    BY <1>2, ReadNothing
  <1>4. \E g : Loop(g)
    <2> HIDE DEF N, V, W, D, a, Step
    <2>1. PICK g : Runs(g, N, V, a, D)
      BY <1>1, <1>3, LoopExists, Zenon
    <2>2. g \in [0 .. N -> V] /\ g[0] = a /\ \A n \in 1 .. N : g[n] = D[g[n - 1]]
      BY <2>1 DEF Runs
    <2>3. ASSUME NEW n \in 0 .. N, n # 0 PROVE g[n] = Step(g[n - 1])
      <3>1. n \in 1 .. N /\ n - 1 \in 0 .. N
        BY <1>1, <2>3
      <3> QED
        BY <1>3, <2>2, <3>1
    <2>4. g = [n \in 0 .. N |-> g[n]]
      BY <2>2
    <2>5. Loop(g)
      BY <2>2, <2>3, <2>4
    <2> QED
      BY <2>5
  <1>5. Loop(loop)
    BY <1>4
  <1>6. ListOf(kind, ts, i) = loop[N].result
    <2>1. CASE kind = "record"
      BY <2>1 DEF ListOf, ItemOf, Round, ParseBatchCreateRecords, Repeat
    <2>2. CASE kind # "record"
      BY <2>2 DEF ListOf, ItemOf, Round, List, Repeat
    <2> QED
      BY <2>1, <2>2
  <1> HIDE DEF loop, N, V, W, D, a, Step
  <1>7. loop[0] = a /\ \A n \in 1 .. N : loop[n] = Step(loop[n - 1])
    BY <1>1, <1>5
  <1>8. W \subseteq V
    BY DEF W
  <1>9. loop[N] \in W
    <2>1. loop[0] \in V /\ \A n \in 1 .. N : loop[n - 1] \in V => loop[n] \in W
      BY <1>2, <1>3, <1>7
    <2> QED
      BY <1>1, <1>8, <2>1, LoopStays
  <1>10. \A n \in 0 .. N : loop[n] \in V
    <2> DEFINE G == {n \in 0 .. N : loop[n] \in V}
    <2>1. 0 \in G
      BY <1>1, <1>3, <1>7
    <2>2. ASSUME NEW n \in 0 .. N - 1, n \in G PROVE n + 1 \in G
      <3>1. n + 1 \in 1 .. N /\ n + 1 - 1 = n /\ n + 1 \in 0 .. N
        BY <1>1
      <3> QED
        BY <1>2, <1>7, <1>8, <2>2, <3>1
    <2> HIDE DEF G
    <2>3. \A n \in 0 .. N - 1 : n \in G => n + 1 \in G
      BY <2>2
    <2>4. \A n \in 0 .. N : n \in G
      BY <1>1, <2>1, <2>3, UpToBound, Zenon
    <2> QED
      BY <2>4 DEF G
  <1>11. PICK n \in 1 .. N : (\A k \in 1 .. n : loop[k - 1].more) /\ ~loop[n].more /\ loop[n] = loop[N]
    <2>1. loop[0].more
      BY <1>7 DEF a, More
    <2>2. \A k \in 0 .. N : loop[k].more \in BOOLEAN /\ (loop[k].more => loop[k].result.at \in 1 .. N)
      BY <1>2, <1>10 DEF Places, N
    <2>3. ASSUME NEW k \in 1 .. N
          PROVE  IF loop[k - 1].more THEN loop[k].more => loop[k].result.at > loop[k - 1].result.at
                 ELSE loop[k] = loop[k - 1]
      <3>1. k - 1 \in 0 .. N
        BY <1>1
      <3>2. loop[k - 1] \in V /\ loop[k] = Step(loop[k - 1])
        BY <1>7, <1>10, <3>1
      <3>3. ~loop[k - 1].more => loop[k] = loop[k - 1]
        BY <3>2 DEF Step
      <3> QED
        BY <1>2, <3>2, <3>3
    <2> QED
      BY <1>1, <2>1, <2>2, <2>3, LoopEnds
  <1>12. ListLoop(kind, ts, i, n, loop)
    <2>1. \A k \in 1 .. n : k \in 1 .. N
      BY <1>1
    <2>2. \A k \in 1 .. n : loop[k] = Round(kind, ts, loop[k - 1])
      BY <1>7, <1>11, <2>1 DEF Step
    <2> QED
      BY <1>7, <1>11, <2>2 DEF ListLoop, a
  <1>13. n \in 1 .. Len(ts) + 1 /\ ListOf(kind, ts, i) = loop[n].result
    BY <1>6, <1>11 DEF N
  <1>14. \E m \in 1 .. Len(ts) + 1 : \E g : ListLoop(kind, ts, i, m, g) /\ ListOf(kind, ts, i) = g[m].result
    BY <1>12, <1>13
  <1> QED
    BY <1>6, <1>9, <1>14 DEF W, V, ListStates

LEMMA ListIsRead ==
    ASSUME NEW kind \in Kinds \ {"record"}, NEW ts \in Text, NEW i \in Places(ts)
    PROVE  /\ List(kind, ts, i) \in ListResults(kind, ts, i) /\ (List(kind, ts, i).ok => List(kind, ts, i).val # <<>>)
           /\ \E n \in 1 .. Len(ts) + 1 : \E g : ListLoop(kind, ts, i, n, g) /\ List(kind, ts, i) = g[n].result
  <1>1. ListOf(kind, ts, i) = List(kind, ts, i)
    BY DEF ListOf
  <1>2. ASSUME NEW j \in Places(ts), NEW before
        PROVE  LET x == ItemOf(kind, ts, j, before)
               IN  ReadsItem(kind, ts, x, j) /\ (kind = "sort" /\ x.ok => x.at > j)
    <2>1. ItemOf(kind, ts, j, before) = Item(kind, ts, j, before)
      BY DEF ItemOf
    <2>2. kind = "sort" => Item(kind, ts, j, before) = ParseSortClause(ts, j)
      BY DEF Item
    <2> QED
      BY <2>1, <2>2, ItemIsRead, SortClauseGoesOn
  <1> QED
    BY <1>1, <1>2, LoopIsRead

LEMMA ListReads ==
    ASSUME NEW kind \in Kinds \ {"record"}, NEW ts \in Text, NEW i \in Places(ts)
    PROVE  LET r == List(kind, ts, i)
           IN  /\ Reads(ts, r, i, Seq(Items(kind)) \ {<<>>}, Allowed(kind))
               /\ r.ok => Times(ts, Mark(kind), i, r.at) = Total(kind, r.val)
  <1> DEFINE r == List(kind, ts, i)
  <1>1. /\ r \in ListResults(kind, ts, i)
        /\ r.ok => r.val # <<>>
    BY ListIsRead
  <1> HIDE DEF r
  <1>2. /\ r.ok \in BOOLEAN
        /\ r.ok => r = Ok(r.at, r.val) /\ Read(kind, ts, i, r.at, r.val)
        /\ ~r.ok => r = Err(r.at) /\ r.at \in i .. Len(ts) + 1
    BY <1>1, ListResultHas
  <1>3. CASE r.ok
    <2>1. /\ r.at \in i .. Len(ts) + 1 /\ r.val \in Seq(Items(kind)) \ {<<>>} /\ Only(ts, i, r.at, Allowed(kind))
          /\ Times(ts, Mark(kind), i, r.at) = Total(kind, r.val)
      BY <1>1, <1>2, <1>3 DEF Read
    <2>2. Reads(ts, Ok(r.at, r.val), i, Seq(Items(kind)) \ {<<>>}, Allowed(kind))
      BY <2>1, ReadsValue
    <2> QED
      BY <1>2, <1>3, <2>1, <2>2 DEF r
  <1>4. CASE ~r.ok
    BY <1>2, <1>4, ReadsError DEF r
  <1> QED
    BY <1>2, <1>3, <1>4

LEMMA RecordIsRead ==
    ASSUME NEW ts \in Text, NEW i \in Places(ts)
    PROVE  ReadsItem("record", ts, ParseCreateRecord(ts, i), i)
  <1> DEFINE x == ParseCreateRecord(ts, i)
             c == Consume(ts, i, "(", None)
             j == i + 1
             l == List("unique", ts, j)
  <1>1. x = IF c.ok THEN (IF Tok(ts, c.at) = ")" THEN Err(c.at) ELSE List("unique", ts, c.at)) ELSE c
    BY DEF ParseCreateRecord, Then
  <1>2. c = IF Tok(ts, i) = "(" THEN Ok(j, None) ELSE Err(i)
    BY DEF Consume
  <1> HIDE DEF x, c
  <1>3. x = IF Tok(ts, i) # "(" THEN Err(i) ELSE IF Tok(ts, j) = ")" THEN Err(j) ELSE l
    BY <1>1, <1>2 DEF Ok, Err
  <1>4. /\ Items("record") = Seq(Assignment) /\ Items("unique") = Assignment
        /\ Allowed("record") = {":"} /\ Allowed("unique") = {":"} /\ Mark("record") = ":" /\ Mark("unique") = ":"
        /\ \A y : Weight("record", y) = Len(y) /\ Total("unique", y) = Len(y)
    BY DEF Items, Allowed, Mark, Weight, Total
  <1>5. i \in i .. Len(ts) + 1 /\ i \in Int
    BY PlaceIsReached
  <1>6. ASSUME NEW n \in i .. Len(ts) + 1, x = Err(n) PROVE ReadsItem("record", ts, x, i)
    <2>1. x.ok = FALSE
      BY <1>6 DEF Err
    <2> QED
      BY <1>4, <1>6, <2>1, ReadsError DEF ReadsItem
  <1>7. CASE Tok(ts, i) # "("
    BY <1>3, <1>5, <1>6, <1>7 DEF x
  <1>8. CASE Tok(ts, i) = "("
    <2>1. Tok(ts, i) # "EOF" /\ Tok(ts, i) \notin Marks
      BY <1>8 DEF Marks
    <2>2. j \in i .. Len(ts) + 1 /\ j \in Places(ts) /\ Only(ts, i, j, {})
      BY <2>1, TokenIsOnly
    <2>3. CASE Tok(ts, j) = ")"
      BY <1>3, <1>6, <1>8, <2>2, <2>3 DEF x
    <2>4. CASE Tok(ts, j) # ")"
      <3>0. "unique" \in Kinds \ {"record"}
        BY DEF Kinds
      <3> HIDE DEF j
      <3>1. /\ Reads(ts, l, j, Seq(Assignment) \ {<<>>}, {":"})
            /\ l.ok => Times(ts, ":", j, l.at) = Len(l.val)
        BY <1>4, <2>2, <3>0, ListReads
      <3>2. x = l
        BY <1>3, <1>8, <2>4
      <3> HIDE DEF l
      <3>3. Seq(Assignment) \ {<<>>} \subseteq Seq(Assignment)
        OBVIOUS
      <3>4. Only(ts, i, j, {":"})
        BY <2>2 DEF Only
      <3>5. i \in Nat
        BY PlaceIsReached
      <3>6. Reads(ts, l, j, Seq(Assignment), {":"})
        BY <3>1, <3>3, ReadsMore
      <3>7. Reads(ts, l, i, Seq(Assignment), {":"})
        BY <2>2, <3>4, <3>5, <3>6, ReadsLater
      <3>8. ASSUME l.ok PROVE Times(ts, ":", i, l.at) = Len(l.val)
        <4>1. l.at \in Places(ts) /\ j <= l.at
          BY <2>2, <3>1, ReadsParts
        <4>2. Times(ts, ":", i, j) = 0
          BY <2>2, TimesOnly DEF Marks
        <4>3. l.at \in Int /\ j \in Int /\ i <= j
          BY <1>5, <2>2, <4>1 DEF Places, Text
        <4>4. /\ Times(ts, ":", i, l.at) = Times(ts, ":", i, j) + Times(ts, ":", j, l.at)
              /\ Times(ts, ":", j, l.at) \in Nat
          BY <1>5, <4>1, <4>3, TimesSplit
        <4> QED
          BY <3>1, <3>8, <4>2, <4>4
      <3> QED
        BY <1>4, <3>2, <3>7, <3>8 DEF ReadsItem, x
    <2> QED
      BY <2>3, <2>4
  <1> QED
    BY <1>7, <1>8

LEMMA BatchIsRead ==
    ASSUME NEW ts \in Text, NEW i \in Places(ts)
    PROVE  LET r == ParseBatchCreateRecords(ts, i)
           IN  /\ r \in ListResults("record", ts, i) /\ (r.ok => r.val # <<>>)
               /\ \E n \in 1 .. Len(ts) + 1 : \E g : ListLoop("record", ts, i, n, g) /\ r = g[n].result
  <1>1. ListOf("record", ts, i) = ParseBatchCreateRecords(ts, i) /\ "record" \in Kinds
    BY DEF ListOf, Kinds
  <1>2. \A j \in Places(ts) : \A before :
           LET x == ItemOf("record", ts, j, before)
           IN  ReadsItem("record", ts, x, j) /\ ("record" = "sort" /\ x.ok => x.at > j)
    BY RecordIsRead DEF ItemOf
  <1> QED
    BY <1>1, <1>2, LoopIsRead

LEMMA BatchReads ==
    ASSUME NEW ts \in Text, NEW i \in Places(ts)
    PROVE  LET r == ParseBatchCreateRecords(ts, i)
           IN  /\ Reads(ts, r, i, Seq(Seq(Assignment)) \ {<<>>}, {":"})
               /\ r.ok => Times(ts, ":", i, r.at) = Cardinality(Pairs(r.val))
  <1> DEFINE r == ParseBatchCreateRecords(ts, i)
  <1>0. /\ "record" \in Kinds /\ Items("record") = Seq(Assignment) /\ Allowed("record") = {":"} /\ Mark("record") = ":"
        /\ \A y : Total("record", y) = Cardinality(Pairs(y))
    BY DEF Kinds, Items, Allowed, Mark, Total, Pairs
  <1>1. /\ r \in ListResults("record", ts, i)
        /\ r.ok => r.val # <<>>
    BY BatchIsRead
  <1> HIDE DEF r
  <1>2. /\ r.ok \in BOOLEAN
        /\ r.ok => r = Ok(r.at, r.val) /\ Read("record", ts, i, r.at, r.val)
        /\ ~r.ok => r = Err(r.at) /\ r.at \in i .. Len(ts) + 1
    BY <1>0, <1>1, ListResultHas
  <1>3. CASE r.ok
    <2>1. /\ r.at \in i .. Len(ts) + 1 /\ r.val \in Seq(Seq(Assignment)) \ {<<>>} /\ Only(ts, i, r.at, {":"})
          /\ Times(ts, ":", i, r.at) = Cardinality(Pairs(r.val))
      BY <1>0, <1>1, <1>2, <1>3 DEF Read
    <2>2. Reads(ts, Ok(r.at, r.val), i, Seq(Seq(Assignment)) \ {<<>>}, {":"})
      BY <2>1, ReadsValue
    <2> QED
      BY <1>2, <1>3, <2>1, <2>2 DEF r
  <1>4. CASE ~r.ok
    BY <1>2, <1>4, ReadsError DEF r
  <1> QED
    BY <1>2, <1>3, <1>4

-----------------------------------------------------------------------------
(* Comparisons *)

Operators == ComparisonTokens \cup {"STARTS", "ENDS", "HAS", "NOT HAS"}
Operand == Literal \cup RangeOfTwo \cup ValueSet

\* Nothing is ordered relative to a set.
NoOrderOfSets(x) == x.operand.kind = "set" => x.operator \notin OrderingTokens
Comparison == {x \in [operator : Operators, operand : Operand] : NoOrderOfSets(x)}

LEMMA ReadsStringLiteral ==
    ASSUME NEW ts \in Text, NEW i \in Places(ts)
    PROVE  Reads(ts, ParseStringLiteral(ts, i), i, Literal, {})
  <1>1. CASE OfKind(ts, i, "string")
    <2>1. ParseStringLiteral(ts, i) = ParseLiteral(ts, i)
      BY <1>1 DEF ParseStringLiteral
    <2> QED
      BY <2>1, ReadsLiteral
  <1>2. CASE ~OfKind(ts, i, "string")
    <2>1. ParseStringLiteral(ts, i) = Err(i)
      BY <1>2 DEF ParseStringLiteral
    <2> QED
      BY <2>1, ReadsRefused
  <1> QED
    BY <1>1, <1>2

LEMMA ReadsValueSet ==
    ASSUME NEW ts \in Text, NEW i \in Places(ts)
    PROVE  Reads(ts, ParseValueSet(ts, i), i, ValueSet, {})
  <1> DEFINE l == List("element", ts, i)
             r == IF l.ok THEN Ok(l.at, [kind |-> "set", elements |-> l.val]) ELSE l
  <1>0. "element" \in Kinds \ {"record"} /\ Items("element") = Element /\ Allowed("element") = {}
    BY DEF Kinds, Items, Allowed
  <1>1. Reads(ts, l, i, Seq(Element) \ {<<>>}, {})
    BY <1>0, ListReads
  <1>2. ASSUME l.ok PROVE Reads(ts, r, l.at, ValueSet, {})
    <2> HIDE DEF l
    <2>1. l.at \in Places(ts) /\ l.val \in Seq(Element)
      BY <1>1, <1>2, ReadsParts
    <2>2. [kind |-> "set", elements |-> l.val] \in ValueSet
      BY <2>1 DEF ValueSet
    <2> QED
      BY <1>2, <2>1, <2>2, ReadsNothing
  <1>3. ParseValueSet(ts, i) = IF Tok(ts, i) = "}" THEN Err(i) ELSE r
    BY DEF ParseValueSet, Then
  <1> HIDE DEF l
  <1>4. Reads(ts, r, i, ValueSet, {})
    BY <1>1, <1>2, ReadsThen
  <1> QED
    BY <1>3, <1>4, ReadsRefused

LEMMA NoLiteralIsSet ==
    \A v \in Literal \cup RangeOfTwo : v.kind # "set"
  BY DEF Literal, RangeOfTwo, LiteralKinds

LEMMA WithOperator ==
    ASSUME NEW ts \in Text, NEW i \in Places(ts), NEW r, NEW V, V \subseteq Operand, Reads(ts, r, i, V, {}),
           NEW op \in Operators, \A v \in V : v.kind = "set" => op \notin OrderingTokens
    PROVE  Reads(ts, IF r.ok THEN Ok(r.at, [operator |-> op, operand |-> r.val]) ELSE r, i, Comparison, {})
  <1> DEFINE x == [operator |-> op, operand |-> r.val]
             s == IF r.ok THEN Ok(r.at, x) ELSE r
  <1>1. ASSUME r.ok PROVE Reads(ts, s, r.at, Comparison, {})
    <2>1. r.at \in Places(ts) /\ r.val \in V
      BY <1>1, ReadsParts
    <2>2. x \in Comparison
      BY <2>1 DEF Comparison, NoOrderOfSets
    <2> HIDE DEF x
    <2> QED
      BY <1>1, <2>1, <2>2, ReadsNothing
  <1> HIDE DEF s
  <1>2. Reads(ts, s, i, Comparison, {})
    BY <1>1, ReadsThen DEF s
  <1> QED
    BY <1>2 DEF s

\* The operand of HAS and NOT HAS.
StringOrSet(ts, i) == IF Tok(ts, i) = "{" THEN ParseValueSet(ts, i + 1) ELSE ParseStringLiteral(ts, i)

LEMMA ReadsStringOrSet ==
    ASSUME NEW ts \in Text, NEW i \in Places(ts)
    PROVE  Reads(ts, StringOrSet(ts, i), i, Literal \cup ValueSet, {})
  <1>1. CASE Tok(ts, i) = "{"
    <2>1. Tok(ts, i) # "EOF" /\ Tok(ts, i) \notin Marks
      BY <1>1 DEF Marks
    <2>2. i + 1 \in Places(ts)
      BY <2>1, TokenIsThere
    <2>3. Reads(ts, ParseValueSet(ts, i + 1), i + 1, Literal \cup ValueSet, {})
      BY <2>2, ReadsValueSet, ReadsMore
    <2>4. Reads(ts, ParseValueSet(ts, i + 1), i, Literal \cup ValueSet, {})
      BY <2>1, <2>3, ReadsToken
    <2> QED
      BY <1>1, <2>4 DEF StringOrSet
  <1>2. CASE Tok(ts, i) # "{"
    <2>1. Reads(ts, ParseStringLiteral(ts, i), i, Literal \cup ValueSet, {})
      BY ReadsStringLiteral, ReadsMore
    <2> QED
      BY <1>2, <2>1 DEF StringOrSet
  <1> QED
    BY <1>1, <1>2

LEMMA ReadsOperatorAndOperand ==
    ASSUME NEW ts \in Text, NEW i \in Places(ts)
    PROVE  Reads(ts, ParseOperatorAndOperand(ts, i), i, Comparison, {})
  <1> DEFINE x == ParseOperatorAndOperand(ts, i)
             t == Tok(ts, i)
             With(op, r) == IF r.ok THEN Ok(r.at, [operator |-> op, operand |-> r.val]) ELSE r
  <1>1. x = CASE t \in {"STARTS", "ENDS"} -> With(t, ParseStringLiteral(ts, i + 1))
              [] t = "HAS" -> With("HAS", StringOrSet(ts, i + 1))
              [] t = "NOT" -> IF Tok(ts, i + 1) = "HAS" THEN With("NOT HAS", StringOrSet(ts, i + 2)) ELSE Err(i + 1)
              [] t \in ComparisonTokens ->
                    IF Tok(ts, i + 1) # "{" THEN With(t, ParseLiteralOrRange(ts, i + 1))
                    ELSE IF t \in OrderingTokens THEN Err(i + 2)
                    ELSE With(t, ParseValueSet(ts, i + 2))
              [] OTHER -> Err(i)
    BY Zenon DEF ParseOperatorAndOperand, StringOrSet, Then
  <1>2. /\ Literal \subseteq Operand /\ ValueSet \subseteq Operand /\ Literal \cup RangeOfTwo \subseteq Operand
        /\ Literal \cup ValueSet \subseteq Operand
    BY DEF Operand
  <1>3. ASSUME NEW j \in Places(ts), t # "EOF", t \notin Marks, NEW r, NEW op \in Operators, j = i + 1,
               \/ Reads(ts, r, j, Literal, {})
               \/ Reads(ts, r, j, Literal \cup RangeOfTwo, {})
               \/ Reads(ts, r, j, Literal \cup ValueSet, {}) /\ op \notin OrderingTokens
        PROVE  Reads(ts, With(op, r), i, Comparison, {})
    <2> HIDE DEF t, x
    <2>1. \A v \in Literal : v.kind # "set"
      BY NoLiteralIsSet
    <2>2. Reads(ts, With(op, r), j, Comparison, {})
      <3>1. CASE Reads(ts, r, j, Literal, {})
        BY <1>2, <2>1, <3>1, WithOperator
      <3>2. CASE Reads(ts, r, j, Literal \cup RangeOfTwo, {})
        BY <1>2, <3>2, NoLiteralIsSet, WithOperator
      <3>3. CASE Reads(ts, r, j, Literal \cup ValueSet, {}) /\ op \notin OrderingTokens
        BY <1>2, <3>3, WithOperator
      <3> QED
        BY <1>3, <3>1, <3>2, <3>3
    <2> HIDE DEF With
    <2> QED
      BY <1>3, <2>2, ReadsToken DEF t
  <1>4. t \in ComparisonTokens \cup {"STARTS", "ENDS", "HAS", "NOT"} => t # "EOF" /\ t \notin Marks /\ i + 1 \in Places(ts)
    <2>1. t \in ComparisonTokens \cup {"STARTS", "ENDS", "HAS", "NOT"} => t # "EOF" /\ t \notin Marks
      BY DEF ComparisonTokens, Marks
    <2> QED
      BY <2>1, TokenIsThere
  <1>5. /\ {"STARTS", "ENDS", "HAS", "NOT HAS"} \subseteq Operators \ OrderingTokens /\ ComparisonTokens \subseteq Operators
        /\ {"STARTS", "ENDS", "HAS", "NOT"} \cap ComparisonTokens = {}
    BY DEF Operators, OrderingTokens, ComparisonTokens
  <1> HIDE DEF x, t, With
  <1>6. CASE t \in {"STARTS", "ENDS"}
    <2>1. x = With(t, ParseStringLiteral(ts, i + 1))
      BY <1>1, <1>5, <1>6
    <2>2. Reads(ts, ParseStringLiteral(ts, i + 1), i + 1, Literal, {})
      BY <1>4, <1>6, ReadsStringLiteral
    <2> QED
      BY <1>3, <1>4, <1>5, <1>6, <2>1, <2>2 DEF x
  <1>7. CASE t = "HAS"
    <2>1. x = With("HAS", StringOrSet(ts, i + 1))
      BY <1>1, <1>5, <1>7
    <2>2. Reads(ts, StringOrSet(ts, i + 1), i + 1, Literal \cup ValueSet, {})
      BY <1>4, <1>7, ReadsStringOrSet
    <2> QED
      BY <1>3, <1>4, <1>5, <1>7, <2>1, <2>2 DEF x
  <1>8. CASE t = "NOT"
    <2>1. x = IF Tok(ts, i + 1) = "HAS" THEN With("NOT HAS", StringOrSet(ts, i + 2)) ELSE Err(i + 1)
      BY <1>1, <1>5, <1>8
    <2>2. i + 1 \in Places(ts) /\ t # "EOF" /\ t \notin Marks /\ i + 1 + 1 = i + 2
      BY <1>4, <1>8 DEF Places
    <2>3. CASE Tok(ts, i + 1) = "HAS"
      <3>1. Tok(ts, i + 1) # "EOF" /\ Tok(ts, i + 1) \notin Marks
        BY <2>3 DEF Marks
      <3>2. i + 2 \in Places(ts)
        BY <2>2, <3>1, TokenIsThere
      <3>3. Reads(ts, StringOrSet(ts, i + 2), i + 2, Literal \cup ValueSet, {})
        BY <3>2, ReadsStringOrSet
      <3>4. Reads(ts, StringOrSet(ts, i + 2), i + 1, Literal \cup ValueSet, {})
        BY <2>2, <3>1, <3>3, ReadsToken
      <3> QED
        BY <1>3, <1>5, <2>1, <2>2, <2>3, <3>4 DEF x
    <2>4. CASE Tok(ts, i + 1) # "HAS"
      <3>1. Reads(ts, Err(i + 1), i + 1, Comparison, {})
        BY <2>2, ReadsRefused
      <3> QED
        BY <2>1, <2>2, <2>4, <3>1, ReadsToken DEF x, t
    <2> QED
      BY <2>3, <2>4
  <1>9. CASE t \in ComparisonTokens
    <2>1. x = IF Tok(ts, i + 1) # "{" THEN With(t, ParseLiteralOrRange(ts, i + 1))
              ELSE IF t \in OrderingTokens THEN Err(i + 2)
              ELSE With(t, ParseValueSet(ts, i + 2))
      BY <1>1, <1>5, <1>9
    <2>2. i + 1 \in Places(ts) /\ t # "EOF" /\ t \notin Marks /\ i + 1 + 1 = i + 2
      BY <1>4, <1>9 DEF Places
    <2>3. CASE Tok(ts, i + 1) # "{"
      <3>1. Reads(ts, ParseLiteralOrRange(ts, i + 1), i + 1, Literal \cup RangeOfTwo, {})
        BY <2>2, ReadsLiteralOrRange
      <3> QED
        BY <1>3, <1>5, <1>9, <2>1, <2>2, <2>3, <3>1 DEF x
    <2>4. CASE Tok(ts, i + 1) = "{"
      <3>1. Tok(ts, i + 1) # "EOF" /\ Tok(ts, i + 1) \notin Marks
        BY <2>4 DEF Marks
      <3>2. i + 2 \in Places(ts)
        BY <2>2, <3>1, TokenIsThere
      <3>3. CASE t \in OrderingTokens
        <4>1. Reads(ts, Err(i + 2), i + 2, Comparison, {})
          BY <3>2, ReadsRefused
        <4>2. Reads(ts, Err(i + 2), i + 1, Comparison, {})
          BY <2>2, <3>1, <4>1, ReadsToken
        <4>3. x = Err(i + 2)
          BY <2>1, <2>4, <3>3
        <4> QED
          BY <2>2, <4>2, <4>3, ReadsToken DEF x, t
      <3>4. CASE t \notin OrderingTokens
        <4>1. Reads(ts, ParseValueSet(ts, i + 2), i + 2, Literal \cup ValueSet, {})
          BY <3>2, ReadsValueSet, ReadsMore
        <4>2. Reads(ts, ParseValueSet(ts, i + 2), i + 1, Literal \cup ValueSet, {})
          BY <2>2, <3>1, <4>1, ReadsToken
        <4>3. x = With(t, ParseValueSet(ts, i + 2))
          BY <2>1, <2>4, <3>4
        <4> QED
          BY <1>3, <1>5, <1>9, <2>2, <3>4, <4>2, <4>3 DEF x
      <3> QED
        BY <3>3, <3>4
    <2> QED
      BY <2>3, <2>4
  <1>10. CASE t \notin ComparisonTokens \cup {"STARTS", "ENDS", "HAS", "NOT"}
    <2>1. x = Err(i)
      BY <1>1, <1>10
    <2> QED
      BY <2>1, ReadsRefused DEF x
  <1> QED
    BY <1>6, <1>7, <1>8, <1>9, <1>10

-----------------------------------------------------------------------------
(* Conditions *)

Leaf == {x \in [kind : {"field"}, field : Path, operator : Operators, operand : Operand] : NoOrderOfSets(x)}
Node == Leaf \cup [kind : {"AND", "OR", "NOT"}]
Nodes == Seq(Node)
Condition == Nodes \ {<<>>}

\* Functions that read, from every place on, a value of V without marks.
Readers(ts, V) ==
    {f \in [Places(ts) -> {Err(j) : j \in Places(ts)} \cup {Ok(x[1], x[2]) : x \in Places(ts) \X V}] :
        \A i \in Places(ts) : Reads(ts, f[i], i, V, {})}

AllReaders(ts) ==
    [not : Readers(ts, Condition), and : Readers(ts, Condition), andRest : Readers(ts, Nodes),
     or : Readers(ts, Condition), orRest : Readers(ts, Nodes),
     where : Readers(ts, Condition), whereRest : Readers(ts, Nodes)]

LEMMA Nodes1 ==
    /\ <<>> \in Nodes
    /\ \A n \in Node : <<n>> \in Condition
    /\ \A e \in Nodes, f \in Condition : e \o f \in Condition /\ f \o e \in Condition
    /\ \A op \in {"AND", "OR", "NOT"} : Connective(op) \in Condition
    /\ \A f \in Condition, op \in {"AND", "OR", "NOT"}, e \in Nodes :
          f \o Connective(op) \in Condition /\ f \o Connective(op) \o e \in Condition
  <1>1. <<>> \in Nodes /\ \A n \in Node : <<n>> \in Condition
    BY DEF Nodes, Condition
  <1>2. \A e \in Nodes, f \in Condition : e \o f \in Condition /\ f \o e \in Condition
    <2> SUFFICES ASSUME NEW e \in Nodes, NEW f \in Condition PROVE e \o f \in Condition /\ f \o e \in Condition
      OBVIOUS
    <2>1. e \o f \in Nodes /\ f \o e \in Nodes
      BY DEF Nodes, Condition
    <2>2. Len(e) \in Nat /\ Len(f) \in Nat /\ Len(f) # 0 /\ Len(e \o f) = Len(e) + Len(f) /\ Len(f \o e) = Len(f) + Len(e)
      BY DEF Nodes, Condition
    <2>3. Len(<<>>) = 0
      OBVIOUS
    <2> QED
      BY <2>1, <2>2, <2>3 DEF Condition
  <1>3. ASSUME NEW op \in {"AND", "OR", "NOT"} PROVE Connective(op) \in Condition
    <2>1. [kind |-> op] \in Node
      BY DEF Node
    <2> QED
      BY <1>1, <2>1 DEF Connective
  <1>4. Condition \subseteq Nodes
    BY DEF Condition
  <1> QED
    BY <1>1, <1>2, <1>3, <1>4

LEMMA IsReader ==
    ASSUME NEW ts \in Text, NEW V, NEW f, f = [i \in Places(ts) |-> f[i]],
           \A i \in Places(ts) : Reads(ts, f[i], i, V, {})
    PROVE  f \in Readers(ts, V)
  <1> DEFINE R == {Err(j) : j \in Places(ts)} \cup {Ok(x[1], x[2]) : x \in Places(ts) \X V}
  <1>1. ASSUME NEW i \in Places(ts) PROVE f[i] \in R
    <2>1. /\ f[i].ok \in BOOLEAN /\ f[i].at \in Places(ts)
          /\ f[i].ok => f[i].val \in V /\ f[i] = Ok(f[i].at, f[i].val)
          /\ ~f[i].ok => f[i] = Err(f[i].at)
      BY ReadsParts
    <2>2. CASE f[i].ok
      <3>1. <<f[i].at, f[i].val>> \in Places(ts) \X V
        BY <2>1, <2>2
      <3> QED
        BY <2>1, <2>2, <3>1
    <2> QED
      BY <2>1, <2>2
  <1> HIDE DEF R
  <1>2. f \in [Places(ts) -> R]
    BY <1>1
  <1> QED
    BY <1>2 DEF Readers, R

LEMMA ReaderReads ==
    ASSUME NEW ts \in Text, NEW V, NEW f \in Readers(ts, V), NEW i \in Places(ts)
    PROVE  Reads(ts, f[i], i, V, {})
  BY DEF Readers

LEMMA ReadersAre ==
    ASSUME NEW ts \in Text, NEW P \in AllReaders(ts)
    PROVE  /\ P.not \in Readers(ts, Condition) /\ P.and \in Readers(ts, Condition)
           /\ P.andRest \in Readers(ts, Nodes) /\ P.or \in Readers(ts, Condition) /\ P.orRest \in Readers(ts, Nodes)
           /\ P.where \in Readers(ts, Condition) /\ P.whereRest \in Readers(ts, Nodes)
  BY DEF AllReaders

(* A first operand and what follows it.                                    *)
LEMMA ReadsJoin ==
    ASSUME NEW ts \in Text, NEW i \in Places(ts), NEW r, Reads(ts, r, i, Condition, {}),
           NEW f \in Readers(ts, Nodes), NEW op \in {"AND", "OR"}
    PROVE  /\ Reads(ts, IF r.ok THEN IF f[r.at].ok THEN Ok(f[r.at].at, r.val \o f[r.at].val) ELSE f[r.at] ELSE r,
                    i, Condition, {})
           /\ Reads(ts, IF r.ok THEN IF f[r.at].ok
                                     THEN Ok(f[r.at].at, r.val \o Connective(op) \o f[r.at].val) ELSE f[r.at]
                        ELSE r,
                    i, Condition, {})
  <1> DEFINE s == f[r.at]
             a == IF s.ok THEN Ok(s.at, r.val \o s.val) ELSE s
             b == IF s.ok THEN Ok(s.at, r.val \o Connective(op) \o s.val) ELSE s
             x == IF r.ok THEN a ELSE r
             y == IF r.ok THEN b ELSE r
  <1>1. ASSUME r.ok PROVE Reads(ts, a, r.at, Condition, {}) /\ Reads(ts, b, r.at, Condition, {})
    <2>1. r.at \in Places(ts) /\ r.val \in Condition
      BY <1>1, ReadsParts
    <2>2. Reads(ts, s, r.at, Nodes, {})
      BY <2>1, ReaderReads
    <2> HIDE DEF s
    <2>3. ASSUME s.ok PROVE s.at \in Places(ts) /\ r.val \o s.val \in Condition /\ r.val \o Connective(op) \o s.val \in Condition
      <3>1. s.at \in Places(ts) /\ s.val \in Nodes
        BY <2>1, <2>2, <2>3, ReadsParts
      <3> QED
        BY <2>1, <3>1, Nodes1
    <2>4. ASSUME s.ok PROVE Reads(ts, a, s.at, Condition, {}) /\ Reads(ts, b, s.at, Condition, {})
      BY <2>3, <2>4, ReadsNothing
    <2> HIDE DEF a, b
    <2>5. (~s.ok => a = s) /\ (~s.ok => b = s)
      BY DEF a, b
    <2> QED
      BY <2>1, <2>2, <2>4, <2>5, ReadsThen
  <1> HIDE DEF a, b
  <1>2. Reads(ts, x, i, Condition, {})
    BY <1>1, ReadsThen
  <1>3. Reads(ts, y, i, Condition, {})
    BY <1>1, ReadsThen
  <1> QED
    BY <1>2, <1>3 DEF a, b

LEMMA ReadsAtomic ==
    ASSUME NEW ts \in Text, NEW i \in Places(ts)
    PROVE  Reads(ts, ParseAtomicFieldExpression(ts, i), i, Condition, {})
  <1> DEFINE p == ParseFieldPath(ts, i)
             c == ParseOperatorAndOperand(ts, p.at)
             leaf == [kind |-> "field", field |-> p.val, operator |-> c.val.operator, operand |-> c.val.operand]
             s == IF c.ok THEN Ok(c.at, <<leaf>>) ELSE c
             x == IF p.ok THEN s ELSE p
  <1>1. ParseAtomicFieldExpression(ts, i) = x
    BY DEF ParseAtomicFieldExpression, Then
  <1>2. Reads(ts, p, i, Path, {})
    BY ReadsFieldPath
  <1>3. ASSUME p.ok PROVE Reads(ts, s, p.at, Condition, {})
    <2> HIDE DEF p
    <2>1. p.at \in Places(ts) /\ p.val \in Path
      BY <1>2, <1>3, ReadsParts
    <2>2. Reads(ts, c, p.at, Comparison, {})
      BY <2>1, ReadsOperatorAndOperand
    <2> HIDE DEF c
    <2>3. ASSUME c.ok PROVE Reads(ts, s, c.at, Condition, {})
      <3>1. c.at \in Places(ts) /\ c.val \in Comparison
        BY <2>1, <2>2, <2>3, ReadsParts
      <3>2. leaf \in Leaf
        BY <2>1, <3>1 DEF Leaf, Comparison, NoOrderOfSets
      <3> HIDE DEF leaf
      <3>3. <<leaf>> \in Condition
        BY <3>2, Nodes1 DEF Node
      <3> QED
        BY <2>3, <3>1, <3>3, ReadsNothing
    <2> HIDE DEF leaf
    <2> QED
      BY <2>1, <2>2, <2>3, ReadsThen
  <1> HIDE DEF p, s
  <1>4. Reads(ts, x, i, Condition, {})
    BY <1>2, <1>3, ReadsThen
  <1> QED
    BY <1>1, <1>4

LEMMA ReadsPrimary ==
    ASSUME NEW ts \in Text, NEW i \in Places(ts), NEW P \in AllReaders(ts)
    PROVE  Reads(ts, ParsePrimaryExpression(ts, i, P), i, Condition, {})
  <1>1. CASE Tok(ts, i) # "{"
    <2>1. ParsePrimaryExpression(ts, i, P) = ParseAtomicFieldExpression(ts, i)
      BY <1>1 DEF ParsePrimaryExpression
    <2> QED
      BY <2>1, ReadsAtomic
  <1>2. CASE Tok(ts, i) = "{"
    <2> DEFINE r == P.or[i + 1]
               c == Consume(ts, r.at, "}", r.val)
               x == IF r.ok THEN c ELSE r
    <2>1. ParsePrimaryExpression(ts, i, P) = x
      BY <1>2 DEF ParsePrimaryExpression, Then
    <2>2. Tok(ts, i) # "EOF" /\ Tok(ts, i) \notin Marks
      BY <1>2 DEF Marks
    <2>3. i + 1 \in Places(ts)
      BY <2>2, TokenIsThere
    <2>4. Reads(ts, r, i + 1, Condition, {})
      BY <2>3, ReadersAre, ReaderReads
    <2>5. ASSUME r.ok PROVE Reads(ts, c, r.at, Condition, {})
      <3> HIDE DEF r
      <3>1. r.at \in Places(ts) /\ r.val \in Condition
        BY <2>3, <2>4, <2>5, ReadsParts
      <3> QED
        BY <3>1, ReadsConsume DEF Marks
    <2> HIDE DEF r, c
    <2>6. Reads(ts, x, i + 1, Condition, {})
      BY <2>3, <2>4, <2>5, ReadsThen
    <2> QED
      BY <2>1, <2>2, <2>6, ReadsToken
  <1> QED
    BY <1>1, <1>2

LEMMA ReadsNot ==
    ASSUME NEW ts \in Text, NEW i \in Places(ts), NEW P \in AllReaders(ts)
    PROVE  Reads(ts, ParseNotExpression(ts, i, P), i, Condition, {})
  <1>1. CASE Tok(ts, i) # "NOT"
    <2>1. ParseNotExpression(ts, i, P) = ParsePrimaryExpression(ts, i, P)
      BY <1>1 DEF ParseNotExpression
    <2> QED
      BY <2>1, ReadsPrimary
  <1>2. CASE Tok(ts, i) = "NOT"
    <2> DEFINE r == P.not[i + 1]
               c == Ok(r.at, Negation(r.val))
               x == IF r.ok THEN c ELSE r
    <2>1. ParseNotExpression(ts, i, P) = x
      BY <1>2 DEF ParseNotExpression, Then
    <2>2. Tok(ts, i) # "EOF" /\ Tok(ts, i) \notin Marks
      BY <1>2 DEF Marks
    <2>3. i + 1 \in Places(ts)
      BY <2>2, TokenIsThere
    <2>4. Reads(ts, r, i + 1, Condition, {})
      BY <2>3, ReadersAre, ReaderReads
    <2>5. ASSUME r.ok PROVE Reads(ts, c, r.at, Condition, {})
      <3> HIDE DEF r
      <3>1. r.at \in Places(ts) /\ r.val \in Condition
        BY <2>3, <2>4, <2>5, ReadsParts
      <3>2. Negation(r.val) \in Condition
        BY <3>1, Nodes1 DEF Negation, Condition
      <3> QED
        BY <3>1, <3>2, ReadsNothing
    <2> HIDE DEF r, c
    <2>6. Reads(ts, x, i + 1, Condition, {})
      BY <2>3, <2>4, <2>5, ReadsThen
    <2> QED
      BY <2>1, <2>2, <2>6, ReadsToken
  <1> QED
    BY <1>1, <1>2

LEMMA ReadsAndOr ==
    ASSUME NEW ts \in Text, NEW i \in Places(ts), NEW P \in AllReaders(ts)
    PROVE  /\ Reads(ts, ParseAndExpression(ts, i, P), i, Condition, {})
           /\ Reads(ts, ParseOrExpression(ts, i, P), i, Condition, {})
           /\ Reads(ts, WhereExpression(ts, i, P), i, Condition, {})
  <1>1. /\ P.not \in Readers(ts, Condition) /\ P.and \in Readers(ts, Condition) /\ P.or \in Readers(ts, Condition)
        /\ P.andRest \in Readers(ts, Nodes) /\ P.orRest \in Readers(ts, Nodes) /\ P.whereRest \in Readers(ts, Nodes)
    BY ReadersAre
  <1>2. /\ Reads(ts, P.not[i], i, Condition, {}) /\ Reads(ts, P.and[i], i, Condition, {})
        /\ Reads(ts, P.or[i], i, Condition, {})
    BY <1>1, ReaderReads
  <1> DEFINE Joined(r, f) ==
                IF r.ok THEN IF f[r.at].ok THEN Ok(f[r.at].at, r.val \o f[r.at].val) ELSE f[r.at] ELSE r
  <1>3. /\ ParseAndExpression(ts, i, P) = Joined(P.not[i], P.andRest)
        /\ ParseOrExpression(ts, i, P) = Joined(P.and[i], P.orRest)
        /\ WhereExpression(ts, i, P) = Joined(P.or[i], P.whereRest)
    BY DEF ParseAndExpression, ParseOrExpression, WhereExpression, Then
  <1>4. Reads(ts, Joined(P.not[i], P.andRest), i, Condition, {})
    BY <1>1, <1>2, ReadsJoin
  <1>5. Reads(ts, Joined(P.and[i], P.orRest), i, Condition, {})
    BY <1>1, <1>2, ReadsJoin
  <1>6. Reads(ts, Joined(P.or[i], P.whereRest), i, Condition, {})
    BY <1>1, <1>2, ReadsJoin
  <1> QED
    BY <1>3, <1>4, <1>5, <1>6

(* What follows a first operand: nothing, or a connective and more.        *)
LEMMA ReadsRest ==
    ASSUME NEW ts \in Text, NEW i \in Places(ts), NEW f \in Readers(ts, Condition), NEW g \in Readers(ts, Nodes),
           NEW op \in {"AND", "OR"}, NEW r, r = f[i]
    PROVE  Reads(ts, IF r.ok THEN IF g[r.at].ok
                                  THEN Ok(g[r.at].at, r.val \o Connective(op) \o g[r.at].val) ELSE g[r.at]
                     ELSE r, i, Nodes, {})
  <1>1. Reads(ts, r, i, Condition, {})
    BY ReaderReads
  <1>2. Condition \subseteq Nodes
    BY DEF Condition
  <1> QED
    BY <1>1, <1>2, ReadsJoin, ReadsMore

LEMMA ReadsRests ==
    ASSUME NEW ts \in Text, NEW i \in Places(ts), NEW P \in AllReaders(ts)
    PROVE  /\ Reads(ts, AndRest(ts, i, P), i, Nodes, {})
           /\ Reads(ts, OrRest(ts, i, P), i, Nodes, {})
           /\ Reads(ts, WhereRest(ts, i, P), i, Nodes, {})
  <1>1. /\ P.not \in Readers(ts, Condition) /\ P.and \in Readers(ts, Condition) /\ P.or \in Readers(ts, Condition)
        /\ P.andRest \in Readers(ts, Nodes) /\ P.orRest \in Readers(ts, Nodes) /\ P.whereRest \in Readers(ts, Nodes)
    BY ReadersAre
  <1> DEFINE Joined(r, op, g) ==
                IF r.ok THEN IF g[r.at].ok THEN Ok(g[r.at].at, r.val \o Connective(op) \o g[r.at].val) ELSE g[r.at]
                ELSE r
  <1>2. <<>> \in Nodes /\ Reads(ts, Ok(i, <<>>), i, Nodes, {}) /\ Reads(ts, Err(i), i, Nodes, {})
    BY Nodes1, ReadsNothing
  <1>3. Reads(ts, AndRest(ts, i, P), i, Nodes, {})
    <2>1. AndRest(ts, i, P) = IF Tok(ts, i) \notin {"AND", ","} THEN Ok(i, <<>>)
                              ELSE IF Tok(ts, i) = "," /\ Tok(ts, i + 1) = "}" THEN Err(i)
                              ELSE Joined(P.not[i + 1], "AND", P.andRest)
      BY DEF AndRest, Then
    <2>2. CASE Tok(ts, i) \in {"AND", ","}
      <3>1. Tok(ts, i) # "EOF" /\ Tok(ts, i) \notin Marks
        BY <2>2 DEF Marks
      <3>2. i + 1 \in Places(ts)
        BY <3>1, TokenIsThere
      <3>3. Reads(ts, Joined(P.not[i + 1], "AND", P.andRest), i + 1, Nodes, {})
        BY <1>1, <3>2, ReadsRest
      <3> HIDE DEF Joined
      <3>4. Reads(ts, Joined(P.not[i + 1], "AND", P.andRest), i, Nodes, {})
        BY <3>1, <3>3, ReadsToken
      <3> QED
        BY <1>2, <2>1, <3>4
    <2>3. CASE Tok(ts, i) \notin {"AND", ","}
      BY <1>2, <2>1, <2>3
    <2> QED
      BY <2>2, <2>3
  <1>4. Reads(ts, OrRest(ts, i, P), i, Nodes, {})
    <2>1. OrRest(ts, i, P) = IF Tok(ts, i) # "OR" THEN Ok(i, <<>>) ELSE Joined(P.and[i + 1], "OR", P.orRest)
      BY DEF OrRest, Then
    <2>2. CASE Tok(ts, i) = "OR"
      <3>1. Tok(ts, i) # "EOF" /\ Tok(ts, i) \notin Marks
        BY <2>2 DEF Marks
      <3>2. i + 1 \in Places(ts)
        BY <3>1, TokenIsThere
      <3>3. Reads(ts, Joined(P.and[i + 1], "OR", P.orRest), i + 1, Nodes, {})
        BY <1>1, <3>2, ReadsRest
      <3> HIDE DEF Joined
      <3>4. Reads(ts, Joined(P.and[i + 1], "OR", P.orRest), i, Nodes, {})
        BY <3>1, <3>3, ReadsToken
      <3> QED
        BY <2>1, <2>2, <3>4
    <2>3. CASE Tok(ts, i) # "OR"
      BY <1>2, <2>1, <2>3
    <2> QED
      BY <2>2, <2>3
  <1>5. ASSUME NEW j \in Places(ts), NEW x,
               x = IF Tok(ts, j) = "}" THEN Ok(j + 1, <<>>)
                   ELSE IF Tok(ts, j) = "EOF" THEN Err(j)
                   ELSE Joined(P.or[j], "AND", P.whereRest)
        PROVE  Reads(ts, x, j, Nodes, {})
    <2>1. CASE Tok(ts, j) = "}"
      <3>1. Tok(ts, j) # "EOF" /\ Tok(ts, j) \notin Marks
        BY <2>1 DEF Marks
      <3> HIDE DEF Joined
      <3> QED
        BY <1>2, <1>5, <2>1, <3>1, ReadsToken
    <2>2. CASE Tok(ts, j) # "}" /\ Tok(ts, j) = "EOF"
      <3> HIDE DEF Joined
      <3> QED
        BY <1>5, <2>2, ReadsRefused
    <2>3. CASE Tok(ts, j) # "}" /\ Tok(ts, j) # "EOF"
      <3>1. Reads(ts, Joined(P.or[j], "AND", P.whereRest), j, Nodes, {})
        BY <1>1, ReadsRest
      <3> HIDE DEF Joined
      <3> QED
        BY <1>5, <2>3, <3>1
    <2> QED
      BY <2>1, <2>2, <2>3
  <1>6. Reads(ts, WhereRest(ts, i, P), i, Nodes, {})
    <2> DEFINE j == IF Tok(ts, i) = "," THEN i + 1 ELSE i
    <2>1. WhereRest(ts, i, P) = IF Tok(ts, j) = "}" THEN Ok(j + 1, <<>>)
                                ELSE IF Tok(ts, j) = "EOF" THEN Err(j)
                                ELSE Joined(P.or[j], "AND", P.whereRest)
      BY DEF WhereRest, Then
    <2> HIDE DEF Joined
    <2>2. CASE Tok(ts, i) = ","
      <3>1. Tok(ts, i) # "EOF" /\ Tok(ts, i) \notin Marks
        BY <2>2 DEF Marks
      <3>2. i + 1 \in Places(ts) /\ j = i + 1
        BY <2>2, <3>1, TokenIsThere
      <3> HIDE DEF j
      <3>3. Reads(ts, WhereRest(ts, i, P), i + 1, Nodes, {})
        BY <1>5, <2>1, <3>2
      <3> QED
        BY <3>1, <3>3, ReadsToken
    <2>3. CASE Tok(ts, i) # ","
      <3>1. j = i
        BY <2>3
      <3> HIDE DEF j
      <3> QED
        BY <1>5, <2>1, <3>1
    <2> QED
      BY <2>2, <2>3
  <1> QED
    BY <1>3, <1>4, <1>6

\* What the functions give, when what they call gives P.
LEMMA CalledReads ==
    ASSUME NEW ts \in Text, NEW P \in AllReaders(ts)
    PROVE  Called(ts, P) \in AllReaders(ts)
  <1>1. [i \in Places(ts) |-> ParseNotExpression(ts, i, P)] \in Readers(ts, Condition)
    BY ReadsNot, IsReader
  <1>2. [i \in Places(ts) |-> ParseAndExpression(ts, i, P)] \in Readers(ts, Condition)
    BY ReadsAndOr, IsReader
  <1>3. [i \in Places(ts) |-> AndRest(ts, i, P)] \in Readers(ts, Nodes)
    BY ReadsRests, IsReader
  <1>4. [i \in Places(ts) |-> ParseOrExpression(ts, i, P)] \in Readers(ts, Condition)
    BY ReadsAndOr, IsReader
  <1>5. [i \in Places(ts) |-> OrRest(ts, i, P)] \in Readers(ts, Nodes)
    BY ReadsRests, IsReader
  <1>6. [i \in Places(ts) |-> WhereExpression(ts, i, P)] \in Readers(ts, Condition)
    BY ReadsAndOr, IsReader
  <1>7. [i \in Places(ts) |-> WhereRest(ts, i, P)] \in Readers(ts, Nodes)
    BY ReadsRests, IsReader
  <1> QED
    BY <1>1, <1>2, <1>3, <1>4, <1>5, <1>6, <1>7 DEF Called, AllReaders, Places

\* The results of N calls within each other, from none on.
NoCalls(ts) ==
    LET none == [i \in Places(ts) |-> Err(i)]
    IN  [not |-> none, and |-> none, andRest |-> none, or |-> none, orRest |-> none, where |-> none, whereRest |-> none]

CallRuns(ts, N, g) ==
    /\ g[0] = NoCalls(ts) /\ Conditions(ts) = g[N]
    /\ \A n \in 1 .. N : g[n] = Called(ts, g[n - 1])

LEMMA NoCallsRead ==
    ASSUME NEW ts \in Text
    PROVE  NoCalls(ts) \in AllReaders(ts)
  <1> DEFINE none == [i \in Places(ts) |-> Err(i)]
  <1>1. \A i \in Places(ts) : Reads(ts, none[i], i, Condition, {}) /\ Reads(ts, none[i], i, Nodes, {})
    BY ReadsRefused
  <1>2. none = [i \in Places(ts) |-> none[i]]
    OBVIOUS
  <1>3. NoCalls(ts) = [not |-> none, and |-> none, andRest |-> none, or |-> none, orRest |-> none,
                       where |-> none, whereRest |-> none]
    BY DEF NoCalls
  <1> HIDE DEF none
  <1>4. none \in Readers(ts, Condition) /\ none \in Readers(ts, Nodes)
    BY <1>1, <1>2, IsReader
  <1> QED
    BY <1>3, <1>4 DEF AllReaders

LEMMA CallsExist ==
    ASSUME NEW ts \in Text, NEW N, N = 4 * (Len(ts) + 1)
    PROVE  N \in Nat /\ N > 0 /\ \E g : CallRuns(ts, N, g)
  <1> DEFINE V == AllReaders(ts)
             a == NoCalls(ts)
             D == [P \in V |-> Called(ts, P)]
             Loop(g) == g = [n \in 0 .. N |-> IF n = 0 THEN a ELSE Called(ts, g[n - 1])]
             loop == CHOOSE g : Loop(g)
  <1>1. N \in Nat /\ N > 0
    BY DEF Text
  <1>2. a \in V
    BY NoCallsRead
  <1>3. D \in [V -> V] /\ \A P \in V : D[P] = Called(ts, P)
    BY CalledReads
  <1>4. Conditions(ts) = loop[N]
    BY DEF Conditions, Places, NoCalls
  <1>5. \E g : Loop(g)
    <2> HIDE DEF V, D, a
    <2>1. PICK g : Runs(g, N, V, a, D)
      BY <1>1, <1>2, <1>3, LoopExists, Zenon
    <2>2. g \in [0 .. N -> V] /\ g[0] = a /\ \A n \in 1 .. N : g[n] = D[g[n - 1]]
      BY <2>1 DEF Runs
    <2>3. ASSUME NEW n \in 0 .. N, n # 0 PROVE g[n] = Called(ts, g[n - 1])
      <3>1. n \in 1 .. N /\ n - 1 \in 0 .. N
        BY <1>1, <2>3
      <3> QED
        BY <1>3, <2>2, <3>1
    <2>4. g = [n \in 0 .. N |-> g[n]]
      BY <2>2
    <2>5. Loop(g)
      BY <2>2, <2>3, <2>4
    <2> QED
      BY <2>5
  <1>6. Loop(loop)
    BY <1>5
  <1> HIDE DEF loop, V, D, a
  <1>7. loop[0] = a /\ \A n \in 1 .. N : loop[n] = Called(ts, loop[n - 1])
    BY <1>1, <1>6
  <1> QED
    BY <1>1, <1>4, <1>7 DEF CallRuns, a

LEMMA ConditionsRead ==
    ASSUME NEW ts \in Text
    PROVE  Conditions(ts) \in AllReaders(ts)
  <1> DEFINE N == 4 * (Len(ts) + 1)
             V == AllReaders(ts)
  <1>1. N \in Nat /\ N > 0 /\ \E g : CallRuns(ts, N, g)
    BY CallsExist
  <1> HIDE DEF N
  <1>2. PICK g : CallRuns(ts, N, g)
    BY <1>1
  <1>3. g[0] \in V /\ \A n \in 1 .. N : g[n - 1] \in V => g[n] \in V
    BY <1>2, NoCallsRead, CalledReads DEF CallRuns
  <1> HIDE DEF V
  <1>4. g[N] \in V
    BY <1>1, <1>3, LoopStays
  <1> QED
    BY <1>2, <1>4 DEF CallRuns, V

-----------------------------------------------------------------------------
(* The calls within each other end: more of them would change nothing *)

\* What a condition is read from is never nothing.
Onward(ts, P) ==
    \A i \in Places(ts) : /\ P.not[i].ok => P.not[i].at > i
                          /\ P.and[i].ok => P.and[i].at > i
                          /\ P.or[i].ok => P.or[i].at > i

\* The calls that may be within each other after place i.
Need(ts, i) == 4 * (Len(ts) + 1 - i)

\* P and Q give the same wherever n calls are enough.
Agree(ts, P, Q, n) ==
    \A i \in Places(ts) :
        /\ Need(ts, i) + 1 <= n => P.not[i] = Q.not[i] /\ P.andRest[i] = Q.andRest[i] /\ P.orRest[i] = Q.orRest[i]
        /\ Need(ts, i) + 2 <= n => P.and[i] = Q.and[i]
        /\ Need(ts, i) + 3 <= n => P.or[i] = Q.or[i]
        /\ Need(ts, i) + 4 <= n => P.where[i] = Q.where[i] /\ P.whereRest[i] = Q.whereRest[i]

LEMMA NeedFalls ==
    ASSUME NEW ts \in Text, NEW i \in Places(ts)
    PROVE  /\ Need(ts, i) \in Nat /\ Need(ts, i) + 4 <= 4 * (Len(ts) + 1)
           /\ \A j \in Places(ts) : /\ i <= j => Need(ts, j) <= Need(ts, i)
                                    /\ i < j => Need(ts, j) + 4 <= Need(ts, i)
  BY DEF Need, Places, Text

LEMMA AtomicGoesOn ==
    ASSUME NEW ts \in Text, NEW i \in Places(ts), ParseAtomicFieldExpression(ts, i).ok
    PROVE  ParseAtomicFieldExpression(ts, i).at > i
  <1> DEFINE p == ParseFieldPath(ts, i)
             c == ParseOperatorAndOperand(ts, p.at)
  <1>1. ParseAtomicFieldExpression(ts, i).at = IF p.ok THEN c.at ELSE p.at
    BY DEF ParseAtomicFieldExpression, Then, Ok
  <1>2. ParseAtomicFieldExpression(ts, i).ok => p.ok
    BY DEF ParseAtomicFieldExpression, Then
  <1>3. p.ok /\ p.at > i /\ p.at \in Places(ts)
    BY <1>2, ReadsFieldPath, ReadsParts
  <1> HIDE DEF p
  <1>4. c.at >= p.at /\ c.at \in Places(ts)
    BY <1>3, ReadsOperatorAndOperand, ReadsParts
  <1> HIDE DEF c
  <1> QED
    BY <1>1, <1>3, <1>4 DEF Places

LEMMA NotGoesOn ==
    ASSUME NEW ts \in Text, NEW i \in Places(ts), NEW P \in AllReaders(ts), ParseNotExpression(ts, i, P).ok
    PROVE  ParseNotExpression(ts, i, P).at > i
  <1>1. CASE Tok(ts, i) = "NOT"
    <2> DEFINE r == P.not[i + 1]
    <2>1. ParseNotExpression(ts, i, P).at = r.at
      BY <1>1 DEF ParseNotExpression, Then, Ok
    <2>2. i + 1 \in Places(ts)
      BY <1>1, TokenIsThere
    <2>3. Reads(ts, r, i + 1, Condition, {})
      BY <2>2, ReadersAre, ReaderReads
    <2> HIDE DEF r
    <2>4. i + 1 <= r.at /\ r.at \in Places(ts)
      BY <2>2, <2>3, ReadsParts
    <2> QED
      BY <2>1, <2>4 DEF Places
  <1>2. CASE Tok(ts, i) = "{"
    <2> DEFINE r == P.or[i + 1]
    <2>1. ParseNotExpression(ts, i, P) = IF r.ok THEN Consume(ts, r.at, "}", r.val) ELSE r
      BY <1>2 DEF ParseNotExpression, ParsePrimaryExpression, Then
    <2>2. i + 1 \in Places(ts)
      BY <1>2, TokenIsThere
    <2>3. Reads(ts, r, i + 1, Condition, {})
      BY <2>2, ReadersAre, ReaderReads
    <2> HIDE DEF r
    <2>4. i + 1 <= r.at /\ r.at \in Places(ts)
      BY <2>2, <2>3, ReadsParts
    <2>5. Consume(ts, r.at, "}", r.val).at \in {r.at, r.at + 1}
      BY DEF Consume, Ok, Err
    <2>6. ParseNotExpression(ts, i, P).at \in {r.at, r.at + 1}
      BY <2>1, <2>5
    <2>7. ParseNotExpression(ts, i, P).at \in Places(ts)
      BY ReadsNot, ReadsParts
    <2> QED
      BY <2>4, <2>6, <2>7 DEF Places
  <1>3. CASE Tok(ts, i) \notin {"NOT", "{"}
    <2>1. ParseNotExpression(ts, i, P) = ParseAtomicFieldExpression(ts, i)
      BY <1>3 DEF ParseNotExpression, ParsePrimaryExpression
    <2> QED
      BY <2>1, AtomicGoesOn
  <1> QED
    BY <1>1, <1>2, <1>3

\* A first operand that goes on, and the rest.
LEMMA JoinGoesOn ==
    ASSUME NEW ts \in Text, NEW i \in Places(ts), NEW r, Reads(ts, r, i, Condition, {}), r.ok => r.at > i,
           NEW f \in Readers(ts, Nodes), NEW x,
           x = IF r.ok THEN IF f[r.at].ok THEN Ok(f[r.at].at, r.val \o f[r.at].val) ELSE f[r.at] ELSE r, x.ok
    PROVE  x.at > i
  <1>2. r.ok \in BOOLEAN /\ r.at \in Places(ts)
    BY ReadsParts
  <1>3. r.ok
    BY <1>2
  <1> DEFINE y == f[r.at]
  <1>4. Reads(ts, y, r.at, Nodes, {})
    BY <1>2, ReaderReads
  <1>5. x = IF y.ok THEN Ok(y.at, r.val \o y.val) ELSE y
    BY <1>3
  <1> HIDE DEF y
  <1>6. y.at \in Places(ts) /\ r.at <= y.at /\ y.ok \in BOOLEAN
    BY <1>2, <1>4, ReadsParts
  <1>7. x.at = y.at
    <2>1. \A v : Ok(y.at, v).at = y.at
      BY DEF Ok
    <2> QED
      BY <1>5, <1>6, <2>1, Zenon
  <1>8. r.at > i
    BY <1>3
  <1> QED
    BY <1>2, <1>6, <1>7, <1>8 DEF Places, Text

LEMMA CalledOnward ==
    ASSUME NEW ts \in Text, NEW P \in AllReaders(ts), Onward(ts, P)
    PROVE  Onward(ts, Called(ts, P))
  <1> SUFFICES ASSUME NEW i \in Places(ts)
               PROVE  /\ ParseNotExpression(ts, i, P).ok => ParseNotExpression(ts, i, P).at > i
                      /\ ParseAndExpression(ts, i, P).ok => ParseAndExpression(ts, i, P).at > i
                      /\ ParseOrExpression(ts, i, P).ok => ParseOrExpression(ts, i, P).at > i
    BY DEF Onward, Called, Places
  <1>1. /\ P.andRest \in Readers(ts, Nodes) /\ P.orRest \in Readers(ts, Nodes)
        /\ Reads(ts, P.not[i], i, Condition, {}) /\ Reads(ts, P.and[i], i, Condition, {})
    BY ReadersAre, ReaderReads
  <1>2. (P.not[i].ok => P.not[i].at > i) /\ (P.and[i].ok => P.and[i].at > i)
    BY DEF Onward
  <1> DEFINE Joined(r, f) ==
                IF r.ok THEN IF f[r.at].ok THEN Ok(f[r.at].at, r.val \o f[r.at].val) ELSE f[r.at] ELSE r
  <1>3. /\ ParseAndExpression(ts, i, P) = Joined(P.not[i], P.andRest)
        /\ ParseOrExpression(ts, i, P) = Joined(P.and[i], P.orRest)
    BY DEF ParseAndExpression, ParseOrExpression, Then
  <1>4. ASSUME ParseAndExpression(ts, i, P).ok PROVE ParseAndExpression(ts, i, P).at > i
    BY <1>1, <1>2, <1>3, <1>4, JoinGoesOn
  <1>5. ASSUME ParseOrExpression(ts, i, P).ok PROVE ParseOrExpression(ts, i, P).at > i
    BY <1>1, <1>2, <1>3, <1>5, JoinGoesOn
  <1> QED
    BY <1>4, <1>5, NotGoesOn

\* What needs one call more than what it calls.
LEMMA CalledAgree ==
    ASSUME NEW ts \in Text, NEW P \in AllReaders(ts), NEW Q \in AllReaders(ts), NEW n \in Nat,
           Onward(ts, P), Agree(ts, P, Q, n)
    PROVE  Agree(ts, Called(ts, P), Called(ts, Q), n + 1)
  <1> SUFFICES
        ASSUME NEW i \in Places(ts)
        PROVE  /\ Need(ts, i) + 1 <= n + 1 => /\ ParseNotExpression(ts, i, P) = ParseNotExpression(ts, i, Q)
                                              /\ AndRest(ts, i, P) = AndRest(ts, i, Q)
                                              /\ OrRest(ts, i, P) = OrRest(ts, i, Q)
               /\ Need(ts, i) + 2 <= n + 1 => ParseAndExpression(ts, i, P) = ParseAndExpression(ts, i, Q)
               /\ Need(ts, i) + 3 <= n + 1 => ParseOrExpression(ts, i, P) = ParseOrExpression(ts, i, Q)
               /\ Need(ts, i) + 4 <= n + 1 => /\ WhereExpression(ts, i, P) = WhereExpression(ts, i, Q)
                                              /\ WhereRest(ts, i, P) = WhereRest(ts, i, Q)
    BY DEF Agree, Called, Places
  <1>1. /\ Need(ts, i) \in Nat
        /\ \A j \in Places(ts) : /\ Need(ts, j) \in Nat
                                 /\ i <= j => Need(ts, j) <= Need(ts, i)
                                 /\ i < j => Need(ts, j) + 4 <= Need(ts, i)
    BY NeedFalls
  <1>2. \A j \in Places(ts) :
           /\ Need(ts, j) + 1 <= n => P.not[j] = Q.not[j] /\ P.andRest[j] = Q.andRest[j] /\ P.orRest[j] = Q.orRest[j]
           /\ Need(ts, j) + 2 <= n => P.and[j] = Q.and[j]
           /\ Need(ts, j) + 3 <= n => P.or[j] = Q.or[j]
           /\ Need(ts, j) + 4 <= n => P.where[j] = Q.where[j] /\ P.whereRest[j] = Q.whereRest[j]
    BY DEF Agree
  <1>3. \A j \in Places(ts) :
           /\ Reads(ts, P.not[j], j, Condition, {}) /\ Reads(ts, P.and[j], j, Condition, {})
           /\ Reads(ts, P.or[j], j, Condition, {})
    BY ReadersAre, ReaderReads
  <1>4. \A j \in Places(ts) :
           /\ P.not[j].at \in Places(ts) /\ j <= P.not[j].at /\ P.and[j].at \in Places(ts) /\ j <= P.and[j].at
           /\ P.or[j].at \in Places(ts) /\ j <= P.or[j].at /\ (P.or[j].ok => j < P.or[j].at)
    BY <1>3, ReadsParts DEF Onward, Places, Text
  \* A token was read: where it ends all that n calls give is the same.
  <1>5. ASSUME Need(ts, i) <= n, NEW j \in Places(ts), i < j
        PROVE  /\ P.not[j] = Q.not[j] /\ P.andRest[j] = Q.andRest[j] /\ P.orRest[j] = Q.orRest[j]
               /\ P.and[j] = Q.and[j] /\ P.or[j] = Q.or[j]
               /\ P.where[j] = Q.where[j] /\ P.whereRest[j] = Q.whereRest[j]
    <2>1. Need(ts, j) + 4 <= n /\ Need(ts, j) \in Nat
      BY <1>1, <1>5
    <2>2. Need(ts, j) + 1 <= n /\ Need(ts, j) + 2 <= n /\ Need(ts, j) + 3 <= n
      BY <2>1
    <2> QED
      BY <1>2, <2>1, <2>2
  <1>51. /\ Need(ts, i) + 1 <= n + 1 => Need(ts, i) <= n
         /\ Need(ts, i) + 4 <= n + 1 => Need(ts, i) <= n
    BY <1>1
  <1>6. ASSUME Tok(ts, i) # "EOF" PROVE i + 1 \in Places(ts) /\ i < i + 1
    BY <1>6, TokenIsThere DEF Places
  <1>7. ASSUME Need(ts, i) + 1 <= n + 1 PROVE ParseNotExpression(ts, i, P) = ParseNotExpression(ts, i, Q)
    <2>1. CASE Tok(ts, i) \in {"NOT", "{"}
      <3>1. P.not[i + 1] = Q.not[i + 1] /\ P.or[i + 1] = Q.or[i + 1]
        BY <1>5, <1>51, <1>6, <1>7, <2>1
      <3> QED
        BY <2>1, <3>1 DEF ParseNotExpression, ParsePrimaryExpression
    <2>2. CASE Tok(ts, i) \notin {"NOT", "{"}
      BY <2>2 DEF ParseNotExpression, ParsePrimaryExpression
    <2> QED
      BY <2>1, <2>2
  <1>8. ASSUME Need(ts, i) + 1 <= n + 1 PROVE AndRest(ts, i, P) = AndRest(ts, i, Q)
    <2>1. CASE Tok(ts, i) \in {"AND", ","}
      <3>1. i + 1 \in Places(ts) /\ i < i + 1 /\ P.not[i + 1] = Q.not[i + 1]
        BY <1>5, <1>51, <1>6, <1>8, <2>1
      <3>2. P.andRest[P.not[i + 1].at] = Q.andRest[P.not[i + 1].at]
        <4> DEFINE j == P.not[i + 1].at
        <4>1. j \in Places(ts) /\ i + 1 <= j
          BY <1>4, <3>1
        <4> HIDE DEF j
        <4>2. i < j
          BY <4>1 DEF Places, Text
        <4>3. P.andRest[j] = Q.andRest[j]
          BY <1>5, <1>51, <1>8, <4>1, <4>2
        <4> QED
          BY <4>3 DEF j
      <3> QED
        BY <3>1, <3>2 DEF AndRest, Then
    <2>2. CASE Tok(ts, i) \notin {"AND", ","}
      BY <2>2 DEF AndRest
    <2> QED
      BY <2>1, <2>2
  <1>9. ASSUME Need(ts, i) + 1 <= n + 1 PROVE OrRest(ts, i, P) = OrRest(ts, i, Q)
    <2>1. CASE Tok(ts, i) = "OR"
      <3>1. i + 1 \in Places(ts) /\ i < i + 1 /\ P.and[i + 1] = Q.and[i + 1]
        BY <1>5, <1>51, <1>6, <1>9, <2>1
      <3>2. P.orRest[P.and[i + 1].at] = Q.orRest[P.and[i + 1].at]
        <4> DEFINE j == P.and[i + 1].at
        <4>1. j \in Places(ts) /\ i + 1 <= j
          BY <1>4, <3>1
        <4> HIDE DEF j
        <4>2. i < j
          BY <4>1 DEF Places, Text
        <4>3. P.orRest[j] = Q.orRest[j]
          BY <1>5, <1>51, <1>9, <4>1, <4>2
        <4> QED
          BY <4>3 DEF j
      <3> QED
        BY <3>1, <3>2 DEF OrRest, Then
    <2>2. CASE Tok(ts, i) # "OR"
      BY <2>2 DEF OrRest
    <2> QED
      BY <2>1, <2>2
  <1>10. ASSUME Need(ts, i) + 2 <= n + 1 PROVE ParseAndExpression(ts, i, P) = ParseAndExpression(ts, i, Q)
    <2>1. P.not[i] = Q.not[i]
      BY <1>1, <1>2, <1>10
    <2>2. P.andRest[P.not[i].at] = Q.andRest[P.not[i].at]
      <3> DEFINE j == P.not[i].at
      <3>1. j \in Places(ts) /\ i <= j
        BY <1>4
      <3> HIDE DEF j
      <3>2. Need(ts, j) + 1 <= n
        BY <1>1, <1>10, <3>1
      <3>3. P.andRest[j] = Q.andRest[j]
        BY <1>2, <3>1, <3>2
      <3> QED
        BY <3>3 DEF j
    <2> QED
      BY <2>1, <2>2 DEF ParseAndExpression, Then
  <1>11. ASSUME Need(ts, i) + 3 <= n + 1 PROVE ParseOrExpression(ts, i, P) = ParseOrExpression(ts, i, Q)
    <2>1. P.and[i] = Q.and[i]
      BY <1>1, <1>2, <1>11
    <2>2. P.orRest[P.and[i].at] = Q.orRest[P.and[i].at]
      <3> DEFINE j == P.and[i].at
      <3>1. j \in Places(ts) /\ i <= j
        BY <1>4
      <3> HIDE DEF j
      <3>2. Need(ts, j) + 1 <= n
        BY <1>1, <1>11, <3>1
      <3>3. P.orRest[j] = Q.orRest[j]
        BY <1>2, <3>1, <3>2
      <3> QED
        BY <3>3 DEF j
    <2> QED
      BY <2>1, <2>2 DEF ParseOrExpression, Then
  \* An expression that was read went on.
  <1>12. ASSUME Need(ts, i) + 4 <= n + 1, NEW j \in Places(ts), i <= j
         PROVE  /\ P.or[j] = Q.or[j]
                /\ P.or[j].ok => P.whereRest[P.or[j].at] = Q.whereRest[P.or[j].at]
    <2>1. P.or[j] = Q.or[j]
      BY <1>1, <1>2, <1>12
    <2>2. ASSUME P.or[j].ok PROVE P.whereRest[P.or[j].at] = Q.whereRest[P.or[j].at]
      <3> DEFINE k == P.or[j].at
      <3>1. k \in Places(ts) /\ j < k
        BY <1>4, <2>2
      <3> HIDE DEF k
      <3>2. i < k
        BY <1>12, <3>1 DEF Places, Text
      <3>3. P.whereRest[k] = Q.whereRest[k]
        BY <1>5, <1>51, <1>12, <3>1, <3>2
      <3> QED
        BY <3>3 DEF k
    <2> QED
      BY <2>1, <2>2
  <1>13. ASSUME Need(ts, i) + 4 <= n + 1 PROVE WhereExpression(ts, i, P) = WhereExpression(ts, i, Q)
    <2>1. i <= i
      BY DEF Places
    <2>2. P.or[i] = Q.or[i] /\ (P.or[i].ok => P.whereRest[P.or[i].at] = Q.whereRest[P.or[i].at])
      BY <1>12, <1>13, <2>1
    <2> QED
      BY <2>2 DEF WhereExpression, Then
  <1>14. ASSUME Need(ts, i) + 4 <= n + 1 PROVE WhereRest(ts, i, P) = WhereRest(ts, i, Q)
    <2>1. i <= i /\ (Tok(ts, i) = "," => i + 1 \in Places(ts) /\ i <= i + 1)
      <3>1. i <= i /\ i <= i + 1
        BY DEF Places
      <3> QED
        BY <3>1, TokenIsThere
    <2>2. PICK j \in Places(ts) : i <= j /\ j = IF Tok(ts, i) = "," THEN i + 1 ELSE i
      BY <2>1
    <2>3. P.or[j] = Q.or[j] /\ (P.or[j].ok => P.whereRest[P.or[j].at] = Q.whereRest[P.or[j].at])
      BY <1>12, <1>14, <2>2
    <2> DEFINE After(R) ==
                  CASE Tok(ts, j) = "}" -> Ok(j + 1, <<>>)
                    [] Tok(ts, j) = "EOF" -> Err(j)
                    [] OTHER -> Then(R.or[j], LAMBDA k, e :
                          Then(R.whereRest[k], LAMBDA l, rest : Ok(l, e \o Connective("AND") \o rest)))
    <2>4. WhereRest(ts, i, P) = After(P) /\ WhereRest(ts, i, Q) = After(Q)
      BY <2>2, Zenon DEF WhereRest
    <2>5. After(P) = After(Q)
      BY <2>3 DEF Then
    <2> QED
      BY <2>4, <2>5
  <1> QED
    BY <1>7, <1>8, <1>9, <1>10, <1>11, <1>13, <1>14

\* By induction over the calls within each other.
LEMMA CallsAgree ==
    ASSUME NEW ts \in Text, NEW N, N = 4 * (Len(ts) + 1), NEW g, CallRuns(ts, N, g)
    PROVE  g[N] \in AllReaders(ts) /\ Agree(ts, g[N], Called(ts, g[N]), N)
  <1> DEFINE Good(n) == g[n] \in AllReaders(ts) /\ Onward(ts, g[n]) /\ Agree(ts, g[n], Called(ts, g[n]), n)
             G == {n \in 0 .. N : Good(n)}
  <1>0. N \in Nat
    BY DEF Text
  <1>1. Good(0)
    <2>1. g[0] = NoCalls(ts)
      BY DEF CallRuns
    <2>2. Onward(ts, NoCalls(ts))
      BY DEF Onward, NoCalls, Err
    <2>3. ASSUME NEW P, NEW Q PROVE Agree(ts, P, Q, 0)
      <3>1. \A i \in Places(ts) : Need(ts, i) \in Nat
        BY NeedFalls
      <3>2. \A k \in Nat : ~(k + 1 <= 0) /\ ~(k + 2 <= 0) /\ ~(k + 3 <= 0) /\ ~(k + 4 <= 0)
        OBVIOUS
      <3> QED
        BY <3>1, <3>2, Zenon DEF Agree
    <2> QED
      BY <2>1, <2>2, <2>3, NoCallsRead
  <1>2. ASSUME NEW n \in 0 .. N - 1, Good(n) PROVE Good(n + 1)
    <2>1. n \in Nat /\ n + 1 \in 1 .. N /\ n + 1 - 1 = n
      BY <1>0
    <2>2. g[n + 1] = Called(ts, g[n])
      BY <2>1 DEF CallRuns
    <2>3. g[n + 1] \in AllReaders(ts)
      BY <1>2, <2>2, CalledReads
    <2>4. Onward(ts, g[n + 1])
      BY <1>2, <2>2, CalledOnward
    <2>5. Agree(ts, g[n + 1], Called(ts, g[n + 1]), n + 1)
      BY <1>2, <2>1, <2>2, <2>3, CalledAgree
    <2> QED
      BY <2>3, <2>4, <2>5
  <1> HIDE DEF Good
  <1>3. 0 \in G /\ \A n \in 0 .. N - 1 : n \in G => n + 1 \in G
    BY <1>0, <1>1, <1>2
  <1> HIDE DEF G
  <1>4. \A n \in 0 .. N : n \in G
    BY <1>0, <1>3, UpToBound, Zenon
  <1>5. Good(N)
    BY <1>0, <1>4 DEF G
  <1> QED
    BY <1>5 DEF Good

LEMMA SameReader ==
    ASSUME NEW ts \in Text, NEW V, NEW f \in Readers(ts, V), NEW h \in Readers(ts, V),
           \A i \in Places(ts) : f[i] = h[i]
    PROVE  f = h
  BY DEF Readers

(* What the bounded recursion gives is what the functions of the parser    *)
(* give when each calls the others without a bound: at every place of     *)
(* every text, _parse_or_expression, _parse_and_expression,               *)
(* _parse_not_expression and the loop of _parse_where_block return what   *)
(* their bodies return on the results of what they call.                   *)
THEOREM ConditionsAreRecursive ==
    ASSUME NEW ts \in Text
    PROVE  Conditions(ts) = Called(ts, Conditions(ts))
  <1> DEFINE N == 4 * (Len(ts) + 1)
             P == Conditions(ts)
             Q == Called(ts, P)
  <1>1. N \in Nat /\ \E g : CallRuns(ts, N, g)
    BY CallsExist
  <1> HIDE DEF N, P, Q
  <1>2. P \in AllReaders(ts) /\ Agree(ts, P, Q, N)
    <2>1. PICK g : CallRuns(ts, N, g)
      BY <1>1
    <2>2. P = g[N] /\ Q = Called(ts, g[N])
      BY <2>1 DEF CallRuns, P, Q
    <2>3. g[N] \in AllReaders(ts) /\ Agree(ts, g[N], Called(ts, g[N]), N)
      BY <2>1, CallsAgree DEF N
    <2> QED
      BY <2>2, <2>3
  <1>3. Q \in AllReaders(ts)
    BY <1>2, CalledReads DEF Q
  <1>4. ASSUME NEW i \in Places(ts)
        PROVE  /\ P.not[i] = Q.not[i] /\ P.andRest[i] = Q.andRest[i] /\ P.orRest[i] = Q.orRest[i]
               /\ P.and[i] = Q.and[i] /\ P.or[i] = Q.or[i]
               /\ P.where[i] = Q.where[i] /\ P.whereRest[i] = Q.whereRest[i]
    <2>1. Need(ts, i) \in Nat /\ Need(ts, i) + 4 <= N
      BY NeedFalls DEF N
    <2>2. Need(ts, i) + 1 <= N /\ Need(ts, i) + 2 <= N /\ Need(ts, i) + 3 <= N
      BY <1>1, <2>1
    <2> QED
      BY <1>2, <2>1, <2>2 DEF Agree
  <1>5. /\ P.not = Q.not /\ P.and = Q.and /\ P.or = Q.or /\ P.where = Q.where
        /\ P.andRest = Q.andRest /\ P.orRest = Q.orRest /\ P.whereRest = Q.whereRest
    BY <1>2, <1>3, <1>4, ReadersAre, SameReader
  <1>6. P = Q
    BY <1>2, <1>3, <1>5 DEF AllReaders
  <1> QED
    BY <1>6 DEF P, Q

-----------------------------------------------------------------------------
(* Clauses *)

LEMMA ReadsWhereBlock ==
    ASSUME NEW ts \in Text, NEW i \in Places(ts)
    PROVE  Reads(ts, ParseWhereBlock(ts, i), i, Condition, {})
  <1> DEFINE j == i + 1
             w == Conditions(ts).where[j]
  <1>1. ParseWhereBlock(ts, i) = IF Tok(ts, i) # "{" THEN Err(i) ELSE IF Tok(ts, j) = "}" THEN Err(j) ELSE w
    BY DEF ParseWhereBlock, Then, Consume, Ok, Err
  <1>2. CASE Tok(ts, i) # "{"
    BY <1>1, <1>2, ReadsRefused
  <1>3. CASE Tok(ts, i) = "{"
    <2>1. Tok(ts, i) # "EOF" /\ Tok(ts, i) \notin Marks
      BY <1>3 DEF Marks
    <2>2. j \in Places(ts)
      BY <2>1, TokenIsThere
    <2>3. Reads(ts, w, j, Condition, {}) /\ Reads(ts, Err(j), j, Condition, {})
      BY <2>2, ConditionsRead, ReadersAre, ReaderReads, ReadsRefused
    <2> HIDE DEF w
    <2>4. Reads(ts, w, i, Condition, {}) /\ Reads(ts, Err(j), i, Condition, {})
      BY <2>1, <2>3, ReadsToken
    <2> QED
      BY <1>1, <1>3, <2>4
  <1> QED
    BY <1>2, <1>3

LEMMA ReadsSortBlock ==
    ASSUME NEW ts \in Text, NEW i \in Places(ts)
    PROVE  Reads(ts, ParseSortBlock(ts, i), i, Seq(SortClause) \ {<<>>}, {})
  <1> DEFINE j == i + 1
             w == List("sort", ts, j)
             V == Seq(SortClause) \ {<<>>}
  <1>1. ParseSortBlock(ts, i) = IF Tok(ts, i) # "{" THEN Err(i) ELSE IF Tok(ts, j) = "}" THEN Err(j) ELSE w
    BY DEF ParseSortBlock, Then, Consume, Ok, Err
  <1>2. CASE Tok(ts, i) # "{"
    BY <1>1, <1>2, ReadsRefused
  <1>3. CASE Tok(ts, i) = "{"
    <2>0. "sort" \in Kinds \ {"record"} /\ Items("sort") = SortClause /\ Allowed("sort") = {}
      BY DEF Kinds, Items, Allowed
    <2>1. Tok(ts, i) # "EOF" /\ Tok(ts, i) \notin Marks
      BY <1>3 DEF Marks
    <2>2. j \in Places(ts)
      BY <2>1, TokenIsThere
    <2>3. Reads(ts, w, j, V, {}) /\ Reads(ts, Err(j), j, V, {})
      BY <2>0, <2>2, ListReads, ReadsRefused
    <2> HIDE DEF w, V
    <2>4. Reads(ts, w, i, V, {}) /\ Reads(ts, Err(j), i, V, {})
      BY <2>1, <2>3, ReadsToken
    <2> QED
      BY <1>1, <1>3, <2>4 DEF V
  <1> QED
    BY <1>2, <1>3

Ranking == [direction : {"TOP", "BOTTOM"}, count : Int, field : Path]

LEMMA ReadsRankingClause ==
    ASSUME NEW ts \in Text, NEW i \in Places(ts), NEW direction \in {"TOP", "BOTTOM"}
    PROVE  Reads(ts, ParseRankingClause(ts, i, direction), i, Ranking, {})
  <1> DEFINE j == i + 1
             k == j + 1
             p == ParseFieldPath(ts, k)
             n == LiteralOf[Tok(ts, i)].value
             v == [direction |-> direction, count |-> n, field |-> p.val]
             x == IF p.ok THEN Ok(p.at, v) ELSE p
  <1>1. ParseRankingClause(ts, i, direction) = IF ~OfKind(ts, i, "integer") THEN Err(i)
                                               ELSE IF Tok(ts, j) # "BY" THEN Err(j) ELSE x
    BY DEF ParseRankingClause, Then, Consume, Ok, Err
  <1>2. CASE ~OfKind(ts, i, "integer")
    BY <1>1, <1>2, ReadsRefused
  <1>3. CASE OfKind(ts, i, "integer")
    <2>1. Tok(ts, i) \in DOMAIN LiteralOf /\ n \in Int
      BY <1>3, LanguageAssumption DEF OfKind
    <2>2. i \in Nat /\ j \in i .. Len(ts) + 1 /\ j \in Places(ts) /\ Only(ts, i, j, {})
      BY <2>1, NameIsOnly, PlaceIsReached
    <2>3. CASE Tok(ts, j) # "BY"
      <3>1. Reads(ts, Err(j), j, Ranking, {})
        BY <2>2, ReadsRefused
      <3> QED
        BY <1>1, <1>3, <2>2, <2>3, <3>1, ReadsLater
    <2>4. CASE Tok(ts, j) = "BY"
      <3>1. Tok(ts, j) # "EOF" /\ Tok(ts, j) \notin Marks
        BY <2>4 DEF Marks
      <3> HIDE DEF j
      <3>2. k \in Places(ts)
        BY <2>2, <3>1, TokenIsThere
      <3>3. Reads(ts, p, k, Path, {})
        BY <3>2, ReadsFieldPath
      <3> HIDE DEF p
      <3>4. ASSUME p.ok PROVE Reads(ts, x, p.at, Ranking, {})
        <4>1. p.at \in Places(ts) /\ p.val \in Path
          BY <3>2, <3>3, <3>4, ReadsParts
        <4>2. v \in Ranking
          BY <2>1, <4>1 DEF Ranking
        <4> HIDE DEF v
        <4> QED
          BY <3>4, <4>1, <4>2, ReadsNothing
      <3> HIDE DEF v, k
      <3>5. Reads(ts, x, k, Ranking, {})
        BY <3>2, <3>3, <3>4, ReadsThen
      <3> HIDE DEF x
      <3>6. Reads(ts, x, j, Ranking, {})
        BY <2>2, <3>1, <3>5, ReadsToken DEF k
      <3>7. Reads(ts, x, i, Ranking, {})
        BY <2>2, <3>6, ReadsLater
      <3> QED
        BY <1>1, <1>3, <2>4, <3>7
    <2> QED
      BY <2>3, <2>4
  <1> QED
    BY <1>2, <1>3

LEMMA ReadsWhere ==
    ASSUME NEW ts \in Text, NEW i \in Places(ts), Tok(ts, i) = "WHERE"
    PROVE  LET w == ParseWhereBlock(ts, i + 1)
           IN  /\ i + 1 \in Places(ts) /\ Reads(ts, w, i, Condition, {"WHERE"})
               /\ w.ok => Times(ts, "WHERE", i, w.at) = 1
  <1> DEFINE j == i + 1
             w == ParseWhereBlock(ts, j)
  <1>1. i \in Nat /\ i \in 1 .. Len(ts) /\ ts[i] = "WHERE" /\ j \in Places(ts) /\ j \in i .. Len(ts) + 1 /\ Only(ts, i, j, {"WHERE"})
    BY TokenIsOnly, PlaceIsReached
  <1>2. Reads(ts, w, j, Condition, {})
    BY <1>1, ReadsWhereBlock
  <1>3. Times(ts, "WHERE", i, j) = 1
    BY <1>1, TimesOne
  <1> HIDE DEF j, w
  <1>4. /\ w.ok \in BOOLEAN /\ w.at \in Places(ts) /\ j <= w.at
        /\ w.ok => w.val \in Condition /\ w = Ok(w.at, w.val) /\ Only(ts, j, w.at, {})
        /\ ~w.ok => w = Err(w.at)
    BY <1>1, <1>2, ReadsParts
  <1>5. j \in Int /\ w.at \in Int /\ w.at \in i .. Len(ts) + 1 /\ i <= j
    BY <1>1, <1>4 DEF Places
  <1>6. CASE w.ok
    <2>1. Only(ts, i, w.at, {"WHERE"})
      BY <1>1, <1>4, <1>5, <1>6 DEF Only
    <2>2. Times(ts, "WHERE", j, w.at) = 0
      BY <1>4, <1>6, TimesOnly DEF Marks
    <2>3. Times(ts, "WHERE", i, w.at) = 1 + 0
      BY <1>1, <1>3, <1>4, <1>5, <2>2, TimesSplit
    <2>4. Reads(ts, Ok(w.at, w.val), i, Condition, {"WHERE"})
      BY <1>4, <1>5, <1>6, <2>1, ReadsValue
    <2> QED
      BY <1>1, <1>4, <1>6, <2>3, <2>4 DEF w, j
  <1>7. CASE ~w.ok
    <2>1. Reads(ts, Err(w.at), i, Condition, {"WHERE"})
      BY <1>5, ReadsError
    <2> QED
      BY <1>1, <1>4, <1>7, <2>1 DEF w, j
  <1> QED
    BY <1>4, <1>6, <1>7

\* A WHERE stands where there are conditions, and nowhere else.
WhereIfAny(ts, i, j, w) == Times(ts, "WHERE", i, j) = IF w = <<>> THEN 0 ELSE 1

LEMMA ReadsOptionalWhere ==
    ASSUME NEW ts \in Text, NEW i \in Places(ts)
    PROVE  LET w == OptionalWhere(ts, i)
           IN  /\ Reads(ts, w, i, Nodes, {"WHERE"})
               /\ w.ok => WhereIfAny(ts, i, w.at, w.val) /\ (w.val = <<>> => w.at = i)
  <1> DEFINE w == OptionalWhere(ts, i)
  <1>1. CASE Tok(ts, i) = "WHERE"
    <2>1. w = ParseWhereBlock(ts, i + 1)
      BY <1>1 DEF OptionalWhere
    <2>2. Reads(ts, w, i, Condition, {"WHERE"}) /\ (w.ok => Times(ts, "WHERE", i, w.at) = 1)
      BY <1>1, <2>1, ReadsWhere
    <2> HIDE DEF w
    <2>3. Condition \subseteq Nodes
      BY DEF Condition
    <2>4. w.ok => w.val # <<>>
      BY <2>2, ReadsParts DEF Condition
    <2>5. Reads(ts, w, i, Nodes, {"WHERE"})
      BY <2>2, <2>3, ReadsMore
    <2> QED
      BY <2>2, <2>4, <2>5 DEF WhereIfAny, w
  <1>2. CASE Tok(ts, i) # "WHERE"
    <2>1. w = Ok(i, <<>>)
      BY <1>2 DEF OptionalWhere
    <2>2. w.at = i /\ w.val = <<>>
      BY <2>1 DEF Ok
    <2>3. Reads(ts, Ok(i, <<>>), i, Nodes, {"WHERE"})
      BY Nodes1, ReadsNothing
    <2>4. Times(ts, "WHERE", i, i) = 0
      <3>1. \A k \in i .. i - 1 : ts[k] # "WHERE"
        BY PlaceIsReached
      <3> QED
        BY <3>1, TimesNone
    <2> QED
      BY <2>1, <2>2, <2>3, <2>4 DEF WhereIfAny
  <1> QED
    BY <1>1, <1>2

-----------------------------------------------------------------------------
(* Ordering and paging *)

Statements == {"GET", "CREATE", "UPDATE", "DELETE"}

Queries ==
    [operation : Statements, entity : Identifiers, projection : Seq(Selection), where : Nodes,
     assignments : Seq(Assignment), records : Seq(Seq(Assignment)), sort : Seq(SortClause),
     ranking : Ranking \cup {None}, limit : Int \cup {None}, offset : Int \cup {None}]

\* q and p do not differ but in their ordering or their paging.
SameStatement(q, p) ==
    /\ p.operation = q.operation /\ p.entity = q.entity /\ p.projection = q.projection /\ p.where = q.where
    /\ p.assignments = q.assignments /\ p.records = q.records
SameOrdering(q, p) == p.sort = q.sort /\ p.ranking = q.ranking
SamePaging(q, p) == p.limit = q.limit /\ p.offset = q.offset

OrderingMarks == {"SORT", "TOP", "BOTTOM"}

\* The ordering clauses from i to j made p out of q, which had none.
Ordered(ts, i, q, j, p) ==
    /\ j \in i .. Len(ts) + 1 /\ p \in Queries
    /\ SameStatement(q, p) /\ SamePaging(q, p)
    /\ Only(ts, i, j, OrderingMarks)
    /\ p.sort # <<>> <=> \E k \in i .. j - 1 : ts[k] = "SORT"
    /\ p.ranking # None <=> \E k \in i .. j - 1 : ts[k] \in {"TOP", "BOTTOM"}

OrderingResults(ts, i, q) ==
    {Err(j) : j \in i .. Len(ts) + 1}
    \cup {Ok(x[1], x[2]) : x \in {y \in Places(ts) \X Queries : Ordered(ts, i, q, y[1], y[2])}}

OrderingStates(ts, i, q) ==
    {x \in [result : OrderingResults(ts, i, q), more : BOOLEAN] : x.more => x.result.ok}

LEMMA OrderingState ==
    ASSUME NEW ts \in Text, NEW i \in Places(ts), NEW q, NEW j, NEW p, Ordered(ts, i, q, j, p)
    PROVE  /\ More(j, p) \in OrderingStates(ts, i, q) /\ Done(Ok(j, p)) \in OrderingStates(ts, i, q)
           /\ \A n \in i .. Len(ts) + 1 : Done(Err(n)) \in OrderingStates(ts, i, q)
           /\ j \in Places(ts) /\ p \in Queries
  <1>1. j \in Places(ts) /\ p \in Queries
    BY PlaceIsReached DEF Ordered, Places
  <1>2. Ok(j, p) \in OrderingResults(ts, i, q)
    <2>1. <<j, p>> \in {y \in Places(ts) \X Queries : Ordered(ts, i, q, y[1], y[2])}
      BY <1>1
    <2> QED
      BY <2>1 DEF OrderingResults
  <1>3. \A n \in i .. Len(ts) + 1 : Err(n) \in OrderingResults(ts, i, q)
    BY DEF OrderingResults
  <1>4. Ok(j, p).ok = TRUE
    BY DEF Ok
  <1> QED
    BY <1>1, <1>2, <1>3, <1>4 DEF OrderingStates, More, Done

LEMMA OrderingResultHas ==
    ASSUME NEW ts \in Text, NEW i \in Places(ts), NEW q, NEW r \in OrderingResults(ts, i, q)
    PROVE  /\ r.ok \in BOOLEAN
           /\ r.ok => r = Ok(r.at, r.val) /\ Ordered(ts, i, q, r.at, r.val)
           /\ ~r.ok => r = Err(r.at) /\ r.at \in i .. Len(ts) + 1
  <1>1. CASE \E j \in i .. Len(ts) + 1 : r = Err(j)
    BY <1>1 DEF Err
  <1>2. CASE \E x \in {y \in Places(ts) \X Queries : Ordered(ts, i, q, y[1], y[2])} : r = Ok(x[1], x[2])
    BY <1>2 DEF Ok
  <1> QED
    BY <1>1, <1>2 DEF OrderingResults

LEMMA OrderingClauseReads ==
    ASSUME NEW ts \in Text, NEW i \in Places(ts), NEW q, NEW j, NEW p, Ordered(ts, i, q, j, p)
    PROVE  OrderingClause(ts, j, p) \in OrderingStates(ts, i, q)
  <1> DEFINE t == Tok(ts, j)
             After(r) == IF r.ok THEN More(r.at, r.val) ELSE Done(r)
             s == ParseSortBlock(ts, j + 1)
             c == ParseRankingClause(ts, j + 1, t)
             sorted == [p EXCEPT !.sort = s.val]
             ranked == [p EXCEPT !.ranking = c.val]
             x == OrderingClause(ts, j, p)
             S == OrderingStates(ts, i, q)
  <1>1. /\ t \notin OrderingMarks => x = Done(Ok(j, p))
        /\ t = "SORT" /\ p.ranking = None => x = IF s.ok THEN More(s.at, sorted) ELSE Done(s)
        /\ t \in {"TOP", "BOTTOM"} /\ p.sort = <<>> => x = IF c.ok THEN More(c.at, ranked) ELSE Done(c)
        /\ \/ t = "SORT" /\ p.ranking # None
           \/ t \in {"TOP", "BOTTOM"} /\ p.sort # <<>>
           => x = Done(Err(j))
    <2>1. x = CASE t \notin {"SORT", "TOP", "BOTTOM"} -> Done(Ok(j, p))
                [] t = "SORT" /\ p.ranking = None -> After(IF s.ok THEN Ok(s.at, sorted) ELSE s)
                [] t \in {"TOP", "BOTTOM"} /\ p.sort = <<>> -> After(IF c.ok THEN Ok(c.at, ranked) ELSE c)
                [] OTHER -> Done(Err(j))
      BY DEF OrderingClause, Then
    <2>2. \A n, v : Ok(n, v).ok = TRUE /\ Ok(n, v).at = n /\ Ok(n, v).val = v
      BY DEF Ok
    <2> HIDE DEF x, s, c, sorted, ranked, t
    <2>3. After(IF s.ok THEN Ok(s.at, sorted) ELSE s) = IF s.ok THEN More(s.at, sorted) ELSE Done(s)
      BY <2>2
    <2>4. After(IF c.ok THEN Ok(c.at, ranked) ELSE c) = IF c.ok THEN More(c.at, ranked) ELSE Done(c)
      BY <2>2
    <2> HIDE DEF After
    <2> QED
      BY <2>1, <2>3, <2>4 DEF OrderingMarks
  <1>2. /\ j \in Places(ts) /\ p \in Queries /\ i \in Int /\ j \in Int /\ i <= j /\ Len(ts) \in Nat
        /\ Only(ts, i, j, OrderingMarks) /\ SameStatement(q, p) /\ SamePaging(q, p)
    BY PlaceIsReached DEF Ordered, Places
  <1> HIDE DEF x, After
  <1>3. CASE t \notin OrderingMarks
    BY <1>1, <1>3, OrderingState DEF x
  <1>4. \A n \in i .. Len(ts) + 1 : Done(Err(n)) \in S
    BY OrderingState
  <1>5. ASSUME t \in OrderingMarks
        PROVE  /\ j \in 1 .. Len(ts) /\ ts[j] = t /\ j + 1 \in Places(ts)
               /\ Only(ts, j, j + 1, OrderingMarks)
    <2>1. t # "EOF"
      BY <1>5 DEF OrderingMarks
    <2> QED
      BY <1>2, <1>5, <2>1, TokenIsOnly
  <1>6. ASSUME NEW r, NEW V, Reads(ts, r, j + 1, V, {}), t \in OrderingMarks
        PROVE  /\ r.ok \in BOOLEAN /\ r.at \in i .. Len(ts) + 1 /\ r.at \in Int /\ j + 1 <= r.at
               /\ r.ok => r.val \in V /\ Only(ts, i, r.at, OrderingMarks) /\ Only(ts, j + 1, r.at, {})
               /\ ~r.ok => r = Err(r.at)
    <2>1. /\ r.ok \in BOOLEAN /\ r.at \in Places(ts) /\ j + 1 <= r.at
          /\ r.ok => r.val \in V /\ Only(ts, j + 1, r.at, {})
          /\ ~r.ok => r = Err(r.at)
      BY <1>5, <1>6, ReadsParts
    <2>2. r.at \in i .. Len(ts) + 1 /\ r.at \in Int
      BY <1>2, <2>1 DEF Places
    <2>3. r.ok => Only(ts, i, r.at, OrderingMarks)
      BY <1>2, <1>5, <1>6, <2>1, <2>2 DEF Only
    <2> QED
      BY <2>1, <2>2, <2>3
  <1>7. CASE t = "SORT" /\ p.ranking = None
    <2>1. t \in OrderingMarks
      BY <1>7 DEF OrderingMarks
    <2>2. Reads(ts, s, j + 1, Seq(SortClause) \ {<<>>}, {})
      BY <1>5, <2>1, ReadsSortBlock
    <2> HIDE DEF s
    <2>3. CASE ~s.ok
      BY <1>1, <1>4, <1>6, <1>7, <2>1, <2>2, <2>3 DEF x
    <2>4. CASE s.ok
      <3>1. /\ s.at \in i .. Len(ts) + 1 /\ s.at \in Int /\ j + 1 <= s.at /\ s.val \in Seq(SortClause) /\ s.val # <<>>
            /\ Only(ts, i, s.at, OrderingMarks) /\ Only(ts, j + 1, s.at, {})
        BY <1>6, <2>1, <2>2, <2>4
      <3>2. sorted \in Queries /\ sorted.sort = s.val /\ sorted.ranking = p.ranking
        BY <1>2, <3>1 DEF Queries
      <3>3. SameStatement(q, sorted) /\ SamePaging(q, sorted)
        BY <1>2 DEF SameStatement, SamePaging, Queries
      <3>4. \E k \in i .. s.at - 1 : ts[k] = "SORT"
        BY <1>2, <1>5, <1>7, <2>1, <3>1
      <3>5. ~ \E k \in i .. s.at - 1 : ts[k] \in {"TOP", "BOTTOM"}
        <4>1. ~ \E k \in i .. j - 1 : ts[k] \in {"TOP", "BOTTOM"}
          BY <1>7 DEF Ordered
        <4>2. ts[j] = "SORT"
          BY <1>5, <1>7, <2>1
        <4>3. \A k \in j + 1 .. s.at - 1 : ts[k] \notin Marks
          BY <3>1 DEF Only
        <4>4. \A k \in i .. s.at - 1 : k \in i .. j - 1 \/ k = j \/ k \in j + 1 .. s.at - 1
          BY <1>2, <3>1
        <4> QED
          BY <4>1, <4>2, <4>3, <4>4 DEF Marks
      <3> HIDE DEF sorted
      <3>6. Ordered(ts, i, q, s.at, sorted)
        BY <1>7, <3>1, <3>2, <3>3, <3>4, <3>5 DEF Ordered
      <3> QED
        BY <1>1, <1>7, <2>4, <3>6, OrderingState DEF x
    <2> QED
      BY <1>6, <2>1, <2>2, <2>3, <2>4
  <1>8. CASE t \in {"TOP", "BOTTOM"} /\ p.sort = <<>>
    <2>1. t \in OrderingMarks
      BY <1>8 DEF OrderingMarks
    <2>2. Reads(ts, c, j + 1, Ranking, {})
      BY <1>5, <1>8, <2>1, ReadsRankingClause
    <2> HIDE DEF c
    <2>3. CASE ~c.ok
      BY <1>1, <1>4, <1>6, <1>8, <2>1, <2>2, <2>3 DEF x
    <2>4. CASE c.ok
      <3>1. /\ c.at \in i .. Len(ts) + 1 /\ c.at \in Int /\ j + 1 <= c.at /\ c.val \in Ranking
            /\ Only(ts, i, c.at, OrderingMarks) /\ Only(ts, j + 1, c.at, {})
        BY <1>6, <2>1, <2>2, <2>4
      <3>2. ranked \in Queries /\ ranked.sort = p.sort /\ ranked.ranking = c.val /\ c.val # None
        <4>1. None \notin Ranking
          BY LanguageAssumption DEF Ranking, Path
        <4> QED
          BY <1>2, <3>1, <4>1 DEF Queries
      <3>3. SameStatement(q, ranked) /\ SamePaging(q, ranked)
        BY <1>2 DEF SameStatement, SamePaging, Queries
      <3>4. \E k \in i .. c.at - 1 : ts[k] \in {"TOP", "BOTTOM"}
        BY <1>2, <1>5, <1>8, <2>1, <3>1
      <3>5. ~ \E k \in i .. c.at - 1 : ts[k] = "SORT"
        <4>1. ~ \E k \in i .. j - 1 : ts[k] = "SORT"
          BY <1>8 DEF Ordered
        <4>2. ts[j] \in {"TOP", "BOTTOM"}
          BY <1>5, <1>8, <2>1
        <4>3. \A k \in j + 1 .. c.at - 1 : ts[k] \notin Marks
          BY <3>1 DEF Only
        <4>4. \A k \in i .. c.at - 1 : k \in i .. j - 1 \/ k = j \/ k \in j + 1 .. c.at - 1
          BY <1>2, <3>1
        <4> QED
          BY <4>1, <4>2, <4>3, <4>4 DEF Marks
      <3> HIDE DEF ranked
      <3>6. Ordered(ts, i, q, c.at, ranked)
        BY <1>8, <3>1, <3>2, <3>3, <3>4, <3>5 DEF Ordered
      <3> QED
        BY <1>1, <1>8, <2>4, <3>6, OrderingState DEF x
    <2> QED
      BY <1>6, <2>1, <2>2, <2>3, <2>4
  <1>9. CASE \/ t = "SORT" /\ p.ranking # None
             \/ t \in {"TOP", "BOTTOM"} /\ p.sort # <<>>
    <2>1. j \in i .. Len(ts) + 1
      BY DEF Ordered
    <2> QED
      BY <1>1, <1>4, <1>9, <2>1 DEF x
  <1> QED
    BY <1>3, <1>7, <1>8, <1>9 DEF OrderingMarks

LEMMA OrderingGoesOn ==
    ASSUME NEW ts \in Text, NEW j \in Places(ts), NEW p, OrderingClause(ts, j, p).more
    PROVE  OrderingClause(ts, j, p).result.at > j
  <1> DEFINE t == Tok(ts, j)
             s == ParseSortBlock(ts, j + 1)
             c == ParseRankingClause(ts, j + 1, t)
             After(r) == IF r.ok THEN More(r.at, r.val) ELSE Done(r)
             x == OrderingClause(ts, j, p)
             sorted == [p EXCEPT !.sort = s.val]
             ranked == [p EXCEPT !.ranking = c.val]
  <1>1. x = CASE t \notin {"SORT", "TOP", "BOTTOM"} -> Done(Ok(j, p))
              [] t = "SORT" /\ p.ranking = None -> After(IF s.ok THEN Ok(s.at, sorted) ELSE s)
              [] t \in {"TOP", "BOTTOM"} /\ p.sort = <<>> -> After(IF c.ok THEN Ok(c.at, ranked) ELSE c)
              [] OTHER -> Done(Err(j))
    BY DEF OrderingClause, Then
  <1>2. \A k, v, r : /\ More(k, v).result.at = k /\ Done(r).more = FALSE
                     /\ Ok(k, v).ok = TRUE /\ Ok(k, v).at = k /\ Ok(k, v).val = v
    BY DEF More, Done, Ok
  <1>3. x.more
    OBVIOUS
  <1> HIDE DEF x, s, c, sorted, ranked
  <1>4. /\ \/ t = "SORT" /\ s.ok /\ x = More(s.at, sorted)
           \/ t \in {"TOP", "BOTTOM"} /\ c.ok /\ x = More(c.at, ranked)
        /\ t \in {"SORT", "TOP", "BOTTOM"}
    <2>1. After(IF s.ok THEN Ok(s.at, sorted) ELSE s) = IF s.ok THEN More(s.at, sorted) ELSE Done(s)
      BY <1>2
    <2>2. After(IF c.ok THEN Ok(c.at, ranked) ELSE c) = IF c.ok THEN More(c.at, ranked) ELSE Done(c)
      BY <1>2
    <2> HIDE DEF After, t
    <2> QED
      BY <1>1, <1>2, <1>3, <2>1, <2>2
  <1>5. j + 1 \in Places(ts)
    BY <1>4, TokenIsThere
  <1>6. CASE t = "SORT" /\ s.ok /\ x = More(s.at, sorted)
    <2>1. s.at \in Places(ts) /\ j + 1 <= s.at
      BY <1>5, ReadsSortBlock, ReadsParts DEF s
    <2> QED
      BY <1>2, <1>6, <2>1 DEF Places, x
  <1>7. CASE t \in {"TOP", "BOTTOM"} /\ c.ok /\ x = More(c.at, ranked)
    <2>1. c.at \in Places(ts) /\ j + 1 <= c.at
      BY <1>5, <1>7, ReadsRankingClause, ReadsParts DEF c
    <2> QED
      BY <1>2, <1>7, <2>1 DEF Places, x
  <1> QED
    BY <1>4, <1>6, <1>7

\* The loop of SORT and TOP/BOTTOM, as it runs.
OrderingLoop(ts, i, q, n, g) ==
    /\ g[0] = More(i, q)
    /\ \A k \in 1 .. n : g[k - 1].more /\ g[k] = OrderingClause(ts, g[k - 1].result.at, g[k - 1].result.val)
    /\ ~g[n].more

LEMMA OrderingReads ==
    ASSUME NEW ts \in Text, NEW i \in Places(ts), NEW q \in Queries, q.sort = <<>>, q.ranking = None
    PROVE  /\ Ordering(ts, i, q) \in OrderingResults(ts, i, q)
           /\ \E n \in 1 .. Len(ts) + 1 : \E g : OrderingLoop(ts, i, q, n, g) /\ Ordering(ts, i, q) = g[n].result
  <1> DEFINE N == Len(ts) + 1
             V == OrderingStates(ts, i, q)
             Step(v) == IF v.more THEN OrderingClause(ts, v.result.at, v.result.val) ELSE v
             D == [v \in V |-> Step(v)]
             a == More(i, q)
             Loop(g) == g = [n \in 0 .. N |-> IF n = 0 THEN a ELSE Step(g[n - 1])]
             loop == CHOOSE g : Loop(g)
  <1>1. N \in Nat /\ N > 0
    BY DEF Text
  <1>2. ASSUME NEW v \in V
        PROVE  /\ Step(v) \in V /\ v.more \in BOOLEAN
               /\ v.more => v.result.at \in Places(ts)
               /\ v.more /\ Step(v).more => Step(v).result.at > v.result.at
    <2>1. v.result \in OrderingResults(ts, i, q) /\ v.more \in BOOLEAN /\ (v.more => v.result.ok)
      BY DEF OrderingStates
    <2>2. CASE v.more
      <3>1. Ordered(ts, i, q, v.result.at, v.result.val)
        BY <2>1, <2>2, OrderingResultHas
      <3>2. v.result.at \in Places(ts)
        BY <3>1, PlaceIsReached DEF Ordered, Places
      <3>3. Step(v) = OrderingClause(ts, v.result.at, v.result.val)
        BY <2>2
      <3> HIDE DEF Step, V
      <3>4. Step(v) \in V
        BY <3>1, <3>3, OrderingClauseReads DEF V
      <3>5. Step(v).more => Step(v).result.at > v.result.at
        BY <3>2, <3>3, OrderingGoesOn
      <3> QED
        BY <2>1, <3>2, <3>4, <3>5
    <2>3. CASE ~v.more
      BY <2>1, <2>3
    <2> QED
      BY <2>2, <2>3
  <1>3. a \in V
    <2>1. i \in i .. Len(ts) + 1 /\ Only(ts, i, i, OrderingMarks) /\ i \in Nat
      BY PlaceIsReached
    <2>2. Ordered(ts, i, q, i, q)
      BY <2>1 DEF Ordered, SameStatement, SamePaging
    <2> QED
      BY <2>2, OrderingState
  <1>4. D \in [V -> V] /\ \A v \in V : D[v] = Step(v)
    BY <1>2
  <1>5. \E g : Loop(g)
    <2> HIDE DEF N, V, D, a, Step
    <2>1. PICK g : Runs(g, N, V, a, D)
      BY <1>1, <1>3, <1>4, LoopExists, Zenon
    <2>2. g \in [0 .. N -> V] /\ g[0] = a /\ \A n \in 1 .. N : g[n] = D[g[n - 1]]
      BY <2>1 DEF Runs
    <2>3. ASSUME NEW n \in 0 .. N, n # 0 PROVE g[n] = Step(g[n - 1])
      <3>1. n \in 1 .. N /\ n - 1 \in 0 .. N
        BY <1>1, <2>3
      <3> QED
        BY <1>4, <2>2, <3>1
    <2>4. g = [n \in 0 .. N |-> g[n]]
      BY <2>2
    <2>5. Loop(g)
      BY <2>2, <2>3, <2>4
    <2> QED
      BY <2>5
  <1>6. Loop(loop)
    BY <1>5
  <1>7. Ordering(ts, i, q) = loop[N].result
    BY DEF Ordering, Repeat
  <1> HIDE DEF loop, N, V, D, a, Step
  <1>8. loop[0] = a /\ \A n \in 1 .. N : loop[n] = Step(loop[n - 1])
    BY <1>1, <1>6
  <1>9. loop[N] \in V
    <2>1. V \subseteq V /\ \A n \in 1 .. N : loop[n - 1] \in V => loop[n] \in V
      BY <1>2, <1>8
    <2> QED
      BY <1>1, <1>3, <1>8, <2>1, LoopStays
  <1>10. \A n \in 0 .. N : loop[n] \in V
    <2> DEFINE G == {n \in 0 .. N : loop[n] \in V}
    <2>1. 0 \in G
      BY <1>1, <1>3, <1>8
    <2>2. ASSUME NEW n \in 0 .. N - 1, n \in G PROVE n + 1 \in G
      <3>1. n + 1 \in 1 .. N /\ n + 1 - 1 = n /\ n + 1 \in 0 .. N
        BY <1>1
      <3> QED
        BY <1>2, <1>8, <2>2, <3>1
    <2> HIDE DEF G
    <2>3. \A n \in 0 .. N - 1 : n \in G => n + 1 \in G
      BY <2>2
    <2>4. \A n \in 0 .. N : n \in G
      BY <1>1, <2>1, <2>3, UpToBound, Zenon
    <2> QED
      BY <2>4 DEF G
  <1>11. PICK n \in 1 .. N : (\A k \in 1 .. n : loop[k - 1].more) /\ ~loop[n].more /\ loop[n] = loop[N]
    <2>1. loop[0].more
      BY <1>8 DEF a, More
    <2>2. \A k \in 0 .. N : loop[k].more \in BOOLEAN /\ (loop[k].more => loop[k].result.at \in 1 .. N)
      BY <1>2, <1>10 DEF Places, N
    <2>3. ASSUME NEW k \in 1 .. N
          PROVE  IF loop[k - 1].more THEN loop[k].more => loop[k].result.at > loop[k - 1].result.at
                 ELSE loop[k] = loop[k - 1]
      <3>1. k - 1 \in 0 .. N
        BY <1>1
      <3>2. loop[k - 1] \in V /\ loop[k] = Step(loop[k - 1])
        BY <1>8, <1>10, <3>1
      <3>3. ~loop[k - 1].more => loop[k] = loop[k - 1]
        BY <3>2 DEF Step
      <3> QED
        BY <1>2, <3>2, <3>3
    <2> QED
      BY <1>1, <2>1, <2>2, <2>3, LoopEnds
  <1>12. OrderingLoop(ts, i, q, n, loop)
    <2>1. \A k \in 1 .. n : k \in 1 .. N
      BY <1>1
    <2>2. \A k \in 1 .. n : loop[k] = OrderingClause(ts, loop[k - 1].result.at, loop[k - 1].result.val)
      BY <1>8, <1>11, <2>1 DEF Step
    <2> QED
      BY <1>8, <1>11, <2>2 DEF OrderingLoop, a
  <1>13. n \in 1 .. Len(ts) + 1 /\ Ordering(ts, i, q) = loop[n].result
    BY <1>7, <1>11 DEF N
  <1>14. \E m \in 1 .. Len(ts) + 1 : \E g : OrderingLoop(ts, i, q, m, g) /\ Ordering(ts, i, q) = g[m].result
    BY <1>12, <1>13
  <1> QED
    BY <1>7, <1>9, <1>14 DEF V, OrderingStates

(* The loops of the parser - the items of a list, the records of a batch,  *)
(* SORT and TOP/BOTTOM - end before the rounds they are modelled with do:  *)
(* each was left after a round, at most one more than the text has tokens, *)
(* and what it gave then is what the model takes.                          *)
THEOREM LoopsEnd ==
    ASSUME NEW ts \in Text, NEW i \in Places(ts)
    PROVE  /\ \A kind \in Kinds : \E n \in 1 .. Len(ts) + 1 : \E g :
                 ListLoop(kind, ts, i, n, g) /\ ListOf(kind, ts, i) = g[n].result
           /\ \A q \in Queries : q.sort = <<>> /\ q.ranking = None =>
                 \E n \in 1 .. Len(ts) + 1 : \E g : OrderingLoop(ts, i, q, n, g) /\ Ordering(ts, i, q) = g[n].result
  <1>1. ASSUME NEW kind \in Kinds
        PROVE  \E n \in 1 .. Len(ts) + 1 : \E g : ListLoop(kind, ts, i, n, g) /\ ListOf(kind, ts, i) = g[n].result
    <2>1. CASE kind = "record"
      <3>1. ListOf(kind, ts, i) = ParseBatchCreateRecords(ts, i)
        BY <2>1 DEF ListOf
      <3> QED
        BY <2>1, <3>1, BatchIsRead
    <2>2. CASE kind # "record"
      <3>1. ListOf(kind, ts, i) = List(kind, ts, i) /\ kind \in Kinds \ {"record"}
        BY <2>2 DEF ListOf
      <3> QED
        BY <3>1, ListIsRead
    <2> QED
      BY <2>1, <2>2
  <1> QED
    BY <1>1, OrderingReads

PagingMarks == {"LIMIT", "OFFSET"}

\* The paging clauses from i to j made p out of q.
Paged(ts, i, q, j, p) ==
    /\ j \in i .. Len(ts) + 1 /\ p \in Queries
    /\ SameStatement(q, p) /\ SameOrdering(q, p)
    /\ Only(ts, i, j, PagingMarks)
    /\ \A k \in i .. j - 1 : ts[k] = "LIMIT" => p.limit # None /\ p.limit = LiteralOf[ts[k + 1]].value
    /\ \A k \in i .. j - 1 : ts[k] = "OFFSET" => p.offset # None /\ p.offset = LiteralOf[ts[k + 1]].value

ReadsPaged(ts, r, i, q) ==
    /\ r.ok \in BOOLEAN
    /\ r.ok => r = Ok(r.at, r.val) /\ Paged(ts, i, q, r.at, r.val)
    /\ ~r.ok => r = Err(r.at) /\ r.at \in i .. Len(ts) + 1

LEMMA PagingClauseReads ==
    ASSUME NEW ts \in Text, NEW i \in Places(ts), NEW q, NEW j, NEW p, Paged(ts, i, q, j, p)
    PROVE  ReadsPaged(ts, PagingClause(ts, j, p), i, q)
  <1> DEFINE t == Tok(ts, j)
             n == LiteralOf[Tok(ts, j + 1)].value
             limited == [p EXCEPT !.limit = n]
             skipped == [p EXCEPT !.offset = n]
             x == PagingClause(ts, j, p)
  <1>1. x = IF t \notin PagingMarks THEN Ok(j, p)
            ELSE IF (t = "LIMIT" /\ p.limit # None) \/ (t = "OFFSET" /\ p.offset # None) THEN Err(j + 1)
            ELSE IF ~OfKind(ts, j + 1, "integer") THEN Err(j + 1)
            ELSE Ok(j + 2, IF t = "LIMIT" THEN limited ELSE skipped)
    BY DEF PagingClause, PagingMarks
  <1>2. /\ j \in Places(ts) /\ j \in i .. Len(ts) + 1 /\ p \in Queries /\ i \in Int /\ j \in Int /\ i <= j /\ Len(ts) \in Nat
        /\ Only(ts, i, j, PagingMarks) /\ SameStatement(q, p) /\ SameOrdering(q, p)
    BY PlaceIsReached DEF Paged, Places
  <1>3. ASSUME NEW m \in i .. Len(ts) + 1, x = Err(m) PROVE ReadsPaged(ts, x, i, q)
    BY <1>3 DEF ReadsPaged, Err
  <1>4. ASSUME NEW m, NEW v, Paged(ts, i, q, m, v), x = Ok(m, v) PROVE ReadsPaged(ts, x, i, q)
    BY <1>4 DEF ReadsPaged, Ok
  <1> HIDE DEF x, n, t, limited, skipped
  <1>5. CASE t \notin PagingMarks
    BY <1>1, <1>4, <1>5 DEF x
  <1>6. CASE t \in PagingMarks
    <2>1. /\ j \in 1 .. Len(ts) /\ ts[j] = t /\ j + 1 \in Places(ts) /\ j + 1 \in i .. Len(ts) + 1
          /\ Only(ts, j, j + 1, PagingMarks)
      <3>1. t # "EOF"
        BY <1>6 DEF PagingMarks
      <3>2. /\ j \in 1 .. Len(ts) /\ ts[j] = t /\ j + 1 \in Places(ts)
            /\ Only(ts, j, j + 1, PagingMarks)
        BY <1>2, <1>6, <3>1, TokenIsOnly DEF t
      <3> QED
        BY <1>2, <3>2
    <2>2. CASE (t = "LIMIT" /\ p.limit # None) \/ (t = "OFFSET" /\ p.offset # None) \/ ~OfKind(ts, j + 1, "integer")
      BY <1>1, <1>3, <1>6, <2>1, <2>2 DEF x
    <2>3. CASE /\ ~((t = "LIMIT" /\ p.limit # None) \/ (t = "OFFSET" /\ p.offset # None))
               /\ OfKind(ts, j + 1, "integer")
      <3>1. Tok(ts, j + 1) \in DOMAIN LiteralOf /\ n \in Int /\ n # None
        BY <2>3, LanguageAssumption DEF OfKind, n
      <3>2. j + 1 \in 1 .. Len(ts) /\ ts[j + 1] = Tok(ts, j + 1) /\ Only(ts, j + 1, j + 1 + 1, {})
        BY <2>1, <3>1, NameIsOnly
      <3>3. j + 2 \in i .. Len(ts) + 1 /\ Only(ts, i, j + 2, PagingMarks)
        BY <1>2, <2>1, <3>2 DEF Only
      <3>4. n = LiteralOf[ts[j + 1]].value /\ ts[j + 1] \notin PagingMarks
        <4>1. \A k \in j + 1 .. j + 1 + 1 - 1 : ts[k] \notin Marks
          BY <3>2 DEF Only
        <4>2. ts[j + 1] \notin Marks
          BY <1>2, <4>1
        <4> QED
          BY <3>2, <4>2 DEF n, Marks, PagingMarks
      <3>5. \A k \in i .. j + 2 - 1 : k \in i .. j - 1 \/ k = j \/ k = j + 1
        BY <1>2
      <3>6. CASE t = "LIMIT"
        <4>1. x = Ok(j + 2, limited)
          BY <1>1, <1>6, <2>3, <3>6
        <4>2. limited \in Queries /\ limited.limit = n /\ limited.offset = p.offset
          BY <1>2, <3>1 DEF Queries, limited
        <4>3. SameStatement(q, limited) /\ SameOrdering(q, limited)
          BY <1>2 DEF SameStatement, SameOrdering, Queries, limited
        <4>4. ASSUME NEW k \in i .. j + 2 - 1, ts[k] = "LIMIT"
              PROVE  limited.limit # None /\ limited.limit = LiteralOf[ts[k + 1]].value
          <5>1. k = j
            BY <2>3, <3>4, <3>5, <3>6, <4>4 DEF Paged, PagingMarks
          <5> QED
            BY <3>1, <3>4, <4>2, <5>1
        <4>5. ASSUME NEW k \in i .. j + 2 - 1, ts[k] = "OFFSET"
              PROVE  limited.offset # None /\ limited.offset = LiteralOf[ts[k + 1]].value
          <5>1. k \in i .. j - 1
            BY <2>1, <3>4, <3>5, <3>6, <4>5 DEF PagingMarks
          <5> QED
            BY <4>2, <4>5, <5>1 DEF Paged
        <4>6. Paged(ts, i, q, j + 2, limited)
          BY <3>3, <4>2, <4>3, <4>4, <4>5 DEF Paged
        <4> QED
          BY <1>4, <4>1, <4>6 DEF x
      <3>7. CASE t = "OFFSET"
        <4>1. x = Ok(j + 2, skipped)
          BY <1>1, <1>6, <2>3, <3>7
        <4>2. skipped \in Queries /\ skipped.offset = n /\ skipped.limit = p.limit
          BY <1>2, <3>1 DEF Queries, skipped
        <4>3. SameStatement(q, skipped) /\ SameOrdering(q, skipped)
          BY <1>2 DEF SameStatement, SameOrdering, Queries, skipped
        <4>4. ASSUME NEW k \in i .. j + 2 - 1, ts[k] = "OFFSET"
              PROVE  skipped.offset # None /\ skipped.offset = LiteralOf[ts[k + 1]].value
          <5>1. k = j
            BY <2>3, <3>4, <3>5, <3>7, <4>4 DEF Paged, PagingMarks
          <5> QED
            BY <3>1, <3>4, <4>2, <5>1
        <4>5. ASSUME NEW k \in i .. j + 2 - 1, ts[k] = "LIMIT"
              PROVE  skipped.limit # None /\ skipped.limit = LiteralOf[ts[k + 1]].value
          <5>1. k \in i .. j - 1
            BY <2>1, <3>4, <3>5, <3>7, <4>5 DEF PagingMarks
          <5> QED
            BY <4>2, <4>5, <5>1 DEF Paged
        <4>6. Paged(ts, i, q, j + 2, skipped)
          BY <3>3, <4>2, <4>3, <4>4, <4>5 DEF Paged
        <4> QED
          BY <1>4, <4>1, <4>6 DEF x
      <3> QED
        BY <1>6, <3>6, <3>7 DEF PagingMarks
    <2> QED
      BY <2>2, <2>3
  <1> QED
    BY <1>5, <1>6

LEMMA PagingReads ==
    ASSUME NEW ts \in Text, NEW i \in Places(ts), NEW q \in Queries
    PROVE  ReadsPaged(ts, Paging(ts, i, q), i, q)
  <1> DEFINE a == PagingClause(ts, i, q)
             b == PagingClause(ts, a.at, a.val)
             c == PagingClause(ts, b.at, b.val)
  <1>1. Paging(ts, i, q) = IF a.ok THEN IF b.ok THEN c ELSE b ELSE a
    BY DEF Paging, Then
  <1>2. Paged(ts, i, q, i, q)
    BY PlaceIsReached DEF Paged, SameStatement, SameOrdering
  <1>3. ReadsPaged(ts, a, i, q)
    BY <1>2, PagingClauseReads
  <1>4. a.ok => ReadsPaged(ts, b, i, q)
    <2> HIDE DEF a
    <2>1. a.ok => Paged(ts, i, q, a.at, a.val)
      BY <1>3 DEF ReadsPaged
    <2> QED
      BY <2>1, PagingClauseReads
  <1>5. a.ok /\ b.ok => ReadsPaged(ts, c, i, q)
    <2> HIDE DEF b
    <2>1. a.ok /\ b.ok => Paged(ts, i, q, b.at, b.val)
      BY <1>4 DEF ReadsPaged
    <2> QED
      BY <2>1, PagingClauseReads
  <1> HIDE DEF a, b, c
  <1> QED
    BY <1>1, <1>3, <1>4, <1>5

Semicolon == ";"

(* The semicolon is the last token.                                        *)
LEMMA ReadsSemicolon ==
    ASSUME NEW ts \in Text, NEW i \in Places(ts), NEW q
    PROVE  LET r == ConsumeTerminatingSemicolon(ts, i, q)
           IN  /\ r.ok \in BOOLEAN /\ r.at \in Places(ts)
               /\ r.ok => /\ r = Ok(Len(ts) + 1, q) /\ r.at = Len(ts) + 1
                          /\ i = Len(ts) /\ i \in 1 .. Len(ts) /\ ts[i] = Semicolon
               /\ ~r.ok => r = Err(r.at)
  <1> DEFINE c == Consume(ts, i, Semicolon, q)
             r == IF c.ok THEN IF c.at <= Len(ts) THEN Err(c.at) ELSE Ok(c.at, q) ELSE c
  <1>1. ConsumeTerminatingSemicolon(ts, i, q) = r
    BY Zenon DEF ConsumeTerminatingSemicolon, Then, Semicolon
  <1>2. r = IF Tok(ts, i) # Semicolon THEN Err(i) ELSE IF i + 1 <= Len(ts) THEN Err(i + 1) ELSE Ok(i + 1, q)
    BY DEF Consume, Ok, Err
  <1> HIDE DEF r
  <1>3. i \in Nat /\ i >= 1 /\ i <= Len(ts) + 1 /\ Len(ts) \in Nat
    BY DEF Places, Text
  <1>4. CASE Tok(ts, i) # Semicolon
    BY <1>1, <1>2, <1>4 DEF Err
  <1>5. CASE Tok(ts, i) = Semicolon
    <2>1. Tok(ts, i) # "EOF"
      BY <1>5, Zenon DEF Semicolon
    <2>2. i \in 1 .. Len(ts) /\ ts[i] = Semicolon /\ i + 1 \in Places(ts)
      BY <1>5, <2>1, TokenIsThere
    <2>3. CASE i + 1 <= Len(ts)
      BY <1>1, <1>2, <1>5, <2>2, <2>3 DEF Err
    <2>4. CASE ~(i + 1 <= Len(ts))
      <3>1. i = Len(ts)
        BY <1>3, <2>2, <2>4
      <3>2. r = Ok(Len(ts) + 1, q)
        BY <1>2, <1>5, <2>4, <3>1
      <3> QED
        BY <1>1, <2>2, <3>1, <3>2 DEF Ok
    <2> QED
      BY <2>3, <2>4
  <1> QED
    BY <1>4, <1>5

-----------------------------------------------------------------------------
(* Statements *)

\* A token that is neither before b nor from c on.
LEMMA Located ==
    ASSUME NEW ts, NEW t, NEW a \in Int, NEW b \in Int, NEW c \in Int, NEW d \in Int, a <= b, b <= c, c <= d,
           \A k \in a .. b - 1 : ts[k] # t, \A k \in c .. d - 1 : ts[k] # t
    PROVE  /\ Times(ts, t, a, d) = Times(ts, t, b, c) /\ Times(ts, t, a, d) \in Nat
           /\ \A k \in a .. d - 1 : ts[k] = t => k \in b .. c - 1
  <1>1. Times(ts, t, a, b) = 0 /\ Times(ts, t, c, d) = 0
    BY TimesNone
  <1>2. /\ Times(ts, t, a, c) = Times(ts, t, a, b) + Times(ts, t, b, c)
        /\ Times(ts, t, b, c) \in Nat
    BY TimesSplit
  <1>3. Times(ts, t, a, d) = Times(ts, t, a, c) + Times(ts, t, c, d)
    BY TimesSplit
  <1>4. \A k \in a .. d - 1 : ts[k] = t => k \in b .. c - 1
    OBVIOUS
  <1> QED
    BY <1>1, <1>2, <1>3, <1>4

\* Which of the fields a statement has.
Fields(q) ==
    /\ q \in Queries
    /\ q.operation # "UPDATE" => q.assignments = <<>>
    /\ q.operation # "CREATE" => q.records = <<>>

Bare(ts, q) == q.operation = "DELETE" /\ q.where = <<>> => ts = <<"DELETE", q.entity, Semicolon>>

SortIfAny(ts, i, j, q) ==
    /\ q.sort # <<>> <=> \E k \in i .. j - 1 : ts[k] = "SORT"
    /\ q.ranking # None <=> \E k \in i .. j - 1 : ts[k] \in {"TOP", "BOTTOM"}

PageIfAny(ts, i, j, q) ==
    /\ \A k \in i .. j - 1 : ts[k] = "LIMIT" => q.limit = LiteralOf[ts[k + 1]].value
    /\ \A k \in i .. j - 1 : ts[k] = "OFFSET" => q.offset = LiteralOf[ts[k + 1]].value

\* What was typed is in q: the whole text is made of what is before i (the statement
\* and its payload), the conditions to j, the ordering to k, the paging and the end.
Cut(ts, q, i, j, k) ==
    /\ i \in Int /\ j \in Int /\ k \in Int /\ 3 <= i /\ i <= j /\ j <= k /\ k <= Len(ts)
    /\ Only(ts, 1, 3, {}) /\ Only(ts, 3, i, {"AS", ":"}) /\ Only(ts, i, j, {"WHERE"})
    /\ Only(ts, j, k, OrderingMarks) /\ Only(ts, k, Len(ts), PagingMarks)
    /\ ts[Len(ts)] = Semicolon
    /\ Times(ts, "AS", 3, i) = Total("selection", q.projection)
    /\ Times(ts, ":", 3, i) = Cardinality(Assigned(q))
    /\ WhereIfAny(ts, i, j, q.where)
    /\ SortIfAny(ts, j, k, q)
    /\ PageIfAny(ts, k, Len(ts), q)

Kept(ts, q) ==
    /\ ts[Len(ts)] = Semicolon /\ Times(ts, Semicolon, 1, Len(ts) + 1) = 1
    /\ Times(ts, "AS", 1, Len(ts) + 1) = Total("selection", q.projection)
    /\ Times(ts, ":", 1, Len(ts) + 1) = Cardinality(Assigned(q))
    /\ WhereIfAny(ts, 1, Len(ts) + 1, q.where)
    /\ SortIfAny(ts, 1, Len(ts) + 1, q)
    /\ PageIfAny(ts, 1, Len(ts) + 1, q)

LEMMA CutIsKept ==
    ASSUME NEW ts \in Text, NEW q, NEW i, NEW j, NEW k, Cut(ts, q, i, j, k)
    PROVE  Kept(ts, q)
  <1> DEFINE n == Len(ts)
             e == n + 1
  <1>1. /\ i \in Int /\ j \in Int /\ k \in Int /\ 3 <= i /\ i <= j /\ j <= k /\ k <= n /\ n \in Int
        /\ e = n + 1 /\ e \in Int
    BY DEF Cut, Text
  <1>2. /\ \A m \in 1 .. 2 : ts[m] \notin Marks
        /\ \A m \in 3 .. i - 1 : ts[m] \notin Marks \ {"AS", ":"}
        /\ \A m \in i .. j - 1 : ts[m] \notin Marks \ {"WHERE"}
        /\ \A m \in j .. k - 1 : ts[m] \notin Marks \ OrderingMarks
        /\ \A m \in k .. n - 1 : ts[m] \notin Marks \ PagingMarks
    BY DEF Cut, Only
  <1>3. /\ "AS" \in Marks /\ ":" \in Marks /\ "WHERE" \in Marks /\ Semicolon \in Marks
        /\ OrderingMarks \subseteq Marks /\ PagingMarks \subseteq Marks
        /\ Semicolon \notin {"AS", ":"} /\ Semicolon # "WHERE" /\ Semicolon \notin OrderingMarks
        /\ Semicolon \notin PagingMarks
    BY Zenon DEF Marks, OrderingMarks, PagingMarks, Semicolon
  <1>4. /\ "WHERE" \notin {"AS", ":"} \cup OrderingMarks \cup PagingMarks
        /\ OrderingMarks \cap {"AS", ":"} = {} /\ OrderingMarks \cap PagingMarks = {} /\ PagingMarks \cap {"AS", ":"} = {}
    BY DEF OrderingMarks, PagingMarks
  <1>5. ts[n] = Semicolon
    BY DEF Cut
  <1> HIDE DEF n, e
  <1>6. \A m \in 1 .. e - 1 : m \in 1 .. 2 \/ m \in 3 .. i - 1 \/ m \in i .. j - 1 \/ m \in j .. k - 1 \/ m \in k .. n - 1 \/ m = n
    BY <1>1
  <1>7. \A m \in 3 .. e - 1 : m \in 3 .. i - 1 \/ m \in i .. e - 1
    BY <1>1
  <1>8. /\ \A m \in i .. e - 1 : m \in i .. j - 1 \/ m \in j .. k - 1 \/ m \in k .. n - 1 \/ m = n
        /\ \A m \in j .. e - 1 : m \in j .. k - 1 \/ m \in k .. n - 1 \/ m = n
        /\ \A m \in k .. e - 1 : m \in k .. n - 1 \/ m = n
        /\ \A m \in 1 .. i - 1 : m \in 1 .. 2 \/ m \in 3 .. i - 1
        /\ \A m \in 1 .. j - 1 : m \in 1 .. i - 1 \/ m \in i .. j - 1
        /\ \A m \in 1 .. k - 1 : m \in 1 .. j - 1 \/ m \in j .. k - 1
        /\ \A m \in 1 .. n - 1 : m \in 1 .. k - 1 \/ m \in k .. n - 1
    BY <1>1
  <1>9. /\ \A m \in 1 .. i - 1 : ts[m] \notin Marks \ {"AS", ":"}
        /\ \A m \in 1 .. j - 1 : ts[m] \notin Marks \ {"AS", ":", "WHERE"}
        /\ \A m \in 1 .. k - 1 : ts[m] \notin Marks \ ({"AS", ":", "WHERE"} \cup OrderingMarks)
        /\ \A m \in 1 .. n - 1 : ts[m] \notin Marks \ ({"AS", ":", "WHERE"} \cup OrderingMarks \cup PagingMarks)
    BY <1>2, <1>8
  <1>10. /\ \A m \in i .. e - 1 : ts[m] \notin {"AS", ":"}
         /\ \A m \in j .. e - 1 : ts[m] # "WHERE"
         /\ \A m \in k .. e - 1 : ts[m] \notin OrderingMarks
    BY <1>2, <1>3, <1>4, <1>5, <1>8
  <1>11. Times(ts, Semicolon, 1, e) = 1
    <2>1. \A m \in 1 .. n - 1 : ts[m] # Semicolon
      BY <1>3, <1>9
    <2>2. Times(ts, Semicolon, 1, e) = Times(ts, Semicolon, n, e)
      <3>1. \A m \in e .. e - 1 : ts[m] # Semicolon
        BY <1>1
      <3> QED
        BY <1>1, <2>1, <3>1, Located
    <2>3. Times(ts, Semicolon, n, n + 1) = 1
      BY <1>1, <1>5, TimesOne
    <2> QED
      BY <1>1, <2>2, <2>3
  <1>12. ASSUME NEW t \in {"AS", ":"} PROVE Times(ts, t, 1, e) = Times(ts, t, 3, i)
    <2>1. \A m \in 1 .. 3 - 1 : ts[m] # t
      <3>1. \A m \in 1 .. 3 - 1 : m \in 1 .. 2
        OBVIOUS
      <3> QED
        BY <1>2, <1>3, <3>1
    <2>2. \A m \in i .. e - 1 : ts[m] # t
      BY <1>10
    <2> QED
      BY <1>1, <2>1, <2>2, Located
  <1>13. Times(ts, "WHERE", 1, e) = Times(ts, "WHERE", i, j)
    <2>1. \A m \in 1 .. i - 1 : ts[m] # "WHERE"
      BY <1>3, <1>4, <1>9
    <2> QED
      BY <1>1, <1>10, <2>1, Located
  <1>14. SortIfAny(ts, 1, e, q)
    <2>1. \A m \in 1 .. j - 1 : ts[m] \notin OrderingMarks
      BY <1>3, <1>4, <1>9
    <2>2. \A m \in 1 .. e - 1 : ts[m] \in OrderingMarks => m \in j .. k - 1
      <3>1. \A m \in 1 .. e - 1 : m \in 1 .. j - 1 \/ m \in j .. k - 1 \/ m \in k .. e - 1
        BY <1>1
      <3> QED
        BY <1>10, <2>1, <3>1
    <2>3. \A m \in j .. k - 1 : m \in 1 .. e - 1
      BY <1>1
    <2>4. SortIfAny(ts, j, k, q)
      BY DEF Cut
    <2> QED
      BY <2>2, <2>3, <2>4 DEF SortIfAny, OrderingMarks
  <1>15. PageIfAny(ts, 1, e, q)
    <2>1. \A m \in 1 .. k - 1 : ts[m] \notin PagingMarks
      BY <1>3, <1>4, <1>9
    <2>2. \A m \in 1 .. e - 1 : ts[m] \in PagingMarks => m \in k .. n - 1
      <3>1. \A m \in 1 .. e - 1 : m \in 1 .. k - 1 \/ m \in k .. n - 1 \/ m = n
        BY <1>1
      <3> QED
        BY <1>3, <1>5, <2>1, <3>1
    <2>3. PageIfAny(ts, k, n, q)
      BY DEF Cut, n
    <2> QED
      BY <2>2, <2>3 DEF PageIfAny, PagingMarks
  <1> QED
    BY <1>5, <1>11, <1>12, <1>13, <1>14, <1>15 DEF Kept, Cut, WhereIfAny, n, e

\* What parsing gives: an error at a token, or at the end, or a query.
Outcome(ts, r) ==
    /\ r.ok \in BOOLEAN /\ r.at \in Places(ts)
    /\ ~r.ok => r = Err(r.at)
    /\ r.ok => /\ r = Ok(Len(ts) + 1, r.val) /\ r.at = Len(ts) + 1
               /\ Fields(r.val) /\ Kept(ts, r.val) /\ Bare(ts, r.val)

LEMMA Refused ==
    ASSUME NEW ts, NEW r, NEW i \in Places(ts), r = Err(i)
    PROVE  Outcome(ts, r)
  BY DEF Outcome, Err

LEMMA Accepted ==
    ASSUME NEW ts \in Text, NEW q, NEW i, NEW j, NEW k, Cut(ts, q, i, j, k), Fields(q), Bare(ts, q)
    PROVE  Outcome(ts, Ok(Len(ts) + 1, q))
  <1>1. Kept(ts, q)
    BY CutIsKept
  <1>2. Len(ts) + 1 \in Places(ts)
    BY DEF Text, Places
  <1> QED
    BY <1>1, <1>2 DEF Outcome, Ok

LEMMA Ended ==
    ASSUME NEW ts \in Text, NEW l \in Places(ts), NEW q, NEW i, NEW j, NEW k,
           l = Len(ts) /\ ts[l] = Semicolon => Cut(ts, q, i, j, k) /\ Fields(q) /\ Bare(ts, q)
    PROVE  Outcome(ts, ConsumeTerminatingSemicolon(ts, l, q))
  <1> DEFINE r == ConsumeTerminatingSemicolon(ts, l, q)
  <1>1. /\ r.ok \in BOOLEAN /\ r.at \in Places(ts)
        /\ r.ok => r = Ok(Len(ts) + 1, q) /\ l = Len(ts) /\ ts[l] = Semicolon
        /\ ~r.ok => r = Err(r.at)
    BY ReadsSemicolon
  <1> HIDE DEF r
  <1>2. CASE r.ok
    BY <1>1, <1>2, Accepted DEF r
  <1>3. CASE ~r.ok
    BY <1>1, <1>3, Refused DEF r
  <1> QED
    BY <1>1, <1>2, <1>3

\* The operation and its entity.
LEMMA Beginning ==
    ASSUME NEW ts \in Text, Tok(ts, 1) \in Statements, Tok(ts, 2) \in Identifiers
    PROVE  /\ 3 \in Places(ts) /\ Len(ts) \in Nat /\ Len(ts) >= 2 /\ Only(ts, 1, 3, {})
           /\ ts[1] = Tok(ts, 1) /\ ts[2] = Tok(ts, 2)
  <1>1. Len(ts) \in Nat /\ 1 \in Places(ts)
    BY DEF Text, Places
  <1>2. Tok(ts, 1) # "EOF" /\ Tok(ts, 1) \notin Marks
    BY DEF Statements, Marks
  <1>3. 1 \in 1 .. Len(ts) /\ ts[1] = Tok(ts, 1) /\ 1 + 1 \in Places(ts) /\ Only(ts, 1, 1 + 1, {})
    BY <1>1, <1>2, TokenIsOnly
  <1>4. 2 \in Places(ts) /\ Only(ts, 1, 2, {})
    BY <1>3
  <1>5. 2 \in 1 .. Len(ts) /\ ts[2] = Tok(ts, 2) /\ 2 + 1 \in Places(ts) /\ Only(ts, 2, 2 + 1, {})
    BY <1>4, NameIsOnly
  <1>6. 3 \in Places(ts) /\ Only(ts, 2, 3, {})
    BY <1>5
  <1>7. Only(ts, 1, 3, {} \cup {})
    BY <1>4, <1>6, OnlySplit
  <1>8. {} \cup {} = {}
    OBVIOUS
  <1> QED
    BY <1>1, <1>3, <1>5, <1>6, <1>7, <1>8

(* A query of its operation and its entity.                                *)
LEMMA QueryIs ==
    ASSUME NEW op \in Statements, NEW entity \in Identifiers
    PROVE  /\ Query(op, entity) \in Queries
           /\ Query(op, entity).operation = op /\ Query(op, entity).entity = entity
           /\ Query(op, entity).projection = <<>> /\ Query(op, entity).where = <<>>
           /\ Query(op, entity).assignments = <<>> /\ Query(op, entity).records = <<>>
           /\ Query(op, entity).sort = <<>> /\ Query(op, entity).ranking = None
           /\ Query(op, entity).limit = None /\ Query(op, entity).offset = None
  BY Nodes1 DEF Query, Queries

LEMMA NothingAssigned ==
    ASSUME NEW q, q.assignments = <<>>, q.records = <<>>
    PROVE  Cardinality(Assigned(q)) = 0
  <1>1. Assigned(q) = {}
    BY DEF Assigned
  <1> QED
    BY <1>1, FS_EmptySet

LEMMA NothingSelected == Total("selection", <<>>) = 0
  BY TotalEmpty DEF Kinds

(* What a payload in parentheses reads, from after the parenthesis on.     *)
LEMMA ReadsAfterParenthesis ==
    ASSUME NEW ts \in Text, NEW i \in Places(ts), Tok(ts, i) = "(", NEW r, NEW V, NEW t \in {"AS", ":"},
           Reads(ts, r, i + 1, V, {t})
    PROVE  /\ Reads(ts, r, i, V, {t})
           /\ r.ok => Times(ts, t, i, r.at) = Times(ts, t, i + 1, r.at)
  <1>1. Tok(ts, i) # "EOF" /\ Tok(ts, i) \notin Marks
    BY DEF Marks
  <1>2. i \in Int /\ i + 1 \in Places(ts) /\ Only(ts, i, i + 1, {})
    BY <1>1, TokenIsOnly, PlaceIsReached
  <1>3. r.at \in Places(ts) /\ i + 1 <= r.at
    BY <1>2, ReadsParts
  <1>4. r.at \in Int /\ i + 1 \in Int /\ i <= i + 1
    BY <1>2, <1>3 DEF Places, Text
  <1>5. Times(ts, t, i, i + 1) = 0
    BY <1>2, TimesOnly DEF Marks
  <1>6. /\ Times(ts, t, i, r.at) = Times(ts, t, i, i + 1) + Times(ts, t, i + 1, r.at)
        /\ Times(ts, t, i + 1, r.at) \in Nat
    BY <1>2, <1>3, <1>4, TimesSplit
  <1> QED
    BY <1>1, <1>5, <1>6, ReadsToken

LEMMA ReadsProjection ==
    ASSUME NEW ts \in Text, NEW i \in Places(ts)
    PROVE  LET r == IF Tok(ts, i) = "(" THEN ParseProjectionList(ts, i + 1) ELSE Ok(i, <<>>)
           IN  /\ Reads(ts, r, i, Seq(Selection), {"AS"})
               /\ r.ok => Times(ts, "AS", i, r.at) = Total("selection", r.val)
  <1> DEFINE l == ParseProjectionList(ts, i + 1)
  <1>0. /\ <<>> \in Seq(Selection) /\ "selection" \in Kinds \ {"record"}
        /\ Items("selection") = Selection /\ Allowed("selection") = {"AS"} /\ Mark("selection") = "AS"
    BY DEF Kinds, Items, Allowed, Mark
  <1>1. CASE Tok(ts, i) # "("
    <2>1. Ok(i, <<>>).at = i /\ Ok(i, <<>>).val = <<>>
      BY DEF Ok
    <2>2. \A k \in i .. i - 1 : ts[k] # "AS"
      BY PlaceIsReached
    <2>3. Times(ts, "AS", i, i) = 0
      BY <2>2, TimesNone
    <2>4. Reads(ts, Ok(i, <<>>), i, Seq(Selection), {"AS"})
      BY <1>0, ReadsNothing
    <2> QED
      BY <1>1, <2>1, <2>3, <2>4, NothingSelected
  <1>2. CASE Tok(ts, i) = "("
    <2>1. Tok(ts, i) # "EOF" /\ Tok(ts, i) \notin Marks
      BY <1>2 DEF Marks
    <2>2. i + 1 \in Places(ts)
      BY <2>1, TokenIsThere
    <2>3. Reads(ts, l, i + 1, Seq(Selection), {"AS"}) /\ (l.ok => Times(ts, "AS", i + 1, l.at) = Total("selection", l.val))
      <3>1. CASE Tok(ts, i + 1) = ")"
        <4>1. l = Ok(i + 1 + 1, <<>>) /\ l.at = i + 1 + 1 /\ l.val = <<>>
          BY <3>1 DEF ParseProjectionList, Ok
        <4>2. Tok(ts, i + 1) # "EOF" /\ Tok(ts, i + 1) \notin Marks
          BY <3>1 DEF Marks
        <4> HIDE DEF l
        <4>3. Reads(ts, l, i + 1, Seq(Selection), {"AS"})
          BY <1>0, <2>2, <4>1, <4>2, ReadsToken
        <4>4. Only(ts, i + 1, i + 1 + 1, {})
          BY <2>2, <4>2, TokenIsOnly
        <4>5. Times(ts, "AS", i + 1, i + 1 + 1) = 0
          BY <4>4, TimesOnly DEF Marks
        <4> QED
          BY <4>1, <4>3, <4>5, NothingSelected
      <3>2. CASE Tok(ts, i + 1) # ")"
        <4>1. l = List("selection", ts, i + 1)
          BY <3>2 DEF ParseProjectionList
        <4> HIDE DEF l
        <4>2. /\ Reads(ts, l, i + 1, Seq(Selection) \ {<<>>}, {"AS"})
              /\ l.ok => Times(ts, "AS", i + 1, l.at) = Total("selection", l.val)
          BY <1>0, <2>2, <4>1, ListReads
        <4>3. Seq(Selection) \ {<<>>} \subseteq Seq(Selection)
          OBVIOUS
        <4> QED
          BY <4>2, <4>3, ReadsMore
      <3> QED
        BY <3>1, <3>2
    <2> HIDE DEF l
    <2>4. /\ Reads(ts, l, i, Seq(Selection), {"AS"})
          /\ l.ok => Times(ts, "AS", i, l.at) = Times(ts, "AS", i + 1, l.at)
      BY <1>2, <2>3, ReadsAfterParenthesis
    <2> QED
      BY <1>2, <2>3, <2>4 DEF l
  <1> QED
    BY <1>1, <1>2

LEMMA GetOutcome ==
    ASSUME NEW ts \in Text, Tok(ts, 1) = "GET", Tok(ts, 2) \in Identifiers
    PROVE  Outcome(ts, ParseGet(ts, Query(Tok(ts, 1), Tok(ts, 2))))
  <1> DEFINE q == Query(Tok(ts, 1), Tok(ts, 2))
             p == IF Tok(ts, 3) = "(" THEN ParseProjectionList(ts, 4) ELSE Ok(3, <<>>)
             w == OptionalWhere(ts, p.at)
             q0 == [q EXCEPT !.projection = p.val, !.where = w.val]
             o == Ordering(ts, w.at, q0)
             g == Paging(ts, o.at, o.val)
             s == ConsumeTerminatingSemicolon(ts, g.at, g.val)
  <1>1. ParseGet(ts, q) = IF ~p.ok THEN p ELSE IF ~w.ok THEN w ELSE IF ~o.ok THEN o ELSE IF ~g.ok THEN g ELSE s
    BY DEF ParseGet, Then
  <1>2. /\ 3 \in Places(ts) /\ Len(ts) \in Nat /\ Len(ts) >= 2 /\ Only(ts, 1, 3, {})
    BY Beginning DEF Statements
  <1>3. /\ q \in Queries /\ q.operation = "GET" /\ q.assignments = <<>> /\ q.records = <<>>
        /\ q.sort = <<>> /\ q.ranking = None
    BY QueryIs DEF Statements
  <1>4. Reads(ts, p, 3, Seq(Selection), {"AS"}) /\ (p.ok => Times(ts, "AS", 3, p.at) = Total("selection", p.val))
    <2>1. 3 + 1 = 4
      OBVIOUS
    <2> QED
      BY <1>2, <2>1, ReadsProjection
  <1> HIDE DEF q, p
  <1>5. /\ p.ok \in BOOLEAN /\ p.at \in Places(ts) /\ 3 <= p.at
        /\ p.ok => p.val \in Seq(Selection) /\ Only(ts, 3, p.at, {"AS"})
        /\ ~p.ok => p = Err(p.at)
    BY <1>2, <1>4, ReadsParts
  <1>6. CASE ~p.ok
    BY <1>1, <1>5, <1>6, Refused DEF q
  <1>7. CASE p.ok
    <2>1. /\ Reads(ts, w, p.at, Nodes, {"WHERE"})
          /\ w.ok => WhereIfAny(ts, p.at, w.at, w.val)
      BY <1>5, ReadsOptionalWhere
    <2> HIDE DEF w
    <2>2. /\ w.ok \in BOOLEAN /\ w.at \in Places(ts) /\ p.at <= w.at
          /\ w.ok => w.val \in Nodes /\ Only(ts, p.at, w.at, {"WHERE"})
          /\ ~w.ok => w = Err(w.at)
      BY <1>5, <2>1, ReadsParts
    <2>3. CASE ~w.ok
      BY <1>1, <1>7, <2>2, <2>3, Refused DEF q
    <2>4. CASE w.ok
      <3>1. /\ q0 \in Queries /\ q0.operation = "GET" /\ q0.assignments = <<>> /\ q0.records = <<>>
            /\ q0.sort = <<>> /\ q0.ranking = None /\ q0.projection = p.val /\ q0.where = w.val
        BY <1>3, <1>5, <1>7, <2>2, <2>4 DEF Queries
      <3> HIDE DEF q0
      <3>2. o \in OrderingResults(ts, w.at, q0)
        BY <2>2, <3>1, OrderingReads
      <3> HIDE DEF o
      <3>3. /\ o.ok \in BOOLEAN
            /\ o.ok => Ordered(ts, w.at, q0, o.at, o.val)
            /\ ~o.ok => o = Err(o.at) /\ o.at \in w.at .. Len(ts) + 1
        BY <2>2, <3>2, OrderingResultHas
      <3>4. CASE ~o.ok
        <4>1. o.at \in Places(ts)
          BY <1>2, <2>2, <3>3, <3>4 DEF Places
        <4> QED
          BY <1>1, <1>7, <2>4, <3>3, <3>4, <4>1, Refused DEF q
      <3>5. CASE o.ok
        <4>1. /\ o.at \in w.at .. Len(ts) + 1 /\ o.val \in Queries /\ SameStatement(q0, o.val)
              /\ Only(ts, w.at, o.at, OrderingMarks) /\ SortIfAny(ts, w.at, o.at, o.val)
          BY <3>3, <3>5 DEF Ordered, SortIfAny
        <4>2. o.at \in Places(ts)
          BY <1>2, <2>2, <4>1 DEF Places
        <4>3. ReadsPaged(ts, g, o.at, o.val)
          BY <4>1, <4>2, PagingReads
        <4> HIDE DEF g
        <4>4. CASE ~g.ok
          <5>1. g = Err(g.at) /\ g.at \in o.at .. Len(ts) + 1
            BY <4>3, <4>4 DEF ReadsPaged
          <5>2. g.at \in Places(ts)
            BY <1>2, <4>2, <5>1 DEF Places
          <5> QED
            BY <1>1, <1>7, <2>4, <3>5, <4>4, <5>1, <5>2, Refused DEF q
        <4>5. CASE g.ok
          <5>1. /\ g.at \in o.at .. Len(ts) + 1 /\ g.val \in Queries /\ SameStatement(o.val, g.val) /\ SameOrdering(o.val, g.val)
                /\ Only(ts, o.at, g.at, PagingMarks) /\ PageIfAny(ts, o.at, g.at, g.val)
            BY <4>3, <4>5 DEF ReadsPaged, Paged, PageIfAny
          <5>2. g.at \in Places(ts) /\ o.at <= g.at
            BY <1>2, <4>2, <5>1 DEF Places
          <5>3. /\ g.val.operation = "GET" /\ g.val.assignments = <<>> /\ g.val.records = <<>>
                /\ g.val.projection = p.val /\ g.val.where = w.val
                /\ g.val.sort = o.val.sort /\ g.val.ranking = o.val.ranking
            BY <3>1, <4>1, <5>1 DEF SameStatement, SameOrdering
          <5>4. Fields(g.val) /\ Bare(ts, g.val)
            BY <5>1, <5>3 DEF Fields, Bare
          <5>5. ASSUME g.at = Len(ts), ts[g.at] = Semicolon PROVE Cut(ts, g.val, p.at, w.at, o.at)
            <6>1. /\ p.at \in Int /\ w.at \in Int /\ o.at \in Int /\ 3 <= p.at /\ p.at <= w.at /\ w.at <= o.at /\ o.at <= Len(ts)
              BY <1>5, <2>2, <4>1, <4>2, <5>2, <5>5 DEF Places
            <6>2. Only(ts, 3, p.at, {"AS", ":"})
              BY <1>5, <1>7 DEF Only
            <6>3. Times(ts, ":", 3, p.at) = 0
              BY <1>5, <1>7, TimesOnly DEF Marks
            <6>4. Cardinality(Assigned(g.val)) = 0
              BY <5>3, NothingAssigned
            <6>5. SortIfAny(ts, w.at, o.at, g.val)
              BY <4>1, <5>3 DEF SortIfAny
            <6>6. WhereIfAny(ts, p.at, w.at, g.val.where) /\ Times(ts, "AS", 3, p.at) = Total("selection", g.val.projection)
              BY <1>4, <1>7, <2>1, <2>4, <5>3
            <6>7. Only(ts, p.at, w.at, {"WHERE"}) /\ Only(ts, w.at, o.at, OrderingMarks)
              BY <2>2, <2>4, <4>1
            <6>8. Only(ts, o.at, Len(ts), PagingMarks) /\ PageIfAny(ts, o.at, Len(ts), g.val) /\ ts[Len(ts)] = Semicolon
              BY <5>1, <5>5
            <6> QED
              BY <1>2, <6>1, <6>2, <6>3, <6>4, <6>5, <6>6, <6>7, <6>8 DEF Cut
          <5>6. Outcome(ts, s)
            BY <5>2, <5>4, <5>5, Ended
          <5> QED
            BY <1>1, <1>7, <2>4, <3>5, <4>5, <5>6 DEF q
        <4> QED
          BY <4>3, <4>4, <4>5 DEF ReadsPaged
      <3> QED
        BY <3>3, <3>4, <3>5
    <2> QED
      BY <2>2, <2>3, <2>4
  <1> QED
    BY <1>5, <1>6, <1>7

LEMMA ReadsCreatePayload ==
    ASSUME NEW ts \in Text, NEW i \in Places(ts)
    PROVE  LET r == ParseCreatePayload(ts, i)
           IN  /\ Reads(ts, r, i, Seq(Seq(Assignment)), {":"})
               /\ r.ok => Times(ts, ":", i, r.at) = Cardinality(Pairs(r.val))
  <1> DEFINE j == i + 1
             b == ParseBatchCreateRecords(ts, j)
             l == List("unique", ts, j)
             one == IF l.ok THEN Ok(l.at, <<l.val>>) ELSE l
             r == ParseCreatePayload(ts, i)
             V == Seq(Seq(Assignment))
  <1>1. r = IF Tok(ts, i) # "(" THEN Err(i) ELSE IF Tok(ts, j) = "(" THEN b ELSE one
    BY DEF ParseCreatePayload, Then, Consume, Ok, Err
  <1>2. CASE Tok(ts, i) # "("
    <2>1. r = Err(i) /\ r.ok = FALSE
      BY <1>1, <1>2 DEF Err
    <2> HIDE DEF r
    <2> QED
      BY <2>1, ReadsRefused DEF r
  <1>3. CASE Tok(ts, i) = "("
    <2>1. Tok(ts, i) # "EOF" /\ Tok(ts, i) \notin Marks
      BY <1>3 DEF Marks
    <2>2. j \in Places(ts)
      BY <2>1, TokenIsThere
    <2>3. Reads(ts, r, j, V, {":"}) /\ (r.ok => Times(ts, ":", j, r.at) = Cardinality(Pairs(r.val)))
      <3>1. CASE Tok(ts, j) = "("
        <4>1. r = b
          BY <1>1, <1>3, <3>1
        <4>2. /\ Reads(ts, b, j, V \ {<<>>}, {":"})
              /\ b.ok => Times(ts, ":", j, b.at) = Cardinality(Pairs(b.val))
          BY <2>2, BatchReads
        <4>3. V \ {<<>>} \subseteq V
          OBVIOUS
        <4> HIDE DEF b, r
        <4>4. Reads(ts, b, j, V, {":"})
          BY <4>2, <4>3, ReadsMore
        <4> QED
          BY <4>1, <4>2, <4>4
      <3>2. CASE Tok(ts, j) # "("
        <4>0. /\ "unique" \in Kinds \ {"record"} /\ Items("unique") = Assignment /\ Allowed("unique") = {":"}
              /\ Mark("unique") = ":" /\ \A x : Total("unique", x) = Len(x)
          BY DEF Kinds, Items, Allowed, Mark, Total
        <4>1. r = one
          BY <1>1, <1>3, <3>2
        <4>2. /\ Reads(ts, l, j, Seq(Assignment) \ {<<>>}, {":"})
              /\ l.ok => Times(ts, ":", j, l.at) = Len(l.val)
          BY <2>2, <4>0, ListReads
        <4> HIDE DEF l, r, j
        <4>3. ASSUME l.ok
              PROVE  /\ Reads(ts, one, l.at, V, {":"}) /\ one.at = l.at /\ one.val = <<l.val>>
                     /\ Cardinality(Pairs(one.val)) = Len(l.val)
          <5>1. l.at \in Places(ts) /\ l.val \in Seq(Assignment)
            BY <2>2, <4>2, <4>3, ReadsParts
          <5>2. <<l.val>> \in V
            BY <5>1
          <5>3. one = Ok(l.at, <<l.val>>) /\ one.at = l.at /\ one.val = <<l.val>>
            BY <4>3 DEF Ok
          <5>4. Pairs(<<l.val>>) = {<<1, k>> : k \in 1 .. Len(l.val)}
            <6>1. DOMAIN l.val = 1 .. Len(l.val) /\ DOMAIN <<l.val>> = {1} /\ <<l.val>>[1] = l.val
              BY <5>1
            <6> QED
              BY <6>1 DEF Pairs
          <5>5. Len(l.val) \in Nat
            BY <5>1
          <5>6. Cardinality({<<1, k>> : k \in 1 .. Len(l.val)}) = Len(l.val)
            BY <5>5, PairsOfOne
          <5> HIDE DEF one
          <5>7. Reads(ts, one, l.at, V, {":"})
            BY <5>1, <5>2, <5>3, ReadsNothing
          <5> QED
            BY <5>3, <5>4, <5>6, <5>7
        <4>4. ~l.ok => one = l
          OBVIOUS
        <4>5. l.ok \in BOOLEAN
          BY <2>2, <4>2, ReadsParts
        <4>6. ~l.ok => one.ok = FALSE
          BY <4>4, <4>5
        <4> HIDE DEF one
        <4>7. Reads(ts, one, j, V, {":"})
          BY <2>2, <4>2, <4>3, <4>4, ReadsThen
        <4> QED
          BY <4>1, <4>2, <4>3, <4>5, <4>6, <4>7
      <3> QED
        BY <3>1, <3>2
    <2> HIDE DEF r
    <2>4. Reads(ts, r, i, V, {":"}) /\ (r.ok => Times(ts, ":", i, r.at) = Times(ts, ":", j, r.at))
      BY <1>3, <2>3, ReadsAfterParenthesis
    <2> QED
      BY <2>3, <2>4 DEF r
  <1> QED
    BY <1>2, <1>3

LEMMA CreateOutcome ==
    ASSUME NEW ts \in Text, Tok(ts, 1) = "CREATE", Tok(ts, 2) \in Identifiers
    PROVE  Outcome(ts, ParseCreate(ts, Query(Tok(ts, 1), Tok(ts, 2))))
  <1> DEFINE q == Query(Tok(ts, 1), Tok(ts, 2))
             p == ParseCreatePayload(ts, 3)
             g == [q EXCEPT !.records = p.val]
             s == ConsumeTerminatingSemicolon(ts, p.at, g)
             i == p.at
  <1>1. ParseCreate(ts, q) = IF ~p.ok THEN p ELSE s
    BY DEF ParseCreate, Then
  <1>2. /\ 3 \in Places(ts) /\ Len(ts) \in Nat /\ Len(ts) >= 2 /\ Only(ts, 1, 3, {})
    BY Beginning DEF Statements
  <1>3. /\ q \in Queries /\ q.operation = "CREATE" /\ q.assignments = <<>> /\ q.projection = <<>> /\ q.where = <<>>
        /\ q.sort = <<>> /\ q.ranking = None
    BY QueryIs DEF Statements
  <1>4. Reads(ts, p, 3, Seq(Seq(Assignment)), {":"}) /\ (p.ok => Times(ts, ":", 3, p.at) = Cardinality(Pairs(p.val)))
    BY <1>2, ReadsCreatePayload
  <1> HIDE DEF q, p
  <1>5. /\ p.ok \in BOOLEAN /\ p.at \in Places(ts) /\ 3 <= p.at
        /\ p.ok => p.val \in Seq(Seq(Assignment)) /\ Only(ts, 3, p.at, {":"})
        /\ ~p.ok => p = Err(p.at)
    BY <1>2, <1>4, ReadsParts
  <1>6. CASE ~p.ok
    BY <1>1, <1>5, <1>6, Refused DEF q
  <1>7. CASE p.ok
    <2>1. /\ g \in Queries /\ g.operation = "CREATE" /\ g.assignments = <<>> /\ g.records = p.val
          /\ g.projection = <<>> /\ g.where = <<>> /\ g.sort = <<>> /\ g.ranking = None
      BY <1>3, <1>5, <1>7 DEF Queries
    <2> HIDE DEF g
    <2>2. Fields(g) /\ Bare(ts, g)
      BY <2>1 DEF Fields, Bare
    <2>3. ASSUME i = Len(ts), ts[i] = Semicolon PROVE Cut(ts, g, i, i, i)
      <3>1. i \in Int /\ 3 <= i /\ i <= i /\ i <= Len(ts)
        BY <1>5, <2>3 DEF Places
      <3>2. Only(ts, 3, i, {"AS", ":"})
        BY <1>5, <1>7 DEF Only
      <3>3. Times(ts, "AS", 3, i) = Total("selection", g.projection)
        <4>1. Times(ts, "AS", 3, i) = 0
          BY <1>5, <1>7, TimesOnly DEF Marks
        <4> QED
          BY <2>1, <4>1, NothingSelected
      <3>4. Times(ts, ":", 3, i) = Cardinality(Assigned(g))
        <4>1. Assigned(g) = Pairs(p.val)
          BY <2>1 DEF Assigned, Pairs
        <4> QED
          BY <1>4, <1>7, <4>1
      <3>5. \A k : k \notin i .. i - 1
        BY <3>1
      <3>6. WhereIfAny(ts, i, i, g.where)
        BY <2>1, <3>5, TimesNone DEF WhereIfAny
      <3>7. SortIfAny(ts, i, i, g) /\ PageIfAny(ts, i, i, g) /\ Only(ts, i, i, {"WHERE"}) /\ Only(ts, i, i, OrderingMarks) /\ Only(ts, i, i, PagingMarks)
        BY <2>1, <3>5 DEF SortIfAny, PageIfAny, Only
      <3> HIDE DEF i
      <3> QED
        BY <1>2, <2>3, <3>1, <3>2, <3>3, <3>4, <3>6, <3>7 DEF Cut
    <2>4. Outcome(ts, s)
      BY <1>5, <2>2, <2>3, Ended
    <2> QED
      BY <1>1, <1>7, <2>4 DEF q
  <1> QED
    BY <1>5, <1>6, <1>7

LEMMA ReadsMutationPayload ==
    ASSUME NEW ts \in Text, NEW i \in Places(ts)
    PROVE  LET r == ParseMutationPayload(ts, i)
           IN  /\ Reads(ts, r, i, Seq(Assignment), {":"})
               /\ r.ok => Times(ts, ":", i, r.at) = Len(r.val)
  <1> DEFINE j == i + 1
             l == List("assignment", ts, j)
             r == ParseMutationPayload(ts, i)
             V == Seq(Assignment)
  <1>1. r = IF Tok(ts, i) # "(" THEN Err(i) ELSE l
    BY DEF ParseMutationPayload, Then, Consume, Ok, Err
  <1>2. CASE Tok(ts, i) # "("
    <2>1. r = Err(i) /\ r.ok = FALSE
      BY <1>1, <1>2 DEF Err
    <2> HIDE DEF r
    <2> QED
      BY <2>1, ReadsRefused DEF r
  <1>3. CASE Tok(ts, i) = "("
    <2>0. /\ "assignment" \in Kinds \ {"record"} /\ Items("assignment") = Assignment /\ Allowed("assignment") = {":"}
          /\ Mark("assignment") = ":" /\ \A x : Total("assignment", x) = Len(x)
      BY DEF Kinds, Items, Allowed, Mark, Total
    <2>1. Tok(ts, i) # "EOF" /\ Tok(ts, i) \notin Marks
      BY <1>3 DEF Marks
    <2>2. j \in Places(ts)
      BY <2>1, TokenIsThere
    <2>3. /\ Reads(ts, l, j, V \ {<<>>}, {":"})
          /\ l.ok => Times(ts, ":", j, l.at) = Len(l.val)
      BY <2>0, <2>2, ListReads
    <2>4. V \ {<<>>} \subseteq V
      OBVIOUS
    <2>5. r = l
      BY <1>1, <1>3
    <2> HIDE DEF l, r
    <2>6. Reads(ts, l, j, V, {":"})
      BY <2>3, <2>4, ReadsMore
    <2>7. Reads(ts, l, i, V, {":"}) /\ (l.ok => Times(ts, ":", i, l.at) = Times(ts, ":", j, l.at))
      BY <1>3, <2>6, ReadsAfterParenthesis
    <2> QED
      BY <2>3, <2>5, <2>7 DEF r
  <1> QED
    BY <1>2, <1>3

LEMMA UpdateOutcome ==
    ASSUME NEW ts \in Text, Tok(ts, 1) = "UPDATE", Tok(ts, 2) \in Identifiers
    PROVE  Outcome(ts, ParseUpdate(ts, Query(Tok(ts, 1), Tok(ts, 2))))
  <1> DEFINE q == Query(Tok(ts, 1), Tok(ts, 2))
             p == ParseMutationPayload(ts, 3)
             i == p.at
             w == ParseWhereBlock(ts, i + 1)
             j == w.at
             g == [q EXCEPT !.assignments = p.val, !.where = w.val]
             s == ConsumeTerminatingSemicolon(ts, j, g)
  <1>1. ParseUpdate(ts, q) = IF ~p.ok THEN p ELSE IF Tok(ts, i) # "WHERE" THEN Err(i) ELSE IF ~w.ok THEN w ELSE s
    BY DEF ParseUpdate, Then, Consume, Ok, Err
  <1>2. /\ 3 \in Places(ts) /\ Len(ts) \in Nat /\ Len(ts) >= 2 /\ Only(ts, 1, 3, {})
    BY Beginning DEF Statements
  <1>3. /\ q \in Queries /\ q.operation = "UPDATE" /\ q.records = <<>> /\ q.projection = <<>>
        /\ q.sort = <<>> /\ q.ranking = None
    BY QueryIs DEF Statements
  <1>4. Reads(ts, p, 3, Seq(Assignment), {":"}) /\ (p.ok => Times(ts, ":", 3, p.at) = Len(p.val))
    BY <1>2, ReadsMutationPayload
  <1> HIDE DEF q, p
  <1>5. /\ p.ok \in BOOLEAN /\ p.at \in Places(ts) /\ 3 <= p.at
        /\ p.ok => p.val \in Seq(Assignment) /\ Only(ts, 3, p.at, {":"})
        /\ ~p.ok => p = Err(p.at)
    BY <1>2, <1>4, ReadsParts
  <1>6. CASE ~p.ok
    BY <1>1, <1>5, <1>6, Refused DEF q
  <1>7. CASE p.ok /\ Tok(ts, i) # "WHERE"
    BY <1>1, <1>5, <1>7, Refused DEF q
  <1>8. CASE p.ok /\ Tok(ts, i) = "WHERE"
    <2>1. Reads(ts, w, i, Condition, {"WHERE"}) /\ (w.ok => Times(ts, "WHERE", i, j) = 1)
      BY <1>5, <1>8, ReadsWhere
    <2> HIDE DEF w
    <2>2. /\ w.ok \in BOOLEAN /\ j \in Places(ts) /\ i <= j
          /\ w.ok => w.val \in Nodes /\ w.val # <<>> /\ Only(ts, i, j, {"WHERE"})
          /\ ~w.ok => w = Err(j)
      BY <1>5, <2>1, ReadsParts DEF Condition
    <2>3. CASE ~w.ok
      BY <1>1, <1>8, <2>2, <2>3, Refused DEF q
    <2>4. CASE w.ok
      <3>1. /\ g \in Queries /\ g.operation = "UPDATE" /\ g.assignments = p.val /\ g.records = <<>>
            /\ g.projection = <<>> /\ g.where = w.val /\ g.sort = <<>> /\ g.ranking = None
        BY <1>3, <1>5, <1>8, <2>2, <2>4 DEF Queries
      <3> HIDE DEF g
      <3>2. Fields(g) /\ Bare(ts, g)
        BY <3>1 DEF Fields, Bare
      <3>3. ASSUME j = Len(ts), ts[j] = Semicolon PROVE Cut(ts, g, i, j, j)
        <4>1. i \in Int /\ j \in Int /\ 3 <= i /\ i <= j /\ j <= j /\ j <= Len(ts)
          BY <1>5, <2>2, <3>3 DEF Places
        <4>2. Only(ts, 3, i, {"AS", ":"})
          BY <1>5, <1>8 DEF Only
        <4>3. Times(ts, "AS", 3, i) = Total("selection", g.projection)
          <5>1. Times(ts, "AS", 3, i) = 0
            BY <1>5, <1>8, TimesOnly DEF Marks
          <5> QED
            BY <3>1, <5>1, NothingSelected
        <4>4. Times(ts, ":", 3, i) = Cardinality(Assigned(g))
          <5>1. Assigned(g) = {<<0, k>> : k \in 1 .. Len(p.val)}
            <6>1. DOMAIN p.val = 1 .. Len(p.val)
              BY <1>5, <1>8
            <6> QED
              BY <3>1, <6>1 DEF Assigned
          <5>2. Len(p.val) \in Nat
            BY <1>5, <1>8
          <5>3. Cardinality({<<0, k>> : k \in 1 .. Len(p.val)}) = Len(p.val)
            BY <5>2, PairsOfOne
          <5> QED
            BY <1>4, <1>8, <5>1, <5>3
        <4>5. \A k : k \notin j .. j - 1
          BY <4>1
        <4>6. WhereIfAny(ts, i, j, g.where)
          BY <2>1, <2>2, <2>4, <3>1 DEF WhereIfAny
        <4>7. SortIfAny(ts, j, j, g) /\ PageIfAny(ts, j, j, g) /\ Only(ts, j, j, OrderingMarks) /\ Only(ts, j, j, PagingMarks)
          BY <3>1, <4>5 DEF SortIfAny, PageIfAny, Only
        <4> HIDE DEF i, j
        <4> QED
          BY <1>2, <2>2, <2>4, <3>3, <4>1, <4>2, <4>3, <4>4, <4>6, <4>7 DEF Cut
      <3>4. Outcome(ts, s)
        BY <2>2, <3>2, <3>3, Ended
      <3> QED
        BY <1>1, <1>8, <2>4, <3>4 DEF q
    <2> QED
      BY <2>2, <2>3, <2>4
  <1> QED
    BY <1>5, <1>6, <1>7, <1>8

LEMMA DeleteOutcome ==
    ASSUME NEW ts \in Text, Tok(ts, 1) = "DELETE", Tok(ts, 2) \in Identifiers
    PROVE  Outcome(ts, ParseDelete(ts, Query(Tok(ts, 1), Tok(ts, 2))))
  <1> DEFINE q == Query(Tok(ts, 1), Tok(ts, 2))
             w == OptionalWhere(ts, 3)
             j == w.at
             g == [q EXCEPT !.where = w.val]
             s == ConsumeTerminatingSemicolon(ts, j, g)
  <1>1. ParseDelete(ts, q) = IF ~w.ok THEN w ELSE s
    BY DEF ParseDelete, Then
  <1>2. /\ 3 \in Places(ts) /\ Len(ts) \in Nat /\ Len(ts) >= 2 /\ Only(ts, 1, 3, {})
        /\ ts[1] = "DELETE" /\ ts[2] = Tok(ts, 2)
    BY Beginning DEF Statements
  <1>3. /\ q \in Queries /\ q.operation = "DELETE" /\ q.entity = Tok(ts, 2) /\ q.assignments = <<>> /\ q.records = <<>>
        /\ q.projection = <<>> /\ q.sort = <<>> /\ q.ranking = None
    BY QueryIs DEF Statements
  <1>4. /\ Reads(ts, w, 3, Nodes, {"WHERE"})
        /\ w.ok => WhereIfAny(ts, 3, j, w.val) /\ (w.val = <<>> => j = 3)
    BY <1>2, ReadsOptionalWhere
  <1> HIDE DEF q, w
  <1>5. /\ w.ok \in BOOLEAN /\ j \in Places(ts) /\ 3 <= j
        /\ w.ok => w.val \in Nodes /\ Only(ts, 3, j, {"WHERE"})
        /\ ~w.ok => w = Err(j)
    BY <1>2, <1>4, ReadsParts
  <1>6. CASE ~w.ok
    BY <1>1, <1>5, <1>6, Refused DEF q
  <1>7. CASE w.ok
    <2>1. /\ g \in Queries /\ g.operation = "DELETE" /\ g.entity = Tok(ts, 2) /\ g.assignments = <<>> /\ g.records = <<>>
          /\ g.projection = <<>> /\ g.where = w.val /\ g.sort = <<>> /\ g.ranking = None
      BY <1>3, <1>5, <1>7 DEF Queries
    <2> HIDE DEF g
    <2>2. Fields(g)
      BY <2>1 DEF Fields
    <2>3. ASSUME j = Len(ts), ts[j] = Semicolon PROVE Cut(ts, g, 3, j, j) /\ Bare(ts, g)
      <3>1. 3 \in Int /\ j \in Int /\ 3 <= j /\ j <= j /\ j <= Len(ts)
        BY <1>5, <2>3 DEF Places
      <3>2. \A k : k \notin j .. j - 1 /\ k \notin 3 .. 3 - 1
        BY <3>1
      <3>3. Only(ts, 3, 3, {"AS", ":"}) /\ Times(ts, "AS", 3, 3) = 0 /\ Times(ts, ":", 3, 3) = 0
        BY <3>2, TimesNone DEF Only
      <3>4. Total("selection", g.projection) = 0 /\ Cardinality(Assigned(g)) = 0
        BY <2>1, NothingSelected, NothingAssigned
      <3>5. WhereIfAny(ts, 3, j, g.where)
        BY <1>4, <1>7, <2>1
      <3>6. SortIfAny(ts, j, j, g) /\ PageIfAny(ts, j, j, g) /\ Only(ts, j, j, OrderingMarks) /\ Only(ts, j, j, PagingMarks)
        BY <2>1, <3>2 DEF SortIfAny, PageIfAny, Only
      <3>7. Bare(ts, g)
        <4> SUFFICES ASSUME w.val = <<>> PROVE ts = <<"DELETE", Tok(ts, 2), Semicolon>>
          BY <2>1 DEF Bare
        <4>1. Len(ts) = 3 /\ ts[3] = Semicolon
          BY <1>4, <1>7, <2>3
        <4> QED
          BY <1>2, <4>1 DEF Text
      <3> HIDE DEF j
      <3> QED
        BY <1>2, <1>5, <1>7, <2>3, <3>1, <3>3, <3>4, <3>5, <3>6, <3>7 DEF Cut, j
    <2>4. Outcome(ts, s)
      BY <1>5, <2>2, <2>3, Ended
    <2> QED
      BY <1>1, <1>7, <2>4 DEF q
  <1> QED
    BY <1>5, <1>6, <1>7

LEMMA ParseOutcome ==
    ASSUME NEW ts \in Text
    PROVE  Outcome(ts, Parse(ts))
  <1> DEFINE q == Query(Tok(ts, 1), Tok(ts, 2))
  <1>1. 1 \in Places(ts) /\ Len(ts) \in Nat
    BY DEF Text, Places
  <1>2. CASE Tok(ts, 1) \notin Statements
    <2>1. Parse(ts) = Err(1)
      BY <1>2 DEF Parse, Statements
    <2> QED
      BY <1>1, <2>1, Refused
  <1>3. CASE Tok(ts, 1) \in Statements /\ Tok(ts, 2) \notin Identifiers
    <2>1. Parse(ts) = Err(2)
      BY <1>3 DEF Parse, Statements
    <2>2. Tok(ts, 1) # "EOF"
      BY <1>3 DEF Statements
    <2>3. 1 + 1 \in Places(ts)
      BY <1>1, <2>2, TokenIsThere
    <2>4. 2 \in Places(ts)
      BY <2>3
    <2> QED
      BY <2>1, <2>4, Refused
  <1>4. CASE Tok(ts, 1) \in Statements /\ Tok(ts, 2) \in Identifiers
    <2>1. Parse(ts) = CASE Tok(ts, 1) = "GET" -> ParseGet(ts, q)
                        [] Tok(ts, 1) = "CREATE" -> ParseCreate(ts, q)
                        [] Tok(ts, 1) = "UPDATE" -> ParseUpdate(ts, q)
                        [] Tok(ts, 1) = "DELETE" -> ParseDelete(ts, q)
      BY <1>4 DEF Parse, Statements
    <2>2. CASE Tok(ts, 1) = "GET"
      <3>1. Parse(ts) = ParseGet(ts, q)
        BY <2>1, <2>2
      <3> QED
        BY <1>4, <2>2, <3>1, GetOutcome
    <2>3. CASE Tok(ts, 1) = "CREATE"
      <3>1. Parse(ts) = ParseCreate(ts, q)
        BY <2>1, <2>3
      <3> QED
        BY <1>4, <2>3, <3>1, CreateOutcome
    <2>4. CASE Tok(ts, 1) = "UPDATE"
      <3>1. Parse(ts) = ParseUpdate(ts, q)
        BY <2>1, <2>4
      <3> QED
        BY <1>4, <2>4, <3>1, UpdateOutcome
    <2>5. CASE Tok(ts, 1) = "DELETE"
      <3>1. Parse(ts) = ParseDelete(ts, q)
        BY <2>1, <2>5
      <3> QED
        BY <1>4, <2>5, <3>1, DeleteOutcome
    <2> QED
      BY <1>4, <2>2, <2>3, <2>4, <2>5 DEF Statements
  <1> QED
    BY <1>2, <1>3, <1>4

-----------------------------------------------------------------------------
(* What parse_altrql answers *)

\* Only a CREATE without records is rewritten, and the parser makes none.
LEMMA NormalizedIsParsed ==
    ASSUME NEW q, Fields(q)
    PROVE  NormalizeIr(q) = q
  <1>1. q \in Queries /\ (q.operation = "CREATE" => q.assignments = <<>>)
    BY DEF Fields
  <1>2. NormalizeIr(q) = [q EXCEPT !.records = q.records]
    BY <1>1 DEF NormalizeIr
  <1> QED
    BY <1>1, <1>2 DEF Queries

LEMMA AnswerOutcome ==
    ASSUME NEW ts \in Text
    PROVE  LET r == ParseAltrql(ts)
           IN  Outcome(ts, r) /\ (r.ok => ValidateIr(r.val))
  <1> DEFINE p == Parse(ts)
             r == ParseAltrql(ts)
             n == NormalizeIr(p.val)
  <1>1. r = IF p.ok THEN IF ValidateIr(p.val) /\ ValidateIr(n) THEN Ok(p.at, n) ELSE Err(p.at) ELSE p
    BY DEF ParseAltrql, Then
  <1>2. Outcome(ts, p)
    BY ParseOutcome
  <1> HIDE DEF p, r
  <1>3. CASE ~p.ok
    BY <1>1, <1>2, <1>3 DEF r
  <1>4. CASE p.ok
    <2>1. p = Ok(Len(ts) + 1, p.val) /\ p.at = Len(ts) + 1 /\ p.at \in Places(ts) /\ Fields(p.val)
      BY <1>2, <1>4 DEF Outcome
    <2>2. n = p.val
      BY <2>1, NormalizedIsParsed
    <2> HIDE DEF n
    <2>3. CASE ValidateIr(p.val)
      <3>1. r = p
        BY <1>1, <1>4, <2>1, <2>2, <2>3
      <3> QED
        BY <1>2, <2>3, <3>1 DEF r
    <2>4. CASE ~ValidateIr(p.val)
      <3>1. r = Err(p.at) /\ r.ok = FALSE
        BY <1>1, <1>4, <2>4 DEF Err
      <3>2. Outcome(ts, r)
        BY <2>1, <3>1, Refused
      <3> QED
        BY <3>1, <3>2 DEF r
    <2> QED
      BY <2>3, <2>4
  <1> QED
    BY <1>3, <1>4 DEF r

-----------------------------------------------------------------------------
(* The invariant: the answer is of the text, however it was typed *)

Answered ==
    /\ scenario \in Scenarios /\ text \in Text
    /\ typed \in 0 .. scenario.length
    /\ result = ParseAltrql(text)

LEMMA AnsweredInductive == Spec => []Answered
  <1>1. ASSUME Init PROVE Answered
    <2>1. scenario \in Scenarios /\ text = scenario.start /\ typed = 0 /\ result = ParseAltrql(text)
      BY <1>1 DEF Init
    <2>2. scenario.start \in Seq(STRING) /\ scenario.length \in Nat
      BY <2>1, ScenariosAssumption
    <2> QED
      BY <2>1, <2>2 DEF Answered, Text
  <1>2. ASSUME Answered, [Next]_vars PROVE Answered'
    <2>1. CASE UNCHANGED vars
      BY <1>2, <2>1 DEF Answered, vars
    <2>2. ASSUME NEW piece \in scenario.pieces, Type(piece) PROVE Answered'
      <3>1. /\ typed < scenario.length /\ text' = text \o piece /\ typed' = typed + 1
            /\ result' = ParseAltrql(text') /\ scenario' = scenario
        BY <2>2 DEF Type
      <3>2. scenario.pieces \subseteq Seq(STRING) /\ scenario.length \in Nat
        BY <1>2, ScenariosAssumption DEF Answered
      <3>3. text' \in Text
        BY <1>2, <2>2, <3>1, <3>2 DEF Answered, Text
      <3>4. typed' \in 0 .. scenario.length
        BY <1>2, <3>1, <3>2 DEF Answered
      <3> QED
        BY <1>2, <3>1, <3>3, <3>4 DEF Answered
    <2> QED
      BY <1>2, <2>1, <2>2 DEF Next
  <1> QED
    BY <1>1, <1>2, PTL DEF Spec

LEMMA CountIs ==
    ASSUME text \in Text, NEW t
    PROVE  Count(t) = Times(text, t, 1, Len(text) + 1)
  <1>1. DOMAIN text = 1 .. Len(text) + 1 - 1
    BY DEF Text
  <1> QED
    BY <1>1 DEF Count, Times

LEMMA CountFound ==
    ASSUME text \in Text, NEW t
    PROVE  Count(t) \in Nat /\ (Count(t) = 0 <=> \A k \in 1 .. Len(text) : text[k] # t)
  <1>1. 1 \in Int /\ Len(text) + 1 \in Int /\ 1 .. Len(text) + 1 - 1 = 1 .. Len(text)
    BY DEF Text
  <1> QED
    BY <1>1, CountIs, TimesFound

-----------------------------------------------------------------------------
(* The properties *)

\* parse_altrql accepts a text to its last token, the only semicolon, or refuses it at
\* one of its tokens or at its end.
THEOREM TypeCorrect == Spec => []TypeOK
  <1>1. ASSUME Answered PROVE TypeOK
    <2>1. text \in Text /\ typed \in 0 .. scenario.length /\ Outcome(text, result)
      BY <1>1, AnswerOutcome DEF Answered
    <2>2. result.at \in 1 .. (Len(text) + 1)
      BY <2>1 DEF Outcome, Places
    <2>3. result.ok => result.at = Len(text) + 1 /\ text[Len(text)] = Semicolon /\ Count(Semicolon) = 1
      BY <2>1, CountIs DEF Outcome, Kept
    <2> QED
      BY <2>1, <2>2, <2>3, Zenon DEF TypeOK, Semicolon
  <1> QED
    BY <1>1, AnsweredInductive, PTL

\* What _validate_get and the others leave of the clauses.
LEMMA ValidClauses ==
    ASSUME NEW q \in Queries, ValidateIr(q)
    PROVE  /\ q.where = <<>> => q.operation # "UPDATE"
           /\ q.limit # None => q.limit > 0 /\ q.ranking = None
           /\ q.ranking # None => q.ranking.count > 0 /\ q.sort = <<>>
  <1>1. q.operation \in Statements
    BY DEF Queries
  <1>2. CASE q.operation = "GET"
    BY <1>2 DEF ValidateIr, ValidPaging
  <1>3. CASE q.operation \in {"CREATE", "DELETE"}
    <2>1. OnlyWhere(q)
      BY <1>3 DEF ValidateIr
    <2> QED
      BY <1>3, <2>1 DEF OnlyWhere
  <1>4. CASE q.operation = "UPDATE"
    <2>1. OnlyWhere(q) /\ q.where # <<>>
      BY <1>4 DEF ValidateIr
    <2> QED
      BY <2>1 DEF OnlyWhere
  <1> QED
    BY <1>1, <1>2, <1>3, <1>4 DEF Statements

\* The parser keeps every assignment, record, condition, alias, LIMIT and OFFSET, and
\* accepts a DELETE without a condition only when it is typed as one; the validator
\* refuses an UPDATE without a condition and a page that is cut in two ways or empty.
THEOREM NothingTypedIsLost == Spec => []NothingIsLost
  <1>1. ASSUME Answered, result.ok PROVE NothingIsLost
    <2> DEFINE q == result.val
               n == Len(text) + 1
    <2>1. text \in Text /\ Outcome(text, result) /\ ValidateIr(q)
      BY <1>1, AnswerOutcome DEF Answered
    <2>2. Fields(q) /\ Kept(text, q) /\ Bare(text, q) /\ q \in Queries
      BY <1>1, <2>1 DEF Outcome, Fields
    <2>3. DOMAIN text = 1 .. Len(text) /\ Len(text) \in Nat /\ 1 .. n - 1 = 1 .. Len(text)
      BY <2>1 DEF Text
    <2> HIDE DEF q
    <2>4. Count("WHERE") = (IF q.where = <<>> THEN 0 ELSE 1)
      BY <2>1, <2>2, CountIs DEF Kept, WhereIfAny
    <2>5. Count(":") = Cardinality(Assigned(q))
      BY <2>1, <2>2, CountIs DEF Kept
    <2>6. /\ \A k \in DOMAIN text : text[k] = "LIMIT" => q.limit = LiteralOf[text[k + 1]].value
          /\ \A k \in DOMAIN text : text[k] = "OFFSET" => q.offset = LiteralOf[text[k + 1]].value
      BY <2>2, <2>3 DEF Kept, PageIfAny
    <2>7. Count("AS") = Cardinality({k \in DOMAIN q.projection : q.projection[k].alias # None})
      BY <2>1, <2>2, CountIs DEF Kept, Total
    <2>8. /\ q.sort # <<>> <=> \E k \in 1 .. Len(text) : text[k] = "SORT"
          /\ q.ranking # None <=> \E k \in 1 .. Len(text) : text[k] \in {"TOP", "BOTTOM"}
      BY <2>2, <2>3 DEF Kept, SortIfAny
    <2>9. (Count("SORT") > 0) <=> (q.sort # <<>>)
      BY <2>1, <2>8, CountFound
    <2>10. (Count("TOP") + Count("BOTTOM") > 0) <=> (q.ranking # None)
      <3>1. /\ Count("TOP") \in Nat /\ Count("BOTTOM") \in Nat
            /\ Count("TOP") = 0 <=> \A k \in 1 .. Len(text) : text[k] # "TOP"
            /\ Count("BOTTOM") = 0 <=> \A k \in 1 .. Len(text) : text[k] # "BOTTOM"
        BY <2>1, CountFound
      <3>2. (Count("TOP") + Count("BOTTOM") > 0) <=> ~(Count("TOP") = 0 /\ Count("BOTTOM") = 0)
        BY <3>1
      <3> QED
        BY <2>8, <3>1, <3>2
    <2>11. /\ q.where = <<>> => q.operation # "UPDATE"
           /\ q.limit # None => q.limit > 0 /\ q.ranking = None
           /\ q.ranking # None => q.ranking.count > 0 /\ q.sort = <<>>
      BY <2>1, <2>2, ValidClauses DEF q
    <2>12. q.where = <<>> => (q.operation = "DELETE" => text = <<"DELETE", q.entity, Semicolon>>)
      BY <2>2 DEF Bare
    <2> QED
      BY <2>4, <2>5, <2>6, <2>7, <2>9, <2>10, <2>11, <2>12, Zenon DEF NothingIsLost, q, Semicolon
  <1>2. ASSUME ~result.ok PROVE NothingIsLost
    BY <1>2, Zenon DEF NothingIsLost
  <1> QED
    BY <1>1, <1>2, AnsweredInductive, PTL

-----------------------------------------------------------------------------
(* What the validator and the binder make of a comparison *)

\* The comparison c of a field of that category is typed.
Compares(category, c) ==
    /\ c[2].kind = "null" => c[1] \in {"=", "!="}
    /\ c[2].kind # "null" => CategoryOf(c[2].kind) = category
    /\ c[1] \in OrderingTokens => category # "BOOLEAN"
    /\ c[1] \notin ComparisonTokens => category = "STRING"

LEMMA RangeCompares ==
    ASSUME NEW category, NEW x, ValidRange(x), RangeFits(category, x), NEW c \in {<<">=", x.start>>, <<"<=", x.end>>}
    PROVE  Compares(category, c)
  <1>1. x.start.kind # "null" /\ x.end.kind # "null"
    BY DEF ValidRange, Numeric
  <1>2. category # "BOOLEAN" /\ CategoryOf(x.start.kind) = category /\ CategoryOf(x.end.kind) = category
    BY DEF RangeFits
  <1>3. CASE c = <<">=", x.start>>
    <2>1. c[1] = ">=" /\ c[2] = x.start
      BY <1>3
    <2> QED
      BY <1>1, <1>2, <2>1 DEF Compares, ComparisonTokens
  <1>4. CASE c = <<"<=", x.end>>
    <2>1. c[1] = "<=" /\ c[2] = x.end
      BY <1>4
    <2> QED
      BY <1>1, <1>2, <2>1 DEF Compares, ComparisonTokens
  <1> QED
    BY <1>3, <1>4

LEMMA ConstraintCompares ==
    ASSUME NEW category, NEW x \in Constraint, ConstraintFits(category, x)
    PROVE  Compares(category, <<x.operator, x.value>>)
  <1> DEFINE c == <<x.operator, x.value>>
  <1>1. c[1] = x.operator /\ c[2] = x.value /\ x.operator \in ComparisonTokens
    BY DEF Constraint
  <1>2. /\ x.operator \in OrderingTokens => category # "BOOLEAN" /\ x.value.kind # "null"
        /\ x.value.kind = "null" \/ CategoryOf(x.value.kind) = category
    BY DEF ConstraintFits
  <1>3. x.operator \in {"=", "!="} \/ x.operator \in OrderingTokens
    BY <1>1 DEF ComparisonTokens, OrderingTokens
  <1> HIDE DEF c
  <1> QED
    BY <1>1, <1>2, <1>3 DEF Compares, c

\* The comparisons with one value: a range, a constraint, several of them or a literal.
OfValue(operator, x) ==
    CASE x.kind = "range" -> {<<">=", x.start>>, <<"<=", x.end>>}
      [] x.kind = "constraint" -> {<<x.operator, x.value>>}
      [] x.kind = "compound" -> {<<x.constraints[k].operator, x.constraints[k].value>> : k \in DOMAIN x.constraints}
      [] OTHER -> {<<operator, x>>}

\* An element of a set that SetFits.
ElementFits(category, x) ==
    CASE x.kind = "range" -> RangeFits(category, x)
      [] x.kind = "constraint" -> ConstraintFits(category, x)
      [] x.kind = "compound" -> /\ category # "BOOLEAN"
                                /\ \A l \in DOMAIN x.constraints : ConstraintFits(category, x.constraints[l])
      [] OTHER -> x.kind = "null" \/ CategoryOf(x.kind) = category

\* The validator orders the bounds of ranges and lets string operators take strings,
\* the parser orders no value set, and the binder compares the categories.
LEMMA ElementCompares ==
    ASSUME NEW category, NEW operator \in Operators, NEW x \in Element,
           operator \notin OrderingTokens,
           operator \notin ComparisonTokens => category = "STRING" /\ x.kind = "string",
           x.kind = "range" => ValidRange(x),
           ElementFits(category, x),
           NEW c \in OfValue(operator, x)
    PROVE  Compares(category, c)
  <1>1. CASE x.kind = "range"
    <2>1. RangeFits(category, x)
      BY <1>1 DEF ElementFits
    <2> QED
      BY <1>1, <2>1, RangeCompares DEF OfValue
  <1>2. CASE x.kind = "constraint"
    <2>1. x \in Constraint
      BY <1>2 DEF Element, Literal, RangeOfTwo, Compound, Constraint, LiteralKinds
    <2>2. ConstraintFits(category, x) /\ c = <<x.operator, x.value>>
      BY <1>2 DEF OfValue, ElementFits
    <2> QED
      BY <2>1, <2>2, ConstraintCompares
  <1>3. CASE x.kind = "compound"
    <2>1. x \in Compound
      BY <1>3 DEF Element, Literal, RangeOfTwo, Compound, Constraint, LiteralKinds
    <2>2. PICK k \in DOMAIN x.constraints : c = <<x.constraints[k].operator, x.constraints[k].value>>
      BY <1>3 DEF OfValue
    <2>3. x.constraints[k] \in Constraint
      BY <2>1, <2>2 DEF Compound
    <2>4. ConstraintFits(category, x.constraints[k])
      BY <1>3, <2>2 DEF ElementFits
    <2> QED
      BY <2>2, <2>3, <2>4, ConstraintCompares
  <1>4. CASE x.kind \notin {"range", "constraint", "compound"}
    <2>1. c = <<operator, x>> /\ (x.kind = "null" \/ CategoryOf(x.kind) = category)
      BY <1>4 DEF OfValue, ElementFits
    <2>2. c[1] = operator /\ c[2] = x
      BY <2>1
    <2>3. operator \in {"=", "!="} \/ operator \notin ComparisonTokens
      BY DEF ComparisonTokens, OrderingTokens
    <2> QED
      BY <2>1, <2>2, <2>3 DEF Compares
  <1> QED
    BY <1>1, <1>2, <1>3, <1>4

LEMMA LeafCompares ==
    ASSUME NEW e \in Leaf, ValidOperand(e.operator, e.operand), OperandFits(e.field, e.operator, e.operand),
           Len(e.field) = 1, NEW c \in Compared(e)
    PROVE  Compares(TypeOf(e.field).category, c)
  <1> DEFINE category == TypeOf(e.field).category
             x == e.operand
  <1>1. e.operator \in Operators /\ x \in Operand /\ (x.kind = "set" => e.operator \notin OrderingTokens)
    BY DEF Leaf, NoOrderOfSets
  <1>2. CASE x.kind = "null"
    <2>1. e.operator \in {"=", "!="}
      BY <1>2 DEF OperandFits
    <2>2. c = <<e.operator, x>>
      BY <1>2 DEF Compared
    <2>3. c[1] = e.operator /\ c[2] = x
      BY <2>2
    <2> QED
      BY <1>2, <2>1, <2>3 DEF Compares, ComparisonTokens, OrderingTokens
  <1>3. CASE x.kind # "null"
    <2>1. /\ e.operator \notin ComparisonTokens => category = "STRING"
          /\ e.operator \in OrderingTokens => category # "BOOLEAN"
          /\ CASE x.kind = "set" -> SetFits(category, x.elements)
               [] x.kind = "range" -> e.operator \in ComparisonTokens /\ RangeFits(category, x)
               [] OTHER -> CategoryOf(x.kind) = category
      BY <1>3 DEF OperandFits
    <2> HIDE DEF category
    <2>2. CASE x.kind = "set"
      <3>1. x \in ValueSet
        BY <1>1, <2>2 DEF Operand, Literal, RangeOfTwo, LiteralKinds
      <3>2. PICK k \in DOMAIN x.elements : c \in OfValue(e.operator, x.elements[k])
        BY <2>2 DEF Compared, OfValue
      <3> DEFINE y == x.elements[k]
      <3>3. y \in Element
        BY <3>1, <3>2 DEF ValueSet
      <3>4. e.operator \in {"STARTS", "ENDS", "HAS", "NOT HAS"} => y.kind = "string"
        BY <2>2, <3>2 DEF ValidOperand
      <3>5. y.kind = "range" => ValidRange(y)
        BY <2>2, <3>2 DEF ValidOperand
      <3>6. ElementFits(category, y)
        <4>1. SetFits(category, x.elements)
          BY <2>1, <2>2
        <4> QED
          BY <3>2, <4>1 DEF SetFits, ElementFits
      <3>7. e.operator \notin ComparisonTokens => category = "STRING" /\ y.kind = "string"
        BY <1>1, <2>1, <3>4 DEF Operators
      <3>8. e.operator \notin OrderingTokens
        BY <1>1, <2>2
      <3> HIDE DEF y
      <3>9. c \in OfValue(e.operator, y)
        BY <3>2 DEF y
      <3>10. Compares(category, c)
        BY <1>1, <3>3, <3>5, <3>6, <3>7, <3>8, <3>9, ElementCompares
      <3> QED
        BY <3>10 DEF category
    <2>3. CASE x.kind = "range"
      <3>1. c \in {<<">=", x.start>>, <<"<=", x.end>>}
        BY <2>3 DEF Compared
      <3>2. ValidRange(x) /\ RangeFits(category, x)
        BY <2>1, <2>3 DEF ValidOperand
      <3>3. Compares(category, c)
        BY <3>1, <3>2, RangeCompares
      <3> QED
        BY <3>3 DEF category
    <2>4. CASE x.kind \notin {"set", "range"}
      <3>1. x.kind \notin {"constraint", "compound"}
        BY <1>1, <2>4 DEF Operand, Literal, RangeOfTwo, ValueSet, LiteralKinds
      <3>2. c = <<e.operator, x>> /\ CategoryOf(x.kind) = category
        BY <2>1, <2>4, <3>1 DEF Compared
      <3>3. c[1] = e.operator /\ c[2] = x
        BY <3>2
      <3>4. Compares(category, c)
        BY <1>3, <2>1, <3>2, <3>3 DEF Compares
      <3> QED
        BY <3>4 DEF category
    <2> QED
      BY <2>2, <2>3, <2>4
  <1> QED
    BY <1>2, <1>3

\* The assignments of a record: each field once, with a value that fits it.
Assigns(as) ==
    \A k, l \in DOMAIN as :
        /\ k # l => as[k].field # as[l].field
        /\ IF as[k].value.kind = "null" THEN TypeOf(as[k].field).nullable
           ELSE CategoryOf(as[k].value.kind) = TypeOf(as[k].field).category

LEMMA BoundAssigns ==
    ASSUME NEW as, UniqueFields(as), AssignmentsBind(as)
    PROVE  Assigns(as)
  BY DEF Assigns, UniqueFields, AssignmentsBind, AssignmentFits

\* Whatever the schema, what the validator and the binder let through compares and
\* assigns values of the category of the field: no element of a value set, bound of a
\* range, constraint, string operand or assignment goes unchecked.
THEOREM LoweredIsTyped == Spec => []AcceptedIsTyped
  <1>1. ASSUME Answered, result.ok, BindAltrql(result.val) PROVE AcceptedIsTyped
    <2> DEFINE q == result.val
    <2>1. text \in Text /\ Outcome(text, result) /\ ValidateIr(q)
      BY <1>1, AnswerOutcome DEF Answered
    <2>2. Fields(q) /\ q \in Queries
      BY <1>1, <2>1 DEF Outcome, Fields
    <2>3. BindAltrql(q)
      BY <1>1
    <2> HIDE DEF q
    <2>4. q.operation \in Statements /\ q.where \in Nodes
      BY <2>2 DEF Queries
    <2>5. ASSUME NEW e \in Leaves(q.where), Len(e.field) = 1, NEW c \in Compared(e)
          PROVE  Compares(TypeOf(e.field).category, c)
      <3>1. PICK k \in DOMAIN q.where : e = q.where[k] /\ q.where[k].kind = "field"
        BY <2>5 DEF Leaves
      <3>2. q.where # <<>>
        BY <3>1
      <3>3. e \in Leaf
        <4>1. e \in Node /\ e.kind = "field"
          BY <2>4, <3>1 DEF Nodes
        <4> QED
          BY <4>1 DEF Node
      <3>4. ValidExpression(q.where)
        BY <2>1, <2>4, <3>2 DEF ValidateIr, Statements
      <3>5. BindExpression(q.where)
        BY <2>3, <3>2 DEF BindAltrql
      <3>6. ValidOperand(e.operator, e.operand) /\ OperandFits(e.field, e.operator, e.operand)
        BY <3>1, <3>4, <3>5 DEF ValidExpression, BindExpression
      <3> QED
        BY <2>5, <3>3, <3>6, LeafCompares
    <2>6. Assigns(q.assignments)
      <3>1. q.operation = "UPDATE" => UniqueFields(q.assignments)
        BY <2>1 DEF ValidateIr
      <3>2. q.operation # "UPDATE" => UniqueFields(q.assignments)
        BY <2>2 DEF Fields, UniqueFields
      <3>3. AssignmentsBind(q.assignments)
        BY <2>3 DEF BindAltrql
      <3> QED
        BY <3>1, <3>2, <3>3, BoundAssigns
    <2>7. ASSUME NEW k \in DOMAIN q.records PROVE Assigns(q.records[k])
      <3>1. q.operation = "CREATE"
        BY <2>2, <2>7 DEF Fields
      <3>2. UniqueFields(q.records[k])
        BY <2>1, <2>7, <3>1 DEF ValidateIr
      <3>3. AssignmentsBind(q.records[k])
        BY <2>3, <2>7 DEF BindAltrql
      <3> QED
        BY <3>2, <3>3, BoundAssigns
    <2> QED
      BY <2>5, <2>6, <2>7 DEF AcceptedIsTyped, Compares, Assigns, q
  <1>2. ASSUME ~(result.ok /\ BindAltrql(result.val)) PROVE AcceptedIsTyped
    BY <1>2 DEF AcceptedIsTyped
  <1> QED
    BY <1>1, <1>2, AnsweredInductive, PTL

===============================================================================
