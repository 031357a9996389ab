--------------------------- MODULE QueryText_proofs ---------------------------
(***************************************************************************)
(* Theorems about QueryText, for texts of any length and any characters,   *)
(* whatever becomes of escape sequences.                                   *)
(***************************************************************************)
EXTENDS QueryText, FiniteSetTheorems, WellFoundedInduction, TLAPS

-----------------------------------------------------------------------------
(* Induction, and functions defined by it *)

LEMMA LeastNumber ==
  ASSUME NEW T \in SUBSET Nat, T # {}
  PROVE  \E n \in T : \A m \in T : n <= m
<1>1. IsWellFoundedOn(OpToRel(<, Nat), Nat)
  BY NatLessThanWellFounded
<1>2. PICK n \in T : \A m \in T : <<m, n>> \notin OpToRel(<, Nat)
  <2> HIDE DEF OpToRel
  <2> QED
    BY <1>1, WFMin
<1>3. \A m \in T : ~(m < n)
  BY <1>2 DEF OpToRel
<1> QED
  BY <1>3

\* A set of numbers with 0, and with the successor of each of its numbers.
LEMMA Induction ==
  ASSUME NEW T, 0 \in T, \A n \in Nat : n \in T => n + 1 \in T
  PROVE  \A n \in Nat : n \in T
<1> SUFFICES ASSUME NEW k \in Nat, k \notin T PROVE FALSE
  OBVIOUS
<1> DEFINE Out == {n \in Nat : n \notin T}
<1>1. PICK n \in Out : \A m \in Out : n <= m
  BY LeastNumber
<1>2. n \in Nat /\ n # 0 /\ n - 1 \in Nat /\ n - 1 \notin Out
  BY <1>1
<1> QED
  BY <1>2

LEMMA LargestNumber ==
  ASSUME NEW n \in Nat, NEW T \in SUBSET (0 .. n), T # {}
  PROVE  Max(T) \in T /\ \A y \in T : y <= Max(T)
<1> DEFINE Down == {n - y : y \in T}
<1>1. \A y \in T : y \in Nat /\ n - y \in Nat
  OBVIOUS
<1>2. Down \in SUBSET Nat /\ Down # {}
  BY <1>1
<1>3. PICK d \in Down : \A m \in Down : d <= m
  BY <1>2, LeastNumber
<1>4. PICK x \in T : d = n - x
  OBVIOUS
<1>5. ASSUME NEW y \in T PROVE x >= y
  <2>1. n - x <= n - y
    BY <1>3, <1>4
  <2> QED
    BY <1>1, <2>1
<1>6. Max(T) \in T /\ \A y \in T : Max(T) >= y
  BY <1>5 DEF Max
<1>7. Max(T) \in Nat
  BY <1>1, <1>6
<1> QED
  BY <1>1, <1>6, <1>7

\* A function that is given by its first value and by the step to each other
\* value exists.
Follows(f, n, S, a, step) ==
  f \in [0 .. n -> S] /\ f[0] = a /\ \A k \in 1 .. n : f[k] = step[<<k, f[k - 1]>>]

LEMMA RecursiveFunction ==
  ASSUME NEW n \in Nat, NEW S, NEW a \in S, NEW step \in [(1 .. n) \X S -> S]
  PROVE  \E f : Follows(f, n, S, a, step)
<1> DEFINE Good(m, f) == f[0] = a /\ \A k \in 1 .. m : f[k] = step[<<k, f[k - 1]>>]
           T == {m \in Nat : m <= n => \E f \in [0 .. m -> S] : Good(m, f)}
<1>1. 0 \in T
  <2>1. [k \in 0 .. 0 |-> a] \in [0 .. 0 -> S] /\ Good(0, [k \in 0 .. 0 |-> a])
    OBVIOUS
  <2> QED
    BY <2>1
<1>2. ASSUME NEW m \in Nat, m \in T PROVE m + 1 \in T
  <2> SUFFICES ASSUME m + 1 <= n PROVE \E g \in [0 .. m + 1 -> S] : Good(m + 1, g)
    OBVIOUS
  <2>1. PICK f \in [0 .. m -> S] : Good(m, f)
    BY <1>2
  <2> DEFINE g == [k \in 0 .. m + 1 |-> IF k = m + 1 THEN step[<<m + 1, f[m]>>] ELSE f[k]]
  <2>2. f[m] \in S /\ step[<<m + 1, f[m]>>] \in S
    OBVIOUS
  <2>3. g \in [0 .. m + 1 -> S]
    BY <2>2
  <2>4. g[0] = a
    BY <2>1
  <2>5. ASSUME NEW k \in 1 .. m + 1 PROVE g[k] = step[<<k, g[k - 1]>>]
    <3>1. k - 1 \in 0 .. m + 1 /\ k - 1 # m + 1 /\ k \in 0 .. m + 1
      OBVIOUS
    <3>2. g[k - 1] = f[k - 1] /\ g[k] = IF k = m + 1 THEN step[<<m + 1, f[m]>>] ELSE f[k]
      BY <3>1
    <3> HIDE DEF g
    <3>3. CASE k = m + 1
      <4>1. k - 1 = m
        BY <3>3
      <4> QED
        BY <3>2, <3>3, <4>1
    <3>4. CASE k # m + 1
      <4>1. k \in 1 .. m
        BY <3>4
      <4> QED
        BY <2>1, <3>2, <3>4, <4>1
    <3> QED
      BY <3>3, <3>4
  <2> HIDE DEF g
  <2> QED
    BY <2>3, <2>4, <2>5
<1> HIDE DEF T
<1>3. n \in T
  BY <1>1, <1>2, Induction
<1> QED
  BY <1>3 DEF T, Follows

\* Two functions with the same first value and the same steps.
Together(n, f, g) == f[0] = g[0] /\ \A k \in 1 .. n : f[k - 1] = g[k - 1] => f[k] = g[k]

LEMMA SameValues ==
  ASSUME NEW n \in Nat, NEW f, NEW g, Together(n, f, g)
  PROVE  \A k \in 0 .. n : f[k] = g[k]
<1> DEFINE Same == {k \in Nat : k <= n => f[k] = g[k]}
<1>1. 0 \in Same
  BY DEF Together
<1>2. ASSUME NEW k \in Nat, k \in Same PROVE k + 1 \in Same
  <2> SUFFICES ASSUME k + 1 <= n PROVE f[k + 1] = g[k + 1]
    OBVIOUS
  <2>1. k + 1 \in 1 .. n /\ (k + 1) - 1 = k /\ f[k] = g[k]
    BY <1>2
  <2> QED
    BY <2>1 DEF Together
<1> HIDE DEF Same
<1>3. \A k \in Nat : k \in Same
  BY <1>1, <1>2, Induction
<1> QED
  BY <1>3 DEF Same

-----------------------------------------------------------------------------
(* Sequences of pieces, one after the other *)

\* The texts of the first pieces, one more at a time.
Grows(f, s, T) ==
  /\ f \in [0 .. Len(s) -> Seq(T)]
  /\ f[0] = <<>> /\ \A k \in 1 .. Len(s) : f[k] = f[k - 1] \o s[k]

LEMMA Concatenated ==
  ASSUME NEW T
  PROVE  /\ <<>> \in Seq(T)
         /\ \A x, y \in Seq(T) : x \o y \in Seq(T)
         /\ \A x \in Seq(T) : <<>> \o x = x /\ x \o <<>> = x
OBVIOUS

LEMMA GrowingExists ==
  ASSUME NEW T, NEW s \in Seq(Seq(T))
  PROVE  \E f : Grows(f, s, T)
<1> DEFINE n == Len(s)
           grow == [x \in (1 .. n) \X Seq(T) |-> x[2] \o s[x[1]]]
<1>1. n \in Nat /\ \A k \in 1 .. n : s[k] \in Seq(T)
  OBVIOUS
<1>2. grow \in [(1 .. n) \X Seq(T) -> Seq(T)]
  BY <1>1
<1>3. ASSUME NEW k \in 1 .. n, NEW x \in Seq(T) PROVE grow[<<k, x>>] = x \o s[k]
  OBVIOUS
<1> HIDE DEF grow, n
<1> DEFINE Texts == Seq(T)
<1>4. PICK f \in [0 .. n -> Texts] :
        f[0] = <<>> /\ \A k \in 1 .. n : f[k] = grow[<<k, f[k - 1]>>]
  <2>1. n \in Nat /\ <<>> \in Texts /\ grow \in [(1 .. n) \X Texts -> Texts]
    BY <1>1, <1>2
  <2> HIDE DEF Texts
  <2>2. \E f : Follows(f, n, Texts, <<>>, grow)
    BY <2>1, RecursiveFunction
  <2> QED
    BY <2>2 DEF Follows
<1>5. ASSUME NEW k \in 1 .. n PROVE f[k] = f[k - 1] \o s[k]
  <2>1. k - 1 \in 0 .. n
    BY <1>1
  <2>2. f[k - 1] \in Seq(T)
    BY <2>1
  <2> QED
    BY <1>3, <1>4, <2>2
<1> QED
  BY <1>4, <1>5 DEF Grows, n

LEMMA Flattened ==
  ASSUME NEW T, NEW s \in Seq(Seq(T))
  PROVE  \E f : Grows(f, s, T) /\ FlattenSeq(s) = f[Len(s)]
<1> DEFINE n == Len(s)
           Whole(g) == g = [k \in 1 .. n |-> IF k = 1 THEN s[k] ELSE g[k - 1] \o s[k]]
<1>1. n \in Nat /\ \A k \in 1 .. n : s[k] \in Seq(T)
  OBVIOUS
<1>2. PICK f : Grows(f, s, T)
  BY GrowingExists
<1>3. f[0] = <<>> /\ \A k \in 1 .. n : f[k] = f[k - 1] \o s[k]
  BY <1>2 DEF Grows
<1>4. CASE n = 0
  BY <1>2, <1>3, <1>4 DEF FlattenSeq
<1>5. CASE n # 0
  <2>1. 1 \in 1 .. n /\ f[1] = s[1]
    <3>1. 1 \in 1 .. n /\ 1 - 1 = 0
      BY <1>1, <1>5
    <3>2. f[1] = <<>> \o s[1] /\ s[1] \in Seq(T)
      BY <1>1, <1>3, <3>1
    <3>3. ASSUME NEW x \in Seq(T) PROVE <<>> \o x = x
      OBVIOUS
    <3> QED
      BY <3>1, <3>2, <3>3
  <2> DEFINE g == [k \in 1 .. n |-> f[k]]
  <2>2. Whole(g)
    <3>1. ASSUME NEW k \in 1 .. n
          PROVE  f[k] = IF k = 1 THEN s[k] ELSE g[k - 1] \o s[k]
      <4>1. CASE k = 1
        BY <2>1, <4>1
      <4>2. CASE k # 1
        <5>1. k - 1 \in 1 .. n
          BY <1>1, <4>2
        <5>2. g[k - 1] = f[k - 1]
          BY <5>1
        <5> HIDE DEF g
        <5> QED
          BY <1>3, <4>2, <5>2
      <4> QED
        BY <4>1, <4>2
    <3> HIDE DEF n
    <3>2. [k \in 1 .. n |-> f[k]] =
            [k \in 1 .. n |-> IF k = 1 THEN s[k] ELSE g[k - 1] \o s[k]]
      BY <3>1
    <3> QED
      BY <3>2
  <2>3. PICK h : FlattenSeq(s) = h[n] /\ Whole(h)
    <3> HIDE DEF g
    <3>1. Len(s) # 0
      BY <1>5
    <3>2. \E h : FlattenSeq(s) = h[Len(s)] /\ Whole(h)
      BY <2>2, <3>1, Zenon DEF FlattenSeq
    <3> QED
      BY <3>2
  <2> HIDE DEF n
  <2>4. \A k \in 1 .. n : h[k] = IF k = 1 THEN s[k] ELSE h[k - 1] \o s[k]
    BY <2>3
  <2> DEFINE h0 == [k \in 0 .. n |-> IF k = 0 THEN <<>> ELSE h[k]]
  <2>5. ASSUME NEW k \in 1 .. n, f[k - 1] = h0[k - 1] PROVE f[k] = h0[k]
    <3>1. h0[k] = h[k] /\ (k # 1 => h0[k - 1] = h[k - 1])
      BY <1>1
    <3> HIDE DEF h0
    <3>2. CASE k = 1
      BY <2>1, <2>4, <3>1, <3>2
    <3>3. CASE k # 1
      <4>1. f[k - 1] = h[k - 1]
        BY <2>5, <3>1, <3>3
      <4>2. h[k] = h[k - 1] \o s[k]
        BY <2>4, <3>3
      <4> QED
        BY <1>3, <3>1, <4>1, <4>2
    <3> QED
      BY <3>2, <3>3
  <2>6. h0[0] = f[0] /\ h0[n] = h[n] /\ n \in 0 .. n
    BY <1>1, <1>3, <1>5
  <2> HIDE DEF h0
  <2>7. f[n] = h0[n]
    <3>1. n \in Nat /\ f[0] = h0[0]
      BY <1>1, <2>6
    <3>2. \A k \in 0 .. n : f[k] = h0[k]
      BY <2>5, <3>1, SameValues DEF Together
    <3> QED
      BY <2>6, <3>2
  <2> QED
    BY <1>2, <2>3, <2>6, <2>7 DEF n
<1> QED
  BY <1>4, <1>5

\* A piece more is its text more.
LEMMA OneMore ==
  ASSUME NEW T, NEW s \in Seq(Seq(T)), NEW x \in Seq(T)
  PROVE  FlattenSeq(s) \in Seq(T) /\ FlattenSeq(Append(s, x)) = FlattenSeq(s) \o x
<1> DEFINE t == Append(s, x)
           n == Len(s)
<1>1. n \in Nat /\ t \in Seq(Seq(T)) /\ Len(t) = n + 1 /\ t[n + 1] = x /\ \A k \in 1 .. n : t[k] = s[k]
  OBVIOUS
<1> HIDE DEF t, n
<1>2. PICK f : Grows(f, s, T) /\ FlattenSeq(s) = f[n]
  BY Flattened DEF n
<1>3. PICK g : Grows(g, t, T) /\ FlattenSeq(t) = g[n + 1]
  BY <1>1, Flattened
<1>4. /\ f \in [0 .. n -> Seq(T)] /\ f[0] = <<>> /\ \A k \in 1 .. n : f[k] = f[k - 1] \o s[k]
      /\ g[0] = <<>> /\ \A k \in 1 .. n + 1 : g[k] = g[k - 1] \o t[k]
  BY <1>1, <1>2, <1>3 DEF Grows, n
<1>5. ASSUME NEW k \in 1 .. n, f[k - 1] = g[k - 1] PROVE f[k] = g[k]
  <2>1. k \in 1 .. n + 1
    BY <1>1
  <2> QED
    BY <1>1, <1>4, <1>5, <2>1
<1>6. f[n] = g[n] /\ f[n] \in Seq(T)
  <2>1. n \in 0 .. n
    BY <1>1
  <2>2. \A k \in 0 .. n : f[k] = g[k]
    <3>1. n \in Nat /\ f[0] = g[0]
      BY <1>1, <1>4
    <3> QED
      BY <1>5, <3>1, SameValues DEF Together
  <2> QED
    BY <1>4, <2>1, <2>2
<1>7. g[n + 1] = g[n] \o x
  <2>1. n + 1 \in 1 .. n + 1 /\ (n + 1) - 1 = n
    BY <1>1
  <2> QED
    BY <1>1, <1>4, <2>1
<1> QED
  BY <1>2, <1>3, <1>6, <1>7 DEF t

LEMMA NoPieces == FlattenSeq(<<>>) = <<>>
BY DEF FlattenSeq
-----------------------------------------------------------------------------
(* What the scanner has made of the text R up to a place                   *)

Tokens == STRING \cup Placeholders
Parameters == Seq([name : Seq(Tokens), tmp_placeholder : Placeholders])

\* How many markers there are up to p.
Count(R, p) == Cardinality({q \in Markers(R) : q <= p})

\* The text R up to p, with the text in m for each marker.
Piece(R, m, q) ==
  IF q \in Markers(R) THEN m[q] ELSE IF InName(R, q) THEN <<>> ELSE <<R[q]>>

TextUpTo(R, m, p) == FlattenSeq([q \in 1 .. p |-> Piece(R, m, q)])

\* The placeholders of the parameters P, each for its marker.
Held(R, P) == [q \in Markers(R) |-> <<P[Count(R, q)].tmp_placeholder>>]

NameIn(R, q) == IF R[q] = "@" THEN NameAt(R, q) ELSE <<>>

\* P are the parameters of the markers up to p.
Listed(R, P, p) ==
  /\ Len(P) = Count(R, p)
  /\ \A q \in Markers(R) : q <= p => P[Count(R, q)].name = NameIn(R, q)

\* The scanner is at j in t, which is at p in the text R.
Copied(R, t, j, P, p) ==
  /\ p \in 1 .. Len(R) + 1
  /\ t = TextUpTo(R, Held(R, P), p - 1) \o SubSeq(R, p, Len(R))
  /\ j = Len(TextUpTo(R, Held(R, P), p - 1)) + 1
  /\ ~InName(R, p)
  /\ Listed(R, P, p - 1)

Scanned(R, t, j, o, P, p) ==
  Copied(R, t, j, P, p) /\ o = Opener(R)[p - 1] /\ ~Escaped(R, p)

Whole(R, t, P) ==
  t = TextUpTo(R, Held(R, P), Len(R)) /\ Listed(R, P, Len(R))

\* A backslash at the end takes the scanner beyond it.
ScannerInv ==
  phase = "markers" /\ PlainQuotes(ret) =>
    \/ \E p \in 1 .. Len(ret) + 1 : Scanned(ret, query, i, quoted_by, parameters, p)
    \/ Whole(ret, query, parameters) /\ AtEnd

\* What the text of the marker at q is when the first parameters have been
\* substituted.
Substituted ==
  [q \in Markers(ret) |->
     IF Count(ret, q) <= final.count THEN Parameter(ret, q)
     ELSE <<parameters[Count(ret, q)].tmp_placeholder>>]

FinalInv ==
  phase = "final" /\ PlainQuotes(ret) =>
    /\ Listed(ret, parameters, Len(ret))
    /\ final.count <= Len(parameters)
    /\ final.text = TextUpTo(ret, Substituted, Len(ret))

RefusedInv == phase = "refused" /\ PlainQuotes(ret) => Nameless(ret) # {}

Opens(text, p) == text[p] = "{"

\* The braces that are open began at st.
EscapesInv ==
  phase = "escapes" =>
    /\ query = given.text
    /\ parameters = <<>> /\ quoted_by = NotQuoted
    /\ level > 0 => st < i /\ Opens(query, st)

TypeInv ==
  /\ given \in Statements
  /\ phase \in {"escapes", "markers", "final", "refused"}
  /\ query \in Seq(Tokens)
  /\ i \in Nat \ {0} /\ st \in Nat \ {0} /\ level \in Nat
  /\ ret \in Seq(STRING)
  /\ parameters \in Parameters
  /\ Len(parameters) <= MaxParameters
  /\ final.count \in Nat

-----------------------------------------------------------------------------
(* Quotes and backslashes                                                  *)

\* Where the backslashes before p begin.
Run(R, p, j) ==
  /\ j \in 0 .. p - 1
  /\ j > 0 => R[j] # "\\"
  /\ \A k \in j + 1 .. p - 1 : R[k] = "\\"

LEMMA RunExists ==
  ASSUME NEW R, NEW p \in Nat \ {0}
  PROVE  \E j : Run(R, p, j) /\ \A l : Run(R, p, l) => l = j
<1> DEFINE T == {k \in 0 .. p - 1 : k > 0 => R[k] # "\\"}
<1>1. p - 1 \in Nat /\ T \in SUBSET (0 .. p - 1) /\ 0 \in T
  OBVIOUS
<1>2. PICK j \in T : \A y \in T : y <= j
  BY <1>1, LargestNumber
<1>3. ASSUME NEW k \in j + 1 .. p - 1 PROVE R[k] = "\\"
  BY <1>2
<1>4. Run(R, p, j)
  BY <1>2, <1>3 DEF Run
<1>5. ASSUME NEW l, Run(R, p, l) PROVE l = j
  <2>1. l \in T /\ l <= j
    BY <1>2, <1>5 DEF Run
  <2>2. CASE l < j
    BY <1>2, <1>5, <2>2 DEF Run
  <2> QED
    BY <1>2, <2>1, <2>2
<1> QED
  BY <1>4, <1>5

LEMMA EscapedFirst == ASSUME NEW R PROVE ~Escaped(R, 1)
BY DEF Escaped

LEMMA EscapedNext ==
  ASSUME NEW R, NEW p \in Nat \ {0}
  PROVE  Escaped(R, p + 1) <=> R[p] = "\\" /\ ~Escaped(R, p)
<1>1. PICK j : Run(R, p, j) /\ \A l : Run(R, p, l) => l = j
  BY RunExists
<1>2. j \in 0 .. p - 1
  BY <1>1 DEF Run
<1>3. Escaped(R, p) <=> (p - j) % 2 = 0
  BY <1>1 DEF Escaped, Run
<1>4. CASE R[p] # "\\"
  <2> SUFFICES ASSUME Escaped(R, p + 1) PROVE FALSE
    BY <1>4
  <2>1. PICK l \in 0 .. p : (\A k \in l + 1 .. p : R[k] = "\\") /\ (p + 1 - l) % 2 = 0
    BY DEF Escaped
  <2>2. l = p
    BY <1>4, <2>1
  <2> QED
    BY <2>1, <2>2
<1>5. CASE R[p] = "\\"
  <2>1. Escaped(R, p + 1) <=> (p + 1 - j) % 2 = 0
    <3>1. ASSUME Escaped(R, p + 1) PROVE (p + 1 - j) % 2 = 0
      <4>1. PICK l \in 0 .. p : /\ l > 0 => R[l] # "\\"
                                /\ \A k \in l + 1 .. p : R[k] = "\\"
                                /\ (p + 1 - l) % 2 = 0
        BY <3>1 DEF Escaped
      <4>2. Run(R, p, l)
        BY <1>5, <4>1 DEF Run
      <4> QED
        BY <1>1, <4>1, <4>2
    <3>2. ASSUME (p + 1 - j) % 2 = 0 PROVE Escaped(R, p + 1)
      <4>1. j \in 0 .. (p + 1) - 1 /\ \A k \in j + 1 .. (p + 1) - 1 : R[k] = "\\"
        BY <1>1, <1>5 DEF Run
      <4>2. j > 0 => R[j] # "\\"
        BY <1>1 DEF Run
      <4> QED
        BY <3>2, <4>1, <4>2 DEF Escaped
    <3> QED
      BY <3>1, <3>2
  <2>2. (p + 1 - j) % 2 = 0 <=> ~((p - j) % 2 = 0)
    BY <1>2
  <2> QED
    BY <1>3, <1>5, <2>1, <2>2
<1> QED
  BY <1>4, <1>5

\* The open quote, from one place to the next.
LEMMA OpenerNext ==
  ASSUME NEW R \in Seq(STRING)
  PROVE  /\ Opener(R)[0] = NotQuoted
         /\ \A p \in 1 .. Len(R) :
              Opener(R)[p] = CASE R[p] \notin Quotes \/ Escaped(R, p) -> Opener(R)[p - 1]
                               [] OTHER -> CASE Opener(R)[p - 1] = NotQuoted -> R[p]
                                             [] Opener(R)[p - 1] = R[p]   -> NotQuoted
                                             [] OTHER                -> Opener(R)[p - 1]
<1> DEFINE n == Len(R)
           S == Quotes \cup {NotQuoted}
           Then(p, o) == CASE R[p] \notin Quotes \/ Escaped(R, p) -> o
                           [] OTHER -> CASE o = NotQuoted -> R[p]
                                         [] o = R[p]      -> NotQuoted
                                         [] OTHER         -> o
           step == [x \in (1 .. n) \X S |-> Then(x[1], x[2])]
           Next0(O) == O = [p \in 0 .. n |->
             CASE p = 0 -> NotQuoted
               [] p > 0 /\ (R[p] \notin Quotes \/ Escaped(R, p)) -> O[p - 1]
               [] OTHER -> CASE O[p - 1] = NotQuoted -> R[p]
                             [] O[p - 1] = R[p]   -> NotQuoted
                             [] OTHER                -> O[p - 1]]
<1>1. n \in Nat /\ NotQuoted \in S
  OBVIOUS
<1>2. ASSUME NEW p \in 1 .. n, NEW o \in S PROVE Then(p, o) \in S
  OBVIOUS
<1>3. step \in [(1 .. n) \X S -> S]
  <2> HIDE DEF Then, S, n
  <2> QED
    BY <1>2
<1>4. \E f : Follows(f, n, S, NotQuoted, step)
  <2> HIDE DEF step, S, n
  <2> QED
    BY <1>1, <1>3, RecursiveFunction
<1>5. PICK f : Follows(f, n, S, NotQuoted, step)
  BY <1>4
<1>6. f \in [0 .. n -> S] /\ f[0] = NotQuoted /\ \A p \in 1 .. n : f[p] = Then(p, f[p - 1])
  <2> HIDE DEF Then, S
  <2>1. f \in [0 .. n -> S] /\ f[0] = NotQuoted /\ \A p \in 1 .. n : f[p] = step[<<p, f[p - 1]>>]
    <3> HIDE DEF step, n
    <3> QED
      BY <1>5 DEF Follows
  <2>2. ASSUME NEW p \in 1 .. n PROVE f[p] = Then(p, f[p - 1])
    <3>1. p - 1 \in 0 .. n
      BY <1>1
    <3>2. <<p, f[p - 1]>> \in (1 .. n) \X S
      <4> HIDE DEF n
      <4> QED
        BY <2>1, <3>1
    <3>3. step[<<p, f[p - 1]>>] = Then(p, f[p - 1])
      <4> HIDE DEF n
      <4> QED
        BY <3>2
    <3> QED
      BY <2>1, <3>3
  <2> QED
    BY <2>1, <2>2
<1>7. Next0(f)
  <2> HIDE DEF n
  <2>1. ASSUME NEW p \in 0 .. n
        PROVE  f[p] =
          CASE p = 0 -> NotQuoted
            [] p > 0 /\ (R[p] \notin Quotes \/ Escaped(R, p)) -> f[p - 1]
            [] OTHER -> CASE f[p - 1] = NotQuoted -> R[p]
                          [] f[p - 1] = R[p]   -> NotQuoted
                          [] OTHER                -> f[p - 1]
    <3>1. CASE p = 0
      BY <1>6, <3>1
    <3>2. CASE p # 0
      <4>1. p \in 1 .. n /\ p > 0
        BY <1>1, <3>2
      <4>2. f[p] = Then(p, f[p - 1])
        BY <1>6, <4>1
      <4> QED
        BY <3>2, <4>1, <4>2
    <3> QED
      BY <3>1, <3>2
  <2> QED
    BY <1>6, <2>1
<1>8. Next0(Opener(R))
  <2>1. \E g : Next0(g)
    BY <1>7
  <2>2. Opener(R) = CHOOSE g : Next0(g)
    BY Zenon DEF Opener
  <2> HIDE DEF Next0
  <2> QED
    BY <2>1, <2>2, Zenon
<1> DEFINE o == Opener(R)
<1> HIDE DEF o
<1>9. Next0(o)
  BY <1>8 DEF o
<1>10. o[0] = NotQuoted
  BY <1>1, <1>9
<1>11. ASSUME NEW p \in 1 .. n
       PROVE  o[p] = CASE R[p] \notin Quotes \/ Escaped(R, p) -> o[p - 1]
                       [] OTHER -> CASE o[p - 1] = NotQuoted -> R[p]
                                     [] o[p - 1] = R[p]   -> NotQuoted
                                     [] OTHER                -> o[p - 1]
  <2>1. p \in 0 .. n /\ p # 0 /\ p > 0
    BY <1>1
  <2> HIDE DEF n
  <2>2. o[p] =
          CASE p = 0 -> NotQuoted
            [] p > 0 /\ (R[p] \notin Quotes \/ Escaped(R, p)) -> o[p - 1]
            [] OTHER -> CASE o[p - 1] = NotQuoted -> R[p]
                          [] o[p - 1] = R[p]   -> NotQuoted
                          [] OTHER                -> o[p - 1]
    BY <1>9, <2>1
  <2> QED
    BY <2>1, <2>2
<1> QED
  BY <1>10, <1>11 DEF o

-----------------------------------------------------------------------------
(* Counting markers                                                        *)

LEMMA MarkersPlaces ==
  ASSUME NEW R \in Seq(STRING), NEW p \in Int
  PROVE  IsFiniteSet({q \in Markers(R) : q <= p}) /\ Count(R, p) \in Nat
<1> DEFINE T == {q \in Markers(R) : q <= p}
<1>1. T \in SUBSET (1 .. Len(R)) /\ Len(R) \in Nat
  BY DEF Markers
<1>2. IsFiniteSet(1 .. Len(R))
  BY <1>1, FS_Interval
<1> HIDE DEF T
<1>3. IsFiniteSet(T)
  BY <1>1, <1>2, FS_Subset
<1> QED
  BY <1>3, FS_CardinalityType DEF T, Count

LEMMA CountFirst == ASSUME NEW R \in Seq(STRING) PROVE Count(R, 0) = 0
<1>1. {q \in Markers(R) : q <= 0} = {}
  BY DEF Markers
<1> QED
  BY <1>1, FS_EmptySet DEF Count

LEMMA CountNext ==
  ASSUME NEW R \in Seq(STRING), NEW p \in 1 .. Len(R)
  PROVE  Count(R, p) = IF p \in Markers(R) THEN Count(R, p - 1) + 1 ELSE Count(R, p - 1)
<1> DEFINE T == {q \in Markers(R) : q <= p - 1}
<1>0. p \in Int /\ p - 1 \in Int /\ \A q \in Markers(R) : q \in Int
  BY DEF Markers
<1>1. IsFiniteSet(T) /\ p \notin T
  <2>1. IsFiniteSet(T)
    BY <1>0, MarkersPlaces
  <2> QED
    BY <1>0, <2>1
<1>2. CASE p \in Markers(R)
  <2>1. ASSUME NEW q \in Markers(R) PROVE q <= p <=> q <= p - 1 \/ q = p
    BY <1>0
  <2>2. {q \in Markers(R) : q <= p} = T \cup {p}
    BY <1>2, <2>1
  <2> HIDE DEF T
  <2>3. Cardinality(T \cup {p}) = Cardinality(T) + 1
    BY <1>1, FS_AddElement
  <2> QED
    BY <1>2, <2>2, <2>3 DEF Count, T
<1>3. CASE p \notin Markers(R)
  <2>1. {q \in Markers(R) : q <= p} = T
    BY <1>0, <1>3
  <2> QED
    BY <1>3, <2>1 DEF Count
<1> QED
  BY <1>2, <1>3

\* No markers in between.
LEMMA CountStays ==
  ASSUME NEW R \in Seq(STRING), NEW p \in Int, NEW r \in Int, p <= r,
         \A q \in p + 1 .. r : q \notin Markers(R)
  PROVE  Count(R, r) = Count(R, p)
<1>1. \A q \in Markers(R) : q \in Int
  BY DEF Markers
<1>2. {q \in Markers(R) : q <= r} = {q \in Markers(R) : q <= p}
  BY <1>1
<1> QED
  BY <1>2 DEF Count

\* The markers of a text have different numbers, from 1.
LEMMA CountGrows ==
  ASSUME NEW R \in Seq(STRING), NEW p \in Int, NEW q \in Markers(R), p < q
  PROVE  Count(R, p) < Count(R, q)
<1>1. q \in 1 .. Len(R) /\ q \in Int /\ q - 1 \in Int /\ \A x \in Markers(R) : x \in Int
  BY DEF Markers
<1>2. {x \in Markers(R) : x <= p} \in SUBSET {x \in Markers(R) : x <= q - 1}
  <2>1. ASSUME NEW x \in Markers(R), x <= p PROVE x <= q - 1
    BY <1>1, <2>1
  <2> QED
    BY <2>1
<1>3. Count(R, p) <= Count(R, q - 1)
  BY <1>1, <1>2, MarkersPlaces, FS_Subset DEF Count
<1>4. Count(R, q) = Count(R, q - 1) + 1
  BY <1>1, CountNext
<1>5. Count(R, p) \in Nat /\ Count(R, q - 1) \in Nat
  BY <1>1, MarkersPlaces
<1> QED
  BY <1>3, <1>4, <1>5

LEMMA CountNumbers ==
  ASSUME NEW R \in Seq(STRING), NEW p \in Int, NEW q \in Markers(R), q <= p
  PROVE  Count(R, q) \in 1 .. Count(R, p)
<1>1. q \in 1 .. Len(R) /\ q \in Int /\ \A x \in Markers(R) : x \in Int
  BY DEF Markers
<1>2. {x \in Markers(R) : x <= q} \in SUBSET {x \in Markers(R) : x <= p}
  <2>1. ASSUME NEW x \in Markers(R), x <= q PROVE x <= p
    BY <1>1, <2>1
  <2> QED
    BY <2>1
<1>3. Count(R, q) <= Count(R, p)
  BY <1>1, <1>2, MarkersPlaces, FS_Subset DEF Count
<1>4. 0 < Count(R, q)
  <2>1. Count(R, 0) < Count(R, q)
    BY <1>1, CountGrows
  <2> QED
    BY <2>1, CountFirst
<1>5. Count(R, p) \in Nat /\ Count(R, q) \in Nat
  BY <1>1, MarkersPlaces
<1> QED
  BY <1>3, <1>4, <1>5

LEMMA CountDiffers ==
  ASSUME NEW R \in Seq(STRING), NEW p \in Markers(R), NEW q \in Markers(R),
         Count(R, p) = Count(R, q)
  PROVE  p = q
<1>1. p \in Int /\ q \in Int
  BY DEF Markers
<1>2. Count(R, p) \in Nat /\ Count(R, q) \in Nat
  BY <1>1, MarkersPlaces
<1>3. ~(p < q) /\ ~(q < p)
  BY <1>1, <1>2, CountGrows
<1> QED
  BY <1>1, <1>3

LEMMA CountReached ==
  ASSUME NEW R \in Seq(STRING), NEW k \in 1 .. Count(R, Len(R))
  PROVE  \E q \in Markers(R) : Count(R, q) = k
<1> DEFINE n == Len(R)
           T == {p \in Nat : p <= n /\ k <= Count(R, p) => \E q \in Markers(R) : Count(R, q) = k}
<1>0. n \in Nat /\ k \in Nat /\ k > 0 /\ k <= Count(R, n)
  <2>1. n \in Nat /\ n \in Int
    OBVIOUS
  <2> HIDE DEF n
  <2>2. Count(R, n) \in Nat
    BY <2>1, MarkersPlaces
  <2> QED
    BY <2>1, <2>2 DEF n
<1>1. 0 \in T
  BY <1>0, CountFirst
<1>2. ASSUME NEW p \in Nat, p \in T PROVE p + 1 \in T
  <2> SUFFICES ASSUME p + 1 <= n, k <= Count(R, p + 1)
               PROVE \E q \in Markers(R) : Count(R, q) = k
    OBVIOUS
  <2>1. p + 1 \in 1 .. Len(R) /\ (p + 1) - 1 = p
    BY <1>0
  <2>2. Count(R, p + 1) = IF p + 1 \in Markers(R) THEN Count(R, p) + 1 ELSE Count(R, p)
    BY <2>1, CountNext
  <2>3. Count(R, p) \in Nat
    <3>1. p \in Int
      OBVIOUS
    <3> QED
      BY <3>1, MarkersPlaces
  <2>4. CASE k <= Count(R, p)
    BY <1>2, <2>1, <2>4
  <2>5. CASE ~(k <= Count(R, p))
    BY <1>0, <2>2, <2>3, <2>5
  <2> QED
    BY <2>4, <2>5
<1> HIDE DEF T, n
<1>3. n \in T
  BY <1>0, <1>1, <1>2, Induction
<1> QED
  BY <1>0, <1>3 DEF T

-----------------------------------------------------------------------------
(* Names                                                                   *)

LEMMA NameCharacters ==
  ASSUME NEW T, NEW R \in Seq(T), NEW p \in 1 .. Len(R)
  PROVE  /\ NameLength(R, p) \in 1 .. Len(R) - p + 1
         /\ \A k \in 1 .. NameLength(R, p) - 1 : R[p + k] \in NameParts
<1> DEFINE Fits(c) == \A k \in 1 .. c - 1 : R[p + k] \in (IF k = 1 THEN Letters ELSE NameParts)
           n == Len(R) - p + 1
           Lengths == {c \in 1 .. n : Fits(c)}
<1>1. n \in Nat /\ n >= 1
  OBVIOUS
<1>2. Fits(1)
  OBVIOUS
<1> HIDE DEF n
<1>3. Lengths \in SUBSET (0 .. n) /\ Lengths # {}
  <2> HIDE DEF Fits
  <2> QED
    BY <1>1, <1>2
<1> HIDE DEF Fits
<1>4. Max(Lengths) \in Lengths
  BY <1>1, <1>3, LargestNumber
<1>5. NameLength(R, p) = Max(Lengths)
  BY DEF NameLength, Fits, n
<1>6. NameLength(R, p) \in 1 .. n /\ Fits(NameLength(R, p))
  BY <1>4, <1>5
<1> QED
  BY <1>6 DEF Fits, n, NameParts

\* All that follows is the same.
Alike(t, j, R, p) == Len(t) - j = Len(R) - p /\ \A k \in 0 .. Len(R) - p : t[j + k] = R[p + k]

\* A name is the same wherever it is, when all that follows is.
LEMMA NameSame ==
  ASSUME NEW T, NEW t \in Seq(T), NEW j \in 1 .. Len(t), NEW R \in Seq(T), NEW p \in 1 .. Len(R),
         Alike(t, j, R, p)
  PROVE  NameLength(t, j) = NameLength(R, p) /\ NameAt(t, j) = NameAt(R, p)
<1> DEFINE Fits(x, y, c) == \A k \in 1 .. c - 1 : x[y + k] \in (IF k = 1 THEN Letters ELSE NameParts)
           n == Len(R) - p + 1
<1>1. n \in Nat /\ n = Len(t) - j + 1 /\ \A k \in 0 .. n - 1 : t[j + k] = R[p + k]
  <2>1. n \in Nat /\ n = Len(t) - j + 1 /\ n - 1 = Len(R) - p
    BY DEF Alike
  <2> HIDE DEF n
  <2> QED
    BY <2>1 DEF Alike
<1>2. NameLength(t, j) = Max({c \in 1 .. n : Fits(t, j, c)})
  BY <1>1 DEF NameLength
<1>3. NameLength(R, p) = Max({c \in 1 .. n : Fits(R, p, c)})
  BY <1>1 DEF NameLength
<1>4. ASSUME NEW c \in 1 .. n PROVE Fits(t, j, c) <=> Fits(R, p, c)
  <2>1. \A k \in 1 .. c - 1 : k \in 0 .. n - 1
    BY <1>1
  <2> HIDE DEF n
  <2>2. \A k \in 1 .. c - 1 : t[j + k] = R[p + k]
    BY <1>1, <2>1
  <2> QED
    BY <2>2
<1>5. NameLength(t, j) = NameLength(R, p)
  <2> HIDE DEF Fits, n
  <2>1. {c \in 1 .. n : Fits(t, j, c)} = {c \in 1 .. n : Fits(R, p, c)}
    BY <1>4
  <2> QED
    BY <1>2, <1>3, <2>1
<1> DEFINE l == NameLength(R, p)
<1>6. l \in 1 .. n
  BY NameCharacters
<1> HIDE DEF l
<1>7. SubSeq(t, j, j + l - 1) = SubSeq(R, p, p + l - 1)
  <2>1. \A k \in 1 .. l : t[j + k - 1] = R[p + k - 1]
    <3> SUFFICES ASSUME NEW k \in 1 .. l PROVE t[j + k - 1] = R[p + k - 1]
      OBVIOUS
    <3>1. k - 1 \in 0 .. n - 1
      BY <1>1, <1>6
    <3>2. t[j + (k - 1)] = R[p + (k - 1)]
      BY <1>1, <3>1
    <3> QED
      BY <3>2
  <2>2. SubSeq(t, j, j + l - 1) = [k \in 1 .. l |-> t[j + k - 1]]
    BY <1>1, <1>6
  <2>3. SubSeq(R, p, p + l - 1) = [k \in 1 .. l |-> R[p + k - 1]]
    BY <1>1, <1>6
  <2> QED
    BY <2>1, <2>2, <2>3
<1> QED
  BY <1>5, <1>7 DEF NameAt, l

LEMMA NameTyped ==
  ASSUME NEW T, NEW R \in Seq(T), NEW p \in 1 .. Len(R)
  PROVE  NameAt(R, p) \in Seq(T) /\ NameAt(R, p) # <<>>
<1> DEFINE l == NameLength(R, p)
<1>1. l \in 1 .. Len(R) - p + 1
  BY NameCharacters
<1> HIDE DEF l
<1>2. SubSeq(R, p, p + l - 1) \in Seq(T) /\ Len(SubSeq(R, p, p + l - 1)) = l
  BY <1>1
<1>3. l # 0
  BY <1>1
<1> QED
  BY <1>2, <1>3 DEF NameAt, l

LEMMA MarkerSort ==
  ASSUME NEW R \in Seq(STRING), NEW q \in Markers(R)
  PROVE  q \in 1 .. Len(R) /\ R[q] \in {"?", "@"}
BY DEF Markers

LEMMA NotInNameFirst ==
  ASSUME NEW R \in Seq(STRING)
  PROVE  ~InName(R, 1)
<1>1. \A q \in Markers(R) : q \in Int /\ q >= 1
  BY MarkerSort
<1>2. ASSUME NEW q \in Markers(R) PROVE 1 \notin q + 1 .. q + NameLength(R, q) - 1
  BY <1>1
<1> QED
  BY <1>2 DEF InName

LEMMA NotInNameNext ==
  ASSUME NEW R \in Seq(STRING), NEW p \in 1 .. Len(R), ~InName(R, p),
         ~(p \in Markers(R) /\ R[p] = "@")
  PROVE  ~InName(R, p + 1)
<1> SUFFICES ASSUME NEW q \in Markers(R), R[q] = "@", p + 1 \in q + 1 .. q + NameLength(R, q) - 1
             PROVE FALSE
  BY DEF InName
<1> DEFINE l == NameLength(R, q)
<1>1. q \in 1 .. Len(R) /\ l \in Int
  <2>1. q \in 1 .. Len(R)
    BY MarkerSort
  <2> QED
    BY <2>1, NameCharacters
<1>2. q # p
  BY Zenon
<1>3. p \in q + 1 .. q + l - 1
  BY <1>1, <1>2
<1> QED
  BY <1>3 DEF InName

\* The characters of a name are neither markers nor quotes nor backslashes.
LEMMA NameInside ==
  ASSUME NEW R \in Seq(STRING), NEW p \in Markers(R), R[p] = "@", ~InName(R, p)
  PROVE  /\ ~InName(R, p + NameLength(R, p))
         /\ \A k \in 1 .. NameLength(R, p) - 1 :
              /\ p + k \in 1 .. Len(R) /\ InName(R, p + k) /\ p + k \notin Markers(R)
              /\ R[p + k] \notin Quotes /\ R[p + k] # "\\"
<1> DEFINE l == NameLength(R, p)
<1>1. p \in 1 .. Len(R) /\ l \in 1 .. Len(R) - p + 1 /\ \A k \in 1 .. l - 1 : R[p + k] \in NameParts
  <2>1. p \in 1 .. Len(R)
    BY MarkerSort
  <2> QED
    BY <2>1, NameCharacters
<1>2. ASSUME NEW k \in 1 .. l - 1
      PROVE  /\ p + k \in 1 .. Len(R) /\ InName(R, p + k) /\ p + k \notin Markers(R)
             /\ R[p + k] \notin Quotes /\ R[p + k] # "\\"
  <2>1. p + k \in 1 .. Len(R) /\ p + k \in p + 1 .. p + l - 1
    BY <1>1
  <2>2. InName(R, p + k)
    BY <2>1 DEF InName
  <2>3. R[p + k] \in NameParts
    BY <1>1
  <2>4. R[p + k] \notin {"'", "\"", "\\", "?", "@"}
    BY <2>3, TextsAssumption
  <2> QED
    BY <2>1, <2>2, <2>4, MarkerSort DEF Quotes
<1>3. ~InName(R, p + l)
  <2> SUFFICES ASSUME NEW q \in Markers(R), R[q] = "@", p + l \in q + 1 .. q + NameLength(R, q) - 1
               PROVE FALSE
    BY DEF InName
  <2> DEFINE lq == NameLength(R, q)
  <2>1. q \in 1 .. Len(R) /\ lq \in Int
    <3>1. q \in 1 .. Len(R)
      BY MarkerSort
    <3> QED
      BY <3>1, NameCharacters
  <2>2. q # p
    BY <1>1
  <2>3. ~(q < p)
    <3> SUFFICES ASSUME q < p PROVE FALSE
      OBVIOUS
    <3>1. p \in q + 1 .. q + lq - 1
      BY <1>1, <2>1
    <3> QED
      BY <3>1 DEF InName
  <2>4. q - p \in 1 .. l - 1 /\ p + (q - p) = q
    BY <1>1, <2>1, <2>2, <2>3
  <2>5. p + (q - p) \notin Markers(R)
    BY <1>2, <2>4
  <2> QED
    BY <2>4, <2>5
<1> QED
  BY <1>2, <1>3

-----------------------------------------------------------------------------
(* Texts with something in the place of markers                            *)

\* The markers up to p have texts.
Given(R, m, p, T) == \A q \in Markers(R) : q <= p => m[q] \in Seq(T)

LEMMA PieceTyped ==
  ASSUME NEW R \in Seq(STRING), NEW T, STRING \subseteq T, NEW m, NEW p \in Int, Given(R, m, p, T),
         NEW q \in 1 .. Len(R), q <= p
  PROVE  Piece(R, m, q) \in Seq(T)
<1>1. R[q] \in T
  <2>1. R[q] \in STRING
    OBVIOUS
  <2> QED
    BY <2>1, Zenon
<1>2. <<R[q]>> \in Seq(T) /\ <<>> \in Seq(T)
  BY <1>1
<1> QED
  BY <1>2 DEF Piece, Given

LEMMA PiecesTyped ==
  ASSUME NEW R \in Seq(STRING), NEW T, STRING \subseteq T, NEW m, NEW p \in 0 .. Len(R),
         Given(R, m, p, T)
  PROVE  [q \in 1 .. p |-> Piece(R, m, q)] \in Seq(Seq(T))
<1>1. ASSUME NEW q \in 1 .. p PROVE Piece(R, m, q) \in Seq(T)
  <2>1. p \in Int /\ q \in 1 .. Len(R) /\ q <= p
    OBVIOUS
  <2> QED
    BY <2>1, PieceTyped
<1> DEFINE Texts == Seq(T)
<1> HIDE DEF Texts
<1>2. \A q \in 1 .. p : Piece(R, m, q) \in Texts
  BY <1>1 DEF Texts
<1>3. p \in Nat
  OBVIOUS
<1>4. [q \in 1 .. p |-> Piece(R, m, q)] \in Seq(Texts)
  BY <1>2, <1>3
<1> QED
  BY <1>4 DEF Texts

LEMMA TextTyped ==
  ASSUME NEW R \in Seq(STRING), NEW T, STRING \subseteq T, NEW m, NEW p \in 0 .. Len(R),
         Given(R, m, p, T)
  PROVE  TextUpTo(R, m, p) \in Seq(T)
<1>1. [q \in 1 .. p |-> Piece(R, m, q)] \in Seq(Seq(T))
  BY PiecesTyped
<1>2. <<>> \in Seq(T)
  OBVIOUS
<1> QED
  BY <1>1, <1>2, OneMore DEF TextUpTo

LEMMA TextFirst == ASSUME NEW R, NEW m PROVE TextUpTo(R, m, 0) = <<>>
<1>1. [q \in 1 .. 0 |-> Piece(R, m, q)] = <<>>
  <2> DEFINE s == [q \in 1 .. 0 |-> Piece(R, m, q)]
  <2>1. s \in Seq({}) /\ Len(s) = 0
    OBVIOUS
  <2> HIDE DEF s
  <2>2. s = <<>>
    BY <2>1
  <2> QED
    BY <2>2 DEF s
<1> QED
  BY <1>1, NoPieces DEF TextUpTo

LEMMA TextNext ==
  ASSUME NEW R \in Seq(STRING), NEW T, STRING \subseteq T, NEW m, NEW p \in 1 .. Len(R),
         Given(R, m, p, T)
  PROVE  TextUpTo(R, m, p) = TextUpTo(R, m, p - 1) \o Piece(R, m, p)
<1> DEFINE s == [q \in 1 .. p - 1 |-> Piece(R, m, q)]
           x == Piece(R, m, p)
<1>1. p - 1 \in 0 .. Len(R) /\ p \in Int /\ p <= p /\ p \in Nat
  OBVIOUS
<1>2. Given(R, m, p - 1, T)
  <2>1. \A q \in Markers(R) : q \in Int
    BY MarkerSort
  <2> QED
    BY <2>1 DEF Given
<1>3. s \in Seq(Seq(T))
  BY <1>1, <1>2, PiecesTyped
<1>4. x \in Seq(T)
  BY <1>1, PieceTyped
<1>5. [q \in 1 .. p |-> Piece(R, m, q)] = Append(s, x)
  <2>1. Len(s) = p - 1 /\ \A q \in 1 .. p - 1 : s[q] = Piece(R, m, q)
    BY <1>1
  <2> HIDE DEF s
  <2> DEFINE Texts == Seq(T)
             t == Append(s, x)
  <2> HIDE DEF Texts
  <2>2. s \in Seq(Texts) /\ x \in Texts
    BY <1>3, <1>4 DEF Texts
  <2> HIDE DEF x
  <2>3. t \in Seq(Texts) /\ Len(t) = p /\ t[p] = x /\ \A q \in 1 .. p - 1 : t[q] = s[q]
    BY <1>1, <2>1, <2>2
  <2> HIDE DEF t
  <2>4. t = [q \in 1 .. p |-> t[q]]
    BY <2>3
  <2>5. \A q \in 1 .. p : t[q] = Piece(R, m, q)
    BY <1>1, <2>1, <2>3 DEF x
  <2> QED
    BY <2>4, <2>5 DEF t
<1> HIDE DEF s, x
<1>6. FlattenSeq(Append(s, x)) = FlattenSeq(s) \o x
  BY <1>3, <1>4, OneMore
<1> QED
  BY <1>5, <1>6 DEF TextUpTo, s, x

LEMMA TextSame ==
  ASSUME NEW R \in Seq(STRING), NEW m, NEW l, NEW p \in 0 .. Len(R),
         \A q \in Markers(R) : q <= p => m[q] = l[q]
  PROVE  TextUpTo(R, m, p) = TextUpTo(R, l, p)
<1>1. ASSUME NEW q \in 1 .. p PROVE Piece(R, m, q) = Piece(R, l, q)
  BY DEF Piece
<1>2. [q \in 1 .. p |-> Piece(R, m, q)] = [q \in 1 .. p |-> Piece(R, l, q)]
  BY <1>1
<1> QED
  BY <1>2 DEF TextUpTo

\* A name leaves nothing behind.
LEMMA TextStays ==
  ASSUME NEW R \in Seq(STRING), NEW T, STRING \subseteq T, NEW m, NEW p \in 0 .. Len(R),
         NEW c \in Nat, p + c <= Len(R), Given(R, m, p, T),
         \A k \in 1 .. c : InName(R, p + k) /\ p + k \notin Markers(R)
  PROVE  TextUpTo(R, m, p + c) = TextUpTo(R, m, p)
<1> DEFINE D == {k \in Nat : k <= c =>
                   Given(R, m, p + k, T) /\ TextUpTo(R, m, p + k) = TextUpTo(R, m, p)}
<1>0. Len(R) \in Nat /\ \A q \in Markers(R) : q \in Int
  BY MarkerSort
<1>1. 0 \in D
  <2>1. p + 0 = p
    OBVIOUS
  <2> QED
    BY <2>1
<1>2. ASSUME NEW k \in Nat, k \in D PROVE k + 1 \in D
  <2> SUFFICES ASSUME k + 1 <= c
               PROVE Given(R, m, p + (k + 1), T) /\ TextUpTo(R, m, p + (k + 1)) = TextUpTo(R, m, p)
    OBVIOUS
  <2> DEFINE r == p + (k + 1)
  <2>1. r \in 1 .. Len(R) /\ r - 1 = p + k /\ k + 1 \in 1 .. c /\ k <= c
    BY <1>0
  <2>2. InName(R, r) /\ r \notin Markers(R)
    BY <2>1
  <2>3. Given(R, m, p + k, T) /\ TextUpTo(R, m, p + k) = TextUpTo(R, m, p)
    BY <1>2, <2>1
  <2> HIDE DEF r
  <2>4. Given(R, m, r, T)
    BY <1>0, <2>1, <2>2, <2>3 DEF Given
  <2>5. TextUpTo(R, m, r) = TextUpTo(R, m, p + k) \o Piece(R, m, r)
    BY <2>1, <2>4, TextNext
  <2>6. Piece(R, m, r) = <<>>
    BY <2>2 DEF Piece
  <2>7. TextUpTo(R, m, p) \in Seq(T)
    BY TextTyped
  <2>8. TextUpTo(R, m, r) = TextUpTo(R, m, p)
    <3>1. \A x \in Seq(T) : x \o <<>> = x
      BY Concatenated
    <3> QED
      BY <2>3, <2>5, <2>6, <2>7, <3>1
  <2> QED
    BY <2>4, <2>8 DEF r
<1> HIDE DEF D
<1>3. c \in D
  BY <1>1, <1>2, Induction
<1> QED
  BY <1>3 DEF D

\* The text of the marker at p is between A and B.
Around(R, m, p, T, A, B) ==
  \A v \in Seq(T) : TextUpTo(R, [m EXCEPT ![p] = v], Len(R)) = A \o v \o B

LEMMA TextAround ==
  ASSUME NEW R \in Seq(STRING), NEW T, STRING \subseteq T, NEW m \in [Markers(R) -> Seq(T)],
         NEW p \in Markers(R)
  PROVE  \E B \in Seq(T) : Around(R, m, p, T, TextUpTo(R, m, p - 1), B)
<1> DEFINE A == TextUpTo(R, m, p - 1)
           With(v) == [m EXCEPT ![p] = v]
           n == Len(R)
           Fine(r) == \E B \in Seq(T) : \A v \in Seq(T) : TextUpTo(R, With(v), r) = A \o v \o B
           D == {r \in Nat : p <= r /\ r <= n => Fine(r)}
<1>0. n \in Nat /\ p \in 1 .. n /\ p - 1 \in 0 .. n /\ (\A q \in Markers(R) : q \in Int)
  BY MarkerSort
<1>1. ASSUME NEW v \in Seq(T)
      PROVE  With(v)[p] = v /\ (\A q \in Markers(R) : q # p => With(v)[q] = m[q])
  OBVIOUS
<1>2. ASSUME NEW v \in Seq(T), NEW r \in Int PROVE Given(R, With(v), r, T)
  BY <1>1 DEF Given
<1>3. A \in Seq(T)
  <2>1. Given(R, m, p - 1, T)
    BY DEF Given
  <2> QED
    BY <1>0, <2>1, TextTyped
<1> HIDE DEF With
<1>4. ASSUME NEW v \in Seq(T) PROVE TextUpTo(R, With(v), p) = A \o v \o <<>>
  <2>1. TextUpTo(R, With(v), p) = TextUpTo(R, With(v), p - 1) \o Piece(R, With(v), p)
    <3>1. Given(R, With(v), p, T)
      BY <1>0, <1>2
    <3> QED
      BY <1>0, <3>1, TextNext
  <2>2. TextUpTo(R, With(v), p - 1) = A
    <3>1. \A q \in Markers(R) : q <= p - 1 => With(v)[q] = m[q]
      BY <1>0, <1>1
    <3> QED
      BY <1>0, <3>1, TextSame
  <2>3. Piece(R, With(v), p) = v
    BY <1>1 DEF Piece
  <2>4. \A x \in Seq(T) : x \o <<>> = x
    BY Concatenated
  <2> HIDE DEF A
  <2>5. A \o v \in Seq(T)
    BY <1>3, Concatenated
  <2> QED
    BY <2>1, <2>2, <2>3, <2>4, <2>5
<1> HIDE DEF n, A
<1>5. 0 \in D
  BY <1>0
<1>6. ASSUME NEW r \in Nat, r \in D PROVE r + 1 \in D
  <2> HIDE DEF Fine
  <2> SUFFICES ASSUME p <= r + 1, r + 1 <= n PROVE Fine(r + 1)
    OBVIOUS
  <2>0. p <= r => Fine(r)
    BY <1>0, <1>6
  <2> HIDE DEF D
  <2> USE DEF Fine
  <2>1. CASE p = r + 1
    <3>1. <<>> \in Seq(T)
      OBVIOUS
    <3> QED
      BY <1>4, <2>1, <3>1
  <2>2. CASE p # r + 1
    <3>1. p <= r /\ r <= n
      BY <1>0, <2>2
    <3>2. PICK B \in Seq(T) : \A v \in Seq(T) : TextUpTo(R, With(v), r) = A \o v \o B
      BY <2>0, <3>1
    <3> DEFINE x == Piece(R, m, r + 1)
    <3>3. r + 1 \in 1 .. n /\ r + 1 \in Int /\ (r + 1) - 1 = r /\ r + 1 <= r + 1
      BY <1>0
    <3>4. x \in Seq(T)
      <4>1. Given(R, m, r + 1, T)
        BY DEF Given
      <4> QED
        BY <3>3, <4>1, PieceTyped DEF n
    <3>5. ASSUME NEW v \in Seq(T) PROVE TextUpTo(R, With(v), r + 1) = A \o v \o (B \o x)
      <4>1. TextUpTo(R, With(v), r + 1) = TextUpTo(R, With(v), r) \o Piece(R, With(v), r + 1)
        <5>1. Given(R, With(v), r + 1, T)
          BY <1>2, <3>3
        <5> QED
          BY <3>3, <5>1, TextNext DEF n
      <4>2. Piece(R, With(v), r + 1) = x
        BY <1>1, <2>2 DEF Piece
      <4>3. TextUpTo(R, With(v), r) = A \o v \o B
        BY <3>2
      <4> HIDE DEF x
      <4>4. (A \o v \o B) \o x = A \o v \o (B \o x)
        <5>1. A \o v \in Seq(T)
          BY <1>3
        <5> DEFINE y == A \o v
        <5> HIDE DEF y
        <5>2. y \in Seq(T)
          BY <5>1 DEF y
        <5>3. (y \o B) \o x = y \o (B \o x)
          BY <3>4, <5>2
        <5> QED
          BY <5>3 DEF y
      <4> QED
        BY <4>1, <4>2, <4>3, <4>4
    <3>6. B \o x \in Seq(T)
      <4> HIDE DEF x
      <4> QED
        BY <3>4
    <3> QED
      BY <3>5, <3>6
  <2> QED
    BY <2>1, <2>2
<1> HIDE DEF D, Fine
<1>7. n \in D
  BY <1>0, <1>5, <1>6, Induction
<1>8. Fine(n)
  BY <1>0, <1>7 DEF D
<1> QED
  BY <1>8 DEF Fine, With, A, n, Around

\* What is in none of the texts, and in no text at all, is not in it.
LEMMA TextWithout ==
  ASSUME NEW R \in Seq(STRING), NEW T, STRING \subseteq T, NEW m, NEW p \in 0 .. Len(R),
         Given(R, m, p, T), NEW x, x \notin STRING,
         \A q \in Markers(R) : q <= p => \A k \in 1 .. Len(m[q]) : m[q][k] # x
  PROVE  \A k \in 1 .. Len(TextUpTo(R, m, p)) : TextUpTo(R, m, p)[k] # x
<1> DEFINE Out(s) == \A k \in 1 .. Len(s) : s[k] # x
           D == {r \in Nat : r <= p => Out(TextUpTo(R, m, r))}
<1>0. p \in Nat /\ Len(R) \in Nat /\ \A q \in Markers(R) : q \in Int
  BY MarkerSort
<1>1. 0 \in D
  BY TextFirst
<1>2. ASSUME NEW r \in Nat, r \in D PROVE r + 1 \in D
  <2> SUFFICES ASSUME r + 1 <= p PROVE Out(TextUpTo(R, m, r + 1))
    OBVIOUS
  <2> DEFINE A == TextUpTo(R, m, r)
             B == Piece(R, m, r + 1)
  <2>1. r + 1 \in 1 .. Len(R) /\ (r + 1) - 1 = r /\ r \in 0 .. Len(R) /\ r + 1 \in Int /\ r <= p
    BY <1>0
  <2>2. Given(R, m, r + 1, T) /\ Given(R, m, r, T)
    BY <1>0, <2>1 DEF Given
  <2>3. A \in Seq(T) /\ B \in Seq(T)
    <3>1. A \in Seq(T)
      BY <2>1, <2>2, TextTyped
    <3>2. B \in Seq(T)
      <4>1. r + 1 <= r + 1
        BY <2>1
      <4> QED
        BY <2>1, <2>2, <4>1, PieceTyped
    <3> QED
      BY <3>1, <3>2
  <2>4. Out(A)
    BY <1>2, <2>1
  <2>5. Out(B)
    <3>1. CASE r + 1 \in Markers(R)
      BY <3>1 DEF Piece
    <3>2. CASE r + 1 \notin Markers(R)
      <4>1. R[r + 1] \in STRING
        BY <2>1
      <4>2. R[r + 1] # x
        BY <4>1
      <4> QED
        BY <3>2, <4>2 DEF Piece
    <3> QED
      BY <3>1, <3>2
  <2>6. TextUpTo(R, m, r + 1) = A \o B
    BY <2>1, <2>2, TextNext
  <2> HIDE DEF A, B
  <2>7. Out(A \o B)
    BY <2>3, <2>4, <2>5
  <2> QED
    BY <2>6, <2>7
<1> HIDE DEF D
<1>3. p \in D
  BY <1>0, <1>1, <1>2, Induction
<1> QED
  BY <1>0, <1>3 DEF D

-----------------------------------------------------------------------------
(* The scanner of markers, step by step                                    *)

\* C is A and then B.
Joined(T, A, B, C) ==
  /\ C \in Seq(T) /\ Len(C) = Len(A) + Len(B)
  /\ SubSeq(C, 1, Len(A)) = A
  /\ \A k \in 1 .. Len(A) : C[k] = A[k]
  /\ \A k \in 1 .. Len(B) : C[Len(A) + k] = B[k]
  /\ \A d \in 0 .. Len(B) :
       SubSeq(C, Len(A) + 1 + d, Len(A) + Len(B)) = SubSeq(B, 1 + d, Len(B))

LEMMA Cut ==
  ASSUME NEW T, NEW A \in Seq(T), NEW B \in Seq(T)
  PROVE  Joined(T, A, B, A \o B)
<1>1. A \o B \in Seq(T) /\ Len(A \o B) = Len(A) + Len(B) /\ Len(A) \in Nat /\ Len(B) \in Nat
  OBVIOUS
<1>2. (\A k \in 1 .. Len(A) : (A \o B)[k] = A[k]) /\ \A k \in 1 .. Len(B) : (A \o B)[Len(A) + k] = B[k]
  OBVIOUS
<1> DEFINE C == A \o B
<1>3. C \in Seq(T) /\ Len(C) = Len(A) + Len(B)
      /\ (\A k \in 1 .. Len(A) : C[k] = A[k]) /\ \A k \in 1 .. Len(B) : C[Len(A) + k] = B[k]
  BY <1>1, <1>2
<1> HIDE DEF C
<1>4. SubSeq(C, 1, Len(A)) = A
  <2>1. SubSeq(C, 1, Len(A)) = [k \in 1 .. Len(A) |-> C[k]]
    BY <1>1, <1>3
  <2>2. A = [k \in 1 .. Len(A) |-> A[k]]
    OBVIOUS
  <2> QED
    BY <1>3, <2>1, <2>2
<1>5. ASSUME NEW d \in 0 .. Len(B)
      PROVE  SubSeq(C, Len(A) + 1 + d, Len(A) + Len(B)) = SubSeq(B, 1 + d, Len(B))
  <2>1. SubSeq(C, Len(A) + 1 + d, Len(A) + Len(B)) = [k \in 1 .. Len(B) - d |-> C[Len(A) + (d + k)]]
    BY <1>1, <1>3
  <2>2. SubSeq(B, 1 + d, Len(B)) = [k \in 1 .. Len(B) - d |-> B[d + k]]
    BY <1>1
  <2>3. ASSUME NEW k \in 1 .. Len(B) - d PROVE C[Len(A) + (d + k)] = B[d + k]
    <3>1. d + k \in 1 .. Len(B)
      BY <1>1
    <3> QED
      BY <1>3, <3>1
  <2> QED
    BY <2>1, <2>2, <2>3
<1> QED
  BY <1>3, <1>4, <1>5 DEF C, Joined

LEMMA Rest ==
  ASSUME NEW T, NEW R \in Seq(T), NEW p \in 1 .. Len(R) + 1
  PROVE  /\ SubSeq(R, p, Len(R)) \in Seq(T)
         /\ Len(SubSeq(R, p, Len(R))) = Len(R) - p + 1
         /\ \A k \in 1 .. Len(R) - p + 1 : SubSeq(R, p, Len(R))[k] = R[p + k - 1]
         /\ \A d \in 0 .. Len(R) - p + 1 :
              SubSeq(SubSeq(R, p, Len(R)), 1 + d, Len(R) - p + 1) = SubSeq(R, p + d, Len(R))
         /\ p <= Len(R) => SubSeq(R, p, Len(R)) = <<R[p]>> \o SubSeq(R, p + 1, Len(R))
<1> DEFINE n == Len(R)
           S == SubSeq(R, p, n)
<1>1. S \in Seq(T) /\ Len(S) = n - p + 1 /\ n \in Nat /\ \A k \in 1 .. n - p + 1 : S[k] = R[p + k - 1]
  OBVIOUS
<1> HIDE DEF S
<1>2. ASSUME NEW d \in 0 .. n - p + 1
      PROVE  SubSeq(S, 1 + d, n - p + 1) = SubSeq(R, p + d, n)
  <2>1. SubSeq(S, 1 + d, n - p + 1) = [k \in 1 .. n - p + 1 - d |-> S[d + k]]
    BY <1>1
  <2>2. SubSeq(R, p + d, n) = [k \in 1 .. n - p + 1 - d |-> R[p + (d + k) - 1]]
    BY <1>1
  <2>3. ASSUME NEW k \in 1 .. n - p + 1 - d PROVE S[d + k] = R[p + (d + k) - 1]
    <3>1. d + k \in 1 .. n - p + 1
      BY <1>1
    <3> QED
      BY <1>1, <3>1
  <2> QED
    BY <2>1, <2>2, <2>3
<1>3. ASSUME p <= n PROVE S = <<R[p]>> \o SubSeq(R, p + 1, n)
  <2> DEFINE B == SubSeq(R, p + 1, n)
  <2>1. B \in Seq(T) /\ Len(B) = n - p /\ \A k \in 1 .. n - p : B[k] = R[p + 1 + k - 1]
    BY <1>1, <1>3
  <2>2. <<R[p]>> \in Seq(T) /\ Len(<<R[p]>>) = 1
    BY <1>1, <1>3
  <2> DEFINE h == <<R[p]>>
  <2>3. h[1] = R[p]
    OBVIOUS
  <2> HIDE DEF B, h
  <2> DEFINE C == h \o B
  <2> HIDE DEF C
  <2>4. C \in Seq(T) /\ Len(C) = n - p + 1 /\ C[1] = R[p] /\ \A k \in 1 .. n - p : C[1 + k] = B[k]
    <3>1. Len(h) = 1 /\ h \in Seq(T)
      BY <2>2 DEF h
    <3>2. /\ C \in Seq(T) /\ Len(C) = Len(h) + Len(B)
          /\ \A k \in 1 .. Len(h) : C[k] = h[k]
          /\ \A k \in 1 .. Len(B) : C[Len(h) + k] = B[k]
      <4>1. Joined(T, h, B, C)
        BY <2>1, <3>1, Cut DEF C
      <4> QED
        BY <4>1 DEF Joined
    <3> QED
      BY <1>1, <1>3, <2>1, <2>3, <3>1, <3>2
  <2>5. ASSUME NEW k \in 1 .. n - p + 1 PROVE C[k] = S[k]
    <3>1. CASE k = 1
      BY <1>1, <2>4, <3>1
    <3>2. CASE k # 1
      <4>1. k - 1 \in 1 .. n - p /\ 1 + (k - 1) = k /\ p + 1 + (k - 1) - 1 = p + k - 1
        BY <1>1, <3>2
      <4>2. C[1 + (k - 1)] = B[k - 1] /\ B[k - 1] = R[p + 1 + (k - 1) - 1]
        BY <2>1, <2>4, <4>1
      <4> QED
        BY <1>1, <4>1, <4>2
    <3> QED
      BY <3>1, <3>2
  <2>6. C = [k \in 1 .. n - p + 1 |-> C[k]] /\ S = [k \in 1 .. n - p + 1 |-> S[k]]
    BY <1>1, <2>4
  <2> QED
    BY <2>5, <2>6 DEF C, B, h
<1> QED
  BY <1>1, <1>2, <1>3 DEF S

LEMMA ParameterTyped ==
  ASSUME NEW P \in Parameters, NEW k \in 1 .. Len(P)
  PROVE  P[k].tmp_placeholder \in Placeholders /\ P[k].name \in Seq(Tokens)
<1> DEFINE Names == Seq(Tokens)
           Each == [name : Names, tmp_placeholder : Placeholders]
<1>1. P \in Seq(Each)
  BY DEF Parameters
<1> HIDE DEF Names, Each
<1>2. P[k] \in Each
  BY <1>1
<1>3. P[k].tmp_placeholder \in Placeholders /\ P[k].name \in Names
  BY <1>2 DEF Each
<1> QED
  BY <1>3 DEF Names

\* The placeholders are texts for the markers that are done.
LEMMA HeldTyped ==
  ASSUME NEW R \in Seq(STRING), NEW P \in Parameters, NEW p \in Int, Listed(R, P, p)
  PROVE  Given(R, Held(R, P), p, Tokens) /\ \A q \in Markers(R) : q <= p => Count(R, q) \in 1 .. Len(P)
<1>1. ASSUME NEW q \in Markers(R), q <= p PROVE Count(R, q) \in 1 .. Len(P)
  BY <1>1, CountNumbers DEF Listed
<1>2. ASSUME NEW q \in Markers(R), q <= p PROVE Held(R, P)[q] \in Seq(Tokens)
  <2>1. P[Count(R, q)].tmp_placeholder \in Placeholders
    BY <1>1, <1>2, ParameterTyped
  <2>2. P[Count(R, q)].tmp_placeholder \in Tokens
    BY <2>1, Zenon DEF Tokens
  <2> HIDE DEF Tokens
  <2> QED
    BY <2>2 DEF Held
<1> QED
  BY <1>1, <1>2 DEF Given

LEMMA TokensHoldTexts == STRING \subseteq Tokens /\ Seq(STRING) \subseteq Seq(Tokens)
<1>1. STRING \subseteq Tokens
  BY Zenon DEF Tokens
<1> DEFINE S == STRING
<1> HIDE DEF S, Tokens
<1>2. S \subseteq Tokens
  BY <1>1, Zenon DEF S
<1>3. Seq(S) \subseteq Seq(Tokens)
  BY <1>2
<1> QED
  BY <1>1, <1>3 DEF S

\* What the scanner sees at j in t, when it has made A of what is before p.
Sees(R, A, t, j, p) ==
  /\ A \in Seq(Tokens) /\ t \in Seq(Tokens) /\ j = Len(A) + 1
  /\ p \in 1 .. Len(R) + 1 /\ j \in 1 .. Len(t) + 1
  /\ Len(t) - j = Len(R) - p
  /\ \A k \in 0 .. Len(R) - p : t[j + k] = R[p + k]
  /\ SubSeq(t, 1, j - 1) = A
  /\ \A d \in 0 .. Len(R) - p + 1 : SubSeq(t, j + d, Len(t)) = SubSeq(R, p + d, Len(R))

LEMMA Ahead ==
  ASSUME NEW R \in Seq(STRING), NEW P \in Parameters, NEW t, NEW j, NEW p,
         Copied(R, t, j, P, p)
  PROVE  Sees(R, TextUpTo(R, Held(R, P), p - 1), t, j, p)
<1> DEFINE A == TextUpTo(R, Held(R, P), p - 1)
           S == SubSeq(R, p, Len(R))
           n == Len(R)
<1>1. p \in 1 .. n + 1 /\ n \in Nat /\ t = A \o S /\ j = Len(A) + 1 /\ R \in Seq(Tokens)
  <2>1. R \in Seq(Tokens)
    BY TokensHoldTexts
  <2> QED
    BY <2>1 DEF Copied
<1>2. A \in Seq(Tokens)
  <2>1. p - 1 \in 0 .. n /\ p - 1 \in Int
    BY <1>1
  <2>2. Given(R, Held(R, P), p - 1, Tokens)
    BY <2>1, HeldTyped DEF Copied
  <2> QED
    BY <2>1, <2>2, TextTyped, TokensHoldTexts
<1>3. /\ S \in Seq(Tokens) /\ Len(S) = n - p + 1
      /\ \A k \in 1 .. n - p + 1 : S[k] = R[p + k - 1]
      /\ \A d \in 0 .. n - p + 1 : SubSeq(S, 1 + d, n - p + 1) = SubSeq(R, p + d, n)
  BY <1>1, Rest
<1> HIDE DEF A, S, n, Tokens
<1>4. Len(A) \in Nat
  BY <1>2
<1>5. /\ t \in Seq(Tokens) /\ Len(t) = Len(A) + (n - p + 1)
      /\ SubSeq(t, 1, Len(A)) = A
      /\ \A k \in 1 .. n - p + 1 : t[Len(A) + k] = S[k]
      /\ \A d \in 0 .. n - p + 1 :
           SubSeq(t, Len(A) + 1 + d, Len(A) + (n - p + 1)) = SubSeq(S, 1 + d, n - p + 1)
  <2>1. Joined(Tokens, A, S, A \o S)
    BY <1>2, <1>3, Cut
  <2>2. Len(S) = n - p + 1 /\ t = A \o S
    BY <1>1, <1>3
  <2> QED
    BY <2>1, <2>2 DEF Joined
<1>6. ASSUME NEW k \in 0 .. n - p PROVE t[j + k] = R[p + k]
  <2>1. k + 1 \in 1 .. n - p + 1 /\ j + k = Len(A) + (k + 1) /\ p + (k + 1) - 1 = p + k
    BY <1>1, <1>4
  <2> QED
    BY <1>3, <1>5, <2>1
<1>7. ASSUME NEW d \in 0 .. n - p + 1 PROVE SubSeq(t, j + d, Len(t)) = SubSeq(R, p + d, n)
  BY <1>1, <1>3, <1>5
<1>8. Len(t) - j = n - p /\ j \in 1 .. Len(t) + 1 /\ j - 1 = Len(A)
  BY <1>1, <1>4, <1>5
<1> QED
  BY <1>1, <1>2, <1>5, <1>6, <1>7, <1>8 DEF Sees, A, n

\* A character that is no marker is passed.
LEMMA OnePassed ==
  ASSUME NEW R \in Seq(STRING), NEW P \in Parameters, NEW t, NEW j, NEW p,
         Copied(R, t, j, P, p), p <= Len(R), p \notin Markers(R)
  PROVE  Copied(R, t, j + 1, P, p + 1)
<1> DEFINE m == Held(R, P)
           A == TextUpTo(R, m, p - 1)
           B == SubSeq(R, p + 1, Len(R))
           x == <<R[p]>>
<1>1. /\ p \in 1 .. Len(R) /\ p \in Int /\ p - 1 \in Int /\ p - 1 \in 0 .. Len(R)
      /\ p + 1 \in 1 .. Len(R) + 1 /\ (p + 1) - 1 = p /\ Len(R) \in Nat
  BY DEF Copied
<1>2. /\ t = A \o SubSeq(R, p, Len(R)) /\ j = Len(A) + 1
      /\ ~InName(R, p) /\ Listed(R, P, p - 1)
  BY DEF Copied
<1>3. Listed(R, P, p)
  <2>1. Count(R, p) = Count(R, p - 1)
    BY <1>1, CountNext
  <2>2. \A q \in Markers(R) : q <= p => q <= p - 1
    BY <1>1, MarkerSort
  <2> QED
    BY <1>2, <2>1, <2>2 DEF Listed
<1>4. Given(R, m, p, Tokens)
  BY <1>1, <1>3, HeldTyped
<1>5. Given(R, m, p - 1, Tokens)
  BY <1>1, <1>2, HeldTyped
<1>6. A \in Seq(Tokens)
  BY <1>1, <1>5, TextTyped, TokensHoldTexts
<1>7. TextUpTo(R, m, p) = A \o x
  <2>1. TextUpTo(R, m, p) = A \o Piece(R, m, p)
    BY <1>1, <1>4, TextNext, TokensHoldTexts
  <2>2. Piece(R, m, p) = x
    BY <1>2 DEF Piece
  <2> QED
    BY <2>1, <2>2
<1>8. R \in Seq(Tokens) /\ R[p] \in Tokens
  <2>1. R \in Seq(Tokens)
    BY TokensHoldTexts
  <2> HIDE DEF Tokens
  <2> QED
    BY <1>1, <2>1
<1>9. x \in Seq(Tokens) /\ Len(x) = 1 /\ B \in Seq(Tokens) /\ SubSeq(R, p, Len(R)) = x \o B
  <2> HIDE DEF Tokens
  <2>1. x \in Seq(Tokens) /\ Len(x) = 1
    BY <1>8
  <2>2. B \in Seq(Tokens)
    BY <1>1, <1>8, Rest
  <2>3. p \in 1 .. Len(R) + 1
    BY <1>1
  <2>4. SubSeq(R, p, Len(R)) = x \o B
    BY <1>1, <1>8, <2>3, Rest
  <2> QED
    BY <2>1, <2>2, <2>4
<1>10. ~InName(R, p + 1)
  BY <1>1, <1>2, NotInNameNext
<1> HIDE DEF A, B, x, Tokens
<1>11. t = (A \o x) \o B
  <2>1. (A \o x) \o B = A \o (x \o B)
    BY <1>6, <1>9
  <2> QED
    BY <1>2, <1>9, <2>1
<1>12. Len(A \o x) + 1 = j + 1
  <2>1. A \in Seq(Tokens) /\ x \in Seq(Tokens) /\ Len(x) = 1
    BY <1>6, <1>9
  <2>2. Joined(Tokens, A, x, A \o x)
    BY <2>1, Cut
  <2> QED
    BY <1>2, <2>1, <2>2 DEF Joined
<1> QED
  BY <1>1, <1>3, <1>7, <1>10, <1>11, <1>12 DEF Copied, B, m

\* The marker at p becomes a placeholder, with all of its name.
MarkerLength(R, p) == IF R[p] = "@" THEN NameLength(R, p) ELSE 1

LEMMA MarkerLengthRange ==
  ASSUME NEW R \in Seq(STRING), NEW p \in Markers(R), ~InName(R, p)
  PROVE  /\ p \in 1 .. Len(R) /\ MarkerLength(R, p) \in 1 .. Len(R) - p + 1
         /\ ~InName(R, p + MarkerLength(R, p))
         /\ \A k \in 1 .. MarkerLength(R, p) - 1 :
              /\ p + k \in 1 .. Len(R) /\ InName(R, p + k) /\ p + k \notin Markers(R)
              /\ R[p + k] \notin Quotes /\ R[p + k] # "\\"
<1>1. p \in 1 .. Len(R)
  BY MarkerSort
<1>2. CASE R[p] = "@"
  <2>1. NameLength(R, p) \in 1 .. Len(R) - p + 1
    BY <1>1, NameCharacters
  <2> QED
    BY <1>1, <1>2, <2>1, NameInside DEF MarkerLength
<1>3. CASE R[p] # "@"
  <2>1. ~InName(R, p + 1)
    BY <1>1, <1>3, NotInNameNext
  <2>2. 1 \in 1 .. Len(R) - p + 1
    BY <1>1
  <2>3. \A k \in 1 .. 1 - 1 : FALSE
    OBVIOUS
  <2> QED
    BY <1>1, <1>3, <2>1, <2>2, <2>3 DEF MarkerLength
<1> QED
  BY <1>2, <1>3

LEMMA OneHeld ==
  ASSUME NEW R \in Seq(STRING), NEW P \in Parameters, NEW t, NEW j, NEW p,
         Copied(R, t, j, P, p), p \in Markers(R), NEW x \in Placeholders
  PROVE  LET l == MarkerLength(R, p)
             Q == Append(P, [name |-> NameIn(R, p), tmp_placeholder |-> x])
         IN  Q \in Parameters
             /\ Copied(R, SubSeq(t, 1, j - 1) \o <<x>> \o SubSeq(t, j + l, Len(t)), j + 1, Q, p + l)
<1> DEFINE l == MarkerLength(R, p)
           e == [name |-> NameIn(R, p), tmp_placeholder |-> x]
           Q == Append(P, e)
           n == Len(R)
           A == TextUpTo(R, Held(R, P), p - 1)
           B == SubSeq(R, p + l, n)
           h == <<x>>
<1>1. ~InName(R, p) /\ Listed(R, P, p - 1) /\ j = Len(A) + 1
  BY DEF Copied
<1>2. p \in 1 .. n /\ l \in 1 .. n - p + 1 /\ ~InName(R, p + l)
  BY <1>1, MarkerLengthRange
<1>3. \A k \in 1 .. l - 1 : InName(R, p + k) /\ p + k \notin Markers(R)
  BY <1>1, MarkerLengthRange
<1>4. e.name = NameIn(R, p) /\ e.tmp_placeholder = x /\ Q \in Parameters
  <2> DEFINE Names == Seq(Tokens)
             Each == [name : Names, tmp_placeholder : Placeholders]
  <2>1. NameIn(R, p) \in Names
    <3>1. NameAt(R, p) \in Seq(STRING)
      BY <1>2, NameTyped
    <3>2. NameAt(R, p) \in Seq(Tokens) /\ <<>> \in Seq(Tokens)
      <4>1. NameAt(R, p) \in Seq(Tokens)
        BY <3>1, TokensHoldTexts
      <4> HIDE DEF Tokens
      <4> QED
        BY <4>1
    <3> QED
      BY <3>2 DEF NameIn
  <2> HIDE DEF Names
  <2>2. e \in Each
    BY <2>1
  <2>3. P \in Seq(Each)
    BY DEF Parameters, Names
  <2> HIDE DEF Each, e
  <2>4. Q \in Seq(Each)
    BY <2>2, <2>3
  <2> QED
    BY <2>4 DEF Parameters, Each, Names, e
<1> HIDE DEF l, e
<1>5. Len(P) \in Nat /\ Len(Q) = Len(P) + 1 /\ Q[Len(P) + 1] = e /\ \A k \in 1 .. Len(P) : Q[k] = P[k]
  BY DEF Parameters
<1> HIDE DEF Q
<1>6. Len(P) = Count(R, p - 1) /\ Count(R, p) = Len(P) + 1 /\ Count(R, p + l - 1) = Len(P) + 1
  <2>1. Len(P) = Count(R, p - 1)
    BY <1>1 DEF Listed
  <2>2. Count(R, p) = Len(P) + 1
    BY <1>2, <2>1, CountNext
  <2>3. Count(R, p + l - 1) = Count(R, p)
    <3>1. p \in Int /\ p + l - 1 \in Int /\ p <= p + l - 1
      BY <1>2
    <3>2. ASSUME NEW q \in p + 1 .. p + l - 1 PROVE q \notin Markers(R)
      <4>1. q - p \in 1 .. l - 1 /\ p + (q - p) = q
        BY <1>2
      <4> QED
        BY <1>3, <4>1
    <3> QED
      BY <3>1, <3>2, CountStays
  <2> QED
    BY <2>1, <2>2, <2>3
<1>7. ASSUME NEW q \in Markers(R), q <= p + l - 1
      PROVE  q \in Int /\ (q = p \/ q <= p - 1)
  <2>1. q \in Int
    BY MarkerSort
  <2>2. ~(p < q)
    <3> SUFFICES ASSUME p < q PROVE FALSE
      OBVIOUS
    <3>1. q - p \in 1 .. l - 1 /\ p + (q - p) = q
      BY <1>2, <1>7, <2>1
    <3> QED
      BY <1>3, <3>1
  <2> QED
    BY <1>2, <2>1, <2>2
<1>8. ASSUME NEW q \in Markers(R), q <= p - 1
      PROVE  Count(R, q) \in 1 .. Len(P) /\ Q[Count(R, q)] = P[Count(R, q)]
  <2>1. p - 1 \in Int
    BY <1>2
  <2>2. Count(R, q) \in 1 .. Len(P)
    BY <1>1, <1>8, <2>1, HeldTyped
  <2> QED
    BY <1>5, <2>2
<1>9. Listed(R, Q, p + l - 1)
  <2>1. ASSUME NEW q \in Markers(R), q <= p + l - 1 PROVE Q[Count(R, q)].name = NameIn(R, q)
    <3>1. CASE q = p
      BY <1>4, <1>5, <1>6, <3>1
    <3>2. CASE q <= p - 1
      <4>1. P[Count(R, q)].name = NameIn(R, q)
        BY <1>1, <3>2 DEF Listed
      <4> QED
        BY <1>8, <3>2, <4>1
    <3> QED
      BY <1>7, <2>1, <3>1, <3>2
  <2> QED
    BY <1>5, <1>6, <2>1 DEF Listed
<1>10. ASSUME NEW q \in Markers(R), q <= p - 1 PROVE Held(R, Q)[q] = Held(R, P)[q]
  BY <1>8, <1>10 DEF Held
<1>11. Held(R, Q)[p] = h
  BY <1>4, <1>5, <1>6 DEF Held
<1>12. Given(R, Held(R, Q), p, Tokens)
  <2>1. p + l - 1 \in Int /\ p <= p + l - 1 /\ p \in Int
    BY <1>2
  <2>2. Given(R, Held(R, Q), p + l - 1, Tokens)
    BY <1>4, <1>9, <2>1, HeldTyped
  <2>3. \A q \in Markers(R) : q <= p => q <= p + l - 1
    BY <2>1, MarkerSort
  <2> QED
    BY <2>2, <2>3 DEF Given
<1>13. TextUpTo(R, Held(R, Q), p - 1) = A
  <2>1. p - 1 \in 0 .. n
    BY <1>2
  <2> QED
    BY <1>10, <2>1, TextSame
<1>14. TextUpTo(R, Held(R, Q), p) = A \o h
  <2>1. TextUpTo(R, Held(R, Q), p) = TextUpTo(R, Held(R, Q), p - 1) \o Piece(R, Held(R, Q), p)
    BY <1>2, <1>12, TextNext, TokensHoldTexts
  <2>2. Piece(R, Held(R, Q), p) = h
    BY <1>11 DEF Piece
  <2> QED
    BY <1>13, <2>1, <2>2
<1>15. TextUpTo(R, Held(R, Q), p + l - 1) = A \o h
  <2> DEFINE c == l - 1
  <2>1. c \in Nat /\ p + c <= n /\ p \in 0 .. n /\ p + l - 1 = p + c
    BY <1>2
  <2>2. \A k \in 1 .. c : InName(R, p + k) /\ p + k \notin Markers(R)
    BY <1>3
  <2> HIDE DEF c
  <2>3. TextUpTo(R, Held(R, Q), p + c) = TextUpTo(R, Held(R, Q), p)
    BY <1>12, <2>1, <2>2, TextStays, TokensHoldTexts
  <2> QED
    BY <1>14, <2>1, <2>3
<1>16. /\ A \in Seq(Tokens) /\ SubSeq(t, 1, j - 1) = A
       /\ SubSeq(t, j + l, Len(t)) = B
  <2>1. l \in 0 .. n - p + 1
    BY <1>2
  <2>2. /\ A \in Seq(Tokens) /\ SubSeq(t, 1, j - 1) = A
        /\ \A d \in 0 .. n - p + 1 : SubSeq(t, j + d, Len(t)) = SubSeq(R, p + d, n)
    <3>1. Sees(R, A, t, j, p)
      BY Ahead
    <3> QED
      BY <3>1 DEF Sees
  <2> HIDE DEF A, n
  <2> QED
    BY <2>1, <2>2
<1>17. h \in Seq(Tokens) /\ Len(h) = 1
  <2>1. x \in Tokens
    BY Zenon DEF Tokens
  <2> HIDE DEF Tokens
  <2> QED
    BY <2>1
<1>18. Len(A \o h) + 1 = j + 1
  <2> HIDE DEF A, h, Tokens
  <2>1. A \in Seq(Tokens) /\ h \in Seq(Tokens)
    BY <1>16, <1>17
  <2>2. Len(A \o h) = Len(A) + Len(h)
    BY <2>1
  <2> QED
    BY <1>1, <1>17, <2>2
<1>19. p + l \in 1 .. n + 1 /\ (p + l) - 1 = p + l - 1
  BY <1>2
<1> DEFINE t2 == SubSeq(t, 1, j - 1) \o <<x>> \o SubSeq(t, j + l, Len(t))
<1>20. t2 = (A \o h) \o B
  BY <1>16
<1> HIDE DEF t2, A, B, h
<1>21. Copied(R, t2, j + 1, Q, p + l)
  BY <1>2, <1>9, <1>15, <1>18, <1>19, <1>20 DEF Copied, B, n
<1> QED
  BY <1>4, <1>21 DEF t2, Q, e, l

LEMMA OpenerStays ==
  ASSUME NEW R \in Seq(STRING), NEW p \in 0 .. Len(R), NEW c \in Nat, p + c <= Len(R),
         \A k \in 1 .. c : R[p + k] \notin Quotes
  PROVE  Opener(R)[p + c] = Opener(R)[p]
<1> DEFINE O == Opener(R)
           along == [k \in 0 .. c |-> O[p + k]]
           still == [k \in 0 .. c |-> O[p]]
<1>1. Len(R) \in Nat /\ 0 \in 0 .. c /\ c \in 0 .. c /\ p + 0 = p
  OBVIOUS
<1>2. ASSUME NEW k \in 1 .. c PROVE O[p + k] = O[p + (k - 1)]
  <2>1. p + k \in 1 .. Len(R) /\ (p + k) - 1 = p + (k - 1) /\ R[p + k] \notin Quotes
    BY <1>1
  <2> DEFINE r == p + k
  <2> HIDE DEF r
  <2>2. r \in 1 .. Len(R) /\ r - 1 = p + (k - 1) /\ R[r] \notin Quotes
    BY <2>1 DEF r
  <2>3. O[r] = O[r - 1]
    BY <2>2, OpenerNext
  <2> QED
    BY <2>2, <2>3 DEF r
<1> HIDE DEF O
<1>3. along[0] = still[0]
  BY <1>1
<1>4. ASSUME NEW k \in 1 .. c, along[k - 1] = still[k - 1] PROVE along[k] = still[k]
  <2>1. k \in 0 .. c /\ k - 1 \in 0 .. c
    OBVIOUS
  <2> QED
    BY <1>2, <1>4, <2>1
<1>5. along[c] = O[p + c] /\ still[c] = O[p]
  BY <1>1
<1> HIDE DEF along, still
<1>6. along[c] = still[c]
  <2>1. \A k \in 1 .. c : along[k - 1] = still[k - 1] => along[k] = still[k]
    BY <1>4
  <2>2. \A k \in 0 .. c : along[k] = still[k]
    <3>1. Together(c, along, still)
      BY <1>3, <2>1 DEF Together
    <3> QED
      BY <3>1, SameValues
  <2> QED
    BY <1>1, <2>2
<1> QED
  BY <1>5, <1>6 DEF O

-----------------------------------------------------------------------------
(* Types, and the braces that are open                                     *)

\* Both scanners and the substitution keep their types, for texts of any length;
\* in particular, what the rewriter returns is a text, a brace it closes was
\* opened before (replaceEscapeSequences), and no more parameters are kept than
\* there may be.
THEOREM TypesHold == Spec => [](TypeInv /\ EscapesInv)
<1>1. Init => TypeInv /\ EscapesInv
  <2> SUFFICES ASSUME Init PROVE TypeInv /\ EscapesInv
    OBVIOUS
  <2>1. given \in Statements /\ given.text \in Seq(STRING)
    BY TextsAssumption DEF Init
  <2>2. query \in Seq(Tokens)
    BY <2>1, TokensHoldTexts DEF Init
  <2>3. ret \in Seq(STRING)
    <3>1. ret = given.text \/ ret = <<>>
      BY Zenon DEF Init
    <3>2. <<>> \in Seq(STRING)
      BY Concatenated
    <3> QED
      BY <2>1, <3>1, <3>2
  <2>4. parameters \in Parameters /\ Len(parameters) <= MaxParameters
    <3>1. parameters = <<>> /\ MaxParameters \in Nat
      BY TextsAssumption DEF Init
    <3>2. <<>> \in Parameters
      BY Concatenated DEF Parameters
    <3>3. Len(<<>>) = 0
      OBVIOUS
    <3> QED
      BY <3>1, <3>2, <3>3
  <2>5. /\ phase \in {"escapes", "markers", "final", "refused"}
        /\ i \in Nat \ {0} /\ st \in Nat \ {0} /\ level \in Nat /\ final.count \in Nat
    BY DEF Init
  <2>6. EscapesInv
    BY DEF Init, EscapesInv
  <2> QED
    BY <2>1, <2>2, <2>3, <2>4, <2>5, <2>6 DEF TypeInv
<1>2. TypeInv /\ EscapesInv /\ [Next]_vars => (TypeInv /\ EscapesInv)'
  <2> SUFFICES ASSUME TypeInv, EscapesInv, [Next]_vars PROVE TypeInv' /\ EscapesInv'
    OBVIOUS
  <2>0. /\ given \in Statements /\ final.count \in Nat /\ parameters \in Parameters
        /\ Len(parameters) <= MaxParameters
    BY DEF TypeInv
  <2>1. /\ given.text \in Seq(STRING) /\ ret \in Seq(STRING) /\ query \in Seq(Tokens)
        /\ i \in Nat \ {0} /\ st \in Nat \ {0} /\ level \in Nat
    BY TextsAssumption DEF TypeInv
  <2>2. ASSUME Escaping, ~AtEnd
        PROVE  /\ query = given.text /\ parameters = <<>> /\ quoted_by = NotQuoted
               /\ level > 0 => st < i /\ Opens(query, st)
               /\ i \in 1 .. Len(query) /\ query \in Seq(STRING)
               /\ SubSeq(query, st, i - 1) \in Seq(STRING)
    <3>1. /\ query = given.text /\ parameters = <<>> /\ quoted_by = NotQuoted
          /\ level > 0 => st < i /\ Opens(query, st)
      BY <2>2 DEF EscapesInv, Escaping
    <3>2. query \in Seq(STRING)
      BY <2>1, <3>1
    <3>3. i \in 1 .. Len(query)
      BY <2>1, <2>2, <3>2 DEF AtEnd
    <3>4. SubSeq(query, st, i - 1) \in Seq(STRING)
      BY <2>1, <3>2, <3>3
    <3> QED
      BY <3>1, <3>2, <3>3, <3>4
  <2> DEFINE Going == /\ phase' = "escapes" /\ given' = given /\ query' = query /\ parameters' = parameters
                      /\ quoted_by' = quoted_by /\ final' = final
                      /\ i' = i + 1
  <2>3. ASSUME Escaping, ~AtEnd, Going, st' \in Nat \ {0}, level' \in Nat, ret' \in Seq(STRING),
               level' > 0 => st' < i' /\ Opens(query, st')
        PROVE  TypeInv' /\ EscapesInv'
    <3>1. query = given.text /\ parameters = <<>> /\ quoted_by = NotQuoted
      BY <2>2, <2>3
    <3>2. TypeInv'
      <4> DEFINE Texts == Seq(STRING)
      <4>1. /\ given' \in Statements /\ phase' = "escapes" /\ query' \in Seq(Tokens) /\ i' \in Nat \ {0}
            /\ parameters' \in Parameters /\ Len(parameters') <= MaxParameters /\ final'.count \in Nat
        BY <2>0, <2>1, <2>3
      <4> QED
        BY <2>3, <4>1 DEF TypeInv
    <3> QED
      BY <2>3, <3>1, <3>2 DEF EscapesInv
  <2>4. CASE OpenBrace
    <3>1. Escaping /\ ~AtEnd /\ Going /\ Opens(query, i)
      BY <2>4 DEF OpenBrace, Escaping, Skip, curr, Opens
    <3>2. level' = level + 1 /\ i' = i + 1
      BY <2>4 DEF OpenBrace, Skip
    <3>3. CASE level = 0
      <4>1. ret' = ret \o SubSeq(query, st, i - 1) /\ st' = i
        BY <2>4, <3>3 DEF OpenBrace
      <4>2. SubSeq(query, st, i - 1) \in Seq(STRING)
        BY <2>2, <3>1
      <4>3. ret' \in Seq(STRING)
        BY <2>1, <4>1, <4>2
      <4>4. st' < i' /\ Opens(query, st')
        BY <2>1, <3>1, <3>2, <4>1
      <4> HIDE DEF Going
      <4> QED
        BY <2>1, <2>3, <3>1, <3>2, <4>1, <4>3, <4>4
    <3>4. CASE level # 0
      <4>1. ret' = ret /\ st' = st
        BY <2>4, <3>4 DEF OpenBrace
      <4>2. st < i /\ Opens(query, st)
        BY <2>1, <2>2, <3>1, <3>4
      <4>3. st' < i' /\ Opens(query, st')
        BY <2>1, <3>2, <4>1, <4>2
      <4> HIDE DEF Going
      <4> QED
        BY <2>1, <2>3, <3>1, <3>2, <4>1, <4>3
    <3> QED
      BY <3>3, <3>4
  <2>5. CASE CloseBrace
    <3>1. Escaping /\ ~AtEnd /\ Going /\ level > 0
      BY <2>5 DEF CloseBrace, Escaping, Skip, curr
    <3>2. level' = level - 1 /\ i' = i + 1
      BY <2>5 DEF CloseBrace, Skip
    <3>3. /\ query = given.text /\ i \in 1 .. Len(query) /\ st < i /\ Opens(query, st)
      BY <2>2, <3>1
    <3>4. CASE level = 1
      <4>1. ret' = ret \o RewriteEscape(SubSeq(query, st, i)) /\ st' = i + 1
        BY <2>5, <3>4 DEF CloseBrace
      <4>2. RewriteEscape(SubSeq(query, st, i)) \in Seq(STRING)
        <5>1. st \in DOMAIN given.text /\ i \in DOMAIN given.text
          BY <2>1, <3>3
        <5>2. given.text[st] = "{" /\ given.text[i] = "}" /\ st < i
          BY <2>5, <3>3 DEF CloseBrace, curr, Opens
        <5>3. RewriteEscape(SubSeq(given.text, st, i)) \in Seq(STRING)
          BY <2>0, <5>1, <5>2, RewriterAssumption
        <5> QED
          BY <3>3, <5>3
      <4>3. ret' \in Seq(STRING)
        BY <2>1, <4>1, <4>2
      <4>4. ~(level' > 0) /\ level' \in Nat /\ st' \in Nat \ {0}
        BY <2>1, <3>2, <3>4, <4>1
      <4> HIDE DEF Going
      <4> QED
        BY <2>3, <3>1, <4>3, <4>4
    <3>5. CASE level # 1
      <4>1. ret' = ret /\ st' = st
        BY <2>5, <3>5 DEF CloseBrace
      <4>2. st' < i' /\ Opens(query, st') /\ level' \in Nat
        BY <2>1, <3>1, <3>2, <3>3, <4>1
      <4> HIDE DEF Going
      <4> QED
        BY <2>1, <2>3, <3>1, <4>1, <4>2
    <3> QED
      BY <3>4, <3>5
  <2>6. CASE NoBrace
    <3>1. Escaping /\ ~AtEnd /\ Going /\ i' = i + 1
      BY <2>6 DEF NoBrace, Escaping, Skip
    <3>2. ret' = ret /\ st' = st /\ level' = level
      BY <2>6 DEF NoBrace
    <3>3. level' > 0 => st' < i' /\ Opens(query, st')
      BY <2>1, <2>2, <3>1, <3>2
    <3> HIDE DEF Going
    <3> QED
      BY <2>1, <2>3, <3>1, <3>2, <3>3
  <2>7. ASSUME NEW result \in Seq(STRING), Escaping, Replaced(result)
        PROVE  TypeInv' /\ EscapesInv'
    <3>1. result \in Seq(Tokens)
      BY TokensHoldTexts
    <3>2. /\ ret' = result /\ query' = result /\ phase' = "markers" /\ i' = 1 /\ st' = st /\ level' = level
          /\ given' = given /\ parameters' = parameters /\ final' = final
      BY <2>7 DEF Replaced, Escaping
    <3>3. /\ given' \in Statements /\ parameters' \in Parameters /\ Len(parameters') <= MaxParameters
          /\ final'.count \in Nat
      BY <2>0, <3>2
    <3>4. /\ phase' = "markers" /\ query' \in Seq(Tokens) /\ ret' \in Seq(STRING) /\ i' \in Nat \ {0}
          /\ st' \in Nat \ {0} /\ level' \in Nat
      BY <2>1, <3>1, <3>2
    <3> QED
      BY <3>3, <3>4 DEF TypeInv, EscapesInv
  <2>8. CASE UnexpectedBrace
    <3>1. Escaping /\ ~AtEnd /\ Replaced(query)
      BY <2>8 DEF UnexpectedBrace
    <3>2. query \in Seq(STRING)
      BY <2>2, <3>1
    <3> QED
      BY <2>7, <3>1, <3>2
  <2>9. CASE EscapesEnd
    <3>1. Escaping /\ Replaced(ret \o SubSeq(query, st, Len(query)))
      BY <2>9 DEF EscapesEnd
    <3>2. query \in Seq(STRING)
      BY <2>1, <3>1 DEF EscapesInv, Escaping
    <3>3. SubSeq(query, st, Len(query)) \in Seq(STRING)
      BY <2>1, <3>2
    <3>4. ret \o SubSeq(query, st, Len(query)) \in Seq(STRING)
      BY <2>1, <3>3
    <3> QED
      BY <2>7, <3>1, <3>4
  <2>10. ASSUME given' = given, phase' \in {"markers", "refused", "final"},
                query' \in Seq(Tokens), i' \in Nat \ {0}, st' = st, level' = level, ret' = ret,
                parameters' \in Parameters, Len(parameters') <= MaxParameters, final'.count \in Nat
         PROVE  TypeInv' /\ EscapesInv'
    BY <2>0, <2>1, <2>10 DEF TypeInv, EscapesInv
  <2>11. ASSUME Extracting, query' = query, parameters' = parameters, i' \in Nat \ {0},
                phase' \in {"markers", "refused"}
         PROVE  TypeInv' /\ EscapesInv'
    <3>1. given' = given /\ ret' = ret /\ st' = st /\ level' = level /\ final' = final
      BY <2>11 DEF Extracting
    <3> QED
      BY <2>0, <2>1, <2>10, <2>11, <3>1
  <2>12. CASE Backslash
    <3>1. Extracting /\ query' = query /\ parameters' = parameters /\ i' = i + 2 /\ phase' = phase
      BY <2>12 DEF Backslash, Skip
    <3> QED
      BY <2>1, <2>11, <3>1 DEF Extracting
  <2>13. CASE OpenQuote
    <3>1. Extracting /\ query' = query /\ parameters' = parameters /\ i' = i + 1 /\ phase' = phase
      BY <2>13 DEF OpenQuote, Skip
    <3> QED
      BY <2>1, <2>11, <3>1 DEF Extracting
  <2>14. CASE DoubledQuote
    <3>1. Extracting /\ query' = query /\ parameters' = parameters /\ i' = i + 2 /\ phase' = phase
      BY <2>14 DEF DoubledQuote, Skip
    <3> QED
      BY <2>1, <2>11, <3>1 DEF Extracting
  <2>15. CASE CloseQuote
    <3>1. Extracting /\ query' = query /\ parameters' = parameters /\ i' = i + 1 /\ phase' = phase
      BY <2>15 DEF CloseQuote, Skip
    <3> QED
      BY <2>1, <2>11, <3>1 DEF Extracting
  <2>16. CASE OtherCharacter
    <3>1. Extracting /\ query' = query /\ parameters' = parameters /\ i' = i + 1 /\ phase' = phase
      BY <2>16 DEF OtherCharacter, Skip
    <3> QED
      BY <2>1, <2>11, <3>1 DEF Extracting
  <2>17. CASE NamelessMarker
    <3>1. Extracting /\ query' = query /\ parameters' = parameters /\ i' = i /\ phase' = "refused"
      BY <2>17 DEF NamelessMarker, Unquoted
    <3> QED
      BY <2>1, <2>11, <3>1
  <2>18. ASSUME NEW nm \in Seq(Tokens), NEW l \in Nat, Unquoted, AddParameter(nm, l)
         PROVE  TypeInv' /\ EscapesInv'
    <3> DEFINE x == CHOOSE p \in Fresh : TRUE
    <3>1. x \in Placeholders
      BY <2>18 DEF AddParameter, Fresh
    <3> HIDE DEF x
    <3>2. /\ query' = SubSeq(query, 1, i - 1) \o <<x>> \o SubSeq(query, i + l, Len(query))
          /\ parameters' = Append(parameters, [name |-> nm, tmp_placeholder |-> x])
          /\ i' = i + 1 /\ phase' = phase /\ Len(parameters) < MaxParameters
      BY <2>18 DEF AddParameter, Skip, x
    <3>3. i \in 1 .. Len(query)
      BY <2>1, <2>18 DEF Unquoted, AtEnd
    <3>4. query' \in Seq(Tokens)
      <4>1. x \in Tokens
        BY <3>1, Zenon DEF Tokens
      <4> HIDE DEF Tokens
      <4>2. SubSeq(query, 1, i - 1) \in Seq(Tokens) /\ SubSeq(query, i + l, Len(query)) \in Seq(Tokens)
        BY <2>1, <3>3
      <4>3. <<x>> \in Seq(Tokens)
        BY <4>1
      <4> DEFINE A == SubSeq(query, 1, i - 1)
                 B == SubSeq(query, i + l, Len(query))
      <4> HIDE DEF A, B
      <4>4. A \o <<x>> \o B \in Seq(Tokens)
        BY <4>2, <4>3 DEF A, B
      <4> QED
        BY <3>2, <4>4 DEF A, B
    <3>5. parameters' \in Parameters /\ Len(parameters') <= MaxParameters
      <4> DEFINE Names == Seq(Tokens)
                 Each == [name : Names, tmp_placeholder : Placeholders]
                 e == [name |-> nm, tmp_placeholder |-> x]
      <4>1. nm \in Names
        OBVIOUS
      <4>2. parameters \in Seq(Each)
        BY <2>0 DEF Parameters
      <4> HIDE DEF Names
      <4>3. e \in Each
        BY <3>1, <4>1
      <4> HIDE DEF Each, e
      <4>4. Append(parameters, e) \in Seq(Each) /\ Len(Append(parameters, e)) = Len(parameters) + 1
            /\ Len(parameters) \in Nat
        BY <4>2, <4>3
      <4>5. Len(parameters) + 1 <= MaxParameters
        <5>1. MaxParameters \in Nat /\ Len(parameters) < MaxParameters
          BY <3>2, TextsAssumption
        <5> QED
          BY <4>4, <5>1
      <4> QED
        BY <3>2, <4>4, <4>5 DEF Parameters, Names, Each, e
    <3>6. given' = given /\ ret' = ret /\ st' = st /\ level' = level /\ final' = final /\ phase = "markers"
      BY <2>18 DEF Unquoted, Extracting
    <3> QED
      BY <2>0, <2>1, <2>10, <3>2, <3>4, <3>5, <3>6
  <2>19. CASE QuestionMark
    <3>1. Unquoted /\ AddParameter(<<>>, 1)
      BY <2>19 DEF QuestionMark
    <3>2. <<>> \in Seq(Tokens)
      BY Concatenated
    <3> QED
      BY <2>18, <3>1, <3>2
  <2>20. CASE NamedMarker
    <3>1. Unquoted /\ AddParameter(NameAt(query, i), NameLength(query, i))
      BY <2>20 DEF NamedMarker
    <3>2. i \in 1 .. Len(query)
      BY <2>1, <3>1 DEF Unquoted, AtEnd
    <3>3. NameAt(query, i) \in Seq(Tokens) /\ NameLength(query, i) \in Nat
      <4>1. NameLength(query, i) \in 1 .. Len(query) - i + 1
        BY <2>1, <3>2, NameCharacters
      <4>2. NameAt(query, i) \in Seq(Tokens)
        BY <2>1, <3>2, NameTyped
      <4> QED
        BY <4>1, <4>2
    <3> QED
      BY <2>18, <3>1, <3>3
  <2>21. CASE MarkersEnd
    <3>1. /\ given' = given /\ phase' = "final" /\ query' = query /\ i' = i /\ st' = st /\ level' = level
          /\ ret' = ret /\ parameters' = parameters /\ final'.count = 0
      BY <2>21 DEF MarkersEnd
    <3> QED
      BY <2>0, <2>1, <2>10, <3>1
  <2>22. CASE SubstituteParameter
    <3>1. /\ given' = given /\ phase' = "final" /\ query' = query /\ i' = i /\ st' = st /\ level' = level
          /\ ret' = ret /\ parameters' = parameters /\ final'.count = final.count + 1
      BY <2>22 DEF SubstituteParameter
    <3> QED
      BY <2>0, <2>1, <2>10, <3>1
  <2>23. CASE UNCHANGED vars
    BY <2>23 DEF vars, TypeInv, EscapesInv
  <2> QED
    BY <2>4, <2>5, <2>6, <2>8, <2>9, <2>12, <2>13, <2>14, <2>15, <2>16, <2>17, <2>19, <2>20, <2>21,
       <2>22, <2>23 DEF Next
<1> QED
  BY <1>1, <1>2, PTL DEF Spec

-----------------------------------------------------------------------------
(* Each step of the scanner, in the terms of the text it began with        *)

LEMMA ScannedOpener ==
  ASSUME NEW R \in Seq(STRING), NEW t, NEW j, NEW o, NEW P, NEW p, Scanned(R, t, j, o, P, p),
         p <= Len(R)
  PROVE  /\ p \in 1 .. Len(R) /\ Len(R) \in Nat /\ R[p] \in STRING
         /\ o = Opener(R)[p - 1] /\ ~Escaped(R, p)
         /\ p \in Markers(R) <=> R[p] \in {"?", "@"} /\ o = NotQuoted
         /\ Opener(R)[p] = IF R[p] \notin Quotes THEN o
                           ELSE IF o = NotQuoted THEN R[p]
                           ELSE IF o = R[p] THEN NotQuoted ELSE o
<1>1. p \in 1 .. Len(R) /\ Len(R) \in Nat /\ o = Opener(R)[p - 1] /\ ~Escaped(R, p)
  BY DEF Scanned, Copied
<1>2. R[p] \in STRING
  BY <1>1
<1>3. p \in Markers(R) <=> R[p] \in {"?", "@"} /\ o = NotQuoted
  BY <1>1 DEF Markers
<1>4. Opener(R)[p] = IF R[p] \notin Quotes THEN o
                     ELSE IF o = NotQuoted THEN R[p]
                     ELSE IF o = R[p] THEN NotQuoted ELSE o
  <2> DEFINE O == Opener(R)
  <2>1. O[p] = CASE R[p] \notin Quotes \/ Escaped(R, p) -> O[p - 1]
                 [] OTHER -> CASE O[p - 1] = NotQuoted -> R[p]
                               [] O[p - 1] = R[p]   -> NotQuoted
                               [] OTHER                -> O[p - 1]
    BY <1>1, OpenerNext
  <2> HIDE DEF O
  <2>2. o = O[p - 1]
    BY <1>1 DEF O
  <2>3. O[p] = IF R[p] \notin Quotes THEN o
               ELSE IF o = NotQuoted THEN R[p]
               ELSE IF o = R[p] THEN NotQuoted ELSE o
    BY <1>1, <2>1, <2>2
  <2> QED
    BY <2>3 DEF O
<1> QED
  BY <1>1, <1>2, <1>3, <1>4

\* No marker, no backslash.
LEMMA CharacterScanned ==
  ASSUME NEW R \in Seq(STRING), NEW t, NEW j, NEW o, NEW P \in Parameters, NEW p,
         Scanned(R, t, j, o, P, p), p <= Len(R), p \notin Markers(R), R[p] # "\\"
  PROVE  Scanned(R, t, j + 1, Opener(R)[p], P, p + 1)
<1>1. p \in 1 .. Len(R) /\ ~Escaped(R, p) /\ (p + 1) - 1 = p /\ p \in Nat \ {0}
  BY ScannedOpener
<1>2. Copied(R, t, j + 1, P, p + 1)
  BY OnePassed DEF Scanned
<1>3. ~Escaped(R, p + 1)
  BY <1>1, EscapedNext
<1> QED
  BY <1>1, <1>2, <1>3 DEF Scanned

LEMMA CopiedToTheEnd ==
  ASSUME NEW R \in Seq(STRING), NEW t, NEW j, NEW P \in Parameters, Copied(R, t, j, P, Len(R) + 1)
  PROVE  Whole(R, t, P)
<1> DEFINE A == TextUpTo(R, Held(R, P), Len(R))
           n == Len(R)
<1>1. n \in Nat /\ (n + 1) - 1 = n
  OBVIOUS
<1>2. t = TextUpTo(R, Held(R, P), (n + 1) - 1) \o SubSeq(R, n + 1, n) /\ Listed(R, P, (n + 1) - 1)
  BY DEF Copied
<1>3. t = A \o SubSeq(R, n + 1, n) /\ Listed(R, P, n)
  <2> HIDE DEF n
  <2>1. A = TextUpTo(R, Held(R, P), n)
    BY DEF n
  <2> HIDE DEF A
  <2> QED
    BY <1>1, <1>2, <2>1
<1>4. SubSeq(R, n + 1, n) = <<>>
  BY <1>1
<1>5. A \in Seq(Tokens)
  <2>1. n \in Int /\ n \in 0 .. n
    BY <1>1
  <2>2. Given(R, Held(R, P), n, Tokens)
    BY <1>3, <2>1, HeldTyped
  <2> QED
    BY <2>1, <2>2, TextTyped, TokensHoldTexts
<1>6. A \o <<>> = A
  BY <1>5, Concatenated
<1> QED
  BY <1>3, <1>4, <1>6 DEF Whole

\* A backslash and the character after it.
LEMMA BackslashScanned ==
  ASSUME NEW R \in Seq(STRING), NEW t, NEW j, NEW o, NEW P \in Parameters, NEW p,
         Scanned(R, t, j, o, P, p), p <= Len(R), R[p] = "\\"
  PROVE  IF p = Len(R) THEN Whole(R, t, P) ELSE Scanned(R, t, j + 2, o, P, p + 2)
<1>1. /\ p \in 1 .. Len(R) /\ Len(R) \in Nat /\ p \in Nat \ {0} /\ ~Escaped(R, p)
      /\ p \notin Markers(R) /\ Opener(R)[p] = o
  <2>1. R[p] \notin {"?", "@"} /\ R[p] \notin Quotes
    BY DEF Quotes
  <2> QED
    BY <2>1, ScannedOpener
<1>2. Copied(R, t, j + 1, P, p + 1)
  BY <1>1, OnePassed DEF Scanned
<1>3. Escaped(R, p + 1)
  BY <1>1, EscapedNext
<1>4. CASE p = Len(R)
  BY <1>2, <1>4, CopiedToTheEnd
<1>5. CASE p # Len(R)
  <2> DEFINE r == p + 1
  <2>1. r \in 1 .. Len(R) /\ r - 1 = p /\ r + 1 = p + 2 /\ (r + 1) - 1 = r /\ r \in Nat \ {0}
    BY <1>1, <1>5
  <2>2. Copied(R, t, j + 1, P, r) /\ Escaped(R, r)
    BY <1>2, <1>3
  <2> HIDE DEF r
  <2>3. r \notin Markers(R)
    BY <2>2 DEF Markers
  <2>4. Copied(R, t, (j + 1) + 1, P, r + 1)
    <3>1. r <= Len(R)
      BY <2>1
    <3> DEFINE j1 == j + 1
    <3>2. Copied(R, t, j1, P, r)
      BY <2>2
    <3> HIDE DEF j1
    <3>3. Copied(R, t, j1 + 1, P, r + 1)
      BY <2>3, <3>1, <3>2, OnePassed
    <3> QED
      BY <3>3 DEF j1
  <2>5. ~Escaped(R, r + 1)
    BY <2>1, <2>2, EscapedNext
  <2>6. Opener(R)[r] = o
    <3> DEFINE O == Opener(R)
    <3>1. O[r] = CASE R[r] \notin Quotes \/ Escaped(R, r) -> O[r - 1]
                   [] OTHER -> CASE O[r - 1] = NotQuoted -> R[r]
                                 [] O[r - 1] = R[r]   -> NotQuoted
                                 [] OTHER                -> O[r - 1]
      BY <2>1, OpenerNext
    <3>2. O[p] = o
      BY <1>1
    <3> HIDE DEF O
    <3>3. O[r] = o
      BY <2>1, <2>2, <3>1, <3>2
    <3> QED
      BY <3>3 DEF O
  <2>7. (j + 1) + 1 = j + 2
    BY DEF Scanned, Copied
  <2> QED
    BY <1>5, <2>1, <2>4, <2>5, <2>6, <2>7 DEF Scanned
<1> QED
  BY <1>4, <1>5

LEMMA QuoteOpened ==
  ASSUME NEW R \in Seq(STRING), NEW t, NEW j, NEW o, NEW P \in Parameters, NEW p,
         Scanned(R, t, j, o, P, p), p <= Len(R), R[p] \in Quotes, o # R[p], PlainQuotes(R)
  PROVE  Scanned(R, t, j + 1, R[p], P, p + 1)
<1>1. p \notin Markers(R) /\ R[p] # "\\" /\ p \in DOMAIN R
  <2>1. R[p] \notin {"?", "@"} /\ R[p] # "\\"
    BY DEF Quotes
  <2>2. p \in 1 .. Len(R) /\ p \notin Markers(R)
    BY <2>1, ScannedOpener
  <2>3. p \in DOMAIN R
    BY <2>2
  <2> QED
    BY <2>1, <2>2, <2>3
<1>2. o = NotQuoted
  BY <1>1, ScannedOpener DEF PlainQuotes
<1>3. Opener(R)[p] = R[p]
  BY <1>2, ScannedOpener
<1>4. Scanned(R, t, j + 1, Opener(R)[p], P, p + 1)
  BY <1>1, CharacterScanned
<1> QED
  BY <1>3, <1>4

LEMMA QuoteClosed ==
  ASSUME NEW R \in Seq(STRING), NEW t, NEW j, NEW o, NEW P \in Parameters, NEW p,
         Scanned(R, t, j, o, P, p), p <= Len(R), R[p] \in Quotes, o = R[p]
  PROVE  Scanned(R, t, j + 1, NotQuoted, P, p + 1)
<1>1. p \notin Markers(R) /\ R[p] # "\\" /\ o # NotQuoted
  BY ScannedOpener DEF Quotes, NotQuoted
<1>2. Opener(R)[p] = NotQuoted
  BY <1>1, ScannedOpener
<1>3. Scanned(R, t, j + 1, Opener(R)[p], P, p + 1)
  BY <1>1, CharacterScanned
<1> QED
  BY <1>2, <1>3

LEMMA QuoteDoubled ==
  ASSUME NEW R \in Seq(STRING), NEW t, NEW j, NEW o, NEW P \in Parameters, NEW p,
         Scanned(R, t, j, o, P, p), p < Len(R), R[p] \in Quotes, o = R[p], R[p + 1] = R[p]
  PROVE  Scanned(R, t, j + 2, o, P, p + 2)
<1>1. p \in 1 .. Len(R) /\ Len(R) \in Nat /\ p <= Len(R) /\ p + 1 <= Len(R) /\ (p + 1) + 1 = p + 2
  BY DEF Scanned, Copied
<1>2. Scanned(R, t, j + 1, NotQuoted, P, p + 1)
  BY <1>1, QuoteClosed
<1> DEFINE r == p + 1
<1>3. /\ Scanned(R, t, j + 1, NotQuoted, P, r) /\ r <= Len(R) /\ R[r] \in Quotes /\ R[r] = o
      /\ r + 1 = p + 2
  BY <1>1, <1>2
<1> HIDE DEF r
<1>4. r \notin Markers(R) /\ R[r] # "\\"
  BY <1>3, ScannedOpener DEF Quotes
<1>5. Opener(R)[r] = o
  BY <1>3, ScannedOpener
<1>6. Scanned(R, t, (j + 1) + 1, Opener(R)[r], P, r + 1)
  BY <1>3, <1>4, CharacterScanned
<1>7. (j + 1) + 1 = j + 2
  BY DEF Scanned, Copied
<1> QED
  BY <1>3, <1>5, <1>6, <1>7

LEMMA OtherScanned ==
  ASSUME NEW R \in Seq(STRING), NEW t, NEW j, NEW o, NEW P \in Parameters, NEW p,
         Scanned(R, t, j, o, P, p), p <= Len(R), R[p] \notin Quotes, R[p] # "\\",
         R[p] \in {"?", "@"} => o # NotQuoted
  PROVE  Scanned(R, t, j + 1, o, P, p + 1)
<1>1. p \notin Markers(R) /\ Opener(R)[p] = o
  BY ScannedOpener
<1>2. Scanned(R, t, j + 1, Opener(R)[p], P, p + 1)
  BY <1>1, CharacterScanned
<1> QED
  BY <1>1, <1>2

LEMMA MarkerScanned ==
  ASSUME NEW R \in Seq(STRING), NEW t, NEW j, NEW o, NEW P \in Parameters, NEW p,
         Scanned(R, t, j, o, P, p), p <= Len(R), R[p] \in {"?", "@"}, o = NotQuoted,
         NEW x \in Placeholders
  PROVE  LET l == MarkerLength(R, p)
             Q == Append(P, [name |-> NameIn(R, p), tmp_placeholder |-> x])
         IN  Scanned(R, SubSeq(t, 1, j - 1) \o <<x>> \o SubSeq(t, j + l, Len(t)), j + 1, o, Q, p + l)
<1> DEFINE l == MarkerLength(R, p)
           Q == Append(P, [name |-> NameIn(R, p), tmp_placeholder |-> x])
           u == SubSeq(t, 1, j - 1) \o <<x>> \o SubSeq(t, j + l, Len(t))
<1>1. /\ p \in Markers(R) /\ p \in 1 .. Len(R) /\ Len(R) \in Nat /\ ~Escaped(R, p)
      /\ R[p] \notin Quotes /\ R[p] # "\\" /\ Opener(R)[p] = o
  <2>1. R[p] \notin Quotes /\ R[p] # "\\"
    BY DEF Quotes
  <2> QED
    BY <2>1, ScannedOpener
<1>2. Copied(R, u, j + 1, Q, p + l)
  BY <1>1, OneHeld DEF Scanned
<1> HIDE DEF Q, u
<1>3. ~InName(R, p)
  BY DEF Scanned, Copied
<1>4. /\ l \in 1 .. Len(R) - p + 1
      /\ \A k \in 1 .. l - 1 : p + k \in 1 .. Len(R) /\ R[p + k] \notin Quotes /\ R[p + k] # "\\"
  BY <1>1, <1>3, MarkerLengthRange
<1> HIDE DEF l
<1> DEFINE c == l - 1
<1>5. c \in Nat /\ p + c <= Len(R) /\ p + c \in Nat \ {0} /\ (p + c) + 1 = p + l /\ (p + l) - 1 = p + c
  BY <1>1, <1>4
<1>6. \A k \in 1 .. c : R[p + k] \notin Quotes
  BY <1>4
<1>7. R[p + c] # "\\"
  <2>1. CASE c = 0
    <3>1. p + c = p
      BY <1>1, <2>1
    <3> QED
      BY <1>1, <3>1
  <2>2. CASE c # 0
    <3>1. c \in 1 .. l - 1
      BY <1>4, <1>5, <2>2
    <3> QED
      BY <1>4, <3>1
  <2> QED
    BY <2>1, <2>2
<1> HIDE DEF c
<1>8. Opener(R)[p + c] = o
  <2>1. p \in 0 .. Len(R)
    BY <1>1
  <2>2. Opener(R)[p + c] = Opener(R)[p]
    BY <1>5, <1>6, <2>1, OpenerStays
  <2> QED
    BY <1>1, <2>2
<1>9. ~Escaped(R, p + l)
  <2> DEFINE r == p + c
  <2>1. r \in Nat \ {0} /\ R[r] # "\\" /\ r + 1 = p + l
    BY <1>5, <1>7
  <2> HIDE DEF r
  <2> QED
    BY <2>1, EscapedNext
<1>10. Scanned(R, u, j + 1, o, Q, p + l)
  BY <1>2, <1>5, <1>8, <1>9 DEF Scanned
<1> QED
  BY <1>10 DEF l, Q, u

-----------------------------------------------------------------------------
(* The invariant of the scanner                                            *)

LEMMA ScannedFirst ==
  ASSUME NEW R \in Seq(STRING)
  PROVE  Scanned(R, R, 1, NotQuoted, <<>>, 1)
<1> DEFINE n == Len(R)
           A == TextUpTo(R, Held(R, <<>>), 1 - 1)
<1>1. n \in Nat /\ 1 \in 1 .. n + 1 /\ 1 - 1 = 0
  OBVIOUS
<1>2. A = <<>>
  BY <1>1, TextFirst
<1>3. R = A \o SubSeq(R, 1, n)
  <2>1. SubSeq(R, 1, n) = [k \in 1 .. n |-> R[k]] /\ R = [k \in 1 .. n |-> R[k]]
    BY <1>1
  <2>2. <<>> \o R = R
    BY Concatenated
  <2> QED
    BY <1>2, <2>1, <2>2
<1>4. Len(A) + 1 = 1
  <2>1. Len(<<>>) = 0
    OBVIOUS
  <2> QED
    BY <1>2, <2>1
<1>5. Listed(R, <<>>, 1 - 1)
  <2>1. Len(<<>>) = 0 /\ \A q \in Markers(R) : ~(q <= 0)
    BY MarkerSort
  <2> QED
    BY <1>1, <2>1, CountFirst DEF Listed
<1> HIDE DEF A
<1>6. Copied(R, R, 1, <<>>, 1)
  BY <1>1, <1>3, <1>4, <1>5, NotInNameFirst DEF Copied, A, n
<1>7. NotQuoted = Opener(R)[1 - 1]
  BY <1>1, OpenerNext
<1> QED
  BY <1>6, <1>7, EscapedFirst DEF Scanned

LEMMA ScannerPlace ==
  ASSUME TypeInv, NEW p, Scanned(ret, query, i, quoted_by, parameters, p)
  PROVE  /\ ret \in Seq(STRING) /\ parameters \in Parameters /\ p \in 1 .. Len(ret) + 1
         /\ AtEnd <=> p = Len(ret) + 1
         /\ p <= Len(ret) =>
              /\ query[i] = ret[p]
              /\ i < Len(query) <=> p < Len(ret)
              /\ p < Len(ret) => query[i + 1] = ret[p + 1]
              /\ NameLength(query, i) = NameLength(ret, p) /\ NameAt(query, i) = NameAt(ret, p)
<1> DEFINE n == Len(ret)
           A == TextUpTo(ret, Held(ret, parameters), p - 1)
<1>1. ret \in Seq(STRING) /\ parameters \in Parameters /\ ret \in Seq(Tokens)
  BY TokensHoldTexts DEF TypeInv
<1>2. Sees(ret, A, query, i, p)
  BY <1>1, Ahead DEF Scanned
<1>3. /\ query \in Seq(Tokens) /\ p \in 1 .. n + 1 /\ i \in 1 .. Len(query) + 1
      /\ Len(query) - i = n - p /\ n \in Nat /\ Len(query) \in Nat
      /\ \A k \in 0 .. n - p : query[i + k] = ret[p + k]
  <2>1. Len(ret) \in Nat
    BY <1>1
  <2>2. query \in Seq(Tokens)
    BY DEF TypeInv
  <2>3. Len(query) \in Nat
    BY <2>2
  <2> QED
    BY <1>2, <2>1, <2>2, <2>3 DEF Sees
<1>4. AtEnd <=> p = n + 1
  BY <1>3 DEF AtEnd
<1>5. ASSUME p <= n
      PROVE  /\ query[i] = ret[p]
             /\ i < Len(query) <=> p < n
             /\ p < n => query[i + 1] = ret[p + 1]
             /\ NameLength(query, i) = NameLength(ret, p) /\ NameAt(query, i) = NameAt(ret, p)
  <2>1. 0 \in 0 .. n - p /\ (p < n => 1 \in 0 .. n - p) /\ i + 0 = i /\ p + 0 = p
    BY <1>3, <1>5
  <2>2. query[i + 0] = ret[p + 0] /\ (p < n => query[i + 1] = ret[p + 1])
    BY <1>3, <2>1
  <2>3. i < Len(query) <=> p < n
    BY <1>3, <1>5
  <2>4. i \in 1 .. Len(query) /\ p \in 1 .. Len(ret)
    BY <1>3, <1>5
  <2>5. NameLength(query, i) = NameLength(ret, p) /\ NameAt(query, i) = NameAt(ret, p)
    <3>1. Alike(query, i, ret, p)
      BY <1>3 DEF Alike
    <3>2. query \in Seq(Tokens) /\ ret \in Seq(Tokens)
      BY <1>1, <1>3
    <3> HIDE DEF n
    <3> QED
      BY <2>4, <3>1, <3>2, NameSame
  <2> QED
    BY <2>1, <2>2, <2>3, <2>5
<1> HIDE DEF n
<1>6. p \in 1 .. n + 1
  BY <1>3
<1> QED
  BY <1>1, <1>4, <1>5, <1>6 DEF n

LEMMA ScannerNext ==
  ASSUME TypeInv, TypeInv', EscapesInv, ScannerInv, RefusedInv, [Next]_vars
  PROVE  ScannerInv' /\ RefusedInv'
<1> DEFINE At(p) == Scanned(ret, query, i, quoted_by, parameters, p)
<1>1. ASSUME Extracting, ~AtEnd, PlainQuotes(ret)
      PROVE  \E p : /\ At(p) /\ p \in 1 .. Len(ret) /\ p <= Len(ret)
                    /\ query[i] = ret[p]
  <2>1. PICK p : At(p)
    BY <1>1 DEF ScannerInv, Extracting
  <2>2. /\ p \in 1 .. Len(ret) + 1 /\ p # Len(ret) + 1 /\ Len(ret) \in Nat
    <3>1. Len(ret) \in Nat
      BY DEF TypeInv
    <3> QED
      BY <1>1, <2>1, <3>1, ScannerPlace
  <2>3. p \in 1 .. Len(ret) /\ p <= Len(ret)
    BY <2>2
  <2> QED
    BY <2>1, <2>3, ScannerPlace
<1>2. ASSUME Extracting, phase' = phase, NEW p,
             PlainQuotes(ret) => Scanned(ret, query', i', quoted_by', parameters', p)
      PROVE  ScannerInv' /\ RefusedInv'
  <2>1. ret' = ret /\ phase' = "markers"
    BY <1>2 DEF Extracting
  <2>2. ASSUME PlainQuotes(ret) PROVE p \in 1 .. Len(ret) + 1
    BY <1>2, <2>2 DEF Scanned, Copied
  <2> QED
    BY <1>2, <2>1, <2>2 DEF ScannerInv, RefusedInv
<1>3. ASSUME Escaping, phase' = phase PROVE ScannerInv' /\ RefusedInv'
  BY <1>3 DEF ScannerInv, RefusedInv, Escaping
<1>4. ASSUME NEW result, Escaping, Replaced(result) PROVE ScannerInv' /\ RefusedInv'
  <2>1. /\ ret' = result /\ query' = result /\ phase' = "markers" /\ i' = 1
        /\ quoted_by' = NotQuoted /\ parameters' = <<>>
    BY <1>4 DEF Replaced, Escaping, EscapesInv
  <2>2. result \in Seq(STRING)
    BY <2>1 DEF TypeInv
  <2>3. Scanned(ret', query', i', quoted_by', parameters', 1)
    BY <2>1, <2>2, ScannedFirst
  <2>4. 1 \in 1 .. Len(ret') + 1
    BY <2>1, <2>2
  <2> QED
    BY <2>1, <2>3, <2>4 DEF ScannerInv, RefusedInv
<1>5. CASE OpenBrace \/ CloseBrace \/ NoBrace
  BY <1>3, <1>5 DEF OpenBrace, CloseBrace, NoBrace
<1>6. CASE UnexpectedBrace \/ EscapesEnd
  BY <1>4, <1>6 DEF UnexpectedBrace, EscapesEnd
<1>7. CASE Backslash
  <2> SUFFICES ASSUME PlainQuotes(ret) PROVE ScannerInv' /\ RefusedInv'
    <3>1. phase' = "markers" /\ ret' = ret
      BY <1>7 DEF Backslash, Extracting
    <3> QED
      BY <3>1 DEF ScannerInv, RefusedInv
  <2>1. /\ Extracting /\ ~AtEnd /\ query[i] = "\\" /\ i' = i + 2 /\ query' = query /\ phase' = phase
        /\ quoted_by' = quoted_by /\ parameters' = parameters /\ ret' = ret
    BY <1>7 DEF Backslash, Skip, curr, Extracting
  <2>2. PICK p : /\ At(p) /\ p \in 1 .. Len(ret) /\ p <= Len(ret) /\ query[i] = ret[p]
    BY <1>1, <2>1
  <2>3. ret \in Seq(STRING) /\ parameters \in Parameters
    BY DEF TypeInv
  <2>4. ret[p] = "\\"
    BY <2>1, <2>2
  <2>5. IF p = Len(ret) THEN Whole(ret, query, parameters)
        ELSE Scanned(ret, query, i + 2, quoted_by, parameters, p + 2)
    BY <2>2, <2>3, <2>4, BackslashScanned
  <2>6. CASE p = Len(ret)
    <3>1. Whole(ret', query', parameters') /\ AtEnd'
      <4>1. i' > Len(query')
        <5>1. Len(query) \in Nat /\ i \in Nat /\ Len(ret) \in Nat
          BY DEF TypeInv
        <5>2. ~(i < Len(query))
          BY <2>2, <2>6, <5>1, ScannerPlace
        <5> QED
          BY <2>1, <5>1, <5>2
      <4> QED
        BY <2>1, <2>5, <2>6, <4>1 DEF AtEnd
    <3>2. phase' = "markers"
      BY <2>1 DEF Extracting
    <3> QED
      BY <3>1, <3>2 DEF ScannerInv, RefusedInv
  <2>7. CASE p # Len(ret)
    BY <1>2, <2>1, <2>5, <2>7
  <2> QED
    BY <2>6, <2>7
<1>8. CASE OpenQuote
  <2>1. /\ Extracting /\ ~AtEnd /\ query[i] \in Quotes /\ quoted_by # query[i] /\ quoted_by' = query[i]
        /\ i' = i + 1 /\ query' = query /\ phase' = phase /\ parameters' = parameters
    BY <1>8 DEF OpenQuote, Skip, curr
  <2>2. CASE PlainQuotes(ret)
    <3>1. PICK p : /\ At(p) /\ p \in 1 .. Len(ret) /\ p <= Len(ret) /\ query[i] = ret[p]
      BY <1>1, <2>1, <2>2
    <3>2. ret \in Seq(STRING) /\ parameters \in Parameters
      BY DEF TypeInv
    <3>3. ret[p] \in Quotes /\ quoted_by # ret[p]
      BY <2>1, <3>1
    <3>4. Scanned(ret, query, i + 1, ret[p], parameters, p + 1)
      BY <2>2, <3>1, <3>2, <3>3, QuoteOpened
    <3> QED
      BY <1>2, <2>1, <3>1, <3>4
  <2> QED
    BY <1>2, <2>1, <2>2
<1>9. CASE DoubledQuote
  <2>1. /\ Extracting /\ ~AtEnd /\ query[i] \in Quotes /\ quoted_by = query[i] /\ quoted_by' = quoted_by
        /\ i < Len(query) /\ query[i + 1] = query[i]
        /\ i' = i + 2 /\ query' = query /\ phase' = phase /\ parameters' = parameters
    BY <1>9 DEF DoubledQuote, Skip, curr
  <2>2. CASE PlainQuotes(ret)
    <3>1. PICK p : /\ At(p) /\ p \in 1 .. Len(ret) /\ p <= Len(ret) /\ query[i] = ret[p]
      BY <1>1, <2>1, <2>2
    <3>2. ret \in Seq(STRING) /\ parameters \in Parameters
      BY DEF TypeInv
    <3>3. p < Len(ret) /\ ret[p + 1] = query[i + 1]
      BY <2>1, <3>1, ScannerPlace
    <3>4. ret[p] \in Quotes /\ quoted_by = ret[p] /\ ret[p + 1] = ret[p]
      BY <2>1, <3>1, <3>3
    <3>5. Scanned(ret, query, i + 2, quoted_by, parameters, p + 2)
      BY <3>1, <3>2, <3>3, <3>4, QuoteDoubled
    <3> QED
      BY <1>2, <2>1, <3>5
  <2> QED
    BY <1>2, <2>1, <2>2
<1>10. CASE CloseQuote
  <2>1. /\ Extracting /\ ~AtEnd /\ query[i] \in Quotes /\ quoted_by = query[i] /\ quoted_by' = NotQuoted
        /\ i' = i + 1 /\ query' = query /\ phase' = phase /\ parameters' = parameters
    BY <1>10 DEF CloseQuote, Skip, curr
  <2>2. CASE PlainQuotes(ret)
    <3>1. PICK p : /\ At(p) /\ p \in 1 .. Len(ret) /\ p <= Len(ret) /\ query[i] = ret[p]
      BY <1>1, <2>1, <2>2
    <3>2. ret \in Seq(STRING) /\ parameters \in Parameters
      BY DEF TypeInv
    <3>3. ret[p] \in Quotes /\ quoted_by = ret[p]
      BY <2>1, <3>1
    <3>4. Scanned(ret, query, i + 1, NotQuoted, parameters, p + 1)
      BY <3>1, <3>2, <3>3, QuoteClosed
    <3> QED
      BY <1>2, <2>1, <3>4
  <2> QED
    BY <1>2, <2>1, <2>2
<1>11. CASE OtherCharacter
  <2>1. /\ Extracting /\ ~AtEnd /\ query[i] \notin Quotes /\ query[i] # "\\"
        /\ query[i] \in {"?", "@"} => quoted_by # NotQuoted
        /\ quoted_by' = quoted_by
        /\ i' = i + 1 /\ query' = query /\ phase' = phase /\ parameters' = parameters
    BY <1>11 DEF OtherCharacter, Skip, curr
  <2>2. CASE PlainQuotes(ret)
    <3>1. PICK p : /\ At(p) /\ p \in 1 .. Len(ret) /\ p <= Len(ret) /\ query[i] = ret[p]
      BY <1>1, <2>1, <2>2
    <3>2. ret \in Seq(STRING) /\ parameters \in Parameters
      BY DEF TypeInv
    <3>3. ret[p] \notin Quotes /\ ret[p] # "\\" /\ (ret[p] \in {"?", "@"} => quoted_by # NotQuoted)
      BY <2>1, <3>1
    <3>4. Scanned(ret, query, i + 1, quoted_by, parameters, p + 1)
      BY <3>1, <3>2, <3>3, OtherScanned
    <3> QED
      BY <1>2, <2>1, <3>4
  <2> QED
    BY <1>2, <2>1, <2>2
<1>12. ASSUME NEW nm, NEW l, Unquoted, AddParameter(nm, l), query[i] \in {"?", "@"},
              \A p : At(p) /\ p <= Len(ret) /\ query[i] = ret[p] =>
                       nm = NameIn(ret, p) /\ l = MarkerLength(ret, p)
       PROVE  ScannerInv' /\ RefusedInv'
  <2> DEFINE x == CHOOSE p \in Fresh : TRUE
  <2>1. x \in Placeholders
    BY <1>12 DEF AddParameter, Fresh
  <2>2. /\ query' = SubSeq(query, 1, i - 1) \o <<x>> \o SubSeq(query, i + l, Len(query))
        /\ parameters' = Append(parameters, [name |-> nm, tmp_placeholder |-> x])
        /\ i' = i + 1 /\ phase' = phase /\ quoted_by' = quoted_by
    BY <1>12 DEF AddParameter, Skip
  <2> HIDE DEF x
  <2>3. Extracting /\ ~AtEnd /\ quoted_by = NotQuoted
    BY <1>12 DEF Unquoted
  <2>4. CASE PlainQuotes(ret)
    <3>1. PICK p : /\ At(p) /\ p \in 1 .. Len(ret) /\ p <= Len(ret) /\ query[i] = ret[p]
      BY <1>1, <2>3, <2>4
    <3>2. ret \in Seq(STRING) /\ parameters \in Parameters
      BY DEF TypeInv
    <3>3. ret[p] \in {"?", "@"} /\ nm = NameIn(ret, p) /\ l = MarkerLength(ret, p)
      BY <1>12, <3>1
    <3>4. Scanned(ret, query', i', quoted_by', parameters', p + l)
      BY <2>1, <2>2, <2>3, <3>1, <3>2, <3>3, MarkerScanned
    <3> QED
      BY <1>2, <2>2, <2>3, <3>4
  <2> QED
    BY <1>2, <2>2, <2>3, <2>4
<1>13. CASE QuestionMark
  <2>1. Unquoted /\ AddParameter(<<>>, 1) /\ query[i] = "?"
    BY <1>13 DEF QuestionMark, curr
  <2>2. ASSUME NEW p, query[i] = ret[p] PROVE <<>> = NameIn(ret, p) /\ 1 = MarkerLength(ret, p)
    <3>1. ret[p] # "@"
      BY <2>1, <2>2
    <3> QED
      BY <3>1 DEF NameIn, MarkerLength
  <2> HIDE DEF At
  <2>3. query[i] \in {"?", "@"}
    BY <2>1
  <2> QED
    BY <1>12, <2>1, <2>2, <2>3
<1>14. CASE NamedMarker
  <2>1. Unquoted /\ AddParameter(NameAt(query, i), NameLength(query, i)) /\ query[i] = "@"
    BY <1>14 DEF NamedMarker, curr
  <2>2. ASSUME NEW p, At(p), p <= Len(ret), query[i] = ret[p]
        PROVE  NameAt(query, i) = NameIn(ret, p) /\ NameLength(query, i) = MarkerLength(ret, p)
    <3>1. ret[p] = "@"
      BY <2>1, <2>2
    <3>2. NameLength(query, i) = NameLength(ret, p) /\ NameAt(query, i) = NameAt(ret, p)
      BY <2>2, ScannerPlace
    <3> QED
      BY <3>1, <3>2 DEF NameIn, MarkerLength
  <2> HIDE DEF At
  <2>3. query[i] \in {"?", "@"}
    BY <2>1
  <2> QED
    BY <1>12, <2>1, <2>2, <2>3
<1>15. CASE NamelessMarker
  <2>1. /\ Extracting /\ ~AtEnd /\ quoted_by = NotQuoted /\ query[i] = "@" /\ NameLength(query, i) = 1
        /\ phase' = "refused" /\ ret' = ret
    BY <1>15 DEF NamelessMarker, Unquoted, curr, Extracting
  <2>2. ASSUME PlainQuotes(ret) PROVE Nameless(ret) # {}
    <3>1. PICK p : /\ At(p) /\ p \in 1 .. Len(ret) /\ p <= Len(ret) /\ query[i] = ret[p]
      BY <1>1, <2>1, <2>2
    <3>2. ret \in Seq(STRING) /\ ret[p] = "@"
      BY <2>1, <3>1 DEF TypeInv
    <3>3. p \in Markers(ret)
      BY <2>1, <3>1, <3>2, ScannedOpener
    <3>4. NameLength(ret, p) = 1
      BY <2>1, <3>1, ScannerPlace
    <3> QED
      BY <3>2, <3>3, <3>4 DEF Nameless
  <2> QED
    BY <2>1, <2>2 DEF ScannerInv, RefusedInv
<1>16. CASE MarkersEnd \/ SubstituteParameter
  <2>1. phase' = "final"
    BY <1>16 DEF MarkersEnd, SubstituteParameter
  <2> QED
    BY <2>1 DEF ScannerInv, RefusedInv
<1>17. CASE UNCHANGED vars
  BY <1>17 DEF vars, ScannerInv, RefusedInv, AtEnd
<1> QED
  BY <1>5, <1>6, <1>7, <1>8, <1>9, <1>10, <1>11, <1>13, <1>14, <1>15, <1>16, <1>17 DEF Next

-----------------------------------------------------------------------------
(* The final query                                                         *)

\* The name of a parameter is the name of its marker.
LEMMA NamedAsAsked ==
  ASSUME TypeInv, Listed(ret, parameters, Len(ret)), NEW p \in Markers(ret)
  PROVE  LET k == Count(ret, p)
         IN  Parameter(ret, p) =
               <<"{">> \o ParamFinalName(k) \o <<":">> \o TypeOfParameter(k) \o <<"}">>
<1> DEFINE k == Count(ret, p)
           T == Tail(NameAt(ret, p))
           N == <<"odbc_positional_", ToString(k)>>
           name == CASE k \in named -> <<IpdName>>
                     [] k \notin named /\ ret[p] = "@" -> T
                     [] OTHER -> N
<1>1. ret \in Seq(STRING) /\ p \in 1 .. Len(ret) /\ p <= Len(ret)
  <2>1. ret \in Seq(STRING) /\ Len(ret) \in Nat
    BY DEF TypeInv
  <2> QED
    BY <2>1, MarkerSort
<1>2. NameAt(ret, p) # <<>>
  BY <1>1, NameTyped
<1>3. parameters[k].name = IF ret[p] = "@" THEN NameAt(ret, p) ELSE <<>>
  BY <1>1 DEF Listed, NameIn
<1>4. Parameter(ret, p) = <<"{">> \o name \o <<":">> \o TypeOfParameter(k) \o <<"}">>
  BY Zenon DEF Parameter, Count, k, name, T, N
<1> HIDE DEF k, T
<1>5. ParamFinalName(k) = name
  <2>1. CASE ret[p] = "@"
    <3>1. parameters[k].name # <<>> /\ Tail(parameters[k].name) = T
      BY <1>2, <1>3, <2>1 DEF T
    <3> QED
      BY <2>1, <3>1 DEF ParamFinalName
  <2>2. CASE ret[p] # "@"
    <3>1. parameters[k].name = <<>>
      BY <1>3, <2>2
    <3> QED
      BY <2>2, <3>1 DEF ParamFinalName
  <2> QED
    BY <2>1, <2>2
<1> QED
  BY <1>4, <1>5 DEF k

LEMMA PiecesAreTexts ==
  ASSUME TypeInv, Listed(ret, parameters, Len(ret)), NEW p \in Markers(ret)
  PROVE  /\ \A t \in OwnTexts : <<t>> \in Seq(STRING)
         /\ ParamFinalName(Count(ret, p)) \in Seq(STRING)
         /\ TypeOfParameter(Count(ret, p)) \in Seq(STRING)
<1> DEFINE k == Count(ret, p)
           name == ParamFinalName(k)
           type == TypeOfParameter(k)
           T == Tail(NameAt(ret, p))
           S == STRING
<1>1. /\ ret \in Seq(STRING) /\ Len(ret) \in Int /\ p \in 1 .. Len(ret) /\ p <= Len(ret)
      /\ given \in Statements /\ Len(parameters) <= MaxParameters /\ Len(parameters) \in Nat
  <2>1. /\ ret \in Seq(STRING) /\ parameters \in Parameters /\ given \in Statements
        /\ Len(parameters) <= MaxParameters
    BY DEF TypeInv
  <2>2. Len(parameters) \in Nat
    BY <2>1 DEF Parameters
  <2>3. p \in 1 .. Len(ret) /\ Len(ret) \in Int
    BY <2>1, MarkerSort
  <2> QED
    BY <2>1, <2>2, <2>3
<1>2. k \in 1 .. MaxParameters
  <2>1. k \in 1 .. Count(ret, Len(ret))
    BY <1>1, CountNumbers
  <2>2. Len(parameters) = Count(ret, Len(ret)) /\ MaxParameters \in Nat
    BY TextsAssumption DEF Listed
  <2> HIDE DEF k
  <2> QED
    BY <1>1, <2>1, <2>2
<1>13. parameters[k].name = IF ret[p] = "@" THEN NameAt(ret, p) ELSE <<>>
  BY <1>1 DEF Listed, NameIn
<1> HIDE DEF k
<1>3. T \in Seq(S)
  <2>1. NameAt(ret, p) \in Seq(S) /\ NameAt(ret, p) # <<>>
    BY <1>1, NameTyped
  <2> HIDE DEF S
  <2> QED
    BY <2>1
<1>4. ToString(k) \in S /\ NameOf(given.type) \in Seq(S)
  BY <1>1, <1>2, TextsAssumption
<1>5. ASSUME NEW t \in OwnTexts PROVE t \in S
  BY TextsAssumption
<1>6. NameOfUnbound \in Seq(S)
  <2> DEFINE n1 == "nullable"
             n2 == "("
             n3 == "nothing"
             n4 == ")"
  <2>1. n1 \in OwnTexts /\ n2 \in OwnTexts /\ n3 \in OwnTexts /\ n4 \in OwnTexts
    BY DEF OwnTexts
  <2>2. NameOfUnbound = <<n1, n2, n3, n4>>
    BY DEF NameOfUnbound
  <2> HIDE DEF n1, n2, n3, n4, S
  <2>3. n1 \in S /\ n2 \in S /\ n3 \in S /\ n4 \in S
    BY <1>5, <2>1
  <2> QED
    BY <2>2, <2>3
<1>7. ASSUME NEW t \in OwnTexts PROVE <<t>> \in Seq(S)
  <2>1. t \in S
    BY <1>5
  <2> HIDE DEF S
  <2> QED
    BY <2>1
<1> DEFINE o == "odbc_positional_"
           d == IpdName
<1>8. o \in S /\ d \in S
  <2>1. o \in OwnTexts /\ d \in OwnTexts
    BY DEF OwnTexts
  <2> HIDE DEF o, d, S
  <2> QED
    BY <1>5, <2>1
<1>9. name = <<d>> \/ name = T \/ name = <<o, ToString(k)>>
  <2>1. CASE ret[p] = "@"
    <3>1. parameters[k].name # <<>> => Tail(parameters[k].name) = T
      BY <1>13, <2>1
    <3> QED
      BY <3>1 DEF ParamFinalName
  <2>2. CASE ret[p] # "@"
    <3>1. parameters[k].name = <<>>
      BY <1>13, <2>2
    <3> QED
      BY <3>1 DEF ParamFinalName
  <2> QED
    BY <2>1, <2>2
<1>10. type = NameOfUnbound \/ type = NameOf(given.type)
  BY DEF TypeOfParameter
<1> HIDE DEF S, o, name, type, d, T
<1>11. name \in Seq(S)
  <2>1. <<d>> \in Seq(S) /\ <<o, ToString(k)>> \in Seq(S)
    BY <1>4, <1>8
  <2> QED
    BY <1>3, <1>9, <2>1
<1>12. type \in Seq(S)
  BY <1>4, <1>6, <1>10
<1> QED
  BY <1>7, <1>11, <1>12 DEF S, name, type, k

LEMMA ParameterIsText ==
  ASSUME TypeInv, Listed(ret, parameters, Len(ret)), NEW p \in Markers(ret)
  PROVE  Parameter(ret, p) \in Seq(STRING)
<1> DEFINE N == ParamFinalName(Count(ret, p))
           Y == TypeOfParameter(Count(ret, p))
           a == "{"
           c == ":"
           z == "}"
<1>1. N \in Seq(STRING) /\ Y \in Seq(STRING)
  BY PiecesAreTexts
<1>2. <<a>> \in Seq(STRING) /\ <<c>> \in Seq(STRING) /\ <<z>> \in Seq(STRING)
  BY PiecesAreTexts DEF OwnTexts
<1>3. Parameter(ret, p) = <<a>> \o N \o <<c>> \o Y \o <<z>>
  BY NamedAsAsked
<1> HIDE DEF N, Y, a, c, z
<1> QED
  BY <1>1, <1>2, <1>3, Concatenated

LEMMA Associative ==
  ASSUME NEW T, NEW x \in Seq(T), NEW y \in Seq(T), NEW w \in Seq(T)
  PROVE  (x \o y) \o w = x \o (y \o w)
OBVIOUS

\* A piece made of five.
Five(T, A, B, a, b, c, d, e) ==
  /\ A \in Seq(T) /\ B \in Seq(T) /\ a \in Seq(T) /\ b \in Seq(T)
  /\ c \in Seq(T) /\ d \in Seq(T) /\ e \in Seq(T)

LEMMA FivePieces ==
  ASSUME NEW T, NEW A, NEW B, NEW a, NEW b, NEW c, NEW d, NEW e, Five(T, A, B, a, b, c, d, e)
  PROVE  A \o a \o b \o c \o d \o e \o B = A \o (a \o b \o c \o d \o e) \o B
<1>1. ASSUME NEW x \in Seq(T), NEW y \in Seq(T)
      PROVE  x \o y \in Seq(T) /\ (A \o x) \o y = A \o (x \o y)
  <2>1. A \in Seq(T)
    BY DEF Five
  <2> QED
    BY <2>1
<1>2. a \o b \in Seq(T) /\ (A \o a) \o b = A \o (a \o b)
  BY <1>1, Zenon DEF Five
<1>3. (a \o b) \o c \in Seq(T) /\ (A \o (a \o b)) \o c = A \o ((a \o b) \o c)
  BY <1>1, <1>2, Zenon DEF Five
<1>4. ((a \o b) \o c) \o d \in Seq(T)
      /\ (A \o ((a \o b) \o c)) \o d = A \o (((a \o b) \o c) \o d)
  BY <1>1, <1>3, Zenon DEF Five
<1>5. (A \o (((a \o b) \o c) \o d)) \o e = A \o ((((a \o b) \o c) \o d) \o e)
  BY <1>1, <1>4, Zenon DEF Five
<1> QED
  BY <1>2, <1>3, <1>4, <1>5, Zenon

First(u, x) ==
  CHOOSE p \in DOMAIN u : u[p] = x /\ \A q \in 1 .. p - 1 : u[q] # x

\* One x in u, with nothing like it before.
Between(T, A, x, B, u) ==
  /\ A \in Seq(T) /\ B \in Seq(T) /\ x \in T
  /\ \A k \in 1 .. Len(A) : A[k] # x
  /\ u = A \o <<x>> \o B

LEMMA FirstPlace ==
  ASSUME NEW T, NEW A, NEW B, NEW x, NEW u, Between(T, A, x, B, u)
  PROVE  SubSeq(u, 1, First(u, x) - 1) = A /\ SubSeq(u, First(u, x) + 1, Len(u)) = B
<1> DEFINE h == <<x>>
           C == h \o B
           Fits(p) == u[p] = x /\ \A q \in 1 .. p - 1 : u[q] # x
           pos == CHOOSE p \in DOMAIN u : Fits(p)
           l == Len(A) + 1
<1>a. A \in Seq(T)
  BY DEF Between
<1>b. B \in Seq(T)
  BY DEF Between
<1>c. x \in T
  BY DEF Between
<1>d. \A k \in 1 .. Len(A) : A[k] # x
  BY DEF Between
<1>e. u = A \o <<x>> \o B
  BY DEF Between
<1> USE <1>a, <1>b, <1>c, <1>d, <1>e
<1>1. h \in Seq(T) /\ Len(h) = 1 /\ h[1] = x /\ Len(A) \in Nat /\ Len(B) \in Nat
  OBVIOUS
<1> HIDE DEF h
<1>2. Joined(T, h, B, C)
  BY <1>1, Cut
<1>3. /\ C \in Seq(T) /\ Len(C) = 1 + Len(B) /\ C[1] = x
      /\ SubSeq(C, 2, 1 + Len(B)) = B
  <2>1. C \in Seq(T) /\ Len(C) = Len(h) + Len(B)
    BY <1>2 DEF Joined
  <2>2. C[1] = x
    <3>1. 1 \in 1 .. Len(h)
      BY <1>1
    <3> QED
      BY <1>1, <1>2, <3>1 DEF Joined
  <2>3. SubSeq(C, Len(h) + 1 + 0, Len(h) + Len(B)) = SubSeq(B, 1 + 0, Len(B))
    <3>1. 0 \in 0 .. Len(B)
      BY <1>1
    <3> QED
      BY <1>2, <3>1 DEF Joined
  <2>4. SubSeq(B, 1, Len(B)) = B
    <3>1. SubSeq(B, 1, Len(B)) = [k \in 1 .. Len(B) |-> B[k]] /\ B = [k \in 1 .. Len(B) |-> B[k]]
      BY <1>1
    <3> QED
      BY <3>1
  <2>5. Len(h) + 1 + 0 = 2 /\ 1 + 0 = 1
    BY <1>1
  <2> QED
    BY <1>1, <2>1, <2>2, <2>3, <2>4, <2>5
<1> HIDE DEF C
<1>4. Joined(T, A, C, A \o C)
  BY <1>3, Cut
<1>5. u = A \o C
  <2>1. (A \o h) \o B = A \o (h \o B)
    BY <1>1
  <2> QED
    BY <2>1 DEF C, h
<1>6. Joined(T, A, C, u)
  BY <1>4, <1>5
<1>7. /\ u \in Seq(T) /\ Len(u) = Len(A) + (1 + Len(B))
      /\ SubSeq(u, 1, Len(A)) = A
      /\ \A k \in 1 .. Len(A) : u[k] = A[k]
      /\ u[l] = x
  <2>1. 1 \in 1 .. Len(C)
    BY <1>1, <1>3
  <2> QED
    BY <1>3, <1>6, <2>1 DEF Joined
<1>8. SubSeq(u, l + 1, Len(u)) = B
  <2>1. 1 \in 0 .. Len(C) /\ Len(A) + 1 + 1 = l + 1 /\ 1 + 1 = 2 /\ Len(u) = Len(A) + Len(C)
    BY <1>1, <1>3, <1>7
  <2>2. SubSeq(u, Len(A) + 1 + 1, Len(A) + Len(C)) = SubSeq(C, 1 + 1, Len(C))
    BY <1>6, <2>1 DEF Joined
  <2> QED
    BY <1>3, <2>1, <2>2
<1>9. l \in DOMAIN u /\ Fits(l)
  <2>1. l \in DOMAIN u
    BY <1>1, <1>7
  <2>2. ASSUME NEW q \in 1 .. l - 1 PROVE u[q] # x
    <3>1. q \in 1 .. Len(A)
      BY <1>1
    <3> QED
      BY <1>7, <3>1
  <2> QED
    BY <1>7, <2>1, <2>2
<1>10. ASSUME NEW p \in DOMAIN u, Fits(p) PROVE p = l
  <2>1. p \in 1 .. Len(u) /\ p \in Int /\ l \in Int /\ l >= 1
    BY <1>1, <1>7
  <2>2. ~(p < l)
    <3> SUFFICES ASSUME p < l PROVE FALSE
      OBVIOUS
    <3>1. p \in 1 .. Len(A)
      BY <1>1, <2>1
    <3> QED
      BY <1>7, <1>10, <3>1
  <2>3. ~(l < p)
    <3> SUFFICES ASSUME l < p PROVE FALSE
      OBVIOUS
    <3>1. l \in 1 .. p - 1
      BY <2>1
    <3> QED
      BY <1>7, <1>10, <3>1
  <2> QED
    BY <2>1, <2>2, <2>3
<1>11. pos = l
  <2> HIDE DEF Fits, l
  <2>1. \E p \in DOMAIN u : Fits(p)
    BY <1>9
  <2>2. pos \in DOMAIN u /\ Fits(pos)
    BY <2>1
  <2> QED
    BY <1>10, <2>2
<1>12. pos - 1 = Len(A) /\ pos + 1 = l + 1
  <2> HIDE DEF pos
  <2> QED
    BY <1>1, <1>11
<1> HIDE DEF pos
<1>13. SubSeq(u, 1, pos - 1) = A /\ SubSeq(u, pos + 1, Len(u)) = B
  BY <1>7, <1>8, <1>12
<1> QED
  BY <1>13 DEF pos, Fits, First

-----------------------------------------------------------------------------
(* The invariant of the substitution                                       *)

\* What is taken from the scanner.
LEMMA AllFound ==
  ASSUME TypeInv, ScannerInv, MarkersEnd
  PROVE  FinalInv'
<1> SUFFICES ASSUME PlainQuotes(ret) PROVE FinalInv'
  <2>1. ret' = ret
    BY DEF MarkersEnd
  <2> QED
    BY <2>1 DEF FinalInv
<1>1. /\ phase = "markers" /\ AtEnd /\ ret' = ret /\ parameters' = parameters
      /\ final' = [text |-> query, count |-> 0]
  BY DEF MarkersEnd
<1>2. ret \in Seq(STRING) /\ parameters \in Parameters /\ Len(ret) \in Nat /\ Len(parameters) \in Nat
  <2>1. ret \in Seq(STRING) /\ parameters \in Parameters
    BY DEF TypeInv
  <2> QED
    BY <2>1 DEF Parameters
<1>3. Whole(ret, query, parameters)
  <2>1. ASSUME NEW p, Scanned(ret, query, i, quoted_by, parameters, p)
        PROVE  Whole(ret, query, parameters)
    <3>1. p = Len(ret) + 1
      BY <1>1, <2>1, ScannerPlace
    <3>2. Copied(ret, query, i, parameters, Len(ret) + 1)
      BY <2>1, <3>1 DEF Scanned
    <3> QED
      BY <1>2, <3>2, CopiedToTheEnd
  <2> QED
    BY <1>1, <2>1 DEF ScannerInv
<1>4. Listed(ret, parameters, Len(ret)) /\ query = TextUpTo(ret, Held(ret, parameters), Len(ret))
  BY <1>3 DEF Whole
<1>5. final'.count = 0 /\ final'.text = query
  BY <1>1
<1>6. Substituted' = [q \in Markers(ret) |->
                        IF Count(ret, q) <= final'.count THEN Parameter(ret, q)'
                        ELSE <<parameters[Count(ret, q)].tmp_placeholder>>]
  BY <1>1 DEF Substituted
<1> DEFINE m == Substituted'
           l == Held(ret, parameters)
<1>7. ASSUME NEW q \in Markers(ret) PROVE m[q] = l[q]
  <2>1. Count(ret, q) \in 1 .. Count(ret, Len(ret)) /\ Count(ret, Len(ret)) \in Nat
    <3>1. q \in 1 .. Len(ret)
      BY <1>2, MarkerSort
    <3>2. q <= Len(ret)
      BY <1>2, <3>1
    <3>3. Len(ret) \in Int
      BY <1>2
    <3>4. Count(ret, q) \in 1 .. Count(ret, Len(ret))
      BY <1>2, <3>2, <3>3, CountNumbers
    <3>5. Count(ret, Len(ret)) \in Nat
      BY <1>2, <3>3, MarkersPlaces
    <3> QED
      BY <3>4, <3>5
  <2>2. ~(Count(ret, q) <= final'.count)
    BY <1>5, <2>1
  <2> QED
    BY <1>6, <2>2 DEF Held
<1> HIDE DEF m, l
<1>8. TextUpTo(ret, m, Len(ret)) = TextUpTo(ret, l, Len(ret))
  <2>1. Len(ret) \in 0 .. Len(ret)
    BY <1>2
  <2> QED
    BY <1>2, <1>7, <2>1, TextSame
<1>9. final'.text = TextUpTo(ret, m, Len(ret))
  BY <1>4, <1>5, <1>8 DEF l
<1> QED
  BY <1>1, <1>2, <1>4, <1>5, <1>9 DEF FinalInv, m

\* One placeholder becomes the text of its parameter.
LEMMA OneSubstituted ==
  ASSUME TypeInv, FinalInv, SubstituteParameter
  PROVE  FinalInv'
<1> SUFFICES ASSUME PlainQuotes(ret) PROVE FinalInv'
  <2>1. ret' = ret
    BY DEF SubstituteParameter
  <2> QED
    BY <2>1 DEF FinalInv
<1> DEFINE k == final.count + 1
           text == final.text
           held == parameters[k].tmp_placeholder
           m == Substituted
           n == Len(ret)
           pos == CHOOSE p \in DOMAIN text : text[p] = held /\ \A q \in 1 .. p - 1 : text[q] # held
           name == ParamFinalName(k)
           type == TypeOfParameter(k)
<1>1. /\ phase = "final" /\ phase' = "final" /\ final.count < Len(parameters)
      /\ ret' = ret /\ parameters' = parameters /\ named' = named /\ bound' = bound /\ given' = given
      /\ final' = [count |-> k,
                   text |-> SubSeq(text, 1, pos - 1) \o <<"{">> \o name \o <<":">> \o type \o <<"}">>
                              \o SubSeq(text, pos + 1, Len(text))]
  BY DEF SubstituteParameter
<1>2. /\ Listed(ret, parameters, n) /\ text = TextUpTo(ret, m, n)
      /\ ret \in Seq(STRING) /\ parameters \in Parameters /\ final.count \in Nat
      /\ n \in Nat /\ Len(parameters) \in Nat
  <2>1. ret \in Seq(STRING) /\ parameters \in Parameters /\ final.count \in Nat
    BY DEF TypeInv
  <2>2. n \in Nat /\ Len(parameters) \in Nat
    BY <2>1 DEF Parameters
  <2>3. Listed(ret, parameters, n) /\ text = TextUpTo(ret, m, n)
    BY <1>1 DEF FinalInv
  <2> QED
    BY <2>1, <2>2, <2>3
<1> HIDE DEF n
<1>3. k \in 1 .. Len(parameters) /\ Len(parameters) = Count(ret, n)
  <2>1. Len(parameters) = Count(ret, n)
    BY <1>2 DEF Listed
  <2>2. final.count < Len(parameters) /\ final.count \in Nat /\ Len(parameters) \in Nat
    BY <1>1, <1>2
  <2>3. final.count + 1 \in 1 .. Len(parameters)
    BY <2>2
  <2> QED
    BY <2>1, <2>3
<1> HIDE DEF k
<1>4. PICK p \in Markers(ret) : Count(ret, p) = k
  BY <1>2, <1>3, CountReached DEF n
<1>5. p \in 1 .. n /\ p - 1 \in 0 .. n /\ p - 1 \in Int
  <2>1. p \in 1 .. n
    BY <1>2, MarkerSort DEF n
  <2> QED
    BY <1>2, <2>1
<1>6. held \in Placeholders /\ held \notin STRING /\ held \in Tokens
  <2>1. held \in Placeholders
    BY <1>2, <1>3, ParameterTyped
  <2>2. held \notin STRING
    BY <2>1, TextsAssumption
  <2> QED
    BY <2>1, <2>2 DEF Tokens
<1>7. ASSUME NEW q \in Markers(ret) PROVE Parameter(ret, q) \in Seq(STRING)
  BY <1>2, ParameterIsText DEF n
<1>8. m \in [Markers(ret) -> Seq(Tokens)]
  <2>1. ASSUME NEW q \in Markers(ret) PROVE Parameter(ret, q) \in Seq(Tokens)
    BY <1>7, TokensHoldTexts
  <2>2. ASSUME NEW q \in Markers(ret)
        PROVE  <<parameters[Count(ret, q)].tmp_placeholder>> \in Seq(Tokens)
    <3> DEFINE y == parameters[Count(ret, q)].tmp_placeholder
    <3>1. q \in 1 .. Len(ret)
      BY <1>2, MarkerSort
    <3>2. q <= n /\ n \in Int
      BY <1>2, <3>1 DEF n
    <3>3. Count(ret, q) \in 1 .. Len(parameters)
      BY <1>2, <1>3, <3>2, CountNumbers
    <3>4. y \in Tokens
      BY <1>2, <3>3, ParameterTyped DEF Tokens
    <3> HIDE DEF y
    <3>5. <<y>> \in Seq(Tokens)
      BY <3>4
    <3> QED
      BY <3>5 DEF y
  <2> QED
    BY <2>1, <2>2 DEF Substituted
<1>9. m[p] = <<held>>
  <2>1. ~(Count(ret, p) <= final.count)
    BY <1>2, <1>4 DEF k
  <2> QED
    BY <1>4, <2>1 DEF Substituted
<1>10. ASSUME NEW q \in Markers(ret), q <= p - 1 PROVE m[q] = Parameter(ret, q)
  <2>1. q \in 1 .. n
    BY <1>2, MarkerSort DEF n
  <2>2. q < p /\ q \in Int
    BY <1>5, <1>10, <2>1
  <2>3. Count(ret, q) < Count(ret, p)
    BY <1>2, <2>2, CountGrows
  <2>4. Count(ret, q) \in Nat
    BY <1>2, <2>2, MarkersPlaces
  <2>5. Count(ret, q) <= final.count
    BY <1>2, <1>4, <2>3, <2>4 DEF k
  <2> QED
    BY <2>5 DEF Substituted
<1> HIDE DEF m, held
<1> DEFINE before == TextUpTo(ret, m, p - 1)
<1>11. Given(ret, m, p - 1, Tokens) /\ STRING \subseteq Tokens
  BY <1>8 DEF Given, Tokens
<1>12. before \in Seq(Tokens) /\ \A j \in 1 .. Len(before) : before[j] # held
  <2>1. before \in Seq(Tokens)
    BY <1>2, <1>5, <1>11, TextTyped DEF n
  <2>2. ASSUME NEW q \in Markers(ret), q <= p - 1, NEW j \in 1 .. Len(m[q]) PROVE m[q][j] # held
    <3> DEFINE v == m[q]
    <3>1. v \in Seq(STRING)
      BY <1>7, <1>10, <2>2
    <3> HIDE DEF v
    <3>2. j \in 1 .. Len(v)
      BY DEF v
    <3>3. v[j] \in STRING
      BY <3>1, <3>2
    <3>4. v[j] # held
      BY <1>6, <3>3
    <3> QED
      BY <3>4 DEF v
  <2>3. \A j \in 1 .. Len(before) : before[j] # held
    BY <1>2, <1>5, <1>6, <1>11, <2>2, TextWithout DEF n
  <2> QED
    BY <2>1, <2>3
<1>13. PICK rest \in Seq(Tokens) : Around(ret, m, p, Tokens, before, rest)
  <2>1. STRING \subseteq Tokens /\ ret \in Seq(STRING)
    BY <1>2, <1>11
  <2> QED
    BY <1>8, <2>1, TextAround
<1> HIDE DEF before
<1>14. text = before \o <<held>> \o rest
  <2>1. [m EXCEPT ![p] = <<held>>] = m
    BY <1>8, <1>9
  <2>2. <<held>> \in Seq(Tokens)
    BY <1>6
  <2>3. TextUpTo(ret, [m EXCEPT ![p] = <<held>>], n) = before \o <<held>> \o rest
    BY <1>13, <2>2 DEF Around, n
  <2> QED
    BY <1>2, <2>1, <2>3
<1> HIDE DEF text
<1>15. SubSeq(text, 1, pos - 1) = before /\ SubSeq(text, pos + 1, Len(text)) = rest
  <2>1. /\ SubSeq(text, 1, First(text, held) - 1) = before
        /\ SubSeq(text, First(text, held) + 1, Len(text)) = rest
    <3>1. Between(Tokens, before, held, rest, text)
      BY <1>6, <1>12, <1>14 DEF Between
    <3> QED
      BY <3>1, FirstPlace
  <2> QED
    BY <2>1 DEF First
<1> HIDE DEF pos
<1>16. Parameter(ret, p) = <<"{">> \o name \o <<":">> \o type \o <<"}">>
  BY <1>2, <1>4, NamedAsAsked DEF n
<1>17. final'.count = k /\ final'.text = TextUpTo(ret, [m EXCEPT ![p] = Parameter(ret, p)], n)
  <2>1. final'.count = k
    BY <1>1
  <2>2. final'.text = before \o <<"{">> \o name \o <<":">> \o type \o <<"}">> \o rest
    BY <1>1, <1>15
  <2>3. final'.text = before \o Parameter(ret, p) \o rest
    <3> DEFINE open == <<"{">>
               colon == <<":">>
               close == <<"}">>
    <3>1. /\ open \in Seq(STRING) /\ colon \in Seq(STRING) /\ close \in Seq(STRING)
          /\ name \in Seq(STRING) /\ type \in Seq(STRING)
      BY <1>2, <1>4, PiecesAreTexts DEF n, OwnTexts
    <3>2. /\ final'.text = before \o open \o name \o colon \o type \o close \o rest
          /\ Parameter(ret, p) = open \o name \o colon \o type \o close
      BY <1>16, <2>2
    <3> HIDE DEF open, colon, close, name, type
    <3>3. /\ open \in Seq(Tokens) /\ colon \in Seq(Tokens) /\ close \in Seq(Tokens)
          /\ name \in Seq(Tokens) /\ type \in Seq(Tokens)
      BY <3>1, TokensHoldTexts
    <3>4. before \o open \o name \o colon \o type \o close \o rest
            = before \o (open \o name \o colon \o type \o close) \o rest
      <4>1. Five(Tokens, before, rest, open, name, colon, type, close)
        BY <1>12, <3>3 DEF Five
      <4> QED
        BY <4>1, FivePieces
    <3> QED
      BY <3>2, <3>4
  <2>4. Parameter(ret, p) \in Seq(Tokens)
    BY <1>7, TokensHoldTexts
  <2> QED
    BY <1>13, <2>1, <2>3, <2>4 DEF Around, n
<1>18. Substituted' = [m EXCEPT ![p] = Parameter(ret, p)]
  <2>1. \A q : Parameter(ret, q)' = Parameter(ret, q)
    BY <1>1 DEF Parameter, TypeOfParameter
  <2>2. Substituted' = [q \in Markers(ret) |->
                          IF Count(ret, q) <= k THEN Parameter(ret, q)
                          ELSE <<parameters[Count(ret, q)].tmp_placeholder>>]
    BY <1>1, <1>17, <2>1 DEF Substituted
  <2>3. ASSUME NEW q \in Markers(ret), q # p
        PROVE  Count(ret, q) <= k <=> Count(ret, q) <= final.count
    <3>1. Count(ret, q) # k
      BY <1>2, <1>4, <2>3, CountDiffers
    <3>2. q \in Int
      BY <1>2, MarkerSort
    <3>3. Count(ret, q) \in Nat
      BY <1>2, <3>2, MarkersPlaces
    <3> QED
      BY <1>2, <3>1, <3>3 DEF k
  <2>4. k <= k
    BY <1>3
  <2> DEFINE f == Substituted'
             g == [m EXCEPT ![p] = Parameter(ret, p)]
  <2>5. ASSUME NEW q \in Markers(ret) PROVE f[q] = g[q]
    <3>1. CASE q = p
      BY <1>4, <1>8, <2>2, <2>4, <3>1
    <3>2. CASE q # p
      BY <1>8, <2>2, <2>3, <3>2 DEF m, Substituted
    <3> QED
      BY <3>1, <3>2
  <2>6. f = [q \in Markers(ret) |-> f[q]] /\ g = [q \in Markers(ret) |-> g[q]]
    BY <1>8, <2>2
  <2> HIDE DEF f, g
  <2>7. f = g
    BY <2>5, <2>6
  <2> QED
    BY <2>7 DEF f, g
<1>19. final'.count <= Len(parameters)
  BY <1>3, <1>17
<1> QED
  BY <1>1, <1>2, <1>17, <1>18, <1>19 DEF FinalInv, n

LEMMA FinalNext ==
  ASSUME TypeInv, ScannerInv, FinalInv, [Next]_vars
  PROVE  FinalInv'
<1>1. ASSUME phase' # "final" PROVE FinalInv'
  BY <1>1 DEF FinalInv
<1>2. CASE OpenBrace \/ CloseBrace \/ NoBrace
  <2>1. phase' = "escapes"
    BY <1>2 DEF OpenBrace, CloseBrace, NoBrace, Escaping
  <2> QED
    BY <1>1, <2>1
<1>3. CASE UnexpectedBrace \/ EscapesEnd
  <2>1. phase' = "markers"
    BY <1>3 DEF UnexpectedBrace, EscapesEnd, Replaced
  <2> QED
    BY <1>1, <2>1
<1>4. CASE Backslash \/ OpenQuote \/ DoubledQuote \/ CloseQuote \/ OtherCharacter
  <2>1. phase' = "markers"
    BY <1>4 DEF Backslash, OpenQuote, DoubledQuote, CloseQuote, OtherCharacter, Extracting
  <2> QED
    BY <1>1, <2>1
<1>5. CASE QuestionMark \/ NamedMarker
  <2>1. phase' = "markers"
    BY <1>5 DEF QuestionMark, NamedMarker, AddParameter, Unquoted, Extracting
  <2> QED
    BY <1>1, <2>1
<1>6. CASE NamelessMarker
  <2>1. phase' = "refused"
    BY <1>6 DEF NamelessMarker
  <2> QED
    BY <1>1, <2>1
<1>7. CASE MarkersEnd
  BY <1>7, AllFound
<1>8. CASE SubstituteParameter
  BY <1>8, OneSubstituted
<1>9. CASE UNCHANGED vars
  <2>1. \A q : Parameter(ret, q)' = Parameter(ret, q)
    BY <1>9 DEF vars, Parameter, TypeOfParameter
  <2> QED
    BY <1>9, <2>1 DEF vars, FinalInv, Substituted
<1> QED
  BY <1>2, <1>3, <1>4, <1>5, <1>6, <1>7, <1>8, <1>9 DEF Next

\* When all are substituted, the text is the one asked for.
LEMMA AllSubstituted ==
  ASSUME TypeInv, FinalInv, RefusedInv
  PROVE  MarkersAreParameters
<1>1. ASSUME PlainQuotes(ret), phase = "final", final.count = Len(parameters)
      PROVE  final.text = WithParameters(ret)
  <2> DEFINE asked == [q \in Markers(ret) |-> Parameter(ret, q)]
             so_far == Substituted
             n == Len(ret)
  <2>1. ret \in Seq(STRING) /\ n \in Nat /\ n \in 0 .. n
    BY DEF TypeInv
  <2>2. final.text = TextUpTo(ret, so_far, n) /\ Len(parameters) = Count(ret, n)
    BY <1>1 DEF FinalInv, Listed
  <2>3. ASSUME NEW q \in Markers(ret) PROVE so_far[q] = asked[q]
    <3>1. q \in 1 .. Len(ret)
      BY <2>1, MarkerSort
    <3>2. q <= n /\ n \in Int
      BY <2>1, <3>1
    <3>3. Count(ret, q) \in 1 .. Count(ret, n)
      BY <2>1, <3>2, CountNumbers
    <3>4. Count(ret, n) \in Nat
      BY <2>1, <3>2, MarkersPlaces
    <3>5. Count(ret, q) <= final.count
      BY <1>1, <2>2, <3>3, <3>4
    <3> QED
      BY <3>5 DEF Substituted
  <2> HIDE DEF so_far
  <2>4. TextUpTo(ret, so_far, n) = TextUpTo(ret, asked, n)
    <3> HIDE DEF asked
    <3> QED
      BY <2>1, <2>3, TextSame
  <2>5. \A q \in 1 .. n : Piece(ret, asked, q) =
          IF q \in Markers(ret) THEN Parameter(ret, q)
          ELSE IF InName(ret, q) THEN <<>> ELSE <<ret[q]>>
    BY DEF Piece
  <2>6. DOMAIN ret = 1 .. n
    BY <2>1
  <2> HIDE DEF n, asked
  <2>7. TextUpTo(ret, asked, n) = WithParameters(ret)
    <3>1. [q \in 1 .. n |-> Piece(ret, asked, q)] =
          [q \in DOMAIN ret |->
             IF q \in Markers(ret) THEN Parameter(ret, q)
             ELSE IF InName(ret, q) THEN <<>> ELSE <<ret[q]>>]
      BY <2>5, <2>6
    <3> QED
      BY <3>1, Zenon DEF TextUpTo, WithParameters
  <2> QED
    BY <2>2, <2>4, <2>7
<1>2. ASSUME PlainQuotes(ret), phase = "refused" PROVE Nameless(ret) # {}
  BY <1>2 DEF RefusedInv
<1> QED
  BY <1>1, <1>2 DEF MarkersAreParameters

\* The query that is sent has a parameter of the server for every marker outside
\* of quotes, in the order of the markers, with the name the application gave
\* it and the type it was bound with, and all other text as it was: for every
\* text, whatever the rewriter of escapes makes of it, and however many markers
\* (extractParametersinfo, buildFinalQuery).  Only a marker without a name is
\* refused.
THEOREM MarkersBecomeParameters == Spec => []MarkersAreParameters
<1>1. Init => ScannerInv /\ RefusedInv /\ FinalInv
  <2> SUFFICES ASSUME Init PROVE ScannerInv /\ RefusedInv /\ FinalInv
    OBVIOUS
  <2>1. /\ phase = "escapes" \/ (phase = "markers" /\ ret = given.text)
        /\ query = given.text /\ i = 1 /\ quoted_by = NotQuoted /\ parameters = <<>>
        /\ given \in Statements
    <3>1. phase = "escapes" \/ (phase = "markers" /\ ret = given.text)
      BY Zenon DEF Init
    <3>2. /\ query = given.text /\ i = 1 /\ quoted_by = NotQuoted /\ parameters = <<>>
          /\ given \in Statements
      BY Zenon DEF Init
    <3> QED
      BY <3>1, <3>2
  <2>2. given.text \in Seq(STRING)
    BY <2>1, TextsAssumption
  <2>3. ASSUME phase = "markers"
        PROVE  Scanned(ret, query, i, quoted_by, parameters, 1) /\ 1 \in 1 .. Len(ret) + 1
    <3>1. ret = given.text /\ query = ret /\ ret \in Seq(STRING)
      BY <2>1, <2>2, <2>3
    <3>2. Scanned(ret, ret, 1, NotQuoted, <<>>, 1)
      BY <3>1, ScannedFirst
    <3>3. 1 \in 1 .. Len(ret) + 1
      BY <3>1
    <3> QED
      BY <2>1, <3>1, <3>2, <3>3
  <2>4. phase # "refused" /\ phase # "final"
    BY <2>1
  <2> QED
    BY <2>3, <2>4 DEF ScannerInv, RefusedInv, FinalInv
<1>2. TypeInv /\ TypeInv' /\ EscapesInv /\ ScannerInv /\ RefusedInv /\ FinalInv /\ [Next]_vars
        => ScannerInv' /\ RefusedInv' /\ FinalInv'
  BY ScannerNext, FinalNext
<1>3. TypeInv /\ FinalInv /\ RefusedInv => MarkersAreParameters
  BY AllSubstituted
<1> QED
  BY <1>1, <1>2, <1>3, TypesHold, PTL DEF Spec

-----------------------------------------------------------------------------
(* Braces as they balance, and the text with its escapes rewritten         *)

Tally(R, c, p) == Cardinality({q \in 1 .. p : R[q] = c})

Tallied(R, c, p) ==
  /\ Tally(R, c, p) \in Nat
  /\ R[p + 1] = c => Tally(R, c, p + 1) = Tally(R, c, p) + 1
  /\ R[p + 1] # c => Tally(R, c, p + 1) = Tally(R, c, p)

LEMMA TallyNext ==
  ASSUME NEW R, NEW c
  PROVE  Tally(R, c, 0) = 0 /\ \A p \in Nat : Tallied(R, c, p)
<1> DEFINE S(p) == {q \in 1 .. p : R[q] = c}
<1>1. ASSUME NEW p \in Nat PROVE IsFiniteSet(S(p)) /\ Cardinality(S(p)) \in Nat
  <2>1. IsFiniteSet(1 .. p) /\ S(p) \subseteq 1 .. p
    BY FS_Interval
  <2>2. IsFiniteSet(S(p))
    BY <2>1, FS_Subset
  <2> QED
    BY <2>2, FS_CardinalityType
<1>2. Tally(R, c, 0) = 0
  <2>1. S(0) = {}
    OBVIOUS
  <2> QED
    BY <2>1, FS_EmptySet DEF Tally
<1>3. ASSUME NEW p \in Nat
      PROVE  /\ R[p + 1] = c => Tally(R, c, p + 1) = Tally(R, c, p) + 1
             /\ R[p + 1] # c => Tally(R, c, p + 1) = Tally(R, c, p)
  <2>1. CASE R[p + 1] = c
    <3>1. S(p + 1) = S(p) \cup {p + 1} /\ p + 1 \notin S(p)
      BY <2>1
    <3> HIDE DEF S
    <3>2. Cardinality(S(p + 1)) = Cardinality(S(p)) + 1
      BY <1>1, <3>1, FS_AddElement
    <3> QED
      BY <2>1, <3>2 DEF Tally, S
  <2>2. CASE R[p + 1] # c
    <3>1. S(p + 1) = S(p)
      BY <2>2
    <3>2. Cardinality(S(p)) \in Nat
      BY <1>1
    <3> QED
      BY <2>2, <3>1, <3>2 DEF Tally
  <2> QED
    BY <2>1, <2>2
<1> QED
  BY <1>1, <1>2, <1>3 DEF Tally, Tallied

Difference(R, a, b, p) == Tally(R, a, p) - Tally(R, b, p)

LEMMA DifferenceNext ==
  ASSUME NEW R, NEW a, NEW b, a # b
  PROVE  /\ Difference(R, a, b, 0) = 0
         /\ \A p \in Nat :
              /\ Difference(R, a, b, p) \in Int
              /\ R[p + 1] = a => Difference(R, a, b, p + 1) = Difference(R, a, b, p) + 1
              /\ R[p + 1] = b => Difference(R, a, b, p + 1) = Difference(R, a, b, p) - 1
              /\ R[p + 1] # a /\ R[p + 1] # b => Difference(R, a, b, p + 1) = Difference(R, a, b, p)
<1>1. Tally(R, a, 0) = 0 /\ Tally(R, b, 0) = 0
  BY TallyNext
<1>2. ASSUME NEW p \in Nat
      PROVE  /\ Difference(R, a, b, p) \in Int
             /\ R[p + 1] = a => Difference(R, a, b, p + 1) = Difference(R, a, b, p) + 1
             /\ R[p + 1] = b => Difference(R, a, b, p + 1) = Difference(R, a, b, p) - 1
             /\ R[p + 1] # a /\ R[p + 1] # b => Difference(R, a, b, p + 1) = Difference(R, a, b, p)
  <2>1. Tallied(R, a, p) /\ Tallied(R, b, p)
    BY TallyNext
  <2> QED
    BY <2>1 DEF Tallied, Difference
<1> QED
  BY <1>1, <1>2 DEF Difference

Closes(text, p) == text[p] = "}"

\* The open braces, from one place to the next.
LEMMA OpenBracesNext ==
  ASSUME NEW R
  PROVE  /\ OpenBraces(R, 0) = 0
         /\ \A p \in Nat :
              /\ OpenBraces(R, p) \in Int
              /\ Opens(R, p + 1) => OpenBraces(R, p + 1) = OpenBraces(R, p) + 1
              /\ Closes(R, p + 1) => OpenBraces(R, p + 1) = OpenBraces(R, p) - 1
              /\ ~Opens(R, p + 1) /\ ~Closes(R, p + 1) => OpenBraces(R, p + 1) = OpenBraces(R, p)
<1>1. "{" # "}"
  BY Zenon
<1>2. \A a, b : a # b =>
        /\ Difference(R, a, b, 0) = 0
        /\ \A p \in Nat :
             /\ Difference(R, a, b, p) \in Int
             /\ R[p + 1] = a => Difference(R, a, b, p + 1) = Difference(R, a, b, p) + 1
             /\ R[p + 1] = b => Difference(R, a, b, p + 1) = Difference(R, a, b, p) - 1
             /\ R[p + 1] # a /\ R[p + 1] # b => Difference(R, a, b, p + 1) = Difference(R, a, b, p)
  BY DifferenceNext, Zenon
<1>3. \A p : OpenBraces(R, p) = Difference(R, "{", "}", p)
  BY Zenon DEF OpenBraces, Tally, Difference
<1>4. /\ Difference(R, "{", "}", 0) = 0
      /\ \A p \in Nat :
             /\ Difference(R, "{", "}", p) \in Int
             /\ R[p + 1] = "{" => Difference(R, "{", "}", p + 1) = Difference(R, "{", "}", p) + 1
             /\ R[p + 1] = "}" => Difference(R, "{", "}", p + 1) = Difference(R, "{", "}", p) - 1
             /\ R[p + 1] # "{" /\ R[p + 1] # "}" =>
                  Difference(R, "{", "}", p + 1) = Difference(R, "{", "}", p)
  BY <1>1, <1>2, Zenon
<1>5. OpenBraces(R, 0) = 0
  BY <1>3, <1>4, Zenon
<1>6. ASSUME NEW p \in Nat
      PROVE  /\ OpenBraces(R, p) \in Int
             /\ Opens(R, p + 1) => OpenBraces(R, p + 1) = OpenBraces(R, p) + 1
             /\ Closes(R, p + 1) => OpenBraces(R, p + 1) = OpenBraces(R, p) - 1
             /\ ~Opens(R, p + 1) /\ ~Closes(R, p + 1) => OpenBraces(R, p + 1) = OpenBraces(R, p)
  <2>1. OpenBraces(R, p) = Difference(R, "{", "}", p) /\ OpenBraces(R, p + 1) = Difference(R, "{", "}", p + 1)
    BY <1>3, Zenon
  <2> QED
    BY <1>4, <2>1, Zenon DEF Opens, Closes
<1> QED
  BY <1>5, <1>6, Zenon

\* A text of which every escape sequence becomes a text.
Rewritten(R, j, k) == RewriteEscape(SubSeq(R, j, k)) \in Seq(STRING)

Rewritable(R) ==
  /\ R \in Seq(STRING)
  /\ \A j, k \in DOMAIN R : j < k /\ Opens(R, j) /\ Closes(R, k) => Rewritten(R, j, k)

EscapePiece(R, p) ==
  IF {x \in EscapesOf(R) : x[2] = p} # {}
  THEN RewriteEscape(SubSeq(R, (CHOOSE x \in {y \in EscapesOf(R) : y[2] = p} : TRUE)[1], p))
  ELSE IF \E x \in EscapesOf(R) : p \in x[1] .. x[2] THEN <<>> ELSE <<R[p]>>

EscapedUpTo(R, p) == FlattenSeq([q \in 1 .. p |-> EscapePiece(R, q)])

IsEscape(R, j, k) ==
  /\ j < k /\ Opens(R, j) /\ Closes(R, k)
  /\ OpenBraces(R, j - 1) = 0 /\ OpenBraces(R, k) = 0
  /\ \A p \in j .. k - 1 : OpenBraces(R, p) > 0

LEMMA RewritableText == ASSUME NEW R, Rewritable(R) PROVE R \in Seq(STRING) /\ Len(R) \in Nat
<1>1. R \in Seq(STRING)
  BY Zenon DEF Rewritable
<1> QED
  BY <1>1

LEMMA EscapesAre ==
  ASSUME NEW R \in Seq(STRING)
  PROVE  /\ \A x \in EscapesOf(R) :
              x[1] \in 1 .. Len(R) /\ x[2] \in 1 .. Len(R) /\ IsEscape(R, x[1], x[2])
         /\ \A j, k \in 1 .. Len(R) : IsEscape(R, j, k) => <<j, k>> \in EscapesOf(R)
<1>1. EscapesOf(R) = {x \in (DOMAIN R) \X (DOMAIN R) : IsEscape(R, x[1], x[2])}
  BY Zenon DEF EscapesOf, IsEscape, Opens, Closes
<1>2. DOMAIN R = 1 .. Len(R)
  OBVIOUS
<1> QED
  BY <1>1, <1>2

LEMMA EscapePieceTyped ==
  ASSUME NEW R, Rewritable(R), NEW p \in 1 .. Len(R)
  PROVE  EscapePiece(R, p) \in Seq(STRING)
<1>1. R \in Seq(STRING) /\ DOMAIN R = 1 .. Len(R) /\ R[p] \in STRING
  BY RewritableText
<1>2. <<>> \in Seq(STRING) /\ <<R[p]>> \in Seq(STRING)
  BY <1>1
<1> DEFINE End == {y \in EscapesOf(R) : y[2] = p}
<1>3. CASE End # {}
  <2> DEFINE x == CHOOSE y \in End : TRUE
  <2>1. x \in End
    BY <1>3
  <2> HIDE DEF x
  <2>2. x \in EscapesOf(R) /\ x[2] = p
    BY <2>1
  <2>3. x[1] \in 1 .. Len(R) /\ x[1] < p /\ Opens(R, x[1]) /\ Closes(R, p)
    BY <1>1, <2>2, EscapesAre DEF IsEscape
  <2>4. Rewritten(R, x[1], p)
    BY <1>1, <2>3 DEF Rewritable
  <2>5. EscapePiece(R, p) = RewriteEscape(SubSeq(R, x[1], p))
    BY <1>3, Zenon DEF EscapePiece, x
  <2> QED
    BY <2>4, <2>5, Zenon DEF Rewritten
<1>4. CASE End = {}
  <2>1. EscapePiece(R, p) = <<>> \/ EscapePiece(R, p) = <<R[p]>>
    BY <1>4 DEF EscapePiece
  <2> QED
    BY <1>2, <2>1
<1> QED
  BY <1>3, <1>4

LEMMA EscapedNone == ASSUME NEW R PROVE EscapedUpTo(R, 0) = <<>>
<1> DEFINE s == [q \in 1 .. 0 |-> EscapePiece(R, q)]
<1>1. s \in Seq({}) /\ Len(s) = 0
  OBVIOUS
<1> HIDE DEF s
<1>2. s = <<>>
  BY <1>1
<1> QED
  BY <1>2, NoPieces DEF s, EscapedUpTo

LEMMA EscapedUpToNext ==
  ASSUME NEW R, Rewritable(R), NEW p \in 1 .. Len(R)
  PROVE  /\ EscapedUpTo(R, p - 1) \in Seq(STRING) /\ EscapedUpTo(R, p) \in Seq(STRING)
         /\ EscapedUpTo(R, p) = EscapedUpTo(R, p - 1) \o EscapePiece(R, p)
<1> DEFINE Texts == Seq(STRING)
           s == [q \in 1 .. p - 1 |-> EscapePiece(R, q)]
           x == EscapePiece(R, p)
           t == Append(s, x)
<1>1. p \in Nat /\ p - 1 \in Nat /\ Len(R) \in Nat
  BY RewritableText
<1>2. \A q \in 1 .. p : q \in 1 .. Len(R) /\ EscapePiece(R, q) \in Texts
  BY <1>1, EscapePieceTyped
<1> HIDE DEF Texts
<1>3. s \in Seq(Texts) /\ Len(s) = p - 1 /\ (\A q \in 1 .. p - 1 : s[q] = EscapePiece(R, q)) /\ x \in Texts
  BY <1>1, <1>2
<1> HIDE DEF s, x
<1>4. t \in Seq(Texts) /\ Len(t) = p /\ t[p] = x /\ \A q \in 1 .. p - 1 : t[q] = s[q]
  BY <1>1, <1>3
<1> HIDE DEF t
<1>5. t = [q \in 1 .. p |-> t[q]]
  BY <1>4
<1>6. \A q \in 1 .. p : t[q] = EscapePiece(R, q)
  BY <1>1, <1>3, <1>4 DEF x
<1>7. t = [q \in 1 .. p |-> EscapePiece(R, q)]
  BY <1>5, <1>6
<1>8. FlattenSeq(s) \in Seq(STRING) /\ FlattenSeq(t) = FlattenSeq(s) \o x
  BY <1>3, OneMore DEF Texts, t
<1>9. FlattenSeq(s) \o x \in Seq(STRING)
  BY <1>3, <1>8 DEF Texts
<1> QED
  BY <1>7, <1>8, <1>9 DEF EscapedUpTo, s, x

LEMMA EscapedTyped ==
  ASSUME NEW R, Rewritable(R), NEW p \in 0 .. Len(R)
  PROVE  EscapedUpTo(R, p) \in Seq(STRING)
<1>1. Len(R) \in Nat
  BY RewritableText
<1>2. CASE p = 0
  <2>1. EscapedUpTo(R, 0) \in Seq(STRING)
    <3>1. <<>> \in Seq(STRING)
      BY Concatenated
    <3> QED
      BY <3>1, EscapedNone, Zenon
  <2> QED
    BY <1>2, <2>1
<1>3. CASE p # 0
  BY <1>1, <1>3, EscapedUpToNext
<1> QED
  BY <1>2, <1>3

\* What leaves nothing behind.
LEMMA EscapedStays ==
  ASSUME NEW R, Rewritable(R), NEW a \in 0 .. Len(R), NEW b \in a .. Len(R),
         \A q \in a + 1 .. b : EscapePiece(R, q) = <<>>
  PROVE  EscapedUpTo(R, b) = EscapedUpTo(R, a)
<1> DEFINE c == b - a
           along == [k \in 0 .. c |-> EscapedUpTo(R, a + k)]
           still == [k \in 0 .. c |-> EscapedUpTo(R, a)]
<1>1. Len(R) \in Nat /\ c \in Nat /\ 0 \in 0 .. c /\ c \in 0 .. c /\ a + 0 = a /\ a + c = b
  BY RewritableText
<1> HIDE DEF c
<1>2. ASSUME NEW k \in 1 .. c PROVE EscapedUpTo(R, a + k) = EscapedUpTo(R, a + (k - 1))
  <2> DEFINE r == a + k
  <2>1. r \in 1 .. Len(R) /\ r \in a + 1 .. b /\ r - 1 = a + (k - 1)
    BY <1>1
  <2> HIDE DEF r
  <2>2. EscapedUpTo(R, r) = EscapedUpTo(R, r - 1) \o <<>> /\ EscapedUpTo(R, r - 1) \in Seq(STRING)
    BY <2>1, EscapedUpToNext
  <2>3. EscapedUpTo(R, r) = EscapedUpTo(R, r - 1)
    BY <2>2, Concatenated
  <2> QED
    BY <2>1, <2>3 DEF r
<1>3. along[0] = still[0] /\ along[c] = EscapedUpTo(R, b) /\ still[c] = EscapedUpTo(R, a)
  BY <1>1
<1>4. ASSUME NEW k \in 1 .. c, along[k - 1] = still[k - 1] PROVE along[k] = still[k]
  <2>1. k \in 0 .. c /\ k - 1 \in 0 .. c
    BY <1>1
  <2> QED
    BY <1>2, <1>4, <2>1
<1> HIDE DEF along, still
<1>5. \A k \in 0 .. c : along[k] = still[k]
  <2>1. Together(c, along, still)
    BY <1>3, <1>4 DEF Together
  <2> QED
    BY <1>1, <2>1, SameValues
<1> QED
  BY <1>1, <1>3, <1>5

LEMMA OneLonger ==
  ASSUME NEW T, NEW R \in Seq(T), NEW a \in 0 .. Len(R), NEW r \in a + 1 .. Len(R)
  PROVE  /\ SubSeq(R, a + 1, r - 1) \in Seq(T) /\ <<R[r]>> \in Seq(T)
         /\ SubSeq(R, a + 1, r) = SubSeq(R, a + 1, r - 1) \o <<R[r]>>
<1> DEFINE A == SubSeq(R, a + 1, r - 1)
           B == SubSeq(R, a + 1, r)
           y == R[r]
<1>1. Len(R) \in Nat /\ r \in Nat /\ a \in Nat /\ r - a \in Nat /\ y \in T
  OBVIOUS
<1>2. A \in Seq(T) /\ B \in Seq(T) /\ Len(A) = r - 1 - a /\ Len(B) = r - a
  BY <1>1
<1>3. (\A m \in 1 .. r - 1 - a : A[m] = B[m]) /\ B[r - a] = y
  BY <1>1
<1> HIDE DEF A, B, y
<1>4. A \o <<y>> \in Seq(T) /\ Len(A \o <<y>>) = r - a
  BY <1>1, <1>2
<1>5. (\A m \in 1 .. r - 1 - a : (A \o <<y>>)[m] = A[m]) /\ (A \o <<y>>)[r - a] = y
  <2>1. r - a = Len(A) + 1 /\ r - 1 - a = Len(A) /\ Len(A) \in Nat
    BY <1>1, <1>2
  <2> DEFINE Y == <<y>>
  <2>2. Y \in Seq(T) /\ Len(Y) = 1 /\ Y[1] = y
    BY <1>1
  <2> HIDE DEF Y
  <2>3. Joined(T, A, Y, A \o Y)
    BY <1>2, <2>2, Cut
  <2>4. (\A m \in 1 .. Len(A) : (A \o Y)[m] = A[m]) /\ (A \o Y)[Len(A) + 1] = y
    BY <2>2, <2>3 DEF Joined
  <2> QED
    BY <2>1, <2>4 DEF Y
<1> DEFINE C == A \o <<y>>
<1> HIDE DEF C
<1>6. C \in Seq(T) /\ Len(C) = r - a /\ (\A m \in 1 .. r - 1 - a : C[m] = B[m]) /\ C[r - a] = B[r - a]
  BY <1>3, <1>4, <1>5 DEF C
<1>7. C = B
  <2>1. \A m \in 1 .. r - a : C[m] = B[m]
    BY <1>1, <1>6
  <2> QED
    BY <1>1, <1>2, <1>6, <2>1
<1> QED
  BY <1>1, <1>2, <1>7 DEF A, B, C, y

\* What is kept as it is.
LEMMA EscapedKept ==
  ASSUME NEW R, Rewritable(R), NEW a \in 0 .. Len(R), NEW b \in a .. Len(R),
         \A q \in a + 1 .. b : EscapePiece(R, q) = <<R[q]>>
  PROVE  EscapedUpTo(R, b) = EscapedUpTo(R, a) \o SubSeq(R, a + 1, b)
<1> DEFINE c == b - a
           T == EscapedUpTo(R, a)
           along == [k \in 0 .. c |-> EscapedUpTo(R, a + k)]
           kept == [k \in 0 .. c |-> T \o SubSeq(R, a + 1, a + k)]
<1>1. Len(R) \in Nat /\ c \in Nat /\ 0 \in 0 .. c /\ c \in 0 .. c /\ a + 0 = a /\ a + c = b /\ R \in Seq(STRING)
  BY RewritableText
<1>2. T \in Seq(STRING)
  BY EscapedTyped
<1> HIDE DEF c, T
<1>3. ASSUME NEW k \in 1 .. c
      PROVE  EscapedUpTo(R, a + k) = EscapedUpTo(R, a + (k - 1)) \o <<R[a + k]>>
  <2> DEFINE r == a + k
  <2>1. r \in 1 .. Len(R) /\ r \in a + 1 .. b /\ r - 1 = a + (k - 1)
    BY <1>1
  <2> HIDE DEF r
  <2>2. EscapedUpTo(R, r) = EscapedUpTo(R, r - 1) \o <<R[r]>>
    BY <2>1, EscapedUpToNext
  <2> QED
    BY <2>1, <2>2 DEF r
<1>4. ASSUME NEW k \in 1 .. c
      PROVE  T \o SubSeq(R, a + 1, a + k) = (T \o SubSeq(R, a + 1, a + (k - 1))) \o <<R[a + k]>>
  <2> DEFINE r == a + k
             A == SubSeq(R, a + 1, r - 1)
  <2>1. r \in a + 1 .. Len(R) /\ r - 1 = a + (k - 1)
    BY <1>1
  <2> HIDE DEF r
  <2>2. A \in Seq(STRING) /\ SubSeq(R, a + 1, r) = A \o <<R[r]>> /\ <<R[r]>> \in Seq(STRING)
    BY <1>1, <2>1, OneLonger
  <2> HIDE DEF A
  <2>3. T \o (A \o <<R[r]>>) = (T \o A) \o <<R[r]>>
    BY <1>2, <2>2, Associative
  <2> QED
    BY <2>1, <2>2, <2>3 DEF r, A
<1>5. along[0] = kept[0] /\ along[c] = EscapedUpTo(R, b) /\ kept[c] = T \o SubSeq(R, a + 1, b)
  <2>1. SubSeq(R, a + 1, a) = <<>>
    BY <1>1
  <2>2. T \o <<>> = T
    BY <1>2, Concatenated
  <2> QED
    BY <1>1, <2>1, <2>2 DEF T
<1>6. ASSUME NEW k \in 1 .. c, along[k - 1] = kept[k - 1] PROVE along[k] = kept[k]
  <2>1. k \in 0 .. c /\ k - 1 \in 0 .. c
    BY <1>1
  <2>2. along[k] = EscapedUpTo(R, a + k) /\ along[k - 1] = EscapedUpTo(R, a + (k - 1))
        /\ kept[k] = T \o SubSeq(R, a + 1, a + k) /\ kept[k - 1] = T \o SubSeq(R, a + 1, a + (k - 1))
    BY <2>1
  <2> QED
    BY <1>3, <1>4, <1>6, <2>2
<1> HIDE DEF along, kept
<1>7. \A k \in 0 .. c : along[k] = kept[k]
  <2>1. Together(c, along, kept)
    BY <1>5, <1>6 DEF Together
  <2> QED
    BY <1>1, <2>1, SameValues
<1> QED
  BY <1>1, <1>5, <1>7 DEF T

-----------------------------------------------------------------------------
(* The scanner of braces, in the terms of the text                          *)

\* No escape sequence reaches between a and b when no brace is open there, or
\* when one is that stays open to the end.
LEMMA KeptPiece ==
  ASSUME NEW R \in Seq(STRING), NEW a \in 1 .. Len(R) + 1, NEW b \in Nat, b <= Len(R),
         OpenBraces(R, a - 1) = 0,
         \/ \A q \in a .. b : OpenBraces(R, q) = 0
         \/ b = Len(R) /\ \A q \in a .. b : OpenBraces(R, q) > 0,
         NEW q \in a .. b
  PROVE  EscapePiece(R, q) = <<R[q]>>
<1>1. \A x \in EscapesOf(R) : ~(q \in x[1] .. x[2])
  <2> SUFFICES ASSUME NEW x \in EscapesOf(R), q \in x[1] .. x[2] PROVE FALSE
    OBVIOUS
  <2> DEFINE j == x[1]
             k == x[2]
  <2>1. j \in 1 .. Len(R) /\ k \in 1 .. Len(R) /\ IsEscape(R, j, k) /\ q \in j .. k
    BY EscapesAre
  <2> HIDE DEF j, k
  <2>2. j < k /\ OpenBraces(R, k) = 0 /\ \A p \in j .. k - 1 : OpenBraces(R, p) > 0
    BY <2>1 DEF IsEscape
  <2>3. q \in Nat /\ j \in Nat /\ k \in Nat /\ a \in Nat /\ Len(R) \in Nat
    BY <2>1
  <2>4. CASE \A r \in a .. b : OpenBraces(R, r) = 0
    <3>1. OpenBraces(R, q) = 0 /\ OpenBraces(R, q - 1) = 0
      <4>1. CASE q = a
        BY <2>4, <4>1
      <4>2. CASE q # a
        <5>1. q - 1 \in a .. b
          BY <2>3, <4>2
        <5> QED
          BY <2>4, <5>1
      <4> QED
        BY <4>1, <4>2
    <3>2. q \in j .. k - 1 \/ q - 1 \in j .. k - 1
      BY <2>1, <2>2, <2>3
    <3> QED
      BY <2>2, <3>1, <3>2
  <2>5. CASE b = Len(R) /\ \A r \in a .. b : OpenBraces(R, r) > 0
    <3>1. CASE j < a
      <4>1. a - 1 \in j .. k - 1
        BY <2>1, <2>3, <3>1
      <4> QED
        BY <2>2, <4>1
    <3>2. CASE j >= a
      <4>1. k \in a .. b
        BY <2>1, <2>2, <2>3, <2>5, <3>2
      <4> QED
        BY <2>2, <2>5, <4>1
    <3> QED
      BY <2>3, <3>1, <3>2
  <2> QED
    BY <2>4, <2>5
<1>2. {x \in EscapesOf(R) : x[2] = q} = {}
  <2> SUFFICES ASSUME NEW x \in EscapesOf(R), x[2] = q PROVE FALSE
    OBVIOUS
  <2> DEFINE j == x[1]
             k == x[2]
  <2>1. j \in 1 .. Len(R) /\ k \in 1 .. Len(R) /\ IsEscape(R, j, k) /\ k = q
    BY EscapesAre
  <2> HIDE DEF j, k
  <2>2. q \in j .. k
    BY <2>1 DEF IsEscape
  <2> QED
    BY <1>1, <2>2 DEF j, k
<1> QED
  BY <1>1, <1>2, Zenon DEF EscapePiece

\* The pieces of an escape sequence: at its end, what it becomes.
LEMMA EscapePieces ==
  ASSUME NEW R \in Seq(STRING), NEW j \in 1 .. Len(R), NEW k \in 1 .. Len(R), IsEscape(R, j, k)
  PROVE  /\ EscapePiece(R, k) = RewriteEscape(SubSeq(R, j, k))
         /\ \A q \in j .. k - 1 : EscapePiece(R, q) = <<>>
<1>0. j \in Nat /\ k \in Nat /\ j < k /\ OpenBraces(R, k) = 0 /\ OpenBraces(R, j - 1) = 0
      /\ \A p \in j .. k - 1 : OpenBraces(R, p) > 0
  BY DEF IsEscape
<1>1. <<j, k>> \in EscapesOf(R)
  BY EscapesAre
<1>2. ASSUME NEW x \in EscapesOf(R), x[2] = k PROVE x[1] = j
  <2> DEFINE l == x[1]
             m == x[2]
  <2>1. l \in 1 .. Len(R) /\ m = k /\ IsEscape(R, l, m)
    BY <1>2, EscapesAre
  <2> HIDE DEF l, m
  <2>2. l \in Nat /\ l < k /\ OpenBraces(R, l - 1) = 0 /\ \A p \in l .. k - 1 : OpenBraces(R, p) > 0
    BY <2>1 DEF IsEscape
  <2>3. ~(l < j)
    <3> SUFFICES ASSUME l < j PROVE FALSE
      OBVIOUS
    <3>1. j - 1 \in l .. k - 1
      BY <1>0, <2>2
    <3> QED
      BY <1>0, <2>2, <3>1
  <2>4. ~(j < l)
    <3> SUFFICES ASSUME j < l PROVE FALSE
      OBVIOUS
    <3>1. l - 1 \in j .. k - 1
      BY <1>0, <2>2
    <3> QED
      BY <1>0, <2>2, <3>1
  <2>5. l = j
    BY <1>0, <2>2, <2>3, <2>4
  <2> QED
    BY <2>5 DEF l
<1> DEFINE End(p) == {x \in EscapesOf(R) : x[2] = p}
<1>3. EscapePiece(R, k) = RewriteEscape(SubSeq(R, j, k))
  <2> DEFINE x == CHOOSE y \in End(k) : TRUE
  <2>1. <<j, k>> \in End(k)
    BY <1>1
  <2>2. x \in End(k)
    BY <2>1, Zenon
  <2>3. EscapePiece(R, k) = RewriteEscape(SubSeq(R, x[1], k))
    BY <2>1, Zenon DEF EscapePiece
  <2> HIDE DEF x
  <2>4. x[1] = j
    BY <1>2, <2>2
  <2> QED
    BY <2>3, <2>4, Zenon
<1>4. ASSUME NEW q \in j .. k - 1 PROVE EscapePiece(R, q) = <<>>
  <2>1. End(q) = {}
    <3> SUFFICES ASSUME NEW x \in EscapesOf(R), x[2] = q PROVE FALSE
      OBVIOUS
    <3> DEFINE m == x[2]
    <3>1. IsEscape(R, x[1], m) /\ m = q
      BY EscapesAre
    <3> HIDE DEF m
    <3>2. OpenBraces(R, q) = 0
      BY <3>1 DEF IsEscape
    <3> QED
      BY <1>0, <3>2
  <2>2. \E x \in EscapesOf(R) : q \in x[1] .. x[2]
    <3> DEFINE x == <<j, k>>
    <3>1. x[1] = j /\ x[2] = k
      OBVIOUS
    <3>2. x \in EscapesOf(R)
      BY <1>1
    <3> HIDE DEF x
    <3>3. q \in x[1] .. x[2]
      BY <1>0, <3>1
    <3> QED
      BY <3>2, <3>3
  <2> QED
    BY <2>1, <2>2, Zenon DEF EscapePiece
<1> QED
  BY <1>3, <1>4

\* The scanner is at j, with l open braces, when it has returned t and not yet
\* copied what begins at s.
BracesRead(R, j, s, l, t) ==
  /\ j \in 1 .. Len(R) + 1 /\ s \in 1 .. j
  /\ l \in Nat /\ l = OpenBraces(R, j - 1) /\ OpenBraces(R, s - 1) = 0
  /\ \A q \in 1 .. j - 1 : OpenBraces(R, q) >= 0
  /\ l = 0 => \A q \in s .. j - 1 : OpenBraces(R, q) = 0
  /\ l > 0 => s < j /\ Opens(R, s) /\ \A q \in s .. j - 1 : OpenBraces(R, q) > 0
  /\ t = EscapedUpTo(R, s - 1)

LEMMA BracesFirst ==
  ASSUME NEW R \in Seq(STRING)
  PROVE  BracesRead(R, 1, 1, 0, <<>>)
<1>1. OpenBraces(R, 0) = 0 /\ EscapedUpTo(R, 0) = <<>>
  BY OpenBracesNext, EscapedNone
<1>2. Len(R) \in Nat /\ 1 \in 1 .. Len(R) + 1 /\ 1 \in 1 .. 1 /\ 1 - 1 = 0
  OBVIOUS
<1> QED
  BY <1>1, <1>2 DEF BracesRead

\* One place more.
LEMMA BracesOneMore ==
  ASSUME NEW R \in Seq(STRING), NEW j \in 1 .. Len(R)
  PROVE  /\ OpenBraces(R, j) \in Int /\ OpenBraces(R, j - 1) \in Int
         /\ Opens(R, j) => OpenBraces(R, j) = OpenBraces(R, j - 1) + 1
         /\ Closes(R, j) => OpenBraces(R, j) = OpenBraces(R, j - 1) - 1
         /\ ~Opens(R, j) /\ ~Closes(R, j) => OpenBraces(R, j) = OpenBraces(R, j - 1)
<1> DEFINE m == j - 1
<1>1. m \in Nat /\ j = m + 1 /\ j \in Nat
  OBVIOUS
<1> HIDE DEF m
<1>2. /\ OpenBraces(R, m) \in Int
      /\ Opens(R, m + 1) => OpenBraces(R, m + 1) = OpenBraces(R, m) + 1
      /\ Closes(R, m + 1) => OpenBraces(R, m + 1) = OpenBraces(R, m) - 1
      /\ ~Opens(R, m + 1) /\ ~Closes(R, m + 1) => OpenBraces(R, m + 1) = OpenBraces(R, m)
  BY <1>1, OpenBracesNext
<1>3. OpenBraces(R, j) \in Int
  BY <1>1, OpenBracesNext
<1> QED
  BY <1>1, <1>2, <1>3 DEF m

\* The text that is not copied yet, when none of it is in an escape sequence.
LEMMA NotCopied ==
  ASSUME NEW R, Rewritable(R), NEW s \in 1 .. Len(R) + 1, NEW b \in s - 1 .. Len(R),
         OpenBraces(R, s - 1) = 0,
         \/ \A q \in s .. b : OpenBraces(R, q) = 0
         \/ b = Len(R) /\ \A q \in s .. b : OpenBraces(R, q) > 0
  PROVE  EscapedUpTo(R, b) = EscapedUpTo(R, s - 1) \o SubSeq(R, s, b)
<1>1. R \in Seq(STRING) /\ Len(R) \in Nat
  BY RewritableText
<1>2. b \in Nat /\ b <= Len(R) /\ s - 1 \in 0 .. Len(R) /\ (s - 1) + 1 = s
  BY <1>1
<1>3. \A q \in s .. b : EscapePiece(R, q) = <<R[q]>>
  BY <1>1, <1>2, KeptPiece
<1> DEFINE a == s - 1
<1>4. a \in 0 .. Len(R) /\ b \in a .. Len(R) /\ a + 1 = s
  BY <1>2
<1> HIDE DEF a
<1>5. EscapedUpTo(R, b) = EscapedUpTo(R, a) \o SubSeq(R, a + 1, b)
  BY <1>3, <1>4, EscapedKept
<1> QED
  BY <1>4, <1>5 DEF a

LEMMA BraceOpened ==
  ASSUME NEW R, Rewritable(R), NEW j, NEW s, NEW l, NEW t, BracesRead(R, j, s, l, t),
         j <= Len(R), Opens(R, j)
  PROVE  /\ l = 0 => BracesRead(R, j + 1, j, l + 1, t \o SubSeq(R, s, j - 1))
         /\ l # 0 => BracesRead(R, j + 1, s, l + 1, t)
<1>1. R \in Seq(STRING) /\ Len(R) \in Nat
  BY RewritableText
<1>2. /\ j \in 1 .. Len(R) /\ s \in 1 .. j /\ l \in Nat /\ l = OpenBraces(R, j - 1)
      /\ OpenBraces(R, s - 1) = 0 /\ t = EscapedUpTo(R, s - 1)
      /\ \A q \in 1 .. j - 1 : OpenBraces(R, q) >= 0
      /\ l = 0 => \A q \in s .. j - 1 : OpenBraces(R, q) = 0
      /\ l > 0 => s < j /\ Opens(R, s) /\ \A q \in s .. j - 1 : OpenBraces(R, q) > 0
  BY <1>1 DEF BracesRead
<1>3. OpenBraces(R, j) = l + 1
  BY <1>1, <1>2, BracesOneMore
<1>4. /\ j + 1 \in 1 .. Len(R) + 1 /\ s \in 1 .. j + 1 /\ j \in 1 .. j + 1 /\ (j + 1) - 1 = j
      /\ l + 1 \in Nat /\ l + 1 > 0 /\ l + 1 # 0
  BY <1>1, <1>2
<1>5. \A q \in 1 .. j : OpenBraces(R, q) >= 0
  BY <1>2, <1>3
<1>6. CASE l = 0
  <2>1. EscapedUpTo(R, j - 1) = EscapedUpTo(R, s - 1) \o SubSeq(R, s, j - 1)
    <3>1. s \in 1 .. Len(R) + 1 /\ j - 1 \in s - 1 .. Len(R)
      BY <1>1, <1>2
    <3>2. \A q \in s .. j - 1 : OpenBraces(R, q) = 0
      BY <1>2, <1>6
    <3> QED
      BY <1>2, <3>1, <3>2, NotCopied
  <2>2. \A q \in j .. j : OpenBraces(R, q) > 0
    BY <1>2, <1>3, <1>4
  <2>3. OpenBraces(R, j - 1) = 0 /\ j < j + 1
    BY <1>2, <1>6
  <2> QED
    BY <1>2, <1>3, <1>4, <1>5, <1>6, <2>1, <2>2, <2>3 DEF BracesRead
<1>7. CASE l # 0
  <2>1. s < j + 1 /\ Opens(R, s) /\ \A q \in s .. j : OpenBraces(R, q) > 0
    BY <1>2, <1>3, <1>4, <1>7
  <2> QED
    BY <1>2, <1>3, <1>4, <1>5, <1>7, <2>1 DEF BracesRead
<1> QED
  BY <1>6, <1>7

LEMMA BraceClosed ==
  ASSUME NEW R, Rewritable(R), NEW j, NEW s, NEW l, NEW t, BracesRead(R, j, s, l, t),
         j <= Len(R), Closes(R, j), l > 0
  PROVE  /\ l = 1 => BracesRead(R, j + 1, j + 1, l - 1, t \o RewriteEscape(SubSeq(R, s, j)))
         /\ l # 1 => BracesRead(R, j + 1, s, l - 1, t)
<1>1. R \in Seq(STRING) /\ Len(R) \in Nat
  BY RewritableText
<1>2. /\ j \in 1 .. Len(R) /\ s \in 1 .. j /\ l \in Nat /\ l = OpenBraces(R, j - 1)
      /\ OpenBraces(R, s - 1) = 0 /\ t = EscapedUpTo(R, s - 1)
      /\ \A q \in 1 .. j - 1 : OpenBraces(R, q) >= 0
      /\ s < j /\ Opens(R, s) /\ \A q \in s .. j - 1 : OpenBraces(R, q) > 0
  BY <1>1 DEF BracesRead
<1>3. OpenBraces(R, j) = l - 1
  BY <1>1, <1>2, BracesOneMore
<1>4. /\ j + 1 \in 1 .. Len(R) + 1 /\ s \in 1 .. j + 1 /\ j + 1 \in 1 .. j + 1 /\ (j + 1) - 1 = j
      /\ l - 1 \in Nat /\ s \in 1 .. Len(R)
  BY <1>1, <1>2
<1>5. \A q \in 1 .. j : OpenBraces(R, q) >= 0
  BY <1>2, <1>3, <1>4
<1>6. CASE l = 1
  <2>1. OpenBraces(R, j) = 0 /\ l - 1 = 0
    BY <1>3, <1>6
  <2>2. IsEscape(R, s, j)
    BY <1>2, <2>1 DEF IsEscape
  <2>3. EscapePiece(R, j) = RewriteEscape(SubSeq(R, s, j)) /\ \A q \in s .. j - 1 : EscapePiece(R, q) = <<>>
    BY <1>1, <1>2, <1>4, <2>2, EscapePieces
  <2>4. EscapedUpTo(R, j - 1) = EscapedUpTo(R, s - 1)
    <3> DEFINE a == s - 1
    <3>1. a \in 0 .. Len(R) /\ j - 1 \in a .. Len(R) /\ a + 1 = s
      BY <1>1, <1>2
    <3> HIDE DEF a
    <3>2. \A q \in a + 1 .. j - 1 : EscapePiece(R, q) = <<>>
      BY <2>3, <3>1
    <3>3. EscapedUpTo(R, j - 1) = EscapedUpTo(R, a)
      BY <3>1, <3>2, EscapedStays
    <3> QED
      BY <3>3 DEF a
  <2>5. EscapedUpTo(R, j) = EscapedUpTo(R, j - 1) \o EscapePiece(R, j)
    BY <1>2, EscapedUpToNext
  <2>6. t \o RewriteEscape(SubSeq(R, s, j)) = EscapedUpTo(R, j)
    BY <1>2, <2>3, <2>4, <2>5, Zenon
  <2>7. \A q \in j + 1 .. j : OpenBraces(R, q) = 0
    BY <1>4
  <2> QED
    BY <1>3, <1>4, <1>5, <2>1, <2>6, <2>7 DEF BracesRead
<1>7. CASE l # 1
  <2>1. l - 1 > 0 /\ l - 1 # 0 /\ s < j + 1
    BY <1>2, <1>7
  <2>2. \A q \in s .. j : OpenBraces(R, q) > 0
    BY <1>2, <1>3, <1>4, <2>1
  <2> QED
    BY <1>2, <1>3, <1>4, <1>5, <2>1, <2>2 DEF BracesRead
<1> QED
  BY <1>6, <1>7

LEMMA NoBraceRead ==
  ASSUME NEW R, Rewritable(R), NEW j, NEW s, NEW l, NEW t, BracesRead(R, j, s, l, t),
         j <= Len(R), ~Opens(R, j), ~Closes(R, j)
  PROVE  BracesRead(R, j + 1, s, l, t)
<1>1. R \in Seq(STRING) /\ Len(R) \in Nat
  BY RewritableText
<1>2. /\ j \in 1 .. Len(R) /\ s \in 1 .. j /\ l \in Nat /\ l = OpenBraces(R, j - 1)
      /\ OpenBraces(R, s - 1) = 0 /\ t = EscapedUpTo(R, s - 1)
      /\ \A q \in 1 .. j - 1 : OpenBraces(R, q) >= 0
      /\ l = 0 => \A q \in s .. j - 1 : OpenBraces(R, q) = 0
      /\ l > 0 => s < j /\ Opens(R, s) /\ \A q \in s .. j - 1 : OpenBraces(R, q) > 0
  BY <1>1 DEF BracesRead
<1>3. OpenBraces(R, j) = l
  BY <1>1, <1>2, BracesOneMore
<1>4. j + 1 \in 1 .. Len(R) + 1 /\ s \in 1 .. j + 1 /\ (j + 1) - 1 = j /\ (l > 0 => s < j + 1)
  BY <1>1, <1>2
<1>5. \A q \in 1 .. j : OpenBraces(R, q) >= 0
  BY <1>2, <1>3
<1>6. l = 0 => \A q \in s .. j : OpenBraces(R, q) = 0
  BY <1>2, <1>3
<1>7. l > 0 => \A q \in s .. j : OpenBraces(R, q) > 0
  BY <1>2, <1>3
<1> QED
  BY <1>2, <1>3, <1>4, <1>5, <1>6, <1>7 DEF BracesRead

LEMMA BraceUnexpected ==
  ASSUME NEW R, Rewritable(R), NEW j, NEW s, NEW l, NEW t, BracesRead(R, j, s, l, t),
         j <= Len(R), Closes(R, j), l = 0
  PROVE  Unbalanced(R)
<1>1. R \in Seq(STRING) /\ Len(R) \in Nat
  BY RewritableText
<1>2. j \in 1 .. Len(R) /\ OpenBraces(R, j - 1) = 0
  BY <1>1 DEF BracesRead
<1>3. OpenBraces(R, j) < 0
  BY <1>1, <1>2, BracesOneMore
<1>4. j \in DOMAIN R
  BY <1>1, <1>2
<1> QED
  BY <1>3, <1>4 DEF Unbalanced

LEMMA BracesAtEnd ==
  ASSUME NEW R, Rewritable(R), NEW j, NEW s, NEW l, NEW t, BracesRead(R, j, s, l, t), j > Len(R)
  PROVE  ~Unbalanced(R) /\ t \o SubSeq(R, s, Len(R)) = WithEscapes(R)
<1>1. R \in Seq(STRING) /\ Len(R) \in Nat /\ DOMAIN R = 1 .. Len(R)
  BY RewritableText
<1> DEFINE n == Len(R)
<1>2. /\ j = n + 1 /\ j - 1 = n /\ s \in 1 .. n + 1 /\ l \in Nat
      /\ OpenBraces(R, s - 1) = 0 /\ t = EscapedUpTo(R, s - 1)
      /\ \A q \in 1 .. j - 1 : OpenBraces(R, q) >= 0
      /\ l = 0 => \A q \in s .. j - 1 : OpenBraces(R, q) = 0
      /\ l > 0 => \A q \in s .. j - 1 : OpenBraces(R, q) > 0
  BY <1>1 DEF BracesRead
<1>3. ~Unbalanced(R)
  <2>1. \A q \in 1 .. n : OpenBraces(R, q) \in Int /\ OpenBraces(R, q) >= 0
    BY <1>1, <1>2, BracesOneMore
  <2> QED
    BY <1>1, <2>1 DEF Unbalanced
<1>4. EscapedUpTo(R, n) = t \o SubSeq(R, s, n)
  <2>1. n \in s - 1 .. Len(R) /\ s \in 1 .. Len(R) + 1
    BY <1>1, <1>2
  <2>2. \/ \A q \in s .. n : OpenBraces(R, q) = 0
        \/ n = Len(R) /\ \A q \in s .. n : OpenBraces(R, q) > 0
    BY <1>2
  <2> HIDE DEF n
  <2>3. EscapedUpTo(R, n) = EscapedUpTo(R, s - 1) \o SubSeq(R, s, n)
    BY <1>2, <2>1, <2>2, NotCopied
  <2> QED
    BY <1>2, <2>3
<1>5. WithEscapes(R) = EscapedUpTo(R, n)
  <2>1. WithEscapes(R) = FlattenSeq([p \in DOMAIN R |-> EscapePiece(R, p)])
    BY Zenon DEF WithEscapes, EscapePiece
  <2> QED
    BY <1>1, <2>1, Zenon DEF EscapedUpTo
<1> QED
  BY <1>3, <1>4, <1>5

\* While the escape sequences are rewritten; and afterwards.
BracesInv == phase = "escapes" => BracesRead(given.text, i, st, level, ret)

RewrittenInv ==
  phase # "escapes" /\ ~given.noscan =>
    ret = IF Unbalanced(given.text) THEN given.text ELSE WithEscapes(given.text)

LEMMA GivenRewritable == given \in Statements => Rewritable(given.text)
<1> SUFFICES ASSUME given \in Statements PROVE Rewritable(given.text)
  OBVIOUS
<1>1. given.text \in Seq(STRING)
  BY TextsAssumption
<1>2. \A j, k \in DOMAIN given.text :
        j < k /\ Opens(given.text, j) /\ Closes(given.text, k) => Rewritten(given.text, j, k)
  BY RewriterAssumption, Zenon DEF Opens, Closes, Rewritten
<1> QED
  BY <1>1, <1>2, Zenon DEF Rewritable

\* Whatever an escape sequence becomes, and for texts of any length: each
\* outermost one that is closed is rewritten, once and in its place, and all else
\* is kept (replaceEscapeSequences).
THEOREM EscapesStayInPlace == Spec => []EscapesInPlace
<1>1. Init => BracesInv /\ RewrittenInv
  <2> SUFFICES ASSUME Init PROVE BracesInv /\ RewrittenInv
    OBVIOUS
  <2>1. given \in Statements /\ i = 1 /\ st = 1 /\ level = 0
    BY DEF Init
  <2>2. given.text \in Seq(STRING)
    BY <2>1, TextsAssumption
  <2>3. CASE given.noscan
    <3>1. phase = "markers"
      BY <2>3, Zenon DEF Init
    <3> QED
      BY <2>3, <3>1 DEF BracesInv, RewrittenInv
  <2>4. CASE ~given.noscan
    <3>1. phase = "escapes" /\ ret = <<>>
      BY <2>4, Zenon DEF Init
    <3>2. BracesRead(given.text, i, st, level, ret)
      BY <2>1, <2>2, <3>1, BracesFirst
    <3> QED
      BY <3>1, <3>2 DEF BracesInv, RewrittenInv
  <2> QED
    BY <2>3, <2>4
<1>2. TypeInv /\ EscapesInv /\ BracesInv /\ RewrittenInv /\ [Next]_vars => BracesInv' /\ RewrittenInv'
  <2> SUFFICES ASSUME TypeInv, EscapesInv, BracesInv, RewrittenInv, [Next]_vars
               PROVE  BracesInv' /\ RewrittenInv'
    OBVIOUS
  <2> DEFINE R == given.text
  <2>0. given \in Statements
    BY DEF TypeInv
  <2>1. Rewritable(R) /\ Len(R) \in Nat
    BY <2>0, GivenRewritable, RewritableText
  <2> HIDE DEF R
  <2>2. ASSUME phase' = "escapes", given' = given, BracesRead(R, i', st', level', ret')
        PROVE  BracesInv' /\ RewrittenInv'
    BY <2>2 DEF BracesInv, RewrittenInv, R
  <2>3. ASSUME phase' # "escapes", given' = given,
               ret' = IF Unbalanced(R) THEN R ELSE WithEscapes(R)
        PROVE  BracesInv' /\ RewrittenInv'
    BY <2>3 DEF BracesInv, RewrittenInv, R
  <2>4. ASSUME Escaping
        PROVE  /\ given' = given /\ phase = "escapes" /\ query = R
               /\ BracesRead(R, i, st, level, ret)
    BY <2>4 DEF Escaping, EscapesInv, BracesInv, R
  <2>5. ASSUME Escaping, ~AtEnd PROVE i <= Len(R) /\ i \in Nat /\ level \in Nat
    <3>1. i \in Nat /\ level \in Nat
      BY DEF TypeInv
    <3> QED
      BY <2>1, <2>4, <2>5, <3>1 DEF AtEnd
  <2>6. CASE OpenBrace
    <3>1. Escaping /\ ~AtEnd /\ i' = i + 1 /\ level' = level + 1 /\ phase' = phase
      BY <2>6, Zenon DEF OpenBrace, Skip
    <3>2. Opens(query, i)
      BY <2>6, Zenon DEF OpenBrace, curr, Opens
    <3>3. /\ level = 0 => ret' = ret \o SubSeq(query, st, i - 1) /\ st' = i
          /\ level # 0 => ret' = ret /\ st' = st
      BY <2>6, Zenon DEF OpenBrace
    <3>4. query = R /\ BracesRead(R, i, st, level, ret) /\ i <= Len(R)
      BY <2>4, <2>5, <3>1
    <3>5. /\ level = 0 => BracesRead(R, i + 1, i, level + 1, ret \o SubSeq(R, st, i - 1))
          /\ level # 0 => BracesRead(R, i + 1, st, level + 1, ret)
      BY <2>1, <3>2, <3>4, BraceOpened
    <3>6. BracesRead(R, i', st', level', ret')
      BY <3>1, <3>3, <3>4, <3>5
    <3> QED
      BY <2>2, <2>4, <3>1, <3>6
  <2>7. CASE CloseBrace
    <3>1. Escaping /\ ~AtEnd /\ i' = i + 1 /\ level > 0 /\ level' = level - 1 /\ phase' = phase
      BY <2>7, Zenon DEF CloseBrace, Skip
    <3>2. Closes(query, i)
      BY <2>7, Zenon DEF CloseBrace, curr, Closes
    <3>3. /\ level = 1 => ret' = ret \o RewriteEscape(SubSeq(query, st, i)) /\ st' = i + 1
          /\ level # 1 => ret' = ret /\ st' = st
      BY <2>7, Zenon DEF CloseBrace
    <3>4. query = R /\ BracesRead(R, i, st, level, ret) /\ i <= Len(R)
      BY <2>4, <2>5, <3>1
    <3>5. /\ level = 1 => BracesRead(R, i + 1, i + 1, level - 1, ret \o RewriteEscape(SubSeq(R, st, i)))
          /\ level # 1 => BracesRead(R, i + 1, st, level - 1, ret)
      BY <2>1, <3>1, <3>2, <3>4, BraceClosed
    <3>6. BracesRead(R, i', st', level', ret')
      BY <3>1, <3>3, <3>4, <3>5
    <3> QED
      BY <2>2, <2>4, <3>1, <3>6
  <2>8. CASE NoBrace
    <3>1. Escaping /\ ~AtEnd /\ i' = i + 1 /\ UNCHANGED <<phase, ret, st, level>>
      BY <2>8, Zenon DEF NoBrace, Skip
    <3>2. ~Opens(query, i) /\ ~Closes(query, i)
      BY <2>8, Zenon DEF NoBrace, curr, Opens, Closes
    <3>3. query = R /\ BracesRead(R, i, st, level, ret) /\ i <= Len(R)
      BY <2>4, <2>5, <3>1
    <3>4. BracesRead(R, i + 1, st, level, ret)
      BY <2>1, <3>2, <3>3, NoBraceRead
    <3> QED
      BY <2>2, <2>4, <3>1, <3>4
  <2>9. CASE UnexpectedBrace
    <3>1. Escaping /\ ~AtEnd /\ level = 0 /\ ret' = query /\ phase' = "markers"
      BY <2>9, Zenon DEF UnexpectedBrace, Replaced
    <3>2. Closes(query, i)
      BY <2>9, Zenon DEF UnexpectedBrace, curr, Closes
    <3>3. query = R /\ BracesRead(R, i, st, level, ret) /\ i <= Len(R) /\ given' = given
      BY <2>4, <2>5, <3>1
    <3>4. Unbalanced(R)
      BY <2>1, <3>1, <3>2, <3>3, BraceUnexpected
    <3> QED
      BY <2>3, <3>1, <3>3, <3>4
  <2>10. CASE EscapesEnd
    <3>1. Escaping /\ AtEnd /\ ret' = ret \o SubSeq(query, st, Len(query)) /\ phase' = "markers"
      BY <2>10, Zenon DEF EscapesEnd, Replaced
    <3>2. query = R /\ BracesRead(R, i, st, level, ret) /\ given' = given
      BY <2>4, <3>1
    <3>3. i > Len(R)
      BY <3>1, <3>2 DEF AtEnd
    <3>4. ~Unbalanced(R) /\ ret \o SubSeq(R, st, Len(R)) = WithEscapes(R)
      BY <2>1, <3>2, <3>3, BracesAtEnd
    <3> QED
      BY <2>3, <3>1, <3>2, <3>4
  <2>11. ASSUME phase # "escapes", phase' # "escapes", given' = given, ret' = ret
         PROVE  BracesInv' /\ RewrittenInv'
    BY <2>11 DEF BracesInv, RewrittenInv
  <2>12. ASSUME Extracting, phase' \in {phase, "refused"} PROVE BracesInv' /\ RewrittenInv'
    BY <2>11, <2>12 DEF Extracting
  <2>13. CASE Backslash \/ OpenQuote \/ DoubledQuote \/ CloseQuote \/ OtherCharacter
    <3>1. Extracting /\ phase' = phase
      BY <2>13, Zenon DEF Backslash, OpenQuote, DoubledQuote, CloseQuote, OtherCharacter
    <3> QED
      BY <2>12, <3>1
  <2>14. CASE QuestionMark \/ NamedMarker
    <3>1. Extracting /\ phase' = phase
      BY <2>14, Zenon DEF QuestionMark, NamedMarker, AddParameter, Unquoted
    <3> QED
      BY <2>12, <3>1
  <2>15. CASE NamelessMarker
    <3>1. Extracting /\ phase' = "refused"
      BY <2>15, Zenon DEF NamelessMarker, Unquoted
    <3> QED
      BY <2>12, <3>1
  <2>16. CASE MarkersEnd
    BY <2>11, <2>16 DEF MarkersEnd
  <2>17. CASE SubstituteParameter
    <3>1. phase = "final" /\ phase' = phase /\ given' = given /\ ret' = ret
      BY <2>17, Zenon DEF SubstituteParameter
    <3> QED
      BY <2>11, <3>1
  <2>18. CASE UNCHANGED vars
    BY <2>18 DEF vars, BracesInv, RewrittenInv
  <2> QED
    BY <2>6, <2>7, <2>8, <2>9, <2>10, <2>13, <2>14, <2>15, <2>16, <2>17, <2>18 DEF Next
<1>3. RewrittenInv => EscapesInPlace
  BY DEF RewrittenInv, EscapesInPlace
<1> QED
  BY <1>1, <1>2, <1>3, TypesHold, PTL DEF Spec

-----------------------------------------------------------------------------
(* The parser of type names, a lexeme at a time                            *)

\* The parser is a chain of states, one lexeme apart.
LEMMA ParseStates ==
  ASSUME NEW name, NEW n \in Nat, n = Len(Append(name, "end"))
  PROVE  \E f : /\ f[0] = Unread
                /\ \A k \in 1 .. n : f[k] = Read(f[k - 1], Append(name, "end")[k])
                /\ Parse(name) = f[n]
<1> DEFINE t == Append(name, "end")
           Good(g, m) == g = [k \in 0 .. m |-> IF k = 0 THEN Unread ELSE Read(g[k - 1], t[k])]
           T == {m \in Nat : \E g : Good(g, m)}
<1> HIDE DEF t
<1>1. 0 \in T
  <2> DEFINE g == [k \in 0 .. 0 |-> Unread]
  <2>1. g = [k \in 0 .. 0 |-> IF k = 0 THEN Unread ELSE Read(g[k - 1], t[k])]
    OBVIOUS
  <2> QED
    BY <2>1
<1>2. ASSUME NEW m \in Nat, m \in T PROVE m + 1 \in T
  <2>1. PICK g : Good(g, m)
    BY <1>2
  <2>2. \A k \in 0 .. m : g[k] = IF k = 0 THEN Unread ELSE Read(g[k - 1], t[k])
    BY <2>1
  <2> DEFINE h == [k \in 0 .. m + 1 |-> IF k = m + 1 THEN Read(g[m], t[m + 1]) ELSE g[k]]
  <2>3. ASSUME NEW k \in 0 .. m + 1
        PROVE  h[k] = IF k = 0 THEN Unread ELSE Read(h[k - 1], t[k])
    <3>1. CASE k = 0
      BY <2>2, <3>1
    <3>2. CASE k # 0 /\ k # m + 1
      <4>1. k \in 0 .. m /\ k - 1 \in 0 .. m + 1 /\ k - 1 # m + 1
        BY <3>2
      <4>2. h[k] = g[k] /\ h[k - 1] = g[k - 1]
        BY <3>2, <4>1
      <4> HIDE DEF h
      <4> QED
        BY <2>2, <3>2, <4>1, <4>2
    <3>3. CASE k = m + 1
      <4>1. k - 1 = m /\ m \in 0 .. m + 1 /\ m # m + 1
        BY <3>3
      <4>2. h[k] = Read(g[m], t[m + 1]) /\ h[m] = g[m]
        BY <3>3, <4>1
      <4> HIDE DEF h
      <4> QED
        BY <3>3, <4>1, <4>2
    <3> QED
      BY <3>1, <3>2, <3>3
  <2>4. Good(h, m + 1)
    <3>1. h = [k \in 0 .. m + 1 |-> h[k]]
      OBVIOUS
    <3> HIDE DEF h
    <3>2. [k \in 0 .. m + 1 |-> h[k]] =
            [k \in 0 .. m + 1 |-> IF k = 0 THEN Unread ELSE Read(h[k - 1], t[k])]
      BY <2>3
    <3> QED
      BY <3>1, <3>2
  <2> HIDE DEF h, Good
  <2> QED
    BY <2>4
<1> HIDE DEF T
<1>3. n \in T
  BY <1>1, <1>2, Induction
<1>4. \E g : Good(g, n)
  BY <1>3 DEF T
<1> HIDE DEF Good
<1>5. \E g : Parse(name) = g[n] /\ Good(g, n)
  <2>1. n = Len(t)
    BY DEF t
  <2> DEFINE g0 == CHOOSE g : Good(g, Len(t))
  <2>2. Parse(name) = g0[Len(t)]
    BY Zenon DEF Parse, Good, t
  <2>3. Good(g0, Len(t))
    BY <1>4, <2>1, Zenon
  <2> QED
    BY <2>1, <2>2, <2>3, Zenon
<1>6. PICK g : Parse(name) = g[n] /\ Good(g, n)
  BY <1>5
<1>7. \A k \in 0 .. n : g[k] = IF k = 0 THEN Unread ELSE Read(g[k - 1], t[k])
  BY <1>6 DEF Good
<1>8. g[0] = Unread
  BY <1>7
<1>9. \A k \in 1 .. n : g[k] = Read(g[k - 1], t[k])
  BY <1>7
<1> QED
  BY <1>6, <1>8, <1>9 DEF t

\* A parser that is not done.
Parsing(ast, at, open) == [ast |-> ast, at |-> at, open |-> open, result |-> "more"]

Comma == ","

Punctuation == {"(", ")", ",", "end"}

Child(ast, path) == Append(path, Elements(ast, path) + 1)

Grown(ast, path) ==
  [p \in {Child(ast, path)} \cup DOMAIN ast |-> IF p = Child(ast, path) THEN Element ELSE ast[p]]

\* No punctuation is a number, or has an underscore.
LEMMA NoNumbers ==
  \A w \in Punctuation : w \notin Numbers /\ w \notin Underscored
<1>1. "(" \notin Numbers /\ ")" \notin Numbers /\ "," \notin Numbers /\ "end" \notin Numbers
  BY NumbersAssumption DEF TypeWords
<1> QED
  BY <1>1 DEF Punctuation, Underscored

\* An element added: the tree grows by a child, which is the one being filled.
LEMMA Added ==
  ASSUME NEW A, NEW r, NEW O, NEW q, NEW S
  PROVE  ElementAdded(Parsing(A, r, O), q, S) = Parsing(Grown(A, q), Child(A, q), Append(S, q))
<1> DEFINE P == Parsing(A, r, O)
           c == Child(A, q)
           B == Grown(A, q)
           T == Append(S, q)
<1>1. P.ast = A
  BY DEF Parsing
<1> HIDE DEF P
<1>2. B = [p \in {c} \cup DOMAIN P.ast |-> IF p = c THEN Element ELSE P.ast[p]]
  BY <1>1, Zenon DEF Grown
<1>3. c = Append(q, Elements(P.ast, q) + 1)
  BY <1>1, Zenon DEF Child
<1>4. ElementAdded(P, q, S) = [P EXCEPT !.ast = B, !.at = c, !.open = T]
  <2> HIDE DEF B, c
  <2> QED
    BY <1>2, <1>3, Zenon DEF ElementAdded
<1> HIDE DEF B, c, T
<1>5. [P EXCEPT !.ast = B, !.at = c, !.open = T] = Parsing(B, c, T)
  <2>1. [P EXCEPT !.ast = B, !.at = c, !.open = T] = [[[P EXCEPT !.ast = B] EXCEPT !.at = c] EXCEPT !.open = T]
    BY Zenon
  <2>2. [P EXCEPT !.ast = B] = Parsing(B, r, O)
    BY DEF P, Parsing
  <2>3. [Parsing(B, r, O) EXCEPT !.at = c] = Parsing(B, c, O)
    BY DEF Parsing
  <2>4. [Parsing(B, c, O) EXCEPT !.open = T] = Parsing(B, c, T)
    BY DEF Parsing
  <2> QED
    BY <2>1, <2>2, <2>3, <2>4
<1> QED
  BY <1>4, <1>5 DEF P, B, c, T

\* What one lexeme does to a parser that is not done.
LEMMA ReadOpen ==
  ASSUME NEW A, NEW r, NEW O
  PROVE  Read(Parsing(A, r, O), "(") = Parsing(Grown(A, r), Child(A, r), Append(O, r))
<1> DEFINE P == Parsing(A, r, O)
<1>1. P.result = "more" /\ P.at = r /\ P.open = O
  BY DEF Parsing
<1>2. ElementAdded(P, r, O) = Parsing(Grown(A, r), Child(A, r), Append(O, r))
  BY Added
<1> HIDE DEF P
<1>3. Read(P, "(") = ElementAdded(P, P.at, P.open)
  BY <1>1, NoNumbers DEF Read, Punctuation
<1> QED
  BY <1>1, <1>2, <1>3 DEF P

LEMMA ReadComma ==
  ASSUME NEW A, NEW r, NEW O, NEW q, NEW S, q = Last(O), S = Front(O)
  PROVE  Read(Parsing(A, r, O), Comma) = Parsing(Grown(A, q), Child(A, q), Append(S, q))
<1> DEFINE P == Parsing(A, r, O)
<1>1. P.result = "more" /\ P.open = O
  BY DEF Parsing
<1>2. ElementAdded(P, q, S) = Parsing(Grown(A, q), Child(A, q), Append(S, q))
  BY Added
<1> HIDE DEF P
<1>3. Read(P, Comma) = ElementAdded(P, Last(P.open), Front(P.open))
  BY <1>1, NoNumbers DEF Read, Punctuation, Comma
<1> QED
  BY <1>1, <1>2, <1>3 DEF P

LEMMA ReadClose ==
  ASSUME NEW A, NEW r, NEW O, NEW q, NEW S, q = Last(O), S = Front(O)
  PROVE  Read(Parsing(A, r, O), ")") = Parsing(A, q, S)
<1> DEFINE P == Parsing(A, r, O)
<1>1. P.result = "more" /\ P.open = O
  BY DEF Parsing
<1>2. [P EXCEPT !.at = q, !.open = S] = Parsing(A, q, S)
  <2>1. [P EXCEPT !.at = q, !.open = S] = [[P EXCEPT !.at = q] EXCEPT !.open = S]
    BY Zenon
  <2>2. [P EXCEPT !.at = q] = Parsing(A, q, O)
    BY DEF P, Parsing
  <2>3. [Parsing(A, q, O) EXCEPT !.open = S] = Parsing(A, q, S)
    BY DEF Parsing
  <2> QED
    BY <2>1, <2>2, <2>3
<1> HIDE DEF P
<1>3. Read(P, ")") = [P EXCEPT !.at = Last(P.open), !.open = Front(P.open)]
  BY <1>1, NoNumbers DEF Read, Punctuation
<1>4. Read(P, ")") = [P EXCEPT !.at = q, !.open = S]
  BY <1>1, <1>3
<1> QED
  BY <1>2, <1>4 DEF P

LEMMA ReadEnd ==
  ASSUME NEW A, NEW r, NEW O
  PROVE  Read(Parsing(A, r, O), "end").result = "parsed" /\ Read(Parsing(A, r, O), "end").ast = A
<1> DEFINE P == Parsing(A, r, O)
<1>1. P.result = "more"
  BY DEF Parsing
<1>2. [P EXCEPT !.result = "parsed"].result = "parsed" /\ [P EXCEPT !.result = "parsed"].ast = A
  BY DEF P, Parsing
<1> HIDE DEF P
<1>3. Read(P, "end") = [P EXCEPT !.result = "parsed"]
  BY <1>1, NoNumbers DEF Read, Punctuation
<1> QED
  BY <1>2, <1>3 DEF P

Filled(A, r, e) == [A EXCEPT ![r] = e]

LEMMA ReadWord ==
  ASSUME NEW A, NEW r, NEW O, NEW w, w \notin Numbers \cup Underscored \cup Punctuation
  PROVE  Read(Parsing(A, r, O), w) =
           Parsing(Filled(A, r, [meta |-> Meta(w), name |-> w, size |-> A[r].size]), r, O)
<1> DEFINE P == Parsing(A, r, O)
<1>1. P.result = "more" /\ P.ast = A /\ P.at = r
  BY DEF Parsing
<1> HIDE DEF P
<1>2. Read(P, w) = Named(P, w)
  BY <1>1 DEF Read, Punctuation
<1>3. Named(P, w) = [P EXCEPT !.ast = Filled(A, r, [meta |-> Meta(w), name |-> w, size |-> A[r].size])]
  BY <1>1, Zenon DEF Named, Filled
<1> DEFINE B == Filled(A, r, [meta |-> Meta(w), name |-> w, size |-> A[r].size])
<1> HIDE DEF B
<1>4. [P EXCEPT !.ast = B] = Parsing(B, r, O)
  BY DEF P, Parsing
<1> QED
  BY <1>2, <1>3, <1>4 DEF P, B

LEMMA ReadSize ==
  ASSUME NEW A, NEW r, NEW O, NEW w \in Numbers
  PROVE  Read(Parsing(A, r, O), w) =
           Parsing(Filled(A, r, [meta |-> "number", name |-> A[r].name, size |-> w]), r, O)
<1> DEFINE P == Parsing(A, r, O)
<1>1. P.result = "more" /\ P.ast = A /\ P.at = r
  BY DEF Parsing
<1>0. w \notin Underscored \cup Punctuation
  BY NumbersAssumption DEF TypeWords, Punctuation
<1> HIDE DEF P
<1>2. Read(P, w) = Sized(P, w)
  BY <1>0, <1>1 DEF Read, Punctuation
<1>3. Sized(P, w) = [P EXCEPT !.ast = Filled(A, r, [meta |-> "number", name |-> A[r].name, size |-> w])]
  BY <1>1, Zenon DEF Sized, Filled
<1> DEFINE B == Filled(A, r, [meta |-> "number", name |-> A[r].name, size |-> w])
<1> HIDE DEF B
<1>4. [P EXCEPT !.ast = B] = Parsing(B, r, O)
  BY DEF P, Parsing
<1> QED
  BY <1>2, <1>3, <1>4 DEF P, B

-----------------------------------------------------------------------------
(* Trees of type names                                                     *)

\* Paths: an element is not its own child, and has each child once.
LEMMA Siblings ==
  ASSUME NEW r \in Seq(Nat), NEW k \in Nat, NEW l \in Nat
  PROVE  Append(r, k) \in Seq(Nat) /\ Append(r, k) # r /\ (Append(r, k) = Append(r, l) => k = l)
<1>1. Len(Append(r, k)) = Len(r) + 1 /\ Append(r, k)[Len(r) + 1] = k /\ Append(r, l)[Len(r) + 1] = l
  OBVIOUS
<1> QED
  BY <1>1

\* The elements of a path are counted by the largest.
LEMMA ElementsAre ==
  ASSUME NEW A, NEW r, NEW n \in 0 .. 9, \A k \in 1 .. 9 : Append(r, k) \in DOMAIN A <=> k <= n
  PROVE  Elements(A, r) = n
<1>1. {k \in 1 .. 9 : Append(r, k) \in DOMAIN A} = 1 .. n
  OBVIOUS
<1>2. Cardinality(1 .. n) = n
  <2>1. 1 \in Int /\ n \in Int
    OBVIOUS
  <2>2. Cardinality(1 .. n) = IF 1 > n THEN 0 ELSE n - 1 + 1
    BY <2>1, FS_Interval, Zenon
  <2> QED
    BY <2>2
<1> QED
  BY <1>1, <1>2 DEF Elements

\* What is opened is what is closed.
LEMMA OpenAndBack ==
  ASSUME NEW S, NEW O \in Seq(S), NEW r \in S
  PROVE  Last(Append(O, r)) = r /\ Front(Append(O, r)) = O
<1>1. Append(O, r) \in Seq(S) /\ Len(Append(O, r)) = Len(O) + 1 /\ Append(O, r)[Len(O) + 1] = r
  OBVIOUS
<1>2. Last(Append(O, r)) = r
  BY <1>1 DEF Last
<1>3. Front(Append(O, r)) = SubSeq(Append(O, r), 1, Len(O))
  BY <1>1 DEF Front
<1>4. SubSeq(Append(O, r), 1, Len(O)) = O
  OBVIOUS
<1> QED
  BY <1>2, <1>3, <1>4

\* What filling an element, and adding one, leave alone.
LEMMA FilledTree ==
  ASSUME NEW A, NEW r, r \in DOMAIN A, NEW e
  PROVE  /\ DOMAIN Filled(A, r, e) = DOMAIN A /\ Filled(A, r, e)[r] = e
         /\ \A q \in DOMAIN A : q # r => Filled(A, r, e)[q] = A[q]
BY DEF Filled

LEMMA GrownTree ==
  ASSUME NEW A, NEW r, NEW c, c = Child(A, r), c \notin DOMAIN A
  PROVE  /\ DOMAIN Grown(A, r) = {c} \cup DOMAIN A /\ Grown(A, r)[c] = Element
         /\ \A q \in DOMAIN A : Grown(A, r)[q] = A[q]
<1>1. Grown(A, r) = [p \in {c} \cup DOMAIN A |-> IF p = c THEN Element ELSE A[p]]
  BY Zenon DEF Grown
<1> QED
  BY <1>1, Zenon

\* A path without elements below it.
Leaf(A, r) == r \in Seq(Nat) /\ r \in DOMAIN A /\ \A k \in 1 .. 9 : Append(r, k) \notin DOMAIN A

\* The element at r names the type, in a tree that was A before it.
Types(B, A, r, type, precision, scale) ==
  /\ IsFiniteSet(DOMAIN B) /\ DOMAIN A \subseteq DOMAIN B
  /\ \A q \in DOMAIN A : q # r => B[q] = A[q]
  /\ B[r].meta = "terminal"
  /\ TakenFrom(B, r, TRUE) = Column(type, TRUE, precision, scale)
  /\ TakenFrom(B, r, FALSE) = Column(type, FALSE, precision, scale)

\* The tree of a name of one word, and that of a decimal.
LEMMA SimpleTree ==
  ASSUME NEW A, IsFiniteSet(DOMAIN A), NEW r, Leaf(A, r), NEW w,
         w \notin {"array", "null", "nullable", "tuple", "datetime64", "decimal"}
  PROVE  Types(Filled(A, r, [meta |-> Meta(w), name |-> w, size |-> A[r].size]), A, r, w, "0", "0")
<1> DEFINE e == [meta |-> Meta(w), name |-> w, size |-> A[r].size]
           B == Filled(A, r, e)
<1>1. e.meta = "terminal" /\ e.name = w
  BY DEF Meta
<1> HIDE DEF e
<1>2. DOMAIN B = DOMAIN A /\ B[r] = e /\ \A q \in DOMAIN A : q # r => B[q] = A[q]
  BY FilledTree DEF Leaf
<1> HIDE DEF B
<1>3. Elements(B, r) = 0
  <2>1. \A k \in 1 .. 9 : Append(r, k) \in DOMAIN B <=> k <= 0
    BY <1>2 DEF Leaf
  <2>2. 0 \in 0 .. 9
    OBVIOUS
  <2> QED
    BY <2>1, <2>2, ElementsAre, Zenon
<1>4. ASSUME NEW nullable PROVE TakenFrom(B, r, nullable) = Column(w, nullable, "0", "0")
  <2>1. CASE w = "datetime"
    BY <1>1, <1>2, <1>3, <2>1, Zenon DEF TakenFrom
  <2>2. CASE w # "datetime"
    BY <1>1, <1>2, <1>3, <2>2, Zenon DEF TakenFrom
  <2> QED
    BY <2>1, <2>2
<1> QED
  BY <1>1, <1>2, <1>4 DEF Types, B, e

LEMMA DecimalTree ==
  ASSUME NEW A, IsFiniteSet(DOMAIN A), NEW r, r \in Seq(Nat), r \in DOMAIN A, NEW B, NEW p, NEW s,
         DOMAIN B = DOMAIN A \cup {Append(r, 1), Append(r, 2)},
         \A k \in 1 .. 9 : Append(r, k) \notin DOMAIN A,
         B[r].meta = "terminal", B[r].name = "decimal",
         B[Append(r, 1)].size = p, B[Append(r, 2)].size = s,
         \A q \in DOMAIN A : q # r => B[q] = A[q]
  PROVE  Types(B, A, r, "decimal", p, s)
<1>1. Elements(B, r) = 2
  <2>1. ASSUME NEW k \in 1 .. 9 PROVE Append(r, k) \in DOMAIN B <=> k <= 2
    <3>1. Append(r, k) = Append(r, 1) => k = 1
      BY Siblings
    <3>2. Append(r, k) = Append(r, 2) => k = 2
      BY Siblings
    <3>3. k <= 2 => k = 1 \/ k = 2
      OBVIOUS
    <3> QED
      BY <3>1, <3>2, <3>3
  <2>2. 2 \in 0 .. 9
    OBVIOUS
  <2> QED
    BY <2>1, <2>2, ElementsAre, Zenon
<1>2. ASSUME NEW nullable PROVE TakenFrom(B, r, nullable) = Column("decimal", nullable, p, s)
  BY <1>1, Zenon DEF TakenFrom
<1>3. IsFiniteSet(DOMAIN B)
  <2>1. IsFiniteSet({Append(r, 1), Append(r, 2)})
    <3>1. IsFiniteSet({})
      BY FS_EmptySet
    <3>2. IsFiniteSet({} \cup {Append(r, 1)})
      BY <3>1, FS_AddElement
    <3>3. IsFiniteSet(({} \cup {Append(r, 1)}) \cup {Append(r, 2)})
      BY <3>2, FS_AddElement
    <3>4. ({} \cup {Append(r, 1)}) \cup {Append(r, 2)} = {Append(r, 1), Append(r, 2)}
      BY Zenon
    <3> QED
      BY <3>3, <3>4
  <2>2. IsFiniteSet(DOMAIN A \cup {Append(r, 1), Append(r, 2)})
    <3> DEFINE D == DOMAIN A
               E == {Append(r, 1), Append(r, 2)}
    <3>1. IsFiniteSet(D) /\ IsFiniteSet(E)
      BY <2>1
    <3> HIDE DEF D, E
    <3>2. IsFiniteSet(D \cup E)
      BY <3>1, FS_Union, Zenon
    <3> QED
      BY <3>2 DEF D, E
  <2> QED
    BY <2>2
<1> QED
  BY <1>2, <1>3 DEF Types

-----------------------------------------------------------------------------
(* What the parser makes of a name                                         *)

\* A name of a type of its own, as it is known again.
Body(b, type, precision, scale) ==
  \/ /\ b = <<type>> /\ precision = "0" /\ scale = "0"
     /\ type \notin Numbers \cup Underscored \cup Punctuation
     /\ type \notin {"array", "null", "nullable", "tuple", "datetime64", "decimal"}
  \/ /\ b = <<"decimal", "(", precision, Comma, scale, ")">> /\ type = "decimal"
     /\ precision \in Numbers /\ scale \in Numbers

Readings(f, a, b) == \A k \in 1 .. Len(b) : f[a + k] = Read(f[a + k - 1], b[k])

\* Reading a name of one word, and a decimal, at any element and depth.
LEMMA SimpleRead ==
  ASSUME NEW f, NEW a \in Nat, NEW A, IsFiniteSet(DOMAIN A), NEW r, Leaf(A, r), NEW O, NEW w,
         f[a] = Parsing(A, r, O), Readings(f, a, <<w>>),
         w \notin Numbers \cup Underscored \cup Punctuation,
         w \notin {"array", "null", "nullable", "tuple", "datetime64", "decimal"}
  PROVE  \E B : f[a + 1] = Parsing(B, r, O) /\ Types(B, A, r, w, "0", "0")
<1> DEFINE B == Filled(A, r, [meta |-> Meta(w), name |-> w, size |-> A[r].size])
<1>1. f[a + 1] = Read(f[a], w)
  <2>1. Len(<<w>>) = 1 /\ <<w>>[1] = w /\ 1 \in 1 .. 1 /\ a + 1 - 1 = a
    OBVIOUS
  <2> QED
    BY <2>1 DEF Readings
<1>2. f[a + 1] = Parsing(B, r, O)
  <2>1. Read(Parsing(A, r, O), w) = Parsing(B, r, O)
    BY ReadWord
  <2> HIDE DEF B
  <2> QED
    BY <1>1, <2>1
<1>3. Types(B, A, r, w, "0", "0")
  BY SimpleTree, Zenon
<1> QED
  BY <1>2, <1>3

LEMMA DecimalRead ==
  ASSUME NEW f, NEW a \in Nat, NEW A, IsFiniteSet(DOMAIN A), NEW r, Leaf(A, r),
         NEW S, NEW O \in Seq(S), r \in S, NEW p \in Numbers, NEW s \in Numbers,
         NEW b, b = <<"decimal", "(", p, Comma, s, ")">>,
         f[a] = Parsing(A, r, O), Readings(f, a, b)
  PROVE  \E B : f[a + 6] = Parsing(B, r, O) /\ Types(B, A, r, "decimal", p, s)
<1> DEFINE c == Append(r, 1)
           d == Append(r, 2)
           e == [meta |-> Meta("decimal"), name |-> "decimal", size |-> A[r].size]
           A1 == Filled(A, r, e)
           A2 == Grown(A1, r)
           A3 == Filled(A2, c, [meta |-> "number", name |-> A2[c].name, size |-> p])
           A4 == Grown(A3, r)
           A5 == Filled(A4, d, [meta |-> "number", name |-> A4[d].name, size |-> s])
<1> HIDE DEF A1, A2, A3, A4, A5
<1>1. /\ f[a + 1] = Read(f[a], "decimal") /\ f[a + 2] = Read(f[a + 1], "(")
      /\ f[a + 3] = Read(f[a + 2], p) /\ f[a + 4] = Read(f[a + 3], Comma)
      /\ f[a + 5] = Read(f[a + 4], s) /\ f[a + 6] = Read(f[a + 5], ")")
  <2>1. /\ Len(b) = 6 /\ b[1] = "decimal" /\ b[2] = "(" /\ b[3] = p
        /\ b[4] = Comma /\ b[5] = s /\ b[6] = ")"
    OBVIOUS
  <2>2. \A k \in 1 .. 6 : f[a + k] = Read(f[a + k - 1], b[k])
    BY <2>1 DEF Readings
  <2>3. a + 1 - 1 = a /\ a + 2 - 1 = a + 1 /\ a + 3 - 1 = a + 2 /\ a + 4 - 1 = a + 3
        /\ a + 5 - 1 = a + 4 /\ a + 6 - 1 = a + 5
    OBVIOUS
  <2> QED
    BY <2>1, <2>2, <2>3
<1>2. r \in Seq(Nat) /\ r \in DOMAIN A /\ (\A k \in 1 .. 9 : Append(r, k) \notin DOMAIN A)
  BY DEF Leaf
<1>3. /\ c # r /\ d # r /\ c # d /\ c \notin DOMAIN A /\ d \notin DOMAIN A
      /\ \A k \in 1 .. 9 : (Append(r, k) = c <=> k = 1)
  <2>1. Append(r, 1) # r /\ Append(r, 2) # r /\ (Append(r, 1) = Append(r, 2) => 1 = 2)
    BY <1>2, Siblings
  <2>2. \A k \in 1 .. 9 : Append(r, k) = Append(r, 1) => k = 1
    BY <1>2, Siblings
  <2> QED
    BY <1>2, <2>1, <2>2
<1>4. e.meta = "terminal" /\ e.name = "decimal"
  BY DEF Meta
<1> HIDE DEF e
<1>5. f[a + 1] = Parsing(A1, r, O)
  <2>1. "decimal" \notin Numbers \cup Underscored \cup Punctuation
    <3>1. "decimal" \notin Numbers
      BY NumbersAssumption DEF TypeWords
    <3> QED
      BY <3>1 DEF Underscored, Punctuation
  <2> QED
    <3>1. Read(Parsing(A, r, O), "decimal") = Parsing(A1, r, O)
      BY <2>1, ReadWord DEF e, A1
    <3> QED
      BY <1>1, <3>1
<1>6. DOMAIN A1 = DOMAIN A /\ A1[r] = e /\ \A q \in DOMAIN A : q # r => A1[q] = A[q]
  BY <1>2, FilledTree DEF A1
<1>7. Child(A1, r) = c
  <2>1. \A k \in 1 .. 9 : Append(r, k) \in DOMAIN A1 <=> k <= 0
    BY <1>2, <1>6
  <2>2. 0 \in 0 .. 9 /\ 0 + 1 = 1
    OBVIOUS
  <2>3. Elements(A1, r) = 0
    BY <2>1, <2>2, ElementsAre, Zenon
  <2> QED
    BY <2>2, <2>3, Zenon DEF Child, c
<1>8. f[a + 2] = Parsing(A2, c, Append(O, r))
  <2>1. Read(Parsing(A1, r, O), "(") = Parsing(A2, c, Append(O, r))
    BY <1>7, ReadOpen DEF A2
  <2> QED
    BY <1>1, <1>5, <2>1
<1> HIDE DEF c, d
<1>9. /\ DOMAIN A2 = {c} \cup DOMAIN A1 /\ A2[c] = Element
      /\ \A q \in DOMAIN A1 : A2[q] = A1[q]
  <2>1. c \notin DOMAIN A1
    BY <1>3, <1>6
  <2>2. /\ DOMAIN Grown(A1, r) = {c} \cup DOMAIN A1 /\ Grown(A1, r)[c] = Element
        /\ \A q \in DOMAIN A1 : Grown(A1, r)[q] = A1[q]
    BY <1>7, <2>1, GrownTree, Zenon
  <2> QED
    BY <2>2 DEF A2
<1>10. f[a + 3] = Parsing(A3, c, Append(O, r))
  <2>1. Read(Parsing(A2, c, Append(O, r)), p) = Parsing(A3, c, Append(O, r))
    BY ReadSize DEF A3
  <2> QED
    BY <1>1, <1>8, <2>1
<1>11. /\ DOMAIN A3 = DOMAIN A2 /\ A3[c].size = p
       /\ \A q \in DOMAIN A2 : q # c => A3[q] = A2[q]
  <2> DEFINE g == [meta |-> "number", name |-> A2[c].name, size |-> p]
  <2>1. g.size = p
    OBVIOUS
  <2> HIDE DEF g
  <2>2. DOMAIN A3 = DOMAIN A2 /\ A3[c] = g /\ \A q \in DOMAIN A2 : q # c => A3[q] = A2[q]
    BY <1>9, FilledTree DEF g, A3
  <2> QED
    BY <2>1, <2>2, Zenon
<1>12. Child(A3, r) = d
  <2>1. \A k \in 1 .. 9 : Append(r, k) \in DOMAIN A3 <=> k <= 1
    BY <1>2, <1>3, <1>6, <1>9, <1>11
  <2>2. 1 \in 0 .. 9 /\ 1 + 1 = 2
    OBVIOUS
  <2>3. Elements(A3, r) = 1
    BY <2>1, <2>2, ElementsAre, Zenon
  <2> QED
    BY <2>2, <2>3, Zenon DEF Child, d
<1>13. Last(Append(O, r)) = r /\ Front(Append(O, r)) = O
  BY <1>2, OpenAndBack
<1>14. f[a + 4] = Parsing(A4, d, Append(O, r))
  <2> DEFINE o == Append(O, r)
  <2> HIDE DEF o
  <2>1. Last(o) = r /\ Front(o) = O
    BY <1>13 DEF o
  <2>2. Read(Parsing(A3, c, o), Comma) = Parsing(Grown(A3, r), Child(A3, r), Append(O, r))
    BY <2>1, ReadComma
  <2>3. Read(Parsing(A3, c, o), Comma) = Parsing(A4, d, Append(O, r))
    BY <1>12, <2>2 DEF A4
  <2> QED
    BY <1>1, <1>10, <2>3 DEF o
<1>15. /\ DOMAIN A4 = {d} \cup DOMAIN A3
       /\ \A q \in DOMAIN A3 : A4[q] = A3[q]
  <2>1. d \notin DOMAIN A3
    BY <1>3, <1>6, <1>9, <1>11
  <2> QED
    BY <1>12, <2>1, GrownTree DEF A4
<1>16. f[a + 5] = Parsing(A5, d, Append(O, r))
  <2>1. Read(Parsing(A4, d, Append(O, r)), s) = Parsing(A5, d, Append(O, r))
    BY ReadSize DEF A5
  <2> QED
    BY <1>1, <1>14, <2>1
<1>17. /\ DOMAIN A5 = DOMAIN A4 /\ A5[d].size = s
       /\ \A q \in DOMAIN A4 : q # d => A5[q] = A4[q]
  <2> DEFINE g == [meta |-> "number", name |-> A4[d].name, size |-> s]
  <2>1. g.size = s
    OBVIOUS
  <2> HIDE DEF g
  <2>2. A5 = Filled(A4, d, g)
    BY DEF g, A5
  <2>3. d \in DOMAIN A4
    BY <1>15
  <2>4. DOMAIN A5 = DOMAIN A4 /\ A5[d] = g /\ \A q \in DOMAIN A4 : q # d => A5[q] = A4[q]
    <3>1. /\ DOMAIN Filled(A4, d, g) = DOMAIN A4 /\ Filled(A4, d, g)[d] = g
          /\ \A q \in DOMAIN A4 : q # d => Filled(A4, d, g)[q] = A4[q]
      BY <2>3, FilledTree
    <3> QED
      BY <2>2, <3>1
  <2> QED
    BY <2>1, <2>4, Zenon
<1>18. f[a + 6] = Parsing(A5, r, O)
  <2> DEFINE o == Append(O, r)
  <2> HIDE DEF o
  <2>1. Last(o) = r /\ Front(o) = O
    BY <1>13 DEF o
  <2>2. Read(Parsing(A5, d, o), ")") = Parsing(A5, r, O)
    BY <2>1, ReadClose
  <2> QED
    BY <1>1, <1>16, <2>2 DEF o
<1>19. DOMAIN A5 = DOMAIN A \cup {c, d}
  BY <1>6, <1>9, <1>11, <1>15, <1>17
<1>20. A5[r] = e /\ A5[c].size = p /\ \A q \in DOMAIN A : q # r => A5[q] = A[q]
  BY <1>2, <1>3, <1>6, <1>9, <1>11, <1>15, <1>17
<1>21. Types(A5, A, r, "decimal", p, s)
  BY <1>2, <1>4, <1>17, <1>19, <1>20, DecimalTree DEF c, d
<1> QED
  BY <1>18, <1>21

LEMMA BodyRead ==
  ASSUME NEW f, NEW a \in Nat, NEW A, IsFiniteSet(DOMAIN A), NEW r, Leaf(A, r),
         NEW S, NEW O \in Seq(S), r \in S, NEW b, NEW type, NEW p, NEW s, Body(b, type, p, s),
         f[a] = Parsing(A, r, O), Readings(f, a, b)
  PROVE  \E B : f[a + Len(b)] = Parsing(B, r, O) /\ Types(B, A, r, type, p, s)
<1>1. CASE b = <<type>> /\ p = "0" /\ s = "0"
           /\ type \notin Numbers \cup Underscored \cup Punctuation
           /\ type \notin {"array", "null", "nullable", "tuple", "datetime64", "decimal"}
  <2>1. Len(b) = 1
    BY <1>1
  <2> QED
    BY <1>1, <2>1, SimpleRead
<1>2. CASE b = <<"decimal", "(", p, Comma, s, ")">> /\ type = "decimal" /\ p \in Numbers /\ s \in Numbers
  <2>1. Len(b) = 6
    BY <1>2
  <2> QED
    BY <1>2, <2>1, DecimalRead
<1> QED
  BY <1>1, <1>2 DEF Body

\* The tree before the first lexeme.
Root == [path \in {<<>>} |-> Element]
Opened == << <<>> >>

\* The parser before the first lexeme.
LEMMA NothingRead ==
  /\ Unread = Parsing(Root, <<>>, Opened) /\ IsFiniteSet(DOMAIN Root) /\ Leaf(Root, <<>>)
  /\ <<>> \in Seq(Nat) /\ Opened \in Seq({<<>>}) /\ Opened # <<>> /\ Last(Opened) = <<>>
<1>1. Unread = Parsing(Root, <<>>, Opened)
  BY Zenon DEF Unread, Parsing, Root, Opened
<1>2. DOMAIN Root = {<<>>}
  BY DEF Root
<1>3. IsFiniteSet({} \cup {<<>>})
  BY FS_EmptySet, FS_AddElement
<1>4. IsFiniteSet({<<>>})
  <2>1. {} \cup {<<>>} = {<<>>}
    BY Zenon
  <2> QED
    BY <1>3, <2>1
<1>5. <<>> \in Seq(Nat)
  OBVIOUS
<1>6. \A k \in 1 .. 9 : Append(<<>>, k) # <<>>
  BY <1>5, Siblings
<1>7. Leaf(Root, <<>>)
  BY <1>2, <1>5, <1>6 DEF Leaf
<1>8. Opened \in Seq({<<>>}) /\ Opened # <<>> /\ Last(Opened) = <<>>
  BY DEF Opened, Last
<1> QED
  BY <1>1, <1>2, <1>4, <1>5, <1>7, <1>8

LEMMA Inners == Inner(0) = <<>> /\ Inner(1) = Append(<<>>, 1)
BY DEF Inner

\* How many wrappers of NULL a tree begins with.
LEMMA PlainDepth ==
  ASSUME NEW B, IsFiniteSet(DOMAIN B), B[<<>>].meta = "terminal"
  PROVE  Depth(B) = 0
<1> DEFINE N == Cardinality(DOMAIN B)
           Good(n) == /\ \A m \in 0 .. n - 1 : B[Inner(m)].meta = "nullable"
                      /\ B[Inner(n)].meta # "nullable"
<1>1. N \in Nat
  BY FS_CardinalityType
<1>2. Good(0)
  BY Inners
<1>3. ASSUME NEW n \in 0 .. N, Good(n) PROVE n = 0
  <2>1. n # 0 => 0 \in 0 .. n - 1
    BY <1>1
  <2> QED
    BY <1>3, <2>1, Inners
<1>4. Depth(B) = CHOOSE n \in 0 .. N : Good(n)
  BY Zenon DEF Depth
<1> HIDE DEF Good, N
<1> QED
  BY <1>1, <1>2, <1>3, <1>4

LEMMA NullableDepth ==
  ASSUME NEW B, IsFiniteSet(DOMAIN B), <<>> \in DOMAIN B, B[<<>>].meta = "nullable",
         B[Append(<<>>, 1)].meta = "terminal"
  PROVE  Depth(B) = 1
<1> DEFINE N == Cardinality(DOMAIN B)
           Good(n) == /\ \A m \in 0 .. n - 1 : B[Inner(m)].meta = "nullable"
                      /\ B[Inner(n)].meta # "nullable"
<1>1. N \in Nat /\ 1 <= N
  <2>1. N \in Nat
    BY FS_CardinalityType
  <2>2. N # 0
    BY FS_EmptySet
  <2> QED
    BY <2>1, <2>2
<1>2. Good(1)
  <2>1. \A m \in 0 .. 1 - 1 : m = 0
    OBVIOUS
  <2> QED
    BY <2>1, Inners
<1>3. ASSUME NEW n \in 0 .. N, Good(n) PROVE n = 1
  <2>1. n # 0
    BY <1>3, Inners
  <2>2. n # 1 => 1 \in 0 .. n - 1
    BY <1>1, <2>1
  <2> QED
    BY <1>3, <2>1, <2>2, Inners
<1>4. Depth(B) = CHOOSE n \in 0 .. N : Good(n)
  BY Zenon DEF Depth
<1>5. 1 \in 0 .. N
  BY <1>1
<1> HIDE DEF Good, N
<1> QED
  BY <1>2, <1>3, <1>4, <1>5

\* A name without a wrapper is read to its end, and known again.
LEMMA PlainRead ==
  ASSUME NEW T, NEW b \in Seq(T), NEW type, NEW p, NEW s, Body(b, type, p, s)
  PROVE  Parse(b).result = "parsed" /\ AssignTypeInfo(Parse(b).ast) = Column(type, FALSE, p, s)
<1> DEFINE t == Append(b, "end")
           n == Len(t)
<1>1. n = Len(b) + 1 /\ n \in Nat /\ t[n] = "end" /\ \A k \in 1 .. Len(b) : t[k] = b[k]
  OBVIOUS
<1>2. PICK f : f[0] = Unread /\ (\A k \in 1 .. n : f[k] = Read(f[k - 1], t[k])) /\ Parse(b) = f[n]
  BY <1>1, ParseStates
<1> HIDE DEF t, n
<1>3. Readings(f, 0, b)
  <2> SUFFICES ASSUME NEW k \in 1 .. Len(b) PROVE f[0 + k] = Read(f[0 + k - 1], b[k])
    BY DEF Readings
  <2>1. k \in 1 .. n /\ 0 + k = k /\ 0 + k - 1 = k - 1 /\ t[k] = b[k]
    BY <1>1
  <2> QED
    BY <1>2, <2>1
<1>4. PICK B : f[0 + Len(b)] = Parsing(B, <<>>, Opened) /\ Types(B, Root, <<>>, type, p, s)
  <2>1. <<>> \in {<<>>} /\ 0 \in Nat
    OBVIOUS
  <2> QED
    BY <1>2, <1>3, <2>1, NothingRead, BodyRead
<1>5. Parse(b) = Read(Parsing(B, <<>>, Opened), "end")
  <2>1. 0 + Len(b) = n - 1 /\ n \in 1 .. n
    BY <1>1
  <2> QED
    BY <1>1, <1>2, <1>4, <2>1
<1>6. Parse(b).result = "parsed" /\ Parse(b).ast = B
  BY <1>5, ReadEnd
<1>7. IsFiniteSet(DOMAIN B) /\ B[<<>>].meta = "terminal"
      /\ TakenFrom(B, <<>>, FALSE) = Column(type, FALSE, p, s)
  BY <1>4, Zenon DEF Types
<1>8. AssignTypeInfo(B) = TakenFrom(B, <<>>, FALSE)
  <2>1. Depth(B) = 0
    BY <1>7, PlainDepth
  <2>2. (0 > 0) = FALSE
    OBVIOUS
  <2> QED
    BY <2>1, <2>2, Inners DEF AssignTypeInfo
<1> QED
  BY <1>6, <1>7, <1>8

\* "nullable(" read.
Wrapped == Grown(Filled(Root, <<>>, [meta |-> "nullable", name |-> "nullable", size |-> Root[<<>>].size]), <<>>)

\* The parser after the wrapper of NULL is opened.
LEMMA NullableOpened ==
  ASSUME NEW f, f[0] = Unread, f[1] = Read(f[0], "nullable"), f[2] = Read(f[1], "(")
  PROVE  /\ f[2] = Parsing(Wrapped, Append(<<>>, 1), Append(Opened, <<>>))
         /\ IsFiniteSet(DOMAIN Wrapped) /\ Leaf(Wrapped, Append(<<>>, 1))
         /\ <<>> \in DOMAIN Wrapped /\ Wrapped[<<>>].meta = "nullable"
<1> DEFINE c == Append(<<>>, 1)
           e == [meta |-> "nullable", name |-> "nullable", size |-> Root[<<>>].size]
           A == Filled(Root, <<>>, e)
<1>1. DOMAIN Root = {<<>>}
  BY DEF Root
<1>2. DOMAIN A = {<<>>} /\ A[<<>>] = e
  BY <1>1, FilledTree
<1>3. e.meta = "nullable"
  OBVIOUS
<1>4. f[1] = Parsing(A, <<>>, Opened)
  <2>1. "nullable" \notin Numbers \cup Underscored \cup Punctuation
    <3>1. "nullable" \notin Numbers
      BY NumbersAssumption DEF TypeWords
    <3> QED
      BY <3>1 DEF Underscored, Punctuation
  <2>2. Meta("nullable") = "nullable"
    BY DEF Meta
  <2>3. Read(Parsing(Root, <<>>, Opened), "nullable") =
          Parsing(Filled(Root, <<>>, [meta |-> Meta("nullable"), name |-> "nullable", size |-> Root[<<>>].size]),
                  <<>>, Opened)
    BY <2>1, ReadWord
  <2> QED
    BY <2>2, <2>3, NothingRead
<1> HIDE DEF e
<1>5. /\ c \in Seq(Nat) /\ \A k \in 1 .. 9 : Append(<<>>, k) # <<>> /\ (Append(<<>>, k) = c => k = 1)
  BY NothingRead, Siblings
<1>6. Child(A, <<>>) = c
  <2>1. \A k \in 1 .. 9 : Append(<<>>, k) \in DOMAIN A <=> k <= 0
    BY <1>2, <1>5
  <2>2. 0 \in 0 .. 9 /\ 0 + 1 = 1
    OBVIOUS
  <2>3. Elements(A, <<>>) = 0
    BY <2>1, <2>2, ElementsAre, Zenon
  <2> QED
    BY <2>2, <2>3, Zenon DEF Child, c
<1>7. Wrapped = Grown(A, <<>>)
  BY Zenon DEF Wrapped, A, e
<1> HIDE DEF A
<1>8. f[2] = Parsing(Wrapped, c, Append(Opened, <<>>))
  <2>1. Read(Parsing(A, <<>>, Opened), "(") = Parsing(Wrapped, c, Append(Opened, <<>>))
    BY <1>6, <1>7, ReadOpen
  <2> QED
    BY <1>4, <2>1
<1>9. DOMAIN Wrapped = {c} \cup {<<>>} /\ Wrapped[<<>>].meta = "nullable"
  <2>1. c \notin DOMAIN A
    BY <1>2, <1>5
  <2>2. DOMAIN Grown(A, <<>>) = {c} \cup DOMAIN A /\ \A q \in DOMAIN A : Grown(A, <<>>)[q] = A[q]
    BY <1>6, <2>1, GrownTree, Zenon
  <2> QED
    BY <1>2, <1>3, <1>7, <2>2
<1>10. IsFiniteSet({c} \cup {<<>>})
  <2>1. IsFiniteSet({} \cup {<<>>})
    BY FS_EmptySet, FS_AddElement
  <2>2. IsFiniteSet(({} \cup {<<>>}) \cup {c})
    BY <2>1, FS_AddElement, Zenon
  <2>3. ({} \cup {<<>>}) \cup {c} = {c} \cup {<<>>}
    BY Zenon
  <2> QED
    BY <2>2, <2>3
<1>11. Leaf(Wrapped, c)
  <2>1. \A k \in 1 .. 9 : Append(c, k) # c /\ Append(c, k) # <<>>
    <3> SUFFICES ASSUME NEW k \in 1 .. 9 PROVE Append(c, k) # c /\ Append(c, k) # <<>>
      OBVIOUS
    <3>1. Append(c, k) # c
      BY <1>5, Siblings
    <3>2. Append(c, k) # <<>>
      <4> HIDE DEF c
      <4>1. Len(Append(c, k)) = Len(c) + 1 /\ Len(c) \in Nat
        BY <1>5
      <4>2. Len(<<>>) = 0
        OBVIOUS
      <4>3. Len(Append(c, k)) # 0
        BY <4>1
      <4> QED
        BY <4>2, <4>3, Zenon
    <3> QED
      BY <3>1, <3>2
  <2> HIDE DEF c
  <2> QED
    BY <1>5, <1>9, <2>1 DEF Leaf
<1> QED
  BY <1>8, <1>9, <1>10, <1>11

LEMMA NullableLexemes ==
  ASSUME NEW T, NEW b \in Seq(T)
  PROVE  /\ Within("nullable", b) \in Seq(T \cup {"nullable", "(", ")"}) /\ Len(Within("nullable", b)) = Len(b) + 3
         /\ Within("nullable", b)[1] = "nullable" /\ Within("nullable", b)[2] = "("
         /\ (\A k \in 1 .. Len(b) : Within("nullable", b)[2 + k] = b[k])
         /\ Within("nullable", b)[Len(b) + 3] = ")"
<1> DEFINE S == T \cup {"nullable", "(", ")"}
           x == <<"nullable", "(">>
           y == <<")">>
           z == x \o b
           w == z \o y
<1>1. x \in Seq(S) /\ Len(x) = 2 /\ x[1] = "nullable" /\ x[2] = "("
  OBVIOUS
<1>2. y \in Seq(S) /\ Len(y) = 1 /\ y[1] = ")"
  OBVIOUS
<1>3. Within("nullable", b) = w
  BY Zenon DEF Within
<1>4. b \in Seq(S) /\ Len(b) \in Nat
  <2>1. T \subseteq S
    OBVIOUS
  <2> HIDE DEF S
  <2> QED
    BY <2>1
<1> HIDE DEF S, x, y
<1>5. z \in Seq(S) /\ Len(z) = Len(b) + 2 /\ z[1] = x[1] /\ z[2] = x[2]
      /\ \A k \in 1 .. Len(b) : z[2 + k] = b[k]
  <2>1. /\ z \in Seq(S) /\ Len(z) = Len(x) + Len(b)
        /\ \A k \in 1 .. Len(x) : z[k] = x[k]
        /\ \A k \in 1 .. Len(b) : z[Len(x) + k] = b[k]
    <3>1. Joined(S, x, b, z)
      BY <1>1, <1>4, Cut
    <3> HIDE DEF z
    <3> QED
      BY <3>1, Zenon DEF Joined
  <2> HIDE DEF z
  <2> QED
    BY <1>1, <1>4, <2>1
<1> HIDE DEF z
<1>6. w \in Seq(S) /\ Len(w) = Len(b) + 3 /\ w[Len(b) + 3] = y[1]
      /\ \A k \in 1 .. Len(b) + 2 : w[k] = z[k]
  <2>1. /\ w \in Seq(S) /\ Len(w) = Len(z) + Len(y)
        /\ \A k \in 1 .. Len(z) : w[k] = z[k]
        /\ \A k \in 1 .. Len(y) : w[Len(z) + k] = y[k]
    <3>1. Joined(S, z, y, w)
      BY <1>2, <1>5, Cut
    <3> HIDE DEF w
    <3> QED
      BY <3>1, Zenon DEF Joined
  <2> HIDE DEF w
  <2>2. Len(z) + 1 = Len(b) + 3
    BY <1>4, <1>5
  <2>3. w[Len(z) + 1] = y[1]
    BY <1>2, <2>1
  <2> QED
    BY <1>2, <1>4, <1>5, <2>1, <2>2, <2>3
<1> HIDE DEF w
<1>7. \A k \in 1 .. Len(b) : w[2 + k] = b[k]
  BY <1>4, <1>5, <1>6
<1>8. w[1] = "nullable" /\ w[2] = "("
  BY <1>1, <1>4, <1>5, <1>6
<1> QED
  BY <1>2, <1>3, <1>6, <1>7, <1>8 DEF S

Nullable(b) == Within("nullable", b)

NullColumn(type, precision, scale) == Column(type, TRUE, precision, scale)

\* The name is understood: the column is this one.
KnownAgain(name, column) ==
  Parse(name).result = "parsed" /\ AssignTypeInfo(Parse(name).ast) = column

\* A name in the wrapper of NULL is read to its end, and known again with NULL.
LEMMA NullableRead ==
  ASSUME NEW T, NEW b \in Seq(T), NEW type, NEW p, NEW s, Body(b, type, p, s), NEW v, v = Nullable(b)
  PROVE  KnownAgain(v, NullColumn(type, p, s))
<1> DEFINE t == Append(v, "end")
           n == Len(t)
           c == Append(<<>>, 1)
           O == Append(Opened, <<>>)
<1>1. /\ v \in Seq(T \cup {"nullable", "(", ")"}) /\ Len(v) = Len(b) + 3 /\ v[1] = "nullable" /\ v[2] = "("
      /\ (\A k \in 1 .. Len(b) : v[2 + k] = b[k]) /\ v[Len(b) + 3] = ")"
  <2>1. v = Within("nullable", b)
    BY DEF Nullable
  <2> DEFINE x == Within("nullable", b)
  <2>2. /\ x \in Seq(T \cup {"nullable", "(", ")"}) /\ Len(x) = Len(b) + 3 /\ x[1] = "nullable" /\ x[2] = "("
        /\ (\A k \in 1 .. Len(b) : x[2 + k] = b[k]) /\ x[Len(b) + 3] = ")"
    BY NullableLexemes
  <2> HIDE DEF x
  <2>3. v = x
    BY <2>1 DEF x
  <2> QED
    BY <2>2, <2>3
<1>2. n = Len(b) + 4 /\ n \in Nat /\ t[n] = "end" /\ t[n - 1] = ")" /\ t[1] = "nullable" /\ t[2] = "("
      /\ \A k \in 1 .. Len(b) : t[2 + k] = b[k]
  BY <1>1
<1>3. PICK f : f[0] = Unread /\ (\A k \in 1 .. n : f[k] = Read(f[k - 1], t[k])) /\ Parse(v) = f[n]
  <2>1. n \in Nat /\ n = Len(Append(v, "end"))
    BY <1>2
  <2> HIDE DEF n
  <2> QED
    BY <2>1, ParseStates
<1> HIDE DEF t, n
<1>4. f[1] = Read(f[0], "nullable") /\ f[2] = Read(f[1], "(")
  <2>1. 1 \in 1 .. n /\ 2 \in 1 .. n /\ 1 - 1 = 0 /\ 2 - 1 = 1
    BY <1>2
  <2> QED
    BY <1>2, <1>3, <2>1
<1>5. Readings(f, 2, b)
  <2> SUFFICES ASSUME NEW k \in 1 .. Len(b) PROVE f[2 + k] = Read(f[2 + k - 1], b[k])
    BY DEF Readings
  <2> DEFINE m == 2 + k
  <2>1. m \in 1 .. n /\ t[m] = b[k]
    BY <1>2
  <2> HIDE DEF m
  <2> QED
    BY <1>3, <2>1 DEF m
<1>6. /\ f[2] = Parsing(Wrapped, c, O) /\ IsFiniteSet(DOMAIN Wrapped) /\ Leaf(Wrapped, c)
      /\ <<>> \in DOMAIN Wrapped /\ Wrapped[<<>>].meta = "nullable"
  BY <1>3, <1>4, NullableOpened
<1>7. O \in Seq({<<>>, c}) /\ c \in {<<>>, c} /\ Last(O) = <<>> /\ Front(O) = Opened
  <2>1. Last(O) = <<>> /\ Front(O) = Opened
    <3>1. Opened \in Seq({<<>>}) /\ <<>> \in {<<>>}
      BY NothingRead
    <3> QED
      BY <3>1, OpenAndBack
  <2>2. O \in Seq({<<>>, c})
    <3> HIDE DEF c
    <3> QED
      BY DEF Opened
  <2> QED
    BY <2>1, <2>2
<1>8. c # <<>>
  BY NothingRead, Siblings
<1> HIDE DEF c, O
<1>9. PICK B : f[2 + Len(b)] = Parsing(B, c, O) /\ Types(B, Wrapped, c, type, p, s)
  <2>1. 2 \in Nat
    OBVIOUS
  <2> QED
    BY <1>5, <1>6, <1>7, <2>1, BodyRead
<1>10. f[n - 1] = Parsing(B, <<>>, Opened)
  <2>1. Read(Parsing(B, c, O), ")") = Parsing(B, <<>>, Opened)
    BY <1>7, ReadClose
  <2> DEFINE m == n - 1
  <2>2. m \in 1 .. n /\ m - 1 = 2 + Len(b) /\ t[m] = ")"
    BY <1>1, <1>2
  <2> HIDE DEF m
  <2>3. f[m] = Read(f[m - 1], t[m])
    BY <1>3, <2>2
  <2> QED
    BY <1>9, <2>1, <2>2, <2>3 DEF m
<1>11. Parse(v) = Read(Parsing(B, <<>>, Opened), "end")
  <2>1. n \in 1 .. n
    BY <1>1, <1>2
  <2> QED
    BY <1>2, <1>3, <1>10, <2>1
<1>12. Parse(v).result = "parsed" /\ Parse(v).ast = B
  BY <1>11, ReadEnd
<1>13. IsFiniteSet(DOMAIN B) /\ B[c].meta = "terminal" /\ TakenFrom(B, c, TRUE) = Column(type, TRUE, p, s)
       /\ DOMAIN Wrapped \subseteq DOMAIN B /\ (\A q \in DOMAIN Wrapped : q # c => B[q] = Wrapped[q])
  BY <1>9, Zenon DEF Types
<1>14. <<>> \in DOMAIN B /\ B[<<>>].meta = "nullable"
  BY <1>6, <1>8, <1>13
<1>15. AssignTypeInfo(B) = TakenFrom(B, c, TRUE)
  <2>1. Depth(B) = 1
    BY <1>13, <1>14, NullableDepth DEF c
  <2>2. (1 > 0) = TRUE
    OBVIOUS
  <2>3. Inner(1) = c
    BY Inners DEF c
  <2> QED
    BY <2>1, <2>2, <2>3 DEF AssignTypeInfo
<1> QED
  BY <1>12, <1>13, <1>15, Zenon DEF KnownAgain, NullColumn

-----------------------------------------------------------------------------
(* The names of the types of parameters, and what columns make of them     *)

\* A name that the parser stops at.
Stopped(name) ==
  \E w \in Underscored : \E T : \E b \in Seq(T) :
    name = Within(w, b) \/ name = Within("nullable", Within(w, b))

LEMMA WithinStarts ==
  ASSUME NEW T, NEW b \in Seq(T), NEW w
  PROVE  /\ Within(w, b) \in Seq(T \cup {w, "(", ")"})
         /\ Len(Within(w, b)) \in Nat /\ 1 <= Len(Within(w, b)) /\ Within(w, b)[1] = w
<1> DEFINE S == T \cup {w, "(", ")"}
           x == <<w, "(">>
           y == <<")">>
           z == x \o b
           v == z \o y
<1>1. x \in Seq(S) /\ Len(x) = 2 /\ x[1] = w
  OBVIOUS
<1>2. y \in Seq(S) /\ Len(y) = 1
  OBVIOUS
<1>3. Within(w, b) = v
  BY Zenon DEF Within
<1>4. b \in Seq(S) /\ Len(b) \in Nat
  <2>1. T \subseteq S
    OBVIOUS
  <2> HIDE DEF S
  <2> QED
    BY <2>1
<1> HIDE DEF S, x, y
<1>5. z \in Seq(S) /\ Len(z) = Len(b) + 2 /\ z[1] = x[1]
  <2>1. z \in Seq(S) /\ Len(z) = Len(x) + Len(b) /\ \A k \in 1 .. Len(x) : z[k] = x[k]
    <3>1. Joined(S, x, b, z)
      BY <1>1, <1>4, Cut
    <3> HIDE DEF z
    <3> QED
      BY <3>1, Zenon DEF Joined
  <2> HIDE DEF z
  <2> QED
    BY <1>1, <1>4, <2>1
<1> HIDE DEF z
<1>6. v \in Seq(S) /\ Len(v) = Len(b) + 3 /\ v[1] = z[1]
  <2>1. v \in Seq(S) /\ Len(v) = Len(z) + Len(y) /\ \A k \in 1 .. Len(z) : v[k] = z[k]
    <3>1. Joined(S, z, y, v)
      BY <1>2, <1>5, Cut
    <3> HIDE DEF v
    <3> QED
      BY <3>1, Zenon DEF Joined
  <2> HIDE DEF v
  <2> QED
    BY <1>2, <1>4, <1>5, <2>1
<1> HIDE DEF v
<1> QED
  BY <1>1, <1>3, <1>4, <1>5, <1>6 DEF S

\* A name that is understood: of the type that the server is to make of it.
Sizes(type, size) == IF type.means = "decimal" THEN size ELSE "0"

Sensible(name, type) ==
  /\ type.means # "unparsed" /\ type.means \in KnownTypes
  /\ \E b : /\ Body(b, type.means, Sizes(type, type.precision), Sizes(type, type.scale))
            /\ name = WithNullability(type, b)

LEMMA BodyIsSequence ==
  ASSUME NEW b, NEW type, NEW p, NEW s, Body(b, type, p, s)
  PROVE  \E T : b \in Seq(T)
<1>1. CASE b = <<type>>
  <2>1. b \in Seq({type})
    BY <1>1
  <2> QED
    BY <2>1
<1>2. CASE b = <<"decimal", "(", p, Comma, s, ")">>
  <2>1. b \in Seq({"decimal", "(", p, Comma, s, ")"})
    BY <1>2
  <2> QED
    BY <2>1
<1> QED
  BY <1>1, <1>2 DEF Body

\* A name that is understood is known again, with NULL and with its size.
LEMMA SensibleRead ==
  ASSUME NEW name, NEW type, type.is_nullable \in BOOLEAN, Sensible(name, type)
  PROVE  /\ Parse(name).result = "parsed"
         /\ AssignTypeInfo(Parse(name).ast) =
              Column(type.means, type.is_nullable, Sizes(type, type.precision), Sizes(type, type.scale))
<1> DEFINE p == Sizes(type, type.precision)
           s == Sizes(type, type.scale)
           m == type.means
<1>1. PICK b : Body(b, m, p, s) /\ name = WithNullability(type, b)
  BY DEF Sensible
<1>2. PICK T : b \in Seq(T)
  BY <1>1, BodyIsSequence
<1> HIDE DEF p, s, m
<1>3. CASE type.is_nullable = TRUE
  <2>1. name = Nullable(b)
    BY <1>1, <1>3 DEF WithNullability, Nullable
  <2>2. KnownAgain(name, NullColumn(m, p, s))
    BY <1>1, <1>2, <2>1, NullableRead
  <2>3. Parse(name).result = "parsed" /\ AssignTypeInfo(Parse(name).ast) = Column(m, TRUE, p, s)
    BY <2>2, Zenon DEF KnownAgain, NullColumn
  <2> QED
    BY <1>3, <2>3 DEF p, s, m
<1>4. CASE type.is_nullable = FALSE
  <2>1. name = b
    BY <1>1, <1>4 DEF WithNullability
  <2>2. Parse(name).result = "parsed" /\ AssignTypeInfo(Parse(name).ast) = Column(m, FALSE, p, s)
    BY <1>1, <1>2, <2>1, PlainRead, Zenon
  <2> QED
    BY <1>4, <2>2 DEF p, s, m
<1> QED
  BY <1>3, <1>4

SQLCodes == {"BIT", "CHAR", "GUID", "TYPE_NULL", "LONGVARCHAR", "LONGVARBINARY", "TINYINT", "SMALLINT",
             "INTEGER", "BIGINT", "REAL", "DOUBLE", "TYPE_DATE", "TYPE_TIMESTAMP"}
CCodes == {"CHAR", "WCHAR", "BIT", "STINYINT", "UTINYINT", "SSHORT", "USHORT", "SLONG", "ULONG", "SBIGINT",
           "UBIGINT", "FLOAT", "DOUBLE", "GUID", "DATE", "TIMESTAMP"}

\* A name that the parser takes for a type.
Plain(w) ==
  /\ w \in KnownTypes /\ w # "unparsed"
  /\ w \notin Numbers \cup Underscored \cup Punctuation
  /\ w \notin {"array", "null", "nullable", "tuple", "datetime64", "decimal"}

Words == {"string", "int8", "int16", "int32", "int64", "uint8", "uint16", "uint32", "uint64",
          "float32", "float64", "uuid", "date", "datetime", "nothing"}

\* The codes of the driver's tables, and the words it has for them.
LEMMA Tables ==
  /\ DOMAIN SQLNames = SQLCodes /\ \A c \in SQLCodes : SQLNames[c] \in Words
  /\ DOMAIN CNames = CCodes /\ \A c \in CCodes : CNames[c] \in Words
<1>1. DOMAIN SQLNames = SQLCodes
  BY DEF SQLNames, SQLCodes
<1>2. \A c \in SQLCodes : SQLNames[c] \in Words
  BY DEF SQLNames, SQLCodes, Words
<1>3. DOMAIN CNames = CCodes
  BY DEF CNames, CCodes
<1>4. \A c \in CCodes : CNames[c] \in Words
  BY DEF CNames, CCodes, Words
<1> QED
  BY <1>1, <1>2, <1>3, <1>4

\* The parser takes every word for the name of a type, not for a wrapper.
LEMMA WordsArePlain == \A w \in Words : Plain(w)
<1>1. \A w \in Words : w \in TypeWords
  <2>1. (\A c \in CCodes : CNames[c] \in TypeWords) /\ \A c \in SQLCodes : SQLNames[c] \in TypeWords
    BY Tables, Zenon DEF TypeWords
  <2>2. {"WCHAR", "STINYINT", "SSHORT", "SLONG", "SBIGINT", "BIT", "USHORT", "ULONG", "UBIGINT",
         "FLOAT", "DOUBLE", "GUID", "DATE", "TIMESTAMP"} \subseteq CCodes /\ "TYPE_NULL" \in SQLCodes
    BY DEF CCodes, SQLCodes
  <2>3. /\ CNames["WCHAR"] = "string" /\ CNames["STINYINT"] = "int8" /\ CNames["SSHORT"] = "int16"
        /\ CNames["SLONG"] = "int32" /\ CNames["SBIGINT"] = "int64" /\ CNames["BIT"] = "uint8"
        /\ CNames["USHORT"] = "uint16" /\ CNames["ULONG"] = "uint32" /\ CNames["UBIGINT"] = "uint64"
        /\ CNames["FLOAT"] = "float32" /\ CNames["DOUBLE"] = "float64" /\ CNames["GUID"] = "uuid"
        /\ CNames["DATE"] = "date" /\ CNames["TIMESTAMP"] = "datetime" /\ SQLNames["TYPE_NULL"] = "nothing"
    BY DEF CNames, SQLNames
  <2> QED
    BY <2>1, <2>2, <2>3 DEF Words
<1>2. \A w \in Words : w \notin Numbers
  BY <1>1, NumbersAssumption
<1> QED
  BY <1>2 DEF Words, Plain, KnownTypes, Underscored, Punctuation

Fits(name, type) == IF type.means = "unparsed" THEN Stopped(name) ELSE Sensible(name, type)

\* Every name the driver writes is of one of the two kinds.
LEMMA WordFits ==
  ASSUME NEW type, NEW w \in Words, type.means = w, NEW v, v = WithNullability(type, <<w>>)
  PROVE  Fits(v, type)
<1>1. Plain(w)
  BY WordsArePlain
<1>2. Sizes(type, type.precision) = "0" /\ Sizes(type, type.scale) = "0"
  BY <1>1 DEF Sizes, Plain
<1>3. Body(<<w>>, w, "0", "0")
  BY <1>1 DEF Body, Plain
<1>4. Sensible(v, type)
  BY <1>1, <1>2, <1>3 DEF Sensible, Plain
<1> QED
  BY <1>1, <1>4 DEF Fits, Plain

LEMMA DecimalFits ==
  ASSUME NEW type, type.means = "decimal", type.precision \in Numbers, type.scale \in Numbers,
         NEW v, v = WithNullability(type, DecimalName(type))
  PROVE  Fits(v, type)
<1> DEFINE p == type.precision
           s == type.scale
           b == DecimalName(type)
<1>1. Sizes(type, p) = p /\ Sizes(type, s) = s
  BY DEF Sizes
<1>2. b = <<"decimal", "(", p, Comma, s, ")">>
  BY Zenon DEF DecimalName, Comma
<1>3. Body(b, "decimal", p, s)
  <2> HIDE DEF b, p, s
  <2>1. p \in Numbers /\ s \in Numbers
    BY DEF p, s
  <2> QED
    BY <1>2, <2>1, Zenon DEF Body
<1>4. "decimal" \in KnownTypes /\ "decimal" # "unparsed"
  BY DEF KnownTypes
<1> HIDE DEF b
<1>5. Sensible(v, type)
  <2>1. Body(b, type.means, Sizes(type, type.precision), Sizes(type, type.scale))
    BY <1>1, <1>3
  <2>2. v = WithNullability(type, b)
    BY DEF b
  <2>3. \E d : /\ Body(d, type.means, Sizes(type, type.precision), Sizes(type, type.scale))
               /\ v = WithNullability(type, d)
    BY <2>1, <2>2, Zenon
  <2> QED
    BY <1>4, <2>3 DEF Sensible
<1> QED
  BY <1>5 DEF Fits

LEMMA StoppedNames ==
  ASSUME NEW type, type.is_nullable \in BOOLEAN, NEW T, NEW b \in Seq(T), NEW w \in Underscored,
         NEW x, x = Within(w, b), NEW v, v = x \/ v = WithNullability(type, x)
  PROVE  Stopped(v)
<1>1. v = x \/ v = Within("nullable", x)
  BY DEF WithNullability
<1> QED
  BY <1>1, Zenon DEF Stopped

LEMMA BinaryFits ==
  ASSUME NEW type, type.is_nullable \in BOOLEAN,
         type.means = IF type.value_max_size = "0" THEN "string" ELSE "unparsed",
         NEW v, v = WithNullability(type, BinaryName(type))
  PROVE  Fits(v, type)
<1>1. CASE type.value_max_size = "0"
  <2>1. BinaryName(type) = <<"string">>
    BY <1>1 DEF BinaryName
  <2>2. "string" \in Words /\ type.means = "string"
    BY <1>1 DEF Words
  <2> QED
    BY <2>1, <2>2, WordFits
<1>2. CASE type.value_max_size # "0"
  <2> DEFINE n == type.value_max_size
             x == Within("fixed_string", <<n>>)
  <2>1. BinaryName(type) = x
    BY <1>2, Zenon DEF BinaryName
  <2>2. <<n>> \in Seq({n}) /\ "fixed_string" \in Underscored
    BY DEF Underscored
  <2> HIDE DEF n
  <2>3. Stopped(v)
    <3> DEFINE w == "fixed_string"
               b == <<n>>
    <3>1. x = Within(w, b) /\ b \in Seq({n}) /\ w \in Underscored
      BY <2>2
    <3>2. v = WithNullability(type, x)
      BY <2>1, Zenon
    <3> HIDE DEF w, b, x
    <3> QED
      BY <3>1, <3>2, StoppedNames
  <2>4. type.means = "unparsed"
    BY <1>2
  <2> QED
    BY <2>3, <2>4 DEF Fits
<1> QED
  BY <1>1, <1>2

LEMMA TextFits ==
  ASSUME NEW type, type.is_nullable \in BOOLEAN, type.means = "unparsed",
         NEW v, v = LowCardinality(type)
  PROVE  Fits(v, type)
<1> DEFINE w == "low_cardinality"
           b == WithNullability(type, <<"string">>)
           x == Within(w, b)
<1>1. v = x
  BY Zenon DEF LowCardinality
<1>2. w \in Underscored
  BY DEF Underscored
<1>3. \E T : b \in Seq(T)
  <2>1. CASE type.is_nullable = TRUE
    <3>1. b = Within("nullable", <<"string">>)
      BY <2>1, Zenon DEF WithNullability
    <3>2. <<"string">> \in Seq({"string"})
      OBVIOUS
    <3>3. Within("nullable", <<"string">>) \in Seq({"string"} \cup {"nullable", "(", ")"})
      BY <3>2, NullableLexemes
    <3> QED
      BY <3>1, <3>3, Zenon
  <2>2. CASE type.is_nullable = FALSE
    <3>1. b = <<"string">>
      BY <2>2, Zenon DEF WithNullability
    <3>2. <<"string">> \in Seq({"string"})
      OBVIOUS
    <3> QED
      BY <3>1, <3>2, Zenon
  <2> QED
    BY <2>1, <2>2
<1> HIDE DEF w, b
<1>4. PICK T : b \in Seq(T)
  BY <1>3
<1> HIDE DEF x
<1>5. x = Within(w, b)
  BY DEF x
<1>6. Stopped(v)
  BY <1>1, <1>2, <1>4, <1>5, StoppedNames
<1> QED
  BY <1>6 DEF Fits

LEMMA FitsNonempty ==
  ASSUME NEW v, NEW type, type.is_nullable \in BOOLEAN, Fits(v, type)
  PROVE  v # <<>>
<1>0. Len(<<>>) = 0
  OBVIOUS
<1>1. CASE Stopped(v)
  <2>1. PICK w \in Underscored : \E T : \E b \in Seq(T) : v = Within(w, b) \/ v = Within("nullable", Within(w, b))
    BY <1>1 DEF Stopped
  <2>2. PICK T : \E b \in Seq(T) : v = Within(w, b) \/ v = Within("nullable", Within(w, b))
    BY <2>1
  <2>3. PICK b \in Seq(T) : v = Within(w, b) \/ v = Within("nullable", Within(w, b))
    BY <2>2
  <2> DEFINE x == Within(w, b)
             S == T \cup {w, "(", ")"}
  <2>4. x \in Seq(S) /\ Len(x) \in Nat /\ 1 <= Len(x)
    BY WithinStarts
  <2> HIDE DEF x, S
  <2>5. Len(Within("nullable", x)) = Len(x) + 3
    BY <2>4, NullableLexemes
  <2>6. Len(x) # 0 /\ Len(x) + 3 # 0
    BY <2>4
  <2>7. v = x \/ v = Within("nullable", x)
    BY <2>3 DEF x
  <2> QED
    BY <1>0, <2>5, <2>6, <2>7, Zenon
<1>2. CASE Sensible(v, type)
  <2> DEFINE p == Sizes(type, type.precision)
             s == Sizes(type, type.scale)
             m == type.means
  <2>1. PICK b : Body(b, m, p, s) /\ v = WithNullability(type, b)
    BY <1>2 DEF Sensible
  <2> HIDE DEF p, s, m
  <2>2. PICK T : b \in Seq(T)
    BY <2>1, BodyIsSequence
  <2>3. Len(b) \in Nat /\ Len(b) # 0
    BY <2>1 DEF Body
  <2>4. v = b \/ v = Within("nullable", b)
    BY <2>1 DEF WithNullability
  <2>5. Len(Within("nullable", b)) = Len(b) + 3
    BY <2>2, NullableLexemes
  <2>6. Len(b) + 3 # 0
    BY <2>3
  <2> QED
    BY <1>0, <2>3, <2>4, <2>5, <2>6, Zenon
<1> QED
  BY <1>1, <1>2 DEF Fits

\* The codes that have names are told apart.
OtherCodes == DecimalCodes \cup TextCodes \cup {"BINARY"}

\* The name of a type, by its code of SQL and by its code of C.
LEMMA NamesBySQL ==
  ASSUME NEW type, NEW c, c = type.sql_type
  PROVE  /\ c \in SQLCodes => NameOfSQLType(type) = WithNullability(type, <<SQLNames[c]>>)
         /\ c \in DecimalCodes => NameOfSQLType(type) = WithNullability(type, DecimalName(type))
         /\ c = "BINARY" => NameOfSQLType(type) = WithNullability(type, BinaryName(type))
         /\ c \in TextCodes => NameOfSQLType(type) = LowCardinality(type)
         /\ c \notin SQLCodes \cup OtherCodes => NameOfSQLType(type) = <<>>
<1>1. DOMAIN SQLNames = SQLCodes
  BY Tables
<1>2. /\ \A x \in SQLCodes : x \notin DecimalCodes /\ x # "BINARY" /\ x \notin TextCodes
      /\ \A x \in DecimalCodes : x # "BINARY" /\ x \notin TextCodes
      /\ "BINARY" \notin TextCodes
  BY DEF SQLCodes, DecimalCodes, TextCodes
<1> DEFINE D == c \in SQLCodes
           N == c \in DecimalCodes
           B == c = "BINARY"
           X == c \in TextCodes
           n1 == WithNullability(type, <<SQLNames[c]>>)
           n2 == WithNullability(type, DecimalName(type))
           n3 == WithNullability(type, BinaryName(type))
           n4 == LowCardinality(type)
<1>3. NameOfSQLType(type) =
        CASE D -> n1
          [] N -> n2
          [] B -> n3
          [] X -> n4
          [] OTHER -> <<>>
  BY <1>1, Zenon DEF NameOfSQLType, DecimalCodes, TextCodes
<1>4. (D => ~N /\ ~B /\ ~X) /\ (N => ~B /\ ~X) /\ (B => ~X)
  BY <1>2
<1>5. c \notin SQLCodes \cup OtherCodes => ~D /\ ~N /\ ~B /\ ~X
  BY DEF OtherCodes
<1> HIDE DEF D, N, B, X, n1, n2, n3, n4
<1>6. /\ D => NameOfSQLType(type) = n1
      /\ N => NameOfSQLType(type) = n2
      /\ B => NameOfSQLType(type) = n3
      /\ X => NameOfSQLType(type) = n4
      /\ ~D /\ ~N /\ ~B /\ ~X => NameOfSQLType(type) = <<>>
  BY <1>3, <1>4
<1> QED
  BY <1>5, <1>6, Zenon DEF D, N, B, X, n1, n2, n3, n4

LEMMA NamesByC ==
  ASSUME NEW type, NEW c, c = type.c_type
  PROVE  /\ c \in CCodes => NameOfCType(type) = WithNullability(type, <<CNames[c]>>)
         /\ c = "NUMERIC" => NameOfCType(type) = WithNullability(type, DecimalName(type))
         /\ c = "BINARY" => NameOfCType(type) = WithNullability(type, BinaryName(type))
         /\ c \in {"TIME", "INTERVAL"} => NameOfCType(type) = LowCardinality(type)
<1>1. DOMAIN CNames = CCodes
  BY Tables
<1>2. \A x \in CCodes : x # "NUMERIC" /\ x # "BINARY" /\ x \notin {"TIME", "INTERVAL"}
  BY DEF CCodes
<1> DEFINE D == c \in CCodes
           N == c = "NUMERIC"
           B == c = "BINARY"
           X == c \in {"TIME", "INTERVAL"}
           n1 == WithNullability(type, <<CNames[c]>>)
           n2 == WithNullability(type, DecimalName(type))
           n3 == WithNullability(type, BinaryName(type))
           n4 == LowCardinality(type)
<1>3. NameOfCType(type) =
        CASE D -> n1
          [] N -> n2
          [] B -> n3
          [] X -> n4
          [] OTHER -> <<>>
  BY <1>1, Zenon DEF NameOfCType
<1>4. (D => ~N /\ ~B /\ ~X) /\ (N => ~B /\ ~X) /\ (B => ~X)
  BY <1>2
<1> HIDE DEF D, N, B, X, n1, n2, n3, n4
<1>5. /\ D => NameOfCType(type) = n1
      /\ N => NameOfCType(type) = n2
      /\ B => NameOfCType(type) = n3
      /\ X => NameOfCType(type) = n4
  BY <1>3, <1>4
<1> QED
  BY <1>5, Zenon DEF D, N, B, X, n1, n2, n3, n4

\* So every type a statement is bound with has a name of one of the two kinds.
LEMMA NamesFit ==
  ASSUME NEW s \in Statements, NEW type, type = s.type
  PROVE  Fits(NameOf(type), type)
<1> DEFINE c == type.sql_type
           d == type.c_type
           R == NameOfSQLType(type)
           Q == NameOfCType(type)
<1>1. type.is_nullable \in BOOLEAN /\ type.precision \in Numbers /\ type.scale \in Numbers
  BY TypesAssumption
<1>2. \/ MeansBy(type, c, SQLNames, DecimalCodes, TextCodes)
      \/ /\ c \notin SQLCodes \cup OtherCodes
         /\ MeansBy(type, d, CNames, {"NUMERIC"}, {"TIME", "INTERVAL"})
  <2>1. DOMAIN SQLNames \cup DecimalCodes \cup TextCodes \cup {"BINARY"} = SQLCodes \cup OtherCodes
    BY Tables, Zenon DEF OtherCodes
  <2> QED
    BY <2>1, TypesAssumption
<1>3. CASE MeansBy(type, c, SQLNames, DecimalCodes, TextCodes)
  <2> HIDE DEF c, R
  <2>1. /\ c \in SQLCodes => R = WithNullability(type, <<SQLNames[c]>>)
        /\ c \in DecimalCodes => R = WithNullability(type, DecimalName(type))
        /\ c = "BINARY" => R = WithNullability(type, BinaryName(type))
        /\ c \in TextCodes => R = LowCardinality(type)
    BY NamesBySQL, Zenon DEF c, R
  <2>2. ASSUME c \in DOMAIN SQLNames /\ type.means = SQLNames[c] PROVE Fits(R, type)
    <3>1. c \in SQLCodes /\ SQLNames[c] \in Words
      BY <2>2, Tables
    <3> DEFINE w == SQLNames[c]
    <3>2. w \in Words /\ type.means = w /\ R = WithNullability(type, <<w>>)
      BY <2>1, <2>2, <3>1
    <3> HIDE DEF w
    <3> QED
      BY <3>2, WordFits
  <2>3. ASSUME c \in DecimalCodes /\ type.means = "decimal" PROVE Fits(R, type)
    BY <1>1, <2>1, <2>3, DecimalFits
  <2>4. ASSUME c = "BINARY" /\ type.means = IF type.value_max_size = "0" THEN "string" ELSE "unparsed"
        PROVE  Fits(R, type)
    BY <1>1, <2>1, <2>4, BinaryFits
  <2>5. ASSUME c \in TextCodes /\ type.means = "unparsed"
        PROVE  Fits(R, type)
    BY <1>1, <2>1, <2>5, TextFits
  <2>6. Fits(R, type)
    BY <1>3, <2>2, <2>3, <2>4, <2>5, Zenon DEF MeansBy
  <2>7. R # <<>>
    BY <1>1, <2>6, FitsNonempty
  <2>8. NameOf(type) = R
    BY <2>7 DEF NameOf, R
  <2> QED
    BY <2>6, <2>8
<1>4. CASE /\ c \notin SQLCodes \cup OtherCodes
           /\ MeansBy(type, d, CNames, {"NUMERIC"}, {"TIME", "INTERVAL"})
  <2>1. NameOf(type) = Q
    <3>1. NameOfSQLType(type) = <<>>
      BY <1>4, NamesBySQL, Zenon
    <3> QED
      BY <3>1 DEF NameOf
  <2> HIDE DEF d, Q
  <2>2. /\ d \in CCodes => Q = WithNullability(type, <<CNames[d]>>)
        /\ d = "NUMERIC" => Q = WithNullability(type, DecimalName(type))
        /\ d = "BINARY" => Q = WithNullability(type, BinaryName(type))
        /\ d \in {"TIME", "INTERVAL"} => Q = LowCardinality(type)
    BY NamesByC, Zenon DEF d, Q
  <2>3. ASSUME d \in DOMAIN CNames /\ type.means = CNames[d] PROVE Fits(Q, type)
    <3>1. d \in CCodes /\ CNames[d] \in Words
      BY <2>3, Tables
    <3> DEFINE w == CNames[d]
    <3>2. w \in Words /\ type.means = w /\ Q = WithNullability(type, <<w>>)
      BY <2>2, <2>3, <3>1
    <3> HIDE DEF w
    <3> QED
      BY <3>2, WordFits
  <2>4. ASSUME d \in {"NUMERIC"} /\ type.means = "decimal" PROVE Fits(Q, type)
    BY <1>1, <2>2, <2>4, DecimalFits
  <2>5. ASSUME d = "BINARY" /\ type.means = IF type.value_max_size = "0" THEN "string" ELSE "unparsed"
        PROVE  Fits(Q, type)
    BY <1>1, <2>2, <2>5, BinaryFits
  <2>6. ASSUME d \in {"TIME", "INTERVAL"} /\ type.means = "unparsed"
        PROVE  Fits(Q, type)
    BY <1>1, <2>2, <2>6, TextFits
  <2>7. Fits(Q, type)
    BY <1>4, <2>3, <2>4, <2>5, <2>6, Zenon DEF MeansBy
  <2> QED
    BY <2>1, <2>7
<1> QED
  BY <1>2, <1>3, <1>4

\* What the two formats make of a name that the parser reads.
LEMMA ColumnsOfSensible ==
  ASSUME NEW name, NEW type, type.is_nullable \in BOOLEAN, Sensible(name, type), NEW known,
         known = [type |-> type.means, is_nullable |-> type.is_nullable,
                  precision |-> Sizes(type, type.precision), scale |-> Sizes(type, type.scale)]
  PROVE  ColumnOfODBCDriver2(name) = {known} /\ ColumnOfRowBinary(name) = {known}
<1>1. /\ Parse(name).result = "parsed"
      /\ AssignTypeInfo(Parse(name).ast) =
           Column(type.means, type.is_nullable, Sizes(type, type.precision), Sizes(type, type.scale))
  BY SensibleRead
<1>2. Parse(name).result # "failed"
  BY <1>1
<1>3. AssignTypeInfo(Parse(name).ast) = {known}
  BY <1>1, Zenon DEF Column
<1>4. known.type = type.means
  OBVIOUS
<1>5. known.type \in KnownTypes
  BY <1>4 DEF Sensible
<1> DEFINE S == AssignTypeInfo(Parse(name).ast)
<1>6. ColumnOfODBCDriver2(name) = {IF c.type \in KnownTypes THEN c ELSE [c EXCEPT !.type = "string"] : c \in S}
  BY <1>2, Zenon DEF ColumnOfODBCDriver2
<1>7. ColumnOfRowBinary(name) = {c \in S : c.type \in KnownTypes}
  BY <1>2, Zenon DEF ColumnOfRowBinary
<1>8. S = {known}
  BY <1>3
<1> HIDE DEF S
<1>9. \A c \in S : (IF c.type \in KnownTypes THEN c ELSE [c EXCEPT !.type = "string"]) = c
  BY <1>5, <1>8, Zenon
<1>10. {IF c.type \in KnownTypes THEN c ELSE [c EXCEPT !.type = "string"] : c \in S} = S
  BY <1>9, Zenon
<1>11. {c \in S : c.type \in KnownTypes} = S
  BY <1>5, <1>8, Zenon
<1> QED
  BY <1>6, <1>7, <1>8, <1>10, <1>11

\* The server's answer with a column of a parameter's type is understood: both
\* formats know the type again, with its size and with NULL, for every type that
\* the driver has a name without an underscore for and every precision and scale
\* (type_info.cpp:383-554, type_parser.cpp:39-133, result_set.cpp:32-142).
THEOREM TypesAreUnderstood == Spec => []TypeNamesUnderstood
<1>1. TypeInv => TypeNamesUnderstood
  <2> DEFINE type == given.type
             name == NameOf(type)
             known == [type |-> type.means, is_nullable |-> type.is_nullable,
                       precision |-> IF type.means = "decimal" THEN type.precision ELSE "0",
                       scale |-> IF type.means = "decimal" THEN type.scale ELSE "0"]
  <2> SUFFICES ASSUME TypeInv, type.means # "unparsed"
               PROVE  ColumnOfODBCDriver2(name) = {known} /\ ColumnOfRowBinary(name) = {known}
    BY Zenon DEF TypeNamesUnderstood
  <2>1. given \in Statements
    BY DEF TypeInv
  <2>2. Fits(name, type) /\ type.is_nullable \in BOOLEAN
    BY <2>1, NamesFit, TypesAssumption
  <2>3. known = [type |-> type.means, is_nullable |-> type.is_nullable,
                 precision |-> Sizes(type, type.precision), scale |-> Sizes(type, type.scale)]
    BY Zenon DEF Sizes
  <2> HIDE DEF known, name, type
  <2> QED
    BY <2>2, <2>3, ColumnsOfSensible DEF Fits
<1> QED
  BY <1>1, TypesHold, PTL
=============================================================================
