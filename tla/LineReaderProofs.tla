--------------------------- MODULE LineReaderProofs ---------------------------
(***************************************************************************)
(* The network thread hands on the pool's lines, whole and in order, for   *)
(* every parser, every set of lines and every size of recv()'s buffer; and *)
(* the parser reads a value that has been written as JSON as it was, for   *)
(* every value of every depth whose numbers a double holds, but no value   *)
(* in a part of its text.                                                  *)
(*                                                                         *)
(* The text of a value is followed from its leaves up.  What is known of a *)
(* text x of a value v is Reads: wherever x stands in a text t, with any   *)
(* level of the parser that is as deep as the rest of t is long, it is     *)
(* read as v and reading ends behind it; where t ends within x, it is not  *)
(* read.  For a list, x is laid out as the places z[i] of its signs, and   *)
(* the i-th turn of the loop goes from z[i - 1] to z[i].                   *)
(*                                                                         *)
(* The inductive invariant IInv of LineReader places the text in           *)
(* lineBuffer in the stream of the connection: it begins where the first   *)
(* line begins that has not been handled.  Then the first end of a line in *)
(* the buffer is the end of that line, and a buffer without one is a part  *)
(* of that line.                                                           *)
(***************************************************************************)
EXTENDS PoolLines, SequenceTheorems, FiniteSetTheorems, TLAPS

-----------------------------------------------------------------------------
(* Induction, with a set in the place of a predicate: of the sets {0 .. n}, *)
(* n not in S, one would be the least, for finite sets are well-founded.    *)

LEMMA SetInduction ==
    ASSUME NEW S, 0 \in S, \A n \in Nat : n \in S => n + 1 \in S
    PROVE  Nat \subseteq S
<1> DEFINE R == StrictSubsetOrdering(Nat)
           F == FiniteSubsetsOf(Nat)
           T == {0 .. n : n \in Nat \ S}
<1>1. IsWellFoundedOn(R, F)
  BY FS_StrictSubsetOrderingWellFounded
<1>2. SUFFICES ASSUME Nat \ S # {} PROVE FALSE
  OBVIOUS
<1>3. T # {}
  BY <1>2
<1>4. T \subseteq F
  <2>1. \A n \in Nat : 0 .. n \subseteq Nat /\ IsFiniteSet(0 .. n)
    BY FS_Interval
  <2>2. QED BY <2>1 DEF FiniteSubsetsOf
<1>5. PICK X \in T : \A Y \in T : ~(<<Y, X>> \in R)
  <2> HIDE DEF R, F, T
  <2> QED BY <1>1, <1>3, <1>4, WFMin
<1>6. PICK n \in Nat \ S : X = 0 .. n
  BY <1>5
<1>7. n # 0 /\ n - 1 \in Nat /\ (n - 1) + 1 = n
  BY <1>6
<1>8. n - 1 \in Nat \ S
  BY <1>6, <1>7
<1>9. (0 .. n - 1) \in T
  BY <1>8
<1>10. <<0 .. n - 1, 0 .. n>> \in R
  BY <1>6, <1>7 DEF StrictSubsetOrdering
<1>11. QED BY <1>5, <1>6, <1>9, <1>10

\* Up to a bound.
LEMMA UpTo ==
    ASSUME NEW N \in Nat, NEW S, 0 \in S, \A k \in 0 .. N - 1 : k \in S => k + 1 \in S
    PROVE  0 .. N \subseteq S
<1> DEFINE T == {k \in Nat : k \in 0 .. N => k \in S}
<1>1. 0 \in T
  OBVIOUS
<1>2. \A k \in Nat : k \in T => k + 1 \in T
  <2> TAKE k \in Nat
  <2> HAVE k \in T
  <2>1. CASE k + 1 \in 0 .. N
    BY <2>1
  <2>2. CASE k + 1 \notin 0 .. N
    BY <2>2
  <2>3. QED BY <2>1, <2>2
<1>3. Nat \subseteq T
  <2> HIDE DEF T
  <2> QED BY <1>1, <1>2, SetInduction
<1>4. QED BY <1>3

\* What a loop computes that makes N steps, each with its number: it is defined.
Steps(X) == [Nat \X X -> X]
Iterates(g, x, f, N) == g = [k \in 0 .. N |-> IF k = 0 THEN x ELSE f[<<k, g[k - 1]>>]]

LEMMA Iteration ==
    ASSUME NEW X, NEW x \in X, NEW f \in Steps(X), NEW N \in Nat
    PROVE  \E g \in [0 .. N -> X] : Iterates(g, x, f, N)
<1> USE DEF Steps, Iterates
<1> DEFINE Is(g, m) == Iterates(g, x, f, m)
           S == {m \in Nat : \E g \in [0 .. m -> X] : Is(g, m)}
<1>1. 0 \in S
  <2>1. [k \in 0 .. 0 |-> x] \in [0 .. 0 -> X]
    OBVIOUS
  <2>2. Is([k \in 0 .. 0 |-> x], 0)
    OBVIOUS
  <2>3. QED BY <2>1, <2>2
<1>2. ASSUME NEW m \in Nat, m \in S PROVE m + 1 \in S
  <2>1. PICK g \in [0 .. m -> X] : Is(g, m)
    BY <1>2
  <2>2. PICK y \in X : y = f[<<m + 1, g[m]>>]
    BY <2>1
  <2>3. PICK h : h = [k \in 0 .. m + 1 |-> IF k = m + 1 THEN y ELSE g[k]]
    OBVIOUS
  <2>4. h \in [0 .. m + 1 -> X]
    <3>1. \A k \in 0 .. m + 1 : h[k] \in X
      BY <2>1, <2>2, <2>3
    <3>2. QED BY <2>3, <3>1
  <2>5. \A k \in 0 .. m + 1 : h[k] = IF k = 0 THEN x ELSE f[<<k, h[k - 1]>>]
    <3> TAKE k \in 0 .. m + 1
    <3>1. CASE k = m + 1
      <4>1. h[k] = y /\ k # 0 /\ k - 1 = m /\ h[m] = g[m]
        BY <2>3, <3>1
      <4>2. QED BY <2>2, <3>1, <4>1
    <3>2. CASE k \in 0 .. m /\ k # 0
      <4>1. k - 1 \in 0 .. m /\ h[k] = g[k] /\ h[k - 1] = g[k - 1]
        BY <2>3, <3>2
      <4>2. g[k] = f[<<k, g[k - 1]>>]
        BY <2>1, <3>2
      <4>3. QED BY <3>2, <4>1, <4>2
    <3>3. CASE k = 0
      <4>1. h[0] = g[0] /\ g[0] = x
        BY <2>1, <2>3
      <4>2. QED BY <3>3, <4>1
    <3>4. QED BY <3>1, <3>2, <3>3
  <2>6. Is(h, m + 1)
    BY <2>3, <2>5
  <2>7. QED
    <3> HIDE DEF Is
    <3> QED BY <2>4, <2>6
<1>3. \A m \in Nat : m \in S => m + 1 \in S
  BY <1>2
<1>4. N \in S
  <2> HIDE DEF S
  <2> QED BY <1>1, <1>3, SetInduction
<1>5. QED BY <1>4

-----------------------------------------------------------------------------
(* Strings.                                                                 *)

\* The symbols that the code asks for by name.
Letters(S) == {"quote", "backslash", "n", "nl"} \subseteq S

\* A symbol is written as two, of which the second stands for it, or as it is.
LEMMA EscapeType ==
    ASSUME NEW S, Letters(S), NEW c \in S
    PROVE  EscapeSymbol(c) \in Seq(S) /\ Len(EscapeSymbol(c)) \in {1, 2}
           /\ (Len(EscapeSymbol(c)) = 2 => EscapeSymbol(c)[1] = "backslash"
                /\ EscapeSymbol(c)[2] # "nl" /\ Unescaped(EscapeSymbol(c)[2]) = c)
           /\ (Len(EscapeSymbol(c)) = 1 => EscapeSymbol(c)[1] = c
                 /\ c \notin {"quote", "backslash", "nl"})
BY DEF EscapeSymbol, Unescaped, Letters

LEMMA Concat ==
    ASSUME NEW S, NEW a \in Seq(S), NEW b \in Seq(S)
    PROVE  /\ a \o b \in Seq(S) /\ Len(a \o b) = Len(a) + Len(b)
           /\ \A j \in 1 .. Len(a) : (a \o b)[j] = a[j]
           /\ \A j \in 1 .. Len(b) : (a \o b)[Len(a) + j] = b[j]
<1>1. Len(a) \in Nat /\ Len(b) \in Nat
  OBVIOUS
<1>2. a \o b \in Seq(S) /\ Len(a \o b) = Len(a) + Len(b)
  BY ConcatProperties
<1>3. \A j \in 1 .. Len(a) + Len(b) : (a \o b)[j] = IF j <= Len(a) THEN a[j] ELSE b[j - Len(a)]
  BY ConcatProperties
<1>4. ASSUME NEW j \in 1 .. Len(a) PROVE (a \o b)[j] = a[j]
  <2>1. j \in 1 .. Len(a) + Len(b) /\ j <= Len(a)
    BY <1>1
  <2>2. QED BY <1>3, <2>1
<1>5. ASSUME NEW j \in 1 .. Len(b) PROVE (a \o b)[Len(a) + j] = b[j]
  <2>1. Len(a) + j \in 1 .. Len(a) + Len(b) /\ ~(Len(a) + j <= Len(a)) /\ (Len(a) + j) - Len(a) = j
    BY <1>1
  <2>2. QED BY <1>3, <2>1
<1>6. QED BY <1>2, <1>4, <1>5

\* What escape() has made of the first i symbols.
LEMMA EscapedLoop ==
    ASSUME NEW S, Letters(S), NEW s \in Seq(S)
    PROVE  /\ \A i \in 0 .. Len(s) : Escaped(s)[i] \in Seq(S)
           /\ Escaped(s)[0] = <<>>
           /\ \A i \in 1 .. Len(s) : Escaped(s)[i] = Escaped(s)[i - 1] \o EscapeSymbol(s[i])
<1> DEFINE X == Seq(S)
           step(z) == IF z[1] \in 1 .. Len(s) THEN z[2] \o EscapeSymbol(s[z[1]]) ELSE z[2]
           f == [z \in Nat \X X |-> step(z)]
           Is(g) == g = [i \in 0 .. Len(s) |->
                           IF i = 0 THEN <<>> ELSE g[i - 1] \o EscapeSymbol(s[i])]
<1>1. f \in Steps(X)
  <2>1. ASSUME NEW z \in Nat \X X PROVE step(z) \in X
    <3>1. CASE z[1] \in 1 .. Len(s)
      <4>1. s[z[1]] \in S
        BY <3>1, ElementOfSeq
      <4>2. EscapeSymbol(s[z[1]]) \in Seq(S)
        BY <4>1, EscapeType
      <4>3. z[2] \o EscapeSymbol(s[z[1]]) \in Seq(S)
        BY <4>2, ConcatProperties
      <4>4. QED BY <3>1, <4>3
    <3>2. CASE z[1] \notin 1 .. Len(s)
      BY <3>2
    <3>3. QED BY <3>1, <3>2
  <2>2. QED BY <2>1 DEF Steps
<1>2. Len(s) \in Nat /\ <<>> \in X
  OBVIOUS
<1>3. PICK g \in [0 .. Len(s) -> X] : Iterates(g, <<>>, f, Len(s))
  <2> HIDE DEF X, f, step
  <2>1. PICK x \in X : x = <<>>
    BY <1>2
  <2>2. \A N \in Nat : \E g \in [0 .. N -> X] : Iterates(g, x, f, N)
    BY <1>1, Iteration
  <2>3. QED BY <1>2, <2>1, <2>2
<1>4. Is(g)
  <2>1. \A k \in 0 .. Len(s) : k # 0 => f[<<k, g[k - 1]>>] = g[k - 1] \o EscapeSymbol(s[k])
    <3> TAKE k \in 0 .. Len(s)
    <3> HAVE k # 0
    <3>1. k \in 1 .. Len(s) /\ k - 1 \in 0 .. Len(s)
      BY <1>2
    <3>2. <<k, g[k - 1]>> \in Nat \X X
      BY <3>1
    <3>3. QED BY <3>1, <3>2
  <2>2. [k \in 0 .. Len(s) |-> IF k = 0 THEN <<>> ELSE f[<<k, g[k - 1]>>]]
          = [k \in 0 .. Len(s) |-> IF k = 0 THEN <<>> ELSE g[k - 1] \o EscapeSymbol(s[k])]
    <3> HIDE DEF f
    <3> QED BY <2>1
  <2>3. QED
    <3> HIDE DEF f
    <3> QED BY <1>3, <2>2 DEF Iterates
<1>5. Escaped(s) = CHOOSE h : Is(h)
  BY DEF Escaped
<1>6. Is(Escaped(s))
  <2> HIDE DEF Is
  <2> QED BY <1>4, <1>5
<1>7. PICK h : h = Escaped(s) /\ Is(h)
  BY <1>6
<1>8. \A i \in 1 .. Len(s) : h[i] = h[i - 1] \o EscapeSymbol(s[i])
  <2> TAKE i \in 1 .. Len(s)
  <2>1. i \in 0 .. Len(s) /\ i # 0
    BY <1>2
  <2>2. QED BY <1>7, <2>1
<1>9. h[0] = <<>> /\ DOMAIN h = 0 .. Len(s)
  BY <1>2, <1>7
<1>10. 0 .. Len(s) \subseteq {i \in 0 .. Len(s) : h[i] \in X}
  <2> DEFINE T == {i \in 0 .. Len(s) : h[i] \in X}
  <2>1. 0 \in T
    <3>1. 0 \in 0 .. Len(s) /\ h[0] \in X
      BY <1>2, <1>9
    <3>2. QED BY <3>1
  <2>2. ASSUME NEW i \in 0 .. Len(s) - 1, i \in T PROVE i + 1 \in T
    <3>1. i + 1 \in 1 .. Len(s) /\ (i + 1) - 1 = i
      BY <1>2
    <3>2. h[i + 1] = h[i] \o EscapeSymbol(s[i + 1])
      BY <1>8, <3>1
    <3>3. EscapeSymbol(s[i + 1]) \in Seq(S)
      BY <3>1, ElementOfSeq, EscapeType
    <3>4. h[i + 1] \in X
      BY <2>2, <3>2, <3>3, ConcatProperties
    <3>5. QED BY <3>1, <3>4
  <2>3. \A i \in 0 .. Len(s) - 1 : i \in T => i + 1 \in T
    BY <2>2
  <2>4. QED
    <3> HIDE DEF T
    <3>1. 0 .. Len(s) \subseteq T
      BY <1>2, <2>1, <2>3, UpTo
    <3>2. QED BY <3>1 DEF T
<1>11. QED BY <1>7, <1>8, <1>9, <1>10

\* What parseRawString() has after k turns of its loop.
TurnType(S) == [at : Nat \ {0}, out : Seq(S)]

LEMMA TurnStays ==
    ASSUME NEW S, Letters(S), NEW t \in Seq(S), NEW r \in TurnType(S)
    PROVE  Turn(t, r) \in TurnType(S)
<1>1. /\ Len(t) \in Nat /\ r.at \in Nat /\ r.at # 0 /\ r.out \in Seq(S)
      /\ \A i \in 1 .. Len(t) : t[i] \in S
  BY ElementOfSeq DEF TurnType
<1>2. CASE r.at > Len(t) \/ t[r.at] = "quote"
  <2>1. Turn(t, r) = r
    BY <1>1, <1>2 DEF Turn
  <2>2. QED BY <2>1
<1>3. CASE ~(r.at > Len(t) \/ t[r.at] = "quote") /\ t[r.at] = "backslash" /\ r.at < Len(t)
  <2>1. r.at + 1 \in 1 .. Len(t)
    BY <1>1, <1>3
  <2>2. Unescaped(t[r.at + 1]) \in S
    BY <1>1, <2>1 DEF Unescaped, Letters
  <2>3. Append(r.out, Unescaped(t[r.at + 1])) \in Seq(S)
    BY <1>1, <2>2, AppendProperties
  <2>4. Turn(t, r) = [at |-> r.at + 2, out |-> Append(r.out, Unescaped(t[r.at + 1]))]
    BY <1>3 DEF Turn
  <2>5. QED BY <1>1, <2>3, <2>4 DEF TurnType
<1>4. CASE ~(r.at > Len(t) \/ t[r.at] = "quote") /\ ~(t[r.at] = "backslash" /\ r.at < Len(t))
  <2>1. r.at \in 1 .. Len(t)
    BY <1>1, <1>4
  <2>2. Append(r.out, t[r.at]) \in Seq(S)
    BY <1>1, <2>1, AppendProperties
  <2>3. Turn(t, r) = [at |-> r.at + 1, out |-> Append(r.out, t[r.at])]
    BY <1>4 DEF Turn
  <2>4. QED BY <1>1, <2>2, <2>3 DEF TurnType
<1>5. QED BY <1>2, <1>3, <1>4

LEMMA TurnsLoop ==
    ASSUME NEW S, Letters(S), NEW t \in Seq(S), NEW p \in Nat \ {0}
    PROVE  /\ \A k \in 0 .. Len(t) : Turns(t, p)[k] \in TurnType(S)
           /\ Turns(t, p)[0] = [at |-> p, out |-> <<>>]
           /\ \A k \in 1 .. Len(t) : Turns(t, p)[k] = Turn(t, Turns(t, p)[k - 1])
<1> DEFINE X == TurnType(S)
           f == [z \in Nat \X X |-> Turn(t, z[2])]
           Is(g) == g = [k \in 0 .. Len(t) |->
                           IF k = 0 THEN [at |-> p, out |-> <<>>] ELSE Turn(t, g[k - 1])]
<1>1. f \in Steps(X)
  <2>1. \A z \in Nat \X X : Turn(t, z[2]) \in X
    BY TurnStays
  <2>2. QED BY <2>1 DEF Steps
<1>2. PICK x \in X : x = [at |-> p, out |-> <<>>]
  <2>1. p \in Nat \ {0} /\ <<>> \in Seq(S)
    OBVIOUS
  <2>2. [at |-> p, out |-> <<>>] \in X
    BY <2>1 DEF TurnType
  <2>3. QED BY <2>2
<1>3. Len(t) \in Nat
  OBVIOUS
<1>4. PICK g \in [0 .. Len(t) -> X] : Iterates(g, x, f, Len(t))
  <2> HIDE DEF X, f
  <2> QED BY <1>1, <1>3, Iteration
<1>5. Is(g)
  <2>1. \A k \in 0 .. Len(t) : k # 0 => f[<<k, g[k - 1]>>] = Turn(t, g[k - 1])
    <3> TAKE k \in 0 .. Len(t)
    <3> HAVE k # 0
    <3>1. k \in Nat /\ k - 1 \in 0 .. Len(t)
      BY <1>3
    <3>2. <<k, g[k - 1]>> \in Nat \X X
      BY <3>1
    <3>3. QED BY <3>2
  <2>2. g = [k \in 0 .. Len(t) |-> IF k = 0 THEN x ELSE f[<<k, g[k - 1]>>]]
    BY <1>4 DEF Iterates
  <2>3. QED
    <3> HIDE DEF f
    <3> QED BY <1>2, <2>1, <2>2
<1>6. Turns(t, p) = CHOOSE h : Is(h)
  BY DEF Turns
<1>7. PICK h : h = Turns(t, p) /\ Is(h)
  <2> HIDE DEF Is
  <2> QED BY <1>5, <1>6
<1>8. \A k \in 1 .. Len(t) : h[k] = Turn(t, h[k - 1])
  BY <1>7
<1>9. h[0] = x /\ DOMAIN h = 0 .. Len(t)
  BY <1>2, <1>3, <1>7
<1>10. 0 .. Len(t) \subseteq {k \in 0 .. Len(t) : h[k] \in X}
  <2> DEFINE T == {k \in 0 .. Len(t) : h[k] \in X}
  <2>1. 0 \in T
    BY <1>3, <1>9
  <2>2. ASSUME NEW k \in 0 .. Len(t) - 1, k \in T PROVE k + 1 \in T
    <3>1. k + 1 \in 1 .. Len(t) /\ (k + 1) - 1 = k
      BY <1>3
    <3>2. h[k + 1] = Turn(t, h[k])
      BY <1>8, <3>1
    <3>3. h[k + 1] \in X
      BY <2>2, <3>2, TurnStays
    <3>4. QED BY <3>1, <3>3
  <2>3. \A k \in 0 .. Len(t) - 1 : k \in T => k + 1 \in T
    BY <2>2
  <2>4. QED
    <3> HIDE DEF T
    <3>1. 0 .. Len(t) \subseteq T
      BY <1>3, <2>1, <2>3, UpTo
    <3>2. QED BY <3>1 DEF T
<1>11. QED BY <1>2, <1>7, <1>8, <1>9, <1>10

\* Each step of escape() keeps what there is and adds a symbol or two.
LEMMA EscapedGrows ==
    ASSUME NEW S, Letters(S), NEW s \in Seq(S)
    PROVE  \A m \in 0 .. Len(s) : \A i \in 0 .. m :
              /\ Len(Escaped(s)[i]) + (m - i) <= Len(Escaped(s)[m])
              /\ \A j \in 1 .. Len(Escaped(s)[i]) : Escaped(s)[m][j] = Escaped(s)[i][j]
<1> DEFINE E == Escaped(s)
           Grows(i, m) == /\ Len(E[i]) + (m - i) <= Len(E[m])
                          /\ \A j \in 1 .. Len(E[i]) : E[m][j] = E[i][j]
           T == {m \in 0 .. Len(s) : \A i \in 0 .. m : Grows(i, m)}
<1>1. /\ \A i \in 0 .. Len(s) : E[i] \in Seq(S) /\ Len(E[i]) \in Nat
      /\ \A i \in 1 .. Len(s) : E[i] = E[i - 1] \o EscapeSymbol(s[i])
      /\ \A i \in 1 .. Len(s) : s[i] \in S
      /\ Len(s) \in Nat
  <2>1. Len(s) \in Nat /\ \A i \in 1 .. Len(s) : s[i] \in S
    BY ElementOfSeq
  <2>2. \A i \in 0 .. Len(s) : E[i] \in Seq(S)
    BY EscapedLoop
  <2>3. \A e \in Seq(S) : Len(e) \in Nat
    OBVIOUS
  <2>4. \A i \in 1 .. Len(s) : E[i] = E[i - 1] \o EscapeSymbol(s[i])
    BY EscapedLoop
  <2>5. QED
    <3> HIDE DEF E
    <3> QED BY <2>1, <2>2, <2>3, <2>4
<1> HIDE DEF E
<1>2. 0 \in T
  <2>1. Len(E[0]) \in Nat /\ 0 \in 0 .. Len(s) /\ \A i \in 0 .. 0 : i = 0
    BY <1>1
  <2>2. Grows(0, 0)
    BY <2>1
  <2>3. QED
    <3> HIDE DEF Grows
    <3> QED BY <2>1, <2>2
<1>3. ASSUME NEW m \in 0 .. Len(s) - 1, m \in T PROVE m + 1 \in T
  <2>1. m \in 0 .. Len(s) /\ m + 1 \in 0 .. Len(s) /\ m + 1 \in 1 .. Len(s) /\ (m + 1) - 1 = m
    BY <1>1
  <2>2. PICK e \in Seq(S) : e = EscapeSymbol(s[m + 1]) /\ Len(e) \in {1, 2}
    BY <1>1, <2>1, EscapeType
  <2>3. E[m + 1] = E[m] \o e
    BY <1>1, <2>1, <2>2
  <2>4. /\ Len(E[m + 1]) = Len(E[m]) + Len(e)
        /\ \A j \in 1 .. Len(E[m]) : E[m + 1][j] = E[m][j]
    <3>1. E[m] \in Seq(S)
      BY <1>1, <2>1
    <3>2. \A c : c = E[m] \o e => /\ Len(c) = Len(E[m]) + Len(e)
                                  /\ \A j \in 1 .. Len(E[m]) : c[j] = E[m][j]
      BY <3>1, Concat
    <3>3. QED BY <2>3, <3>2, Zenon
  <2>5. ASSUME NEW i \in 0 .. m + 1 PROVE Grows(i, m + 1)
    <3>1. CASE i = m + 1
      <4>1. Len(E[m + 1]) \in Nat /\ (m + 1) - i = 0
        BY <1>1, <2>1, <3>1
      <4>2. QED BY <3>1, <4>1
    <3>2. CASE i \in 0 .. m
      <4>1. Grows(i, m) /\ i \in 0 .. Len(s)
        BY <1>3, <2>1, <3>2
      <4>2. Len(E[i]) \in Nat /\ Len(E[m]) \in Nat /\ Len(E[i]) <= Len(E[m])
        BY <1>1, <2>1, <3>2, <4>1
      <4>3. Len(E[i]) + ((m + 1) - i) <= Len(E[m + 1])
        <5>1. Len(E[i]) + (m - i) <= Len(E[m])
          BY <4>1
        <5>2. m \in Nat /\ i \in Nat
          BY <1>1, <3>2
        <5>3. PICK a \in Nat, b \in Nat, n \in {1, 2} :
                 a = Len(E[i]) /\ b = Len(E[m]) /\ n = Len(e)
          BY <2>2, <4>2
        <5>4. Len(E[m + 1]) = b + n /\ a + (m - i) <= b
          BY <2>4, <5>1, <5>3
        <5>5. a + ((m + 1) - i) <= b + n
          BY <5>2, <5>4
        <5>6. QED BY <5>3, <5>4, <5>5
      <4>4. \A j \in 1 .. Len(E[i]) : E[m + 1][j] = E[i][j]
        BY <2>4, <4>1, <4>2
      <4>5. QED BY <4>3, <4>4
    <3>3. i = m + 1 \/ i \in 0 .. m
      BY <1>1
    <3>4. QED
      <4> HIDE DEF Grows
      <4> QED BY <3>1, <3>2, <3>3
  <2>6. QED
    <3> HIDE DEF Grows
    <3> QED BY <2>1, <2>5
<1>4. \A m \in 0 .. Len(s) - 1 : m \in T => m + 1 \in T
  BY <1>3
<1>5. 0 .. Len(s) \subseteq T
  <2> HIDE DEF T
  <2> QED BY <1>1, <1>2, <1>4, UpTo
<1>6. QED BY <1>5 DEF E

\* Where in the quoted string the symbols are that the i-th symbol is written as.
LEMMA QuotedSymbols ==
    ASSUME NEW S, Letters(S), NEW s \in Seq(S)
    PROVE  /\ Quoted(s) \in Seq(S)
           /\ Len(Quoted(s)) = Len(Escaped(s)[Len(s)]) + 2
           /\ Quoted(s)[1] = "quote" /\ Quoted(s)[Len(Quoted(s))] = "quote"
           /\ \A j \in 1 .. Len(Escaped(s)[Len(s)]) :
                 Quoted(s)[1 + j] = Escaped(s)[Len(s)][j]
           /\ \A i \in 1 .. Len(s) :
                 /\ Len(Escaped(s)[i]) = Len(Escaped(s)[i - 1]) + Len(EscapeSymbol(s[i]))
                 /\ Len(Escaped(s)[i]) + (Len(s) - i) <= Len(Escaped(s)[Len(s)])
                 /\ \A j \in 1 .. Len(EscapeSymbol(s[i])) :
                       Quoted(s)[1 + Len(Escaped(s)[i - 1]) + j] = EscapeSymbol(s[i])[j]
<1>1. PICK e : e = Escaped(s)[Len(s)]
  OBVIOUS
<1>2. Len(s) \in Nat /\ Len(s) \in 0 .. Len(s)
  OBVIOUS
<1>3. e \in Seq(S)
  BY <1>1, <1>2, EscapedLoop
<1>4. PICK u \in Seq(S) : u = <<"quote">> /\ Len(u) = 1 /\ u[1] = "quote"
  <2>1. <<"quote">> \in Seq(S) /\ Len(<<"quote">>) = 1 /\ <<"quote">>[1] = "quote"
    BY DEF Letters
  <2>2. QED BY <2>1, Zenon
<1>5. PICK q \in Seq(S) : /\ q = u \o e /\ Len(q) = 1 + Len(e)
                          /\ \A j \in 1 .. 1 : q[j] = u[j]
                          /\ \A j \in 1 .. Len(e) : q[1 + j] = e[j]
  <2>1. /\ u \o e \in Seq(S) /\ Len(u \o e) = Len(u) + Len(e)
        /\ \A j \in 1 .. Len(u) : (u \o e)[j] = u[j]
        /\ \A j \in 1 .. Len(e) : (u \o e)[Len(u) + j] = e[j]
    BY <1>3, Concat
  <2>2. Len(u) = 1
    BY <1>4
  <2>3. QED BY <2>1, <2>2, Zenon
<1>6. Quoted(s) = q \o u
  BY <1>1, <1>4, <1>5 DEF Quoted
<1>7. /\ Quoted(s) \in Seq(S) /\ Len(Quoted(s)) = Len(e) + 2
      /\ \A j \in 1 .. Len(q) : Quoted(s)[j] = q[j]
      /\ \A j \in 1 .. 1 : Quoted(s)[Len(q) + j] = u[j]
  <2>1. /\ Quoted(s) \in Seq(S) /\ Len(Quoted(s)) = Len(q) + Len(u)
        /\ \A j \in 1 .. Len(q) : Quoted(s)[j] = q[j]
        /\ \A j \in 1 .. Len(u) : Quoted(s)[Len(q) + j] = u[j]
    BY <1>6, Concat
  <2>2. Len(e) \in Nat
    BY <1>3
  <2>3. QED BY <1>4, <1>5, <2>1, <2>2
<1>8. Quoted(s)[1] = "quote" /\ Quoted(s)[Len(Quoted(s))] = "quote"
  <2>1. Len(e) \in Nat /\ 1 \in 1 .. 1 /\ 1 \in 1 .. Len(q) /\ Len(Quoted(s)) = Len(q) + 1
    BY <1>3, <1>5, <1>7
  <2>2. QED BY <1>4, <1>5, <1>7, <2>1
<1>9. \A j \in 1 .. Len(e) : Quoted(s)[1 + j] = e[j]
  <2> TAKE j \in 1 .. Len(e)
  <2>1. 1 + j \in 1 .. Len(q)
    BY <1>3, <1>5
  <2>2. QED BY <1>5, <1>7, <2>1
<1>10. ASSUME NEW i \in 1 .. Len(s)
       PROVE  /\ Len(Escaped(s)[i]) = Len(Escaped(s)[i - 1]) + Len(EscapeSymbol(s[i]))
              /\ Len(Escaped(s)[i]) + (Len(s) - i) <= Len(Escaped(s)[Len(s)])
              /\ \A j \in 1 .. Len(EscapeSymbol(s[i])) :
                    Quoted(s)[1 + Len(Escaped(s)[i - 1]) + j] = EscapeSymbol(s[i])[j]
  <2>1. i \in 0 .. Len(s) /\ i - 1 \in 0 .. Len(s)
    BY <1>2
  <2>2. PICK a \in Seq(S), b \in Seq(S), c \in Seq(S) :
           /\ a = Escaped(s)[i - 1] /\ b = EscapeSymbol(s[i]) /\ c = Escaped(s)[i]
           /\ c = a \o b
    <3>1. Escaped(s)[i - 1] \in Seq(S) /\ Escaped(s)[i] \in Seq(S)
      BY <2>1, EscapedLoop
    <3>2. Escaped(s)[i] = Escaped(s)[i - 1] \o EscapeSymbol(s[i])
      BY EscapedLoop
    <3>3. EscapeSymbol(s[i]) \in Seq(S)
      BY EscapeType, ElementOfSeq
    <3>4. QED BY <3>1, <3>2, <3>3
  <2>3. /\ Len(a) \in Nat /\ Len(b) \in Nat /\ Len(c) = Len(a) + Len(b)
        /\ \A j \in 1 .. Len(b) : c[Len(a) + j] = b[j]
    <3>1. \A d : d = a \o b => /\ Len(d) = Len(a) + Len(b)
                               /\ \A j \in 1 .. Len(b) : d[Len(a) + j] = b[j]
      BY Concat
    <3>2. Len(a) \in Nat /\ Len(b) \in Nat
      OBVIOUS
    <3>3. QED BY <2>2, <3>1, <3>2, Zenon
  <2>4. Len(c) + (Len(s) - i) <= Len(e) /\ \A j \in 1 .. Len(c) : e[j] = c[j]
    <3>1. \A k \in 0 .. Len(s) :
             /\ Len(Escaped(s)[k]) + (Len(s) - k) <= Len(Escaped(s)[Len(s)])
             /\ \A j \in 1 .. Len(Escaped(s)[k]) :
                   Escaped(s)[Len(s)][j] = Escaped(s)[k][j]
      BY <1>2, EscapedGrows
    <3>2. QED BY <1>1, <2>1, <2>2, <3>1
  <2>5. ASSUME NEW j \in 1 .. Len(b) PROVE Quoted(s)[1 + Len(a) + j] = b[j]
    <3>1. Len(a) + j \in 1 .. Len(c) /\ Len(c) <= Len(e) /\ 1 + Len(a) + j = 1 + (Len(a) + j)
      BY <1>2, <1>3, <2>1, <2>3, <2>4
    <3>2. Len(a) + j \in 1 .. Len(e)
      BY <1>3, <2>3, <3>1
    <3>3. QED BY <1>9, <2>3, <2>4, <3>1, <3>2
  <2>6. QED BY <1>1, <2>2, <2>3, <2>4, <2>5
<1>11. QED BY <1>1, <1>7, <1>8, <1>9, <1>10

\* One turn undoes one step of escape().
LEMMA TurnOfSymbol ==
    ASSUME NEW S, Letters(S), NEW t \in Seq(S), NEW r \in TurnType(S), NEW c \in S,
           r.at - 1 + Len(EscapeSymbol(c)) <= Len(t),
           \A j \in 1 .. Len(EscapeSymbol(c)) : t[r.at - 1 + j] = EscapeSymbol(c)[j]
    PROVE  Turn(t, r) = [at |-> r.at + Len(EscapeSymbol(c)), out |-> Append(r.out, c)]
<1>1. Len(t) \in Nat /\ r.at \in Nat /\ r.at # 0
  BY DEF TurnType
<1>2. CASE Len(EscapeSymbol(c)) = 2
  <2>1. r.at < Len(t) /\ t[r.at] = "backslash" /\ t[r.at + 1] = EscapeSymbol(c)[2]
    <3>1. r.at - 1 + 1 = r.at /\ r.at - 1 + 2 = r.at + 1
      BY <1>1
    <3>2. 1 \in 1 .. Len(EscapeSymbol(c)) /\ 2 \in 1 .. Len(EscapeSymbol(c))
      BY <1>2
    <3>3. t[r.at] = EscapeSymbol(c)[1] /\ t[r.at + 1] = EscapeSymbol(c)[2]
      BY <3>1, <3>2
    <3>4. QED BY <1>1, <1>2, <3>3, EscapeType
  <2>2. Unescaped(t[r.at + 1]) = c
    BY <1>2, <2>1, EscapeType
  <2>3. Turn(t, r) = [at |-> r.at + 2, out |-> Append(r.out, Unescaped(t[r.at + 1]))]
    BY <1>1, <2>1 DEF Turn
  <2>4. QED BY <1>2, <2>2, <2>3
<1>3. CASE Len(EscapeSymbol(c)) = 1
  <2>1. r.at <= Len(t) /\ t[r.at] = c
    <3>1. r.at - 1 + 1 = r.at /\ 1 \in 1 .. Len(EscapeSymbol(c))
      BY <1>1, <1>3
    <3>2. t[r.at] = EscapeSymbol(c)[1]
      BY <3>1
    <3>3. QED BY <1>1, <1>3, <3>2, EscapeType
  <2>2. c # "quote" /\ c # "backslash"
    BY <1>3, EscapeType
  <2>3. Turn(t, r) = [at |-> r.at + 1, out |-> Append(r.out, t[r.at])]
    BY <1>1, <2>1, <2>2 DEF Turn
  <2>4. QED BY <1>3, <2>1, <2>3
<1>4. QED BY <1>2, <1>3, EscapeType

\* The string has N symbols, which are written as M, the first i as a[i].
PlacesOf(s, N, M, a) ==
    /\ N = Len(s) /\ a[0] = 0 /\ a[N] = M /\ N <= M
    /\ Len(Quoted(s)) = M + 2
    /\ Quoted(s)[1] = "quote" /\ Quoted(s)[M + 2] = "quote"
    /\ \A i \in 1 .. N :
          /\ a[i] = a[i - 1] + Len(EscapeSymbol(s[i]))
          /\ a[i] + (N - i) <= M
          /\ \A j \in 1 .. Len(EscapeSymbol(s[i])) :
                Quoted(s)[1 + a[i - 1] + j] = EscapeSymbol(s[i])[j]

LEMMA PlacesOfSymbols ==
    ASSUME NEW S, Letters(S), NEW s \in Seq(S)
    PROVE  /\ Quoted(s) \in Seq(S)
           /\ \E N, M \in Nat : \E a \in [0 .. N -> Nat] : PlacesOf(s, N, M, a)
<1>1. PICK N \in Nat : N = Len(s)
  OBVIOUS
<1>2. \A i \in 0 .. N : Escaped(s)[i] \in Seq(S)
  BY <1>1, EscapedLoop
<1>3. \A i \in 0 .. N : Len(Escaped(s)[i]) \in Nat
  <2>1. \A e \in Seq(S) : Len(e) \in Nat
    OBVIOUS
  <2>2. QED BY <1>2, <2>1
<1>4. PICK a : a = [i \in 0 .. N |-> Len(Escaped(s)[i])]
  OBVIOUS
<1>5. a \in [0 .. N -> Nat] /\ \A i \in 0 .. N : a[i] = Len(Escaped(s)[i])
  BY <1>3, <1>4
<1>6. a[0] = 0
  <2>1. Escaped(s)[0] = <<>>
    BY EscapedLoop, Zenon
  <2>2. Len(<<>>) = 0 /\ 0 \in 0 .. N
    OBVIOUS
  <2>3. QED BY <1>5, <2>1, <2>2
<1>7. PICK M \in Nat : M = a[N]
  BY <1>5
<1>8. N <= M
  <2>1. \A m \in 0 .. N : \A i \in 0 .. m : Len(Escaped(s)[i]) + (m - i) <= Len(Escaped(s)[m])
    BY <1>1, EscapedGrows
  <2>2. 0 \in 0 .. N /\ N \in 0 .. N
    OBVIOUS
  <2>3. a[0] + (N - 0) <= a[N]
    BY <1>5, <2>1, <2>2
  <2>4. QED BY <1>6, <1>7, <2>3
<1>9. /\ Quoted(s) \in Seq(S) /\ Len(Quoted(s)) = M + 2
      /\ Quoted(s)[1] = "quote" /\ Quoted(s)[M + 2] = "quote"
  <2>1. N \in 0 .. N
    OBVIOUS
  <2>2. M = Len(Escaped(s)[Len(s)])
    BY <1>1, <1>5, <1>7, <2>1
  <2>3. QED BY <2>2, QuotedSymbols
<1>10. ASSUME NEW i \in 1 .. N
       PROVE  /\ a[i] = a[i - 1] + Len(EscapeSymbol(s[i]))
              /\ a[i] + (N - i) <= M
              /\ \A j \in 1 .. Len(EscapeSymbol(s[i])) :
                    Quoted(s)[1 + a[i - 1] + j] = EscapeSymbol(s[i])[j]
  <2>1. i \in 0 .. N /\ i - 1 \in 0 .. N /\ N \in 0 .. N /\ i \in 1 .. Len(s)
    BY <1>1
  <2>2. /\ a[i] = Len(Escaped(s)[i]) /\ a[i - 1] = Len(Escaped(s)[i - 1])
        /\ M = Len(Escaped(s)[Len(s)])
    BY <1>1, <1>5, <1>7, <2>1
  <2>3. /\ Len(Escaped(s)[i]) = Len(Escaped(s)[i - 1]) + Len(EscapeSymbol(s[i]))
        /\ Len(Escaped(s)[i]) + (Len(s) - i) <= Len(Escaped(s)[Len(s)])
        /\ \A j \in 1 .. Len(EscapeSymbol(s[i])) :
              Quoted(s)[1 + Len(Escaped(s)[i - 1]) + j] = EscapeSymbol(s[i])[j]
    BY <2>1, QuotedSymbols
  <2>4. QED BY <1>1, <2>2, <2>3, Zenon
<1>11. PlacesOf(s, N, M, a)
  BY <1>1, <1>5, <1>6, <1>7, <1>8, <1>9, <1>10, Zenon DEF PlacesOf
<1>12. QED BY <1>5, <1>9, <1>11

\* The symbols of q stand in the text t from the place p on.
Stands(q, t, p) == p - 1 + Len(q) <= Len(t) /\ \A i \in 1 .. Len(q) : t[p - 1 + i] = q[i]

LEMMA CharactersOfQuoted ==
    ASSUME NEW S, Letters(S), NEW s \in Seq(S), NEW t \in Seq(S), NEW p \in Nat \ {0},
           Stands(Quoted(s), t, p)
    PROVE  Characters(t, p + 1) = [value |-> Str(s), at |-> p + Len(Quoted(s))]
<1>1. PICK N \in Nat, M \in Nat : \E a \in [0 .. N -> Nat] : PlacesOf(s, N, M, a)
  BY PlacesOfSymbols
<1>2. PICK a \in [0 .. N -> Nat] : PlacesOf(s, N, M, a)
  BY <1>1
<1>3. /\ N = Len(s) /\ a[0] = 0 /\ a[N] = M /\ N <= M
      /\ Len(Quoted(s)) = M + 2 /\ Quoted(s)[M + 2] = "quote"
      /\ \A i \in 1 .. N :
            /\ a[i] = a[i - 1] + Len(EscapeSymbol(s[i]))
            /\ a[i] + (N - i) <= M
            /\ \A j \in 1 .. Len(EscapeSymbol(s[i])) :
                  Quoted(s)[1 + a[i - 1] + j] = EscapeSymbol(s[i])[j]
  BY <1>2, Zenon DEF PlacesOf
<1>4. PICK L \in Nat : L = Len(t)
  OBVIOUS
<1>5. p - 1 + (M + 2) <= L /\ \A i \in 1 .. M + 2 : t[p - 1 + i] = Quoted(s)[i]
  BY <1>3, <1>4, Zenon DEF Stands
<1>6. PICK T : /\ T = Turns(t, p + 1)
               /\ \A k \in 0 .. L : T[k] \in TurnType(S)
               /\ T[0] = [at |-> p + 1, out |-> <<>>]
               /\ \A k \in 1 .. L : T[k] = Turn(t, T[k - 1])
  <2>1. p + 1 \in Nat \ {0}
    OBVIOUS
  <2>2. /\ \A k \in 0 .. Len(t) : Turns(t, p + 1)[k] \in TurnType(S)
        /\ Turns(t, p + 1)[0] = [at |-> p + 1, out |-> <<>>]
        /\ \A k \in 1 .. Len(t) : Turns(t, p + 1)[k] = Turn(t, Turns(t, p + 1)[k - 1])
    BY <2>1, TurnsLoop
  <2>3. QED BY <1>4, <2>2, Zenon
\* After k turns the first k symbols have been read.
<1> DEFINE Read(k) == T[k] = [at |-> p + 1 + a[k], out |-> SubSeq(s, 1, k)]
           G == {k \in 0 .. N : Read(k)}
<1>7. 0 \in G
  <2>1. a[0] = 0 /\ SubSeq(s, 1, 0) = <<>> /\ p + 1 + 0 = p + 1
    BY <1>3
  <2>2. Read(0)
    BY <1>6, <2>1, Zenon
  <2>3. QED BY <2>2
<1>8. ASSUME NEW k \in 0 .. N - 1, Read(k) PROVE Read(k + 1)
  <2>1. k + 1 \in 1 .. N /\ k + 1 \in 1 .. L /\ (k + 1) - 1 = k /\ k \in 0 .. L
    BY <1>3, <1>5
  <2>2. PICK c \in S : c = s[k + 1]
    BY <1>3, <2>1, ElementOfSeq
  <2>3. PICK m \in Nat, b \in Nat : m = Len(EscapeSymbol(c)) /\ b = a[k]
    <3>1. k \in 0 .. Len(s)
      BY <1>3
    <3>2. Len(EscapeSymbol(c)) \in Nat
      BY EscapeType
    <3>3. QED BY <3>1, <3>2
  <2>4. PICK r : r = T[k]
    OBVIOUS
  <2>5. r.at = p + 1 + b /\ r.out = SubSeq(s, 1, k) /\ r \in TurnType(S)
    BY <1>6, <1>8, <2>1, <2>3, <2>4
  <2>6. /\ a[k + 1] = b + m /\ b + m + (N - (k + 1)) <= M
        /\ \A j \in 1 .. m : Quoted(s)[1 + b + j] = EscapeSymbol(c)[j]
    <3>1. /\ a[k + 1] = a[(k + 1) - 1] + Len(EscapeSymbol(s[k + 1]))
          /\ a[k + 1] + (N - (k + 1)) <= M
          /\ \A j \in 1 .. Len(EscapeSymbol(s[k + 1])) :
                Quoted(s)[1 + a[(k + 1) - 1] + j] = EscapeSymbol(s[k + 1])[j]
      BY <1>3, <2>1, Zenon
    <3>2. a[(k + 1) - 1] = b
      BY <2>1, <2>3
    <3>3. QED BY <2>2, <2>3, <3>1, <3>2, Zenon
  <2>7. b + m <= M
    BY <2>1, <2>6
  <2>8. ASSUME NEW j \in 1 .. m PROVE t[r.at - 1 + j] = EscapeSymbol(c)[j]
    <3>1. 1 + b + j \in 1 .. M + 2 /\ r.at - 1 + j = p - 1 + (1 + b + j)
      BY <2>5, <2>7
    <3>2. QED BY <1>5, <2>6, <3>1
  <2>9. r.at - 1 + m <= Len(t)
    <3>1. p - 1 + (M + 2) <= L
      BY <1>5
    <3>2. p + 1 + b - 1 + m <= L
      BY <2>7, <3>1
    <3>3. QED BY <1>4, <2>5, <3>2
  <2>10. Turn(t, r) = [at |-> r.at + m, out |-> Append(r.out, c)]
    BY <2>3, <2>5, <2>8, <2>9, TurnOfSymbol
  <2>11. Append(SubSeq(s, 1, k), c) = SubSeq(s, 1, k + 1)
    BY <1>3, <2>1, <2>2
  <2>12. T[k + 1] = Turn(t, r)
    BY <1>6, <2>1, <2>4
  <2>13. r.at + m = p + 1 + a[k + 1]
    BY <2>5, <2>6
  <2>14. QED BY <2>5, <2>10, <2>11, <2>12, <2>13
<1>9. T[N] = [at |-> p + 1 + M, out |-> s]
  <2>1. \A k \in 0 .. N - 1 : k \in G => k + 1 \in G
    <3> TAKE k \in 0 .. N - 1
    <3> HAVE k \in G
    <3>1. Read(k) /\ k + 1 \in 0 .. N
      OBVIOUS
    <3>2. Read(k + 1)
      BY <1>8, <3>1
    <3>3. QED BY <3>1, <3>2
  <2>2. 0 .. N \subseteq G
    <3> HIDE DEF G
    <3> QED BY <1>7, <2>1, UpTo
  <2>3. N \in 0 .. N
    OBVIOUS
  <2>4. Read(N)
    BY <2>2, <2>3
  <2>5. SubSeq(s, 1, N) = s
    BY <1>3
  <2>6. QED BY <1>3, <2>4, <2>5
<1>10. PICK q \in Nat : q = p + 1 + M /\ q <= L /\ t[q] = "quote"
  <2>1. M + 2 \in 1 .. M + 2 /\ p - 1 + (M + 2) = p + 1 + M /\ p + 1 + M \in Nat
    OBVIOUS
  <2>2. t[p + 1 + M] = "quote"
    BY <1>3, <1>5, <2>1
  <2>3. p + 1 + M <= L
    BY <1>5, <2>1
  <2>4. QED BY <2>1, <2>2, <2>3
<1>11. T[N].at = q /\ T[N].out = s
  BY <1>9, <1>10
<1>12. Turn(t, T[N]) = T[N]
  BY <1>4, <1>10, <1>11 DEF Turn
\* Then the loop has ended.
<1> DEFINE H == {k \in 0 .. L : k >= N => T[k] = T[N]}
<1>13. 0 \in H
  OBVIOUS
<1>14. \A k \in 0 .. L - 1 : k \in H => k + 1 \in H
  <2> TAKE k \in 0 .. L - 1
  <2> HAVE k \in H
  <2>1. k + 1 \in 0 .. L /\ k + 1 \in 1 .. L /\ (k + 1) - 1 = k
    OBVIOUS
  <2>2. CASE k + 1 <= N
    <3>1. k + 1 >= N => k + 1 = N
      BY <2>2
    <3>2. QED BY <2>1, <3>1
  <2>3. CASE k >= N
    <3>1. T[k] = T[N]
      BY <2>3
    <3>2. T[k + 1] = T[N]
      BY <1>6, <1>12, <2>1, <3>1
    <3>3. QED BY <2>1, <3>2
  <2>4. QED BY <2>2, <2>3
<1>15. 0 .. L \subseteq H
  <2> HIDE DEF H
  <2> QED BY <1>13, <1>14, UpTo
<1>16. T[L] = T[N]
  <2>1. L \in 0 .. L /\ L >= N
    BY <1>3, <1>5
  <2>2. QED BY <1>15, <2>1
<1>17. Characters(t, p + 1) = [value |-> Str(s), at |-> q + 1]
  <2>1. PICK last : last = Turns(t, p + 1)[Len(t)]
    OBVIOUS
  <2>2. last.at = q /\ last.out = s /\ ~(q > Len(t))
    BY <1>4, <1>6, <1>10, <1>11, <1>16, <2>1
  <2>3. Characters(t, p + 1) = IF last.at > Len(t) THEN Fail
                               ELSE [value |-> Str(last.out), at |-> last.at + 1]
    BY <2>1, Zenon DEF Characters
  <2>4. QED BY <2>2, <2>3
<1>18. q + 1 = p + Len(Quoted(s))
  BY <1>3, <1>10
<1>19. QED BY <1>17, <1>18

\* At a quote there are no blanks to skip.
LEMMA AtQuote ==
    ASSUME NEW S, NEW t \in Seq(S), NEW p \in 1 .. Len(t), t[p] = "quote"
    PROVE  ParseRawString(t, p) = Characters(t, p + 1)
<1> DEFINE Is(q) == At(t, q) \notin {"sp", "nl"} /\ \A r \in p .. q - 1 : t[r] \in {"sp", "nl"}
<1>1. Len(t) \in Nat /\ p \in Nat /\ p <= Len(t) /\ p \in p .. Len(t) + 1
  OBVIOUS
<1>2. Is(p)
  BY <1>1 DEF At
<1>3. \A q \in p .. Len(t) + 1 : Is(q) => q = p
  <2> TAKE q \in p .. Len(t) + 1
  <2> HAVE Is(q)
  <2>1. SUFFICES ASSUME q # p PROVE FALSE
    OBVIOUS
  <2>2. p \in p .. q - 1
    BY <1>1, <2>1
  <2>3. QED BY <2>2
<1>4. SkipWhitespace(t, p) = CHOOSE q \in p .. Len(t) + 1 : Is(q)
  BY DEF SkipWhitespace, After
<1>5. SkipWhitespace(t, p) = p
  <2> HIDE DEF Is
  <2> QED BY <1>1, <1>2, <1>3, <1>4
<1>6. QED BY <1>1, <1>5 DEF ParseRawString, At

\* A string that dump() has written is read back as it was, wherever it stands
\* and whatever follows it, and reading goes on right behind it, for every string
\* (MiniJson.cpp:47-61, 133-159).
THEOREM StringReadsBack ==
    ASSUME NEW S, Letters(S), NEW s \in Seq(S), NEW t \in Seq(S), NEW p \in Nat \ {0},
           Stands(Quoted(s), t, p)
    PROVE  ParseRawString(t, p) = [value |-> Str(s), at |-> p + Len(Quoted(s))]
<1>1. PICK M \in Nat : Len(Quoted(s)) = M + 2 /\ Quoted(s)[1] = "quote"
  BY PlacesOfSymbols DEF PlacesOf
<1>2. p \in 1 .. Len(t) /\ t[p] = "quote"
  <2>1. Len(t) \in Nat /\ p - 1 + 1 = p /\ 1 \in 1 .. M + 2
    OBVIOUS
  <2>2. t[p - 1 + 1] = Quoted(s)[1] /\ p - 1 + (M + 2) <= Len(t)
    BY <1>1, <2>1 DEF Stands
  <2>3. QED BY <1>1, <2>1, <2>2
<1>3. QED BY <1>2, AtQuote, CharactersOfQuoted

\* It holds no end of a line: a share with a job id in it is one line to the pool
\* (MiniJson.cpp:51-58, StratumClient.cpp:238-254).
THEOREM QuotedIsOneLine ==
    ASSUME NEW S, Letters(S), NEW s \in Seq(S), NEW i \in 1 .. Len(Quoted(s))
    PROVE  Quoted(s)[i] # "nl"
<1> DEFINE G == {n \in 0 .. Len(s) : \A j \in 1 .. Len(Escaped(s)[n]) : Escaped(s)[n][j] # "nl"}
<1>1. Len(s) \in Nat
  OBVIOUS
<1>2. 0 \in G
  <2>1. Escaped(s)[0] = <<>>
    BY EscapedLoop, Zenon
  <2>2. QED BY <1>1, <2>1
<1>3. ASSUME NEW n \in 0 .. Len(s) - 1, n \in G PROVE n + 1 \in G
  <2>1. n + 1 \in 1 .. Len(s) /\ (n + 1) - 1 = n /\ n + 1 \in 0 .. Len(s) /\ n \in 0 .. Len(s)
    BY <1>1
  <2>2. PICK b \in Seq(S) : b = EscapeSymbol(s[n + 1]) /\ \A j \in 1 .. Len(b) : b[j] # "nl"
    <3>1. PICK c \in S : c = s[n + 1]
      BY <2>1, ElementOfSeq
    <3>2. EscapeSymbol(c) \in Seq(S) /\ Len(EscapeSymbol(c)) \in {1, 2}
      BY EscapeType
    <3>3. \A j \in 1 .. Len(EscapeSymbol(c)) : EscapeSymbol(c)[j] # "nl"
      <4> TAKE j \in 1 .. Len(EscapeSymbol(c))
      <4>1. CASE Len(EscapeSymbol(c)) = 1
        <5>1. j = 1
          BY <4>1
        <5>2. EscapeSymbol(c)[1] # "nl"
          BY <4>1, EscapeType
        <5>3. QED BY <5>1, <5>2
      <4>2. CASE Len(EscapeSymbol(c)) = 2
        <5>1. j \in {1, 2}
          BY <4>2
        <5>2. EscapeSymbol(c)[1] # "nl" /\ EscapeSymbol(c)[2] # "nl"
          BY <4>2, EscapeType
        <5>3. QED BY <5>1, <5>2
      <4>3. QED BY <3>2, <4>1, <4>2
    <3>4. QED BY <3>1, <3>2, <3>3, Zenon
  <2>3. PICK a \in Seq(S) : a = Escaped(s)[n]
    BY <2>1, EscapedLoop
  <2>4. Escaped(s)[n + 1] = a \o b
    <3>1. Escaped(s)[n + 1] = Escaped(s)[(n + 1) - 1] \o EscapeSymbol(s[n + 1])
      BY <2>1, EscapedLoop
    <3>2. QED BY <2>1, <2>2, <2>3, <3>1, Zenon
  <2>5. \A j \in 1 .. Len(a) : a[j] # "nl"
    BY <1>3, <2>3
  <2>6. \A j \in 1 .. Len(a \o b) : (a \o b)[j] # "nl"
    <3> TAKE j \in 1 .. Len(a \o b)
    <3>1. PICK k \in Nat, l \in Nat : k = Len(a) /\ l = Len(b) /\ Len(a \o b) = k + l
      BY Concat
    <3>2. j \in 1 .. k + l
      BY <3>1
    <3>3. CASE j \in 1 .. k
      BY <2>5, <3>1, <3>3, Concat
    <3>4. CASE j \notin 1 .. k
      <4>1. j - k \in 1 .. l /\ j = k + (j - k)
        BY <3>2, <3>4
      <4>2. (a \o b)[k + (j - k)] = b[j - k]
        BY <3>1, <4>1, Concat
      <4>3. QED BY <2>2, <3>1, <4>1, <4>2
    <3>5. QED BY <3>3, <3>4
  <2>7. QED BY <2>1, <2>4, <2>6
<1>4. 0 .. Len(s) \subseteq G
  <2>1. \A n \in 0 .. Len(s) - 1 : n \in G => n + 1 \in G
    BY <1>3
  <2>2. QED
    <3> HIDE DEF G
    <3> QED BY <1>1, <1>2, <2>1, UpTo
<1>5. PICK e \in Seq(S) : e = Escaped(s)[Len(s)] /\ \A j \in 1 .. Len(e) : e[j] # "nl"
  <2>1. Len(s) \in 0 .. Len(s)
    BY <1>1
  <2>2. Escaped(s)[Len(s)] \in Seq(S)
    BY <2>1, EscapedLoop
  <2>3. QED BY <1>4, <2>1, <2>2
<1>6. PICK l \in Nat : l = Len(e)
  OBVIOUS
<1>7. /\ Len(Quoted(s)) = l + 2
      /\ Quoted(s)[1] = "quote" /\ Quoted(s)[l + 2] = "quote"
      /\ \A j \in 1 .. l : Quoted(s)[1 + j] = e[j]
  <2>1. /\ Len(Quoted(s)) = Len(Escaped(s)[Len(s)]) + 2
        /\ Quoted(s)[1] = "quote" /\ Quoted(s)[Len(Quoted(s))] = "quote"
        /\ \A j \in 1 .. Len(Escaped(s)[Len(s)]) :
              Quoted(s)[1 + j] = Escaped(s)[Len(s)][j]
    BY QuotedSymbols
  <2>2. QED BY <1>5, <1>6, <2>1, Zenon
<1>8. i \in 1 .. l + 2
  BY <1>7
<1>9. CASE i = 1 \/ i = l + 2
  BY <1>7, <1>9
<1>10. CASE i - 1 \in 1 .. l
  <2>1. 1 + (i - 1) = i
    BY <1>8
  <2>2. QED BY <1>5, <1>6, <1>7, <1>10, <2>1
<1>11. QED BY <1>8, <1>9, <1>10

\* What there is of the text t from the place p on is the beginning of q.
Shown(q, t, p) == \A i \in 1 .. Len(q) : p - 1 + i <= Len(t) => t[p - 1 + i] = q[i]

\* A text that ends within it is no string: a quote in it does not close it, and
\* the loop goes to the end of the text (MiniJson.cpp:137-156).
THEOREM StringPartMalformed ==
    ASSUME NEW S, Letters(S), NEW s \in Seq(S), NEW t \in Seq(S), NEW p \in 1 .. Len(t) + 1,
           Shown(Quoted(s), t, p), Len(t) < p - 1 + Len(Quoted(s))
    PROVE  ParseRawString(t, p) = Fail
<1>1. PICK N \in Nat, M \in Nat : \E a \in [0 .. N -> Nat] : PlacesOf(s, N, M, a)
  BY PlacesOfSymbols
<1>2. PICK a \in [0 .. N -> Nat] : PlacesOf(s, N, M, a)
  BY <1>1
<1>3. /\ N = Len(s) /\ a[0] = 0 /\ a[N] = M /\ N <= M
      /\ Len(Quoted(s)) = M + 2 /\ Quoted(s)[1] = "quote"
      /\ \A i \in 1 .. N :
            /\ a[i] = a[i - 1] + Len(EscapeSymbol(s[i]))
            /\ a[i] + (N - i) <= M
            /\ \A j \in 1 .. Len(EscapeSymbol(s[i])) :
                  Quoted(s)[1 + a[i - 1] + j] = EscapeSymbol(s[i])[j]
  BY <1>2, Zenon DEF PlacesOf
<1>4. PICK L \in Nat : /\ L = Len(t) /\ p \in Nat /\ 1 <= p /\ p <= L + 1 /\ L <= p + M
                       /\ \A i \in 1 .. M + 2 : p - 1 + i <= L => t[p - 1 + i] = Quoted(s)[i]
  <2>1. Len(t) \in Nat /\ p \in Nat /\ 1 <= p /\ p <= Len(t) + 1 /\ Len(t) <= p + M
    BY <1>3
  <2>2. QED BY <1>3, <2>1 DEF Shown
<1>5. p \in Nat /\ 1 <= p /\ p <= L + 1 /\ L <= p + M
  BY <1>4
<1>6. CASE p = L + 1
  <2>1. SkipWhitespace(t, p) = CHOOSE q \in p .. p : TRUE
    <3>1. \A q \in p .. Len(t) + 1 :
             At(t, q) \notin {"sp", "nl"} /\ \A r \in p .. q - 1 : t[r] \in {"sp", "nl"}
      BY <1>4, <1>6 DEF At
    <3>2. p .. Len(t) + 1 = p .. p
      BY <1>4, <1>6
    <3>3. QED BY <3>1, <3>2 DEF SkipWhitespace, After
  <2>2. SkipWhitespace(t, p) = p
    BY <1>4, <2>1
  <2>3. ~(p <= Len(t))
    BY <1>4, <1>6
  <2>4. QED BY <2>2, <2>3 DEF ParseRawString, At
<1>7. CASE p <= L
  <2>1. p \in 1 .. Len(t) /\ t[p] = "quote"
    <3>1. 1 \in 1 .. M + 2 /\ p - 1 + 1 = p
      BY <1>4
    <3>2. QED BY <1>3, <1>4, <1>7, <3>1
  <2>2. ParseRawString(t, p) = Characters(t, p + 1)
    BY <2>1, AtQuote
  <2>3. PICK T : /\ T = Turns(t, p + 1)
                 /\ \A k \in 0 .. L : T[k] \in TurnType(S)
                 /\ T[0] = [at |-> p + 1, out |-> <<>>]
                 /\ \A k \in 1 .. L : T[k] = Turn(t, T[k - 1])
    <3>1. p + 1 \in Nat \ {0}
      BY <1>4
    <3>2. /\ \A k \in 0 .. Len(t) : Turns(t, p + 1)[k] \in TurnType(S)
          /\ Turns(t, p + 1)[0] = [at |-> p + 1, out |-> <<>>]
          /\ \A k \in 1 .. Len(t) : Turns(t, p + 1)[k] = Turn(t, Turns(t, p + 1)[k - 1])
      BY <3>1, TurnsLoop
    <3>3. QED BY <1>4, <3>2, Zenon
  \* After k turns the loop is at a symbol of s, or past the end.
  <2> DEFINE Inside(k) == k < N /\ k <= a[k] /\ T[k].at = p + 1 + a[k] /\ p + 1 + a[k] <= L
             G == {k \in 0 .. L : Inside(k) \/ T[k].at = L + 1}
  <2>4. 0 \in G
    <3>1. T[0].at = p + 1 /\ a[0] = 0
      BY <1>3, <2>3
    <3>2. CASE p = L
      BY <1>4, <3>1, <3>2
    <3>3. CASE p < L
      <4>1. 0 < N
        <5>1. SUFFICES ASSUME N = 0 PROVE FALSE
          OBVIOUS
        <5>2. M = 0
          BY <1>3, <5>1
        <5>3. QED BY <1>4, <3>3, <5>2
      <4>2. Inside(0)
        BY <1>4, <3>1, <3>3, <4>1
      <4>3. QED BY <1>4, <4>2
    <3>4. QED BY <1>4, <1>7, <3>2, <3>3
  <2>5. ASSUME NEW k \in 0 .. L - 1, k \in G PROVE k + 1 \in G
    <3>1. k + 1 \in 0 .. L /\ k + 1 \in 1 .. L /\ (k + 1) - 1 = k /\ k \in 0 .. L
      BY <1>4
    <3>2. PICK r \in TurnType(S) : r = T[k]
      BY <2>3, <3>1
    <3>3. T[k + 1] = Turn(t, r)
      BY <2>3, <3>1, <3>2
    <3>4. CASE T[k].at = L + 1
      <4>1. r.at > Len(t) /\ r.at = L + 1
        BY <1>4, <3>2, <3>4
      <4>2. Turn(t, r) = r
        BY <1>4, <4>1 DEF Turn
      <4>3. QED BY <3>1, <3>3, <4>1, <4>2
    <3>5. CASE Inside(k)
      <4>1. k + 1 \in 1 .. N /\ r.at = p + 1 + a[k] /\ p + 1 + a[k] <= L /\ k \in 0 .. N
        BY <3>1, <3>2, <3>5
      <4>2. PICK c \in S : c = s[k + 1]
        BY <1>3, <4>1, ElementOfSeq
      <4>3. PICK m \in 1 .. 2, b \in Nat : m = Len(EscapeSymbol(c)) /\ b = a[k]
        <5>1. Len(EscapeSymbol(c)) \in 1 .. 2
          BY EscapeType
        <5>2. a[k] \in Nat
          BY <4>1
        <5>3. QED BY <5>1, <5>2
      <4>4. /\ a[k + 1] = b + m /\ b + m + (N - (k + 1)) <= M
            /\ \A j \in 1 .. m : Quoted(s)[1 + b + j] = EscapeSymbol(c)[j]
        <5>1. /\ a[k + 1] = a[(k + 1) - 1] + Len(EscapeSymbol(s[k + 1]))
              /\ a[k + 1] + (N - (k + 1)) <= M
              /\ \A j \in 1 .. Len(EscapeSymbol(s[k + 1])) :
                    Quoted(s)[1 + a[(k + 1) - 1] + j] = EscapeSymbol(s[k + 1])[j]
          BY <1>3, <4>1, Zenon
        <5>2. a[(k + 1) - 1] = b
          BY <3>1, <4>3
        <5>3. QED BY <4>2, <4>3, <5>1, <5>2, Zenon
      <4>5. r.at = p + 1 + b /\ p + 1 + b <= L /\ k <= b
        BY <3>5, <4>1, <4>3
      <4>6. /\ m \in Nat /\ (m = 1 \/ m = 2) /\ p + 1 + b <= L
            /\ k + 1 <= N /\ b + m <= M /\ r.at = p + 1 + b
        <5>1. k \in Nat /\ k + 1 <= N
          BY <4>1
        <5>2. N - (k + 1) \in Nat /\ b + m + (N - (k + 1)) <= M
          BY <4>4, <5>1
        <5>3. m \in Nat /\ (m = 1 \/ m = 2)
          OBVIOUS
        <5>4. b + m <= M
          BY <5>2, <5>3
        <5>5. QED BY <4>5, <5>1, <5>3, <5>4
      <4>7. CASE p + b + m <= L
        <5>1. \A j \in 1 .. m : t[r.at - 1 + j] = EscapeSymbol(c)[j]
          <6> TAKE j \in 1 .. m
          <6>1. 1 + b + j \in 1 .. M + 2
            BY <4>6
          <6>2. p - 1 + (1 + b + j) <= L /\ p - 1 + (1 + b + j) = r.at - 1 + j
            BY <1>5, <4>7, <4>6
          <6>3. QED BY <1>4, <4>4, <6>1, <6>2
        <5>2. r.at - 1 + m <= Len(t)
          BY <1>4, <4>5, <4>7
        <5>3. Turn(t, r) = [at |-> r.at + m, out |-> Append(r.out, c)]
          BY <4>3, <5>1, <5>2, TurnOfSymbol
        <5>4. T[k + 1].at = p + 1 + b + m
          BY <1>4, <3>3, <4>5, <5>3
        <5>5. CASE p + 1 + b + m = L + 1
          BY <3>1, <5>4, <5>5
        <5>6. CASE p + 1 + b + m <= L
          <6>1. k + 1 < N
            <7>1. SUFFICES ASSUME k + 1 = N PROVE FALSE
              BY <4>1
            <7>2. M = b + m
              BY <1>3, <4>4, <7>1
            <7>3. p + 1 + M <= L
              BY <1>1, <1>4, <4>3, <5>6, <7>2
            <7>4. QED BY <1>4, <7>3
          <6>2. Inside(k + 1)
            BY <1>4, <4>4, <4>5, <5>4, <5>6, <6>1
          <6>3. QED BY <3>1, <6>2
        <5>7. p + 1 + b + m = L + 1 \/ p + 1 + b + m <= L
          BY <1>5, <4>7, <4>6
        <5>8. QED BY <5>5, <5>6, <5>7
      \* The text ends with the backslash.
      <4>8. CASE ~(p + b + m <= L)
        <5>1. m = 2 /\ L = p + 1 + b
          BY <1>5, <4>8, <4>6
        <5>2. t[L] = "backslash"
          <6>1. 1 \in 1 .. m /\ 1 + b + 1 \in 1 .. M + 2 /\ p - 1 + (1 + b + 1) = L
            BY <1>4, <3>1, <4>1, <4>4, <5>1
          <6>2. t[L] = EscapeSymbol(c)[1]
            <7>1. t[L] = Quoted(s)[1 + b + 1]
              <8>1. PICK i \in 1 .. M + 2 : i = 1 + b + 1
                BY <6>1
              <8>2. p - 1 + i = L /\ L <= L
                BY <1>4, <6>1, <8>1
              <8>3. QED BY <1>4, <8>1, <8>2
            <7>2. Quoted(s)[1 + b + 1] = EscapeSymbol(c)[1]
              BY <4>4, <6>1
            <7>3. QED BY <7>1, <7>2
          <6>3. QED BY <4>3, <5>1, <6>2, EscapeType
        <5>3. Turn(t, r) = [at |-> r.at + 1, out |-> Append(r.out, t[r.at])]
          <6>1. r.at = L /\ Len(t) = L /\ ~(L > L) /\ ~(L < L)
            BY <1>4, <4>5, <5>1
          <6>2. QED BY <5>2, <6>1 DEF Turn
        <5>4. T[k + 1].at = L + 1
          BY <3>3, <4>5, <5>1, <5>3
        <5>5. QED BY <3>1, <5>4
      <4>9. QED BY <4>7, <4>8
    <3>6. QED BY <2>5, <3>4, <3>5
  <2>6. L \in G
    <3>1. \A k \in 0 .. L - 1 : k \in G => k + 1 \in G
      BY <2>5
    <3>2. 0 .. L \subseteq G
      <4> HIDE DEF G
      <4> QED BY <1>4, <2>4, <3>1, UpTo
    <3>3. QED BY <1>4, <3>2
  <2>7. ~Inside(L)
    <3>1. SUFFICES ASSUME Inside(L) PROVE FALSE
      OBVIOUS
    <3>2. L \in 0 .. N /\ a[L] \in Nat
      BY <1>4, <3>1
    <3>3. QED BY <1>4, <3>1, <3>2
  <2>8. Turns(t, p + 1)[Len(t)].at > Len(t)
    BY <1>4, <2>3, <2>6, <2>7
  <2>9. Characters(t, p + 1) = Fail
    BY <2>8 DEF Characters
  <2>10. QED BY <2>2, <2>9
<1>8. QED BY <1>4, <1>6, <1>7

-----------------------------------------------------------------------------
(* Texts.                                                                   *)

\* The symbols that the code asks for by name are among those of texts.
LEMMA Named ==
    /\ \A c \in {"{", "}", "[", "]", ",", ":", "quote", "backslash", "n", "nl", "sp", "false",
                "-", "7", "8"} : c \in Alphabet
    /\ Letters(Alphabet)
BY DEF Alphabet, Letters

-----------------------------------------------------------------------------
(* Scanning.                                                                *)

\* The place where a scan ends is the first that is not in its set.
LEMMA ScanEnds ==
    ASSUME NEW t, Len(t) \in Nat, NEW Q, "end" \notin Q,
           NEW p \in 1 .. Len(t) + 1, NEW q \in 1 .. p,
           \A r \in q .. p - 1 : t[r] \in Q, p <= Len(t) => t[p] \notin Q
    PROVE  After(t, q, Q) = p
<1> DEFINE Is(u) == At(t, u) \notin Q /\ \A r \in q .. u - 1 : t[r] \in Q
<1>1. p \in q .. Len(t) + 1 /\ q \in Nat /\ p \in Nat
  OBVIOUS
<1>2. Is(p)
  BY <1>1 DEF At
<1>3. \A u \in q .. Len(t) + 1 : Is(u) => u = p
  <2> TAKE u \in q .. Len(t) + 1
  <2> HAVE Is(u)
  <2>1. CASE u < p
    <3>1. u \in q .. p - 1 /\ u <= Len(t)
      BY <1>1, <2>1
    <3>2. t[u] \in Q /\ At(t, u) = t[u]
      BY <3>1 DEF At
    <3>3. QED BY <3>2
  <2>2. CASE u > p
    <3>1. p \in q .. u - 1 /\ p <= Len(t)
      BY <1>1, <2>2
    <3>2. t[p] \in Q
      BY <3>1
    <3>3. QED BY <3>1, <3>2
  <2>3. QED BY <1>1, <2>1, <2>2
<1>4. After(t, q, Q) = CHOOSE u \in q .. Len(t) + 1 : Is(u)
  BY DEF After
<1>5. QED
  <2> HIDE DEF Is
  <2> QED BY <1>1, <1>2, <1>3, <1>4

\* From q to the place before p there are blanks.
Blank(t, q, p) == \A r \in q .. p - 1 : t[r] = "sp"

\* At p there is something else, or the end.
NoBlank(t, p) == p <= Len(t) => t[p] \notin {"sp", "nl"}

\* Blanks are skipped up to the first symbol that is none.
LEMMA SkipEnds ==
    ASSUME NEW t, Len(t) \in Nat, NEW p \in 1 .. Len(t) + 1, NEW q \in 1 .. p,
           Blank(t, q, p), NoBlank(t, p)
    PROVE  SkipWhitespace(t, q) = p
<1>1. \A r \in q .. p - 1 : t[r] \in {"sp", "nl"}
  BY DEF Blank
<1>2. p <= Len(t) => t[p] \notin {"sp", "nl"}
  BY DEF NoBlank
<1>3. "end" \notin {"sp", "nl"}
  OBVIOUS
<1>4. After(t, q, {"sp", "nl"}) = p
  BY <1>1, <1>2, <1>3, ScanEnds
<1>5. QED BY <1>4 DEF SkipWhitespace

\* A string may have blanks before it.
LEMMA StringAfterBlanks ==
    ASSUME NEW t, Len(t) \in Nat, NEW p \in 1 .. Len(t) + 1, NEW q \in 1 .. p,
           Blank(t, q, p), NoBlank(t, p)
    PROVE  ParseRawString(t, q) = ParseRawString(t, p)
<1>1. SkipWhitespace(t, q) = p
  BY SkipEnds
<1>2. p \in 1 .. p /\ Blank(t, p, p)
  BY DEF Blank
<1>3. SkipWhitespace(t, p) = p
  BY <1>2, SkipEnds
<1>4. QED BY <1>1, <1>3 DEF ParseRawString

-----------------------------------------------------------------------------
(* Recursive definitions are what they say: a function with these values    *)
(* exists, for otherwise nothing would be known of them.                    *)

\* The values of each depth.
LEMMA ValuesByDepth ==
    /\ Values[0] = Leaves
    /\ \A n \in 1 .. Depth :
          Values[n] = Leaves \cup ({"array"} \X Seq(Values[n - 1]))
                             \cup ({"object"} \X Members(Seq(Alphabet), Values[n - 1]))
<1> DEFINE Up(V) == Leaves \cup ({"array"} \X Seq(V)) \cup ({"object"} \X Members(Seq(Alphabet), V))
           Is(g, m) == g = [n \in 0 .. m |-> IF n = 0 THEN Leaves ELSE Up(g[n - 1])]
           S == {m \in Nat : \E g : Is(g, m)}
<1>1. 0 \in S
  <2>1. Is([n \in 0 .. 0 |-> Leaves], 0)
    OBVIOUS
  <2>2. QED BY <2>1
<1>2. ASSUME NEW m \in Nat, m \in S PROVE m + 1 \in S
  <2> HIDE DEF Up
  <2>1. PICK g : Is(g, m)
    BY <1>2
  <2>2. PICK h : h = [n \in 0 .. m + 1 |-> IF n = m + 1 THEN Up(g[m]) ELSE g[n]]
    OBVIOUS
  <2>3. \A n \in 0 .. m + 1 : h[n] = IF n = 0 THEN Leaves ELSE Up(h[n - 1])
    <3> TAKE n \in 0 .. m + 1
    <3>1. CASE n = m + 1
      <4>1. n # 0 /\ n - 1 = m /\ m \in 0 .. m + 1 /\ m # m + 1
        BY <3>1
      <4>2. QED BY <2>2, <3>1, <4>1
    <3>2. CASE n \in 0 .. m
      <4>1. n # m + 1 /\ (n # 0 => n - 1 \in 0 .. m + 1 /\ n - 1 # m + 1)
        BY <3>2
      <4>2. g[n] = IF n = 0 THEN Leaves ELSE Up(g[n - 1])
        BY <2>1, <3>2
      <4>3. QED BY <2>2, <4>1, <4>2
    <3>3. QED BY <3>1, <3>2
  <2>4. Is(h, m + 1)
    BY <2>2, <2>3
  <2>5. QED BY <2>4
<1>3. Depth \in S
  <2>1. \A m \in Nat : m \in S => m + 1 \in S
    BY <1>2
  <2>2. QED
    <3> HIDE DEF S
    <3> QED BY <1>1, <2>1, SetInduction, DepthAssumption
<1>4. Values = CHOOSE g : Is(g, Depth)
  BY DEF Values
<1>5. Is(Values, Depth)
  <2> HIDE DEF Is
  <2> QED BY <1>3, <1>4
<1>6. PICK V : V = Values /\ Is(V, Depth)
  BY <1>5
<1>7. V[0] = Leaves /\ \A n \in 1 .. Depth : V[n] = Up(V[n - 1])
  <2> HIDE DEF Up
  <2>1. 0 \in 0 .. Depth /\ \A n \in 1 .. Depth : n \in 0 .. Depth /\ n # 0
    BY DepthAssumption
  <2>2. QED BY <1>6, <2>1
<1>8. QED BY <1>6, <1>7

\* The levels of the parser.
LEMMA LevelsByDepth ==
    ASSUME NEW t, Len(t) \in Nat
    PROVE  /\ \A p \in 1 .. Len(t) + 1 : Levels(t)[0][p] = Fail
           /\ \A n \in 1 .. Len(t), p \in 1 .. Len(t) + 1 :
                 Levels(t)[n][p] = ParseValue(t, Levels(t)[n - 1], p)
<1> DEFINE L == Len(t)
           Row(n, f) == [p \in 1 .. L + 1 |-> IF n = 0 THEN Fail ELSE ParseValue(t, f, p)]
           Is(g, m) == g = [n \in 0 .. m |-> Row(n, g[n - 1])]
           S == {m \in Nat : \E g : Is(g, m)}
<1>1. \A x, y : Row(0, x) = Row(0, y)
  OBVIOUS
<1>2. 0 \in S
  <2>1. PICK R : R = Row(0, 0)
    OBVIOUS
  <2>2. PICK g : g = [n \in 0 .. 0 |-> R]
    OBVIOUS
  <2>3. \A n \in 0 .. 0 : R = Row(n, g[n - 1])
    <3> HIDE DEF Row
    <3> QED BY <1>1, <2>1
  <2>4. Is(g, 0)
    <3> HIDE DEF Row
    <3> QED BY <2>2, <2>3
  <2>5. QED BY <2>4
<1>3. ASSUME NEW m \in Nat, m \in S PROVE m + 1 \in S
  <2> HIDE DEF Row
  <2>1. PICK g : Is(g, m)
    BY <1>3
  <2>2. PICK h : h = [n \in 0 .. m + 1 |-> IF n = m + 1 THEN Row(m + 1, g[m]) ELSE g[n]]
    OBVIOUS
  <2>3. \A n \in 0 .. m + 1 : h[n] = Row(n, h[n - 1])
    <3> TAKE n \in 0 .. m + 1
    <3>1. CASE n = m + 1
      <4>1. n - 1 = m /\ m \in 0 .. m + 1 /\ m # m + 1
        BY <3>1
      <4>2. QED BY <2>2, <3>1, <4>1
    <3>2. CASE n = 0
      <4>1. 0 # m + 1 /\ 0 \in 0 .. m /\ 0 \in 0 .. m + 1
        OBVIOUS
      <4>2. h[0] = g[0] /\ g[0] = Row(0, g[0 - 1])
        BY <2>1, <2>2, <4>1
      <4>3. QED BY <1>1, <3>2, <4>2
    <3>3. CASE n \in 1 .. m
      <4>1. n # m + 1 /\ n \in 0 .. m /\ n - 1 \in 0 .. m + 1 /\ n - 1 # m + 1
        BY <3>3
      <4>2. g[n] = Row(n, g[n - 1])
        BY <2>1, <4>1
      <4>3. QED BY <2>2, <4>1, <4>2
    <3>4. QED BY <3>1, <3>2, <3>3
  <2>4. Is(h, m + 1)
    BY <2>2, <2>3
  <2>5. QED BY <2>4
<1>4. L \in S
  <2>1. \A m \in Nat : m \in S => m + 1 \in S
    BY <1>3
  <2>2. QED
    <3> HIDE DEF S
    <3> QED BY <1>2, <2>1, SetInduction
<1>5. Levels(t) = CHOOSE g : Is(g, L)
  BY DEF Levels
<1>6. Is(Levels(t), L)
  <2> HIDE DEF Is
  <2> QED BY <1>4, <1>5
<1>7. PICK f : f = Levels(t) /\ Is(f, L)
  BY <1>6
<1>8. \A n \in 0 .. L : f[n] = Row(n, f[n - 1])
  <2> HIDE DEF Row
  <2> QED BY <1>7
<1>9. \A p \in 1 .. L + 1 : f[0][p] = Fail
  <2>1. f[0] = Row(0, f[0 - 1])
    <3> HIDE DEF Row
    <3> QED BY <1>8
  <2>2. QED BY <2>1
<1>10. \A n \in 1 .. L, p \in 1 .. L + 1 : f[n][p] = ParseValue(t, f[n - 1], p)
  <2> TAKE n \in 1 .. L, p \in 1 .. L + 1
  <2>1. f[n] = Row(n, f[n - 1]) /\ n # 0
    <3> HIDE DEF Row
    <3> QED BY <1>8
  <2>2. QED BY <2>1
<1>11. QED BY <1>7, <1>9, <1>10

\* The turns of the loop over a list.
LEMMA ListTurnsByNumber ==
    ASSUME NEW t, Len(t) \in Nat, NEW kind, NEW parse, NEW p
    PROVE  /\ ListTurns(t, kind, parse, p)[0] = [at |-> p, out |-> <<>>, more |-> TRUE]
           /\ \A k \in 1 .. Len(t) :
                 ListTurns(t, kind, parse, p)[k]
                   = ListTurn(t, kind, parse, ListTurns(t, kind, parse, p)[k - 1])
<1> DEFINE L == Len(t)
           First == [at |-> p, out |-> <<>>, more |-> TRUE]
           Up(r) == ListTurn(t, kind, parse, r)
           Is(g, m) == g = [n \in 0 .. m |-> IF n = 0 THEN First ELSE Up(g[n - 1])]
           S == {m \in Nat : \E g : Is(g, m)}
<1>1. 0 \in S
  <2>1. Is([n \in 0 .. 0 |-> First], 0)
    OBVIOUS
  <2>2. QED BY <2>1
<1>2. ASSUME NEW m \in Nat, m \in S PROVE m + 1 \in S
  <2> HIDE DEF Up, First
  <2>1. PICK g : Is(g, m)
    BY <1>2
  <2>2. PICK h : h = [n \in 0 .. m + 1 |-> IF n = m + 1 THEN Up(g[m]) ELSE g[n]]
    OBVIOUS
  <2>3. \A n \in 0 .. m + 1 : h[n] = IF n = 0 THEN First ELSE Up(h[n - 1])
    <3> TAKE n \in 0 .. m + 1
    <3>1. CASE n = m + 1
      <4>1. n # 0 /\ n - 1 = m /\ m \in 0 .. m + 1 /\ m # m + 1
        BY <3>1
      <4>2. QED BY <2>2, <3>1, <4>1
    <3>2. CASE n \in 0 .. m
      <4>1. n # m + 1 /\ (n # 0 => n - 1 \in 0 .. m + 1 /\ n - 1 # m + 1)
        BY <3>2
      <4>2. g[n] = IF n = 0 THEN First ELSE Up(g[n - 1])
        BY <2>1, <3>2
      <4>3. QED BY <2>2, <4>1, <4>2
    <3>3. QED BY <3>1, <3>2
  <2>4. Is(h, m + 1)
    BY <2>2, <2>3
  <2>5. QED BY <2>4
<1>3. L \in S
  <2>1. \A m \in Nat : m \in S => m + 1 \in S
    BY <1>2
  <2>2. QED
    <3> HIDE DEF S
    <3> QED BY <1>1, <2>1, SetInduction
<1>4. ListTurns(t, kind, parse, p) = CHOOSE g : Is(g, L)
  BY DEF ListTurns
<1>5. Is(ListTurns(t, kind, parse, p), L)
  <2> HIDE DEF Is
  <2> QED BY <1>3, <1>4
<1>6. PICK f : f = ListTurns(t, kind, parse, p) /\ Is(f, L)
  BY <1>5
<1>7. f[0] = First /\ \A n \in 1 .. L : f[n] = Up(f[n - 1])
  <2> HIDE DEF Up, First
  <2>1. 0 \in 0 .. L /\ \A n \in 1 .. L : n \in 0 .. L /\ n # 0
    OBVIOUS
  <2>2. QED BY <1>6, <2>1
<1>8. QED BY <1>6, <1>7

LEMMA One ==
    ASSUME NEW S, NEW c \in S
    PROVE  <<c>> \in Seq(S) /\ Len(<<c>>) = 1 /\ <<c>>[1] = c
OBVIOUS

LEMMA Concat3 ==
    ASSUME NEW S, NEW a \in Seq(S), NEW b \in Seq(S), NEW c \in Seq(S)
    PROVE  /\ a \o b \o c \in Seq(S) /\ Len(a \o b \o c) = Len(a) + Len(b) + Len(c)
           /\ \A j \in 1 .. Len(a) : (a \o b \o c)[j] = a[j]
           /\ \A j \in 1 .. Len(b) : (a \o b \o c)[Len(a) + j] = b[j]
           /\ \A j \in 1 .. Len(c) : (a \o b \o c)[Len(a) + Len(b) + j] = c[j]
<1>1. PICK k \in Nat, l \in Nat, m \in Nat : k = Len(a) /\ l = Len(b) /\ m = Len(c)
  OBVIOUS
<1>2. PICK d \in Seq(S) : d = a \o b
  BY Concat
<1>3. /\ Len(d) = k + l
      /\ \A j \in 1 .. k : d[j] = a[j]
      /\ \A j \in 1 .. l : d[k + j] = b[j]
  BY <1>1, <1>2, Concat
<1>4. PICK e \in Seq(S) : e = d \o c
  BY Concat
<1>5. /\ Len(e) = k + l + m
      /\ \A j \in 1 .. k + l : e[j] = d[j]
      /\ \A j \in 1 .. m : e[k + l + j] = c[j]
  <2>1. /\ Len(e) = Len(d) + Len(c)
        /\ \A j \in 1 .. Len(d) : e[j] = d[j]
        /\ \A j \in 1 .. Len(c) : e[Len(d) + j] = c[j]
    BY <1>4, Concat
  <2>2. Len(d) = k + l /\ Len(c) = m
    BY <1>1, <1>3
  <2>3. QED BY <2>1, <2>2, Zenon
<1>6. \A j \in 1 .. k : e[j] = a[j]
  BY <1>3, <1>5
<1>7. \A j \in 1 .. l : e[k + j] = b[j]
  <2> TAKE j \in 1 .. l
  <2>1. PICK i \in 1 .. k + l : i = k + j
    OBVIOUS
  <2>2. e[i] = d[i]
    BY <1>5
  <2>3. d[k + j] = b[j]
    BY <1>3
  <2>4. QED BY <2>1, <2>2, <2>3
<1>8. a \o b \o c = e
  BY <1>2, <1>4
<1>9. QED BY <1>1, <1>5, <1>6, <1>7, <1>8, Zenon

\* What is neither an array nor an object.
LEMMA LeafTypes ==
    \A v \in Leaves : Type(v) \in {"bool", "number", "string"}
<1> TAKE v \in Leaves
<1>1. v = <<"bool", FALSE>> \/ v \in {"number"} \X Exact \/ v \in {"string"} \X Seq(Alphabet)
  BY Zenon DEF Leaves, False
<1>2. CASE v = <<"bool", FALSE>>
  BY <1>2 DEF Type
<1>3. CASE v \in {"number"} \X Exact
  BY <1>3 DEF Type
<1>4. CASE v \in {"string"} \X Seq(Alphabet)
  BY <1>4 DEF Type
<1>5. QED BY <1>1, <1>2, <1>3, <1>4

\* The texts of the values of each depth.
LEMMA TextByDepth ==
    ASSUME NEW b
    PROVE  \A n \in 0 .. Depth : \A v \in Values[n] :
              Text(b)[n][v] = TextOf(v, Text(b)[n - 1], b)
<1> DEFINE Row(n, f) == [v \in Values[n] |-> TextOf(v, f, b)]
           Is(g, m) == g = [n \in 0 .. m |-> Row(n, g[n - 1])]
           S == {m \in Nat : \E g : Is(g, m)}
<1>1. \A x, y : Row(0, x) = Row(0, y)
  <2>1. ASSUME NEW x, NEW y, NEW v \in Leaves PROVE TextOf(v, x, b) = TextOf(v, y, b)
    BY LeafTypes DEF TextOf
  <2>2. QED BY <2>1, ValuesByDepth
<1>2. 0 \in S
  <2>1. PICK R : R = Row(0, 0)
    OBVIOUS
  <2>2. PICK g : g = [n \in 0 .. 0 |-> R]
    OBVIOUS
  <2>3. \A n \in 0 .. 0 : R = Row(n, g[n - 1])
    <3> HIDE DEF Row
    <3> QED BY <1>1, <2>1
  <2>4. Is(g, 0)
    <3> HIDE DEF Row
    <3> QED BY <2>2, <2>3
  <2>5. QED BY <2>4
<1>3. ASSUME NEW m \in Nat, m \in S PROVE m + 1 \in S
  <2> HIDE DEF Row
  <2>1. PICK g : Is(g, m)
    BY <1>3
  <2>2. PICK h : h = [n \in 0 .. m + 1 |-> IF n = m + 1 THEN Row(m + 1, g[m]) ELSE g[n]]
    OBVIOUS
  <2>3. \A n \in 0 .. m + 1 : h[n] = Row(n, h[n - 1])
    <3> TAKE n \in 0 .. m + 1
    <3>1. CASE n = m + 1
      <4>1. n - 1 = m /\ m \in 0 .. m + 1 /\ m # m + 1
        BY <3>1
      <4>2. QED BY <2>2, <3>1, <4>1
    <3>2. CASE n = 0
      <4>1. 0 # m + 1 /\ 0 \in 0 .. m /\ 0 \in 0 .. m + 1
        OBVIOUS
      <4>2. h[0] = g[0] /\ g[0] = Row(0, g[0 - 1])
        BY <2>1, <2>2, <4>1
      <4>3. QED BY <1>1, <3>2, <4>2
    <3>3. CASE n \in 1 .. m
      <4>1. n # m + 1 /\ n \in 0 .. m /\ n - 1 \in 0 .. m + 1 /\ n - 1 # m + 1
        BY <3>3
      <4>2. g[n] = Row(n, g[n - 1])
        BY <2>1, <4>1
      <4>3. QED BY <2>2, <4>1, <4>2
    <3>4. QED BY <3>1, <3>2, <3>3
  <2>4. Is(h, m + 1)
    BY <2>2, <2>3
  <2>5. QED BY <2>4
<1>4. Depth \in S
  <2>1. \A m \in Nat : m \in S => m + 1 \in S
    BY <1>3
  <2>2. QED
    <3> HIDE DEF S
    <3> QED BY <1>2, <2>1, SetInduction, DepthAssumption
<1>5. Text(b) = CHOOSE g : Is(g, Depth)
  BY DEF Text
<1>6. Is(Text(b), Depth)
  <2> HIDE DEF Is
  <2> QED BY <1>4, <1>5
<1>7. PICK f : f = Text(b) /\ Is(f, Depth)
  BY <1>6
<1>8. \A n \in 0 .. Depth : f[n] = Row(n, f[n - 1])
  <2> HIDE DEF Row
  <2> QED BY <1>7
<1>9. QED BY <1>7, <1>8

-----------------------------------------------------------------------------
(* What stands where in the text of an array or an object.                  *)

Blanks == Seq({"sp"})

LEMMA BlanksType ==
    ASSUME NEW b \in Blanks
    PROVE  b \in Seq(Alphabet) /\ Len(b) \in Nat /\ \A j \in 1 .. Len(b) : b[j] = "sp"
<1>1. {"sp"} \subseteq Alphabet
  BY Named
<1>2. b \in Seq({"sp"})
  BY DEF Blanks
<1>3. QED BY <1>1, <1>2

\* What precedes the text of the i-th entry.
Lead(i, b) == IF i = 1 THEN b ELSE b \o <<",">> \o b

LEMMA LeadSymbols ==
    ASSUME NEW b \in Blanks, NEW i \in Nat \ {0}
    PROVE  /\ Lead(i, b) \in Seq(Alphabet)
           /\ Len(Lead(i, b)) = IF i = 1 THEN Len(b) ELSE Len(b) + 1 + Len(b)
           /\ \A j \in 1 .. Len(b) : Lead(i, b)[j] = "sp"
           /\ i > 1 => /\ Lead(i, b)[Len(b) + 1] = ","
                       /\ \A j \in 1 .. Len(b) : Lead(i, b)[Len(b) + 1 + j] = "sp"
<1>1. b \in Seq(Alphabet) /\ Len(b) \in Nat /\ \A j \in 1 .. Len(b) : b[j] = "sp"
  BY BlanksType
<1>2. CASE i = 1
  BY <1>1, <1>2 DEF Lead
<1>3. CASE i > 1
  <2>1. PICK a \in Seq(Alphabet), l \in Nat :
           a = b /\ l = Len(a) /\ Len(b) = l /\ \A j \in 1 .. l : a[j] = "sp"
    BY <1>1
  <2>2. "," \in Alphabet
    BY Named
  <2>3. PICK c \in Seq(Alphabet) : c = <<",">> /\ Len(c) = 1 /\ c[1] = ","
    BY <2>2, One
  <2>4. PICK d : d = a \o c \o a
    OBVIOUS
  <2>5. /\ d \in Seq(Alphabet) /\ Len(d) = l + 1 + l
        /\ \A j \in 1 .. l : d[j] = a[j]
        /\ \A j \in 1 .. 1 : d[l + j] = c[j]
        /\ \A j \in 1 .. l : d[l + 1 + j] = a[j]
    <3>1. /\ d \in Seq(Alphabet) /\ Len(d) = Len(a) + Len(c) + Len(a)
          /\ \A j \in 1 .. Len(a) : d[j] = a[j]
          /\ \A j \in 1 .. Len(c) : d[Len(a) + j] = c[j]
          /\ \A j \in 1 .. Len(a) : d[Len(a) + Len(c) + j] = a[j]
      <4> HIDE <2>1, <2>3
      <4> QED BY <2>4, Concat3
    <3>2. Len(a) = l /\ Len(c) = 1
      BY <2>1, <2>3
    <3>3. QED BY <3>1, <3>2, Zenon
  <2>6. 1 \in 1 .. 1 /\ i # 1
    BY <1>3
  <2>7. Lead(i, b) = d
    BY <2>1, <2>3, <2>4, <2>6, Zenon DEF Lead
  <2>8. d[l + 1] = "," /\ \A j \in 1 .. l : d[j] = "sp" /\ d[l + 1 + j] = "sp"
    BY <2>1, <2>3, <2>5, <2>6
  <2>9. /\ Lead(i, b) \in Seq(Alphabet) /\ Len(Lead(i, b)) = Len(b) + 1 + Len(b)
        /\ \A j \in 1 .. Len(b) : Lead(i, b)[j] = "sp"
        /\ Lead(i, b)[Len(b) + 1] = ","
        /\ \A j \in 1 .. Len(b) : Lead(i, b)[Len(b) + 1 + j] = "sp"
    BY <2>1, <2>5, <2>7, <2>8, Zenon
  <2>10. QED BY <2>6, <2>9
<1>4. i = 1 \/ i > 1
  OBVIOUS
<1>5. QED BY <1>2, <1>3, <1>4

\* The texts of a list, one after the other.
LEMMA ListedLoop ==
    ASSUME NEW b \in Blanks, NEW ts, Len(ts) \in Nat,
           \A i \in 1 .. Len(ts) : ts[i] \in Seq(Alphabet)
    PROVE  /\ Listed(ts, b)[0] = <<>>
           /\ \A i \in 1 .. Len(ts) :
                 Listed(ts, b)[i] = Listed(ts, b)[i - 1] \o Lead(i, b) \o ts[i]
           /\ \A i \in 0 .. Len(ts) : Listed(ts, b)[i] \in Seq(Alphabet)
<1> DEFINE L == Len(ts)
           Up(n, x) == x \o Lead(n, b) \o ts[n]
           Is(g, m) == g = [n \in 0 .. m |-> IF n = 0 THEN <<>> ELSE Up(n, g[n - 1])]
           S == {m \in Nat : \E g : Is(g, m)}
<1>1. 0 \in S
  <2>1. Is([n \in 0 .. 0 |-> <<>>], 0)
    OBVIOUS
  <2>2. QED BY <2>1
<1>2. ASSUME NEW m \in Nat, m \in S PROVE m + 1 \in S
  <2> HIDE DEF Up
  <2>1. PICK g : Is(g, m)
    BY <1>2
  <2>2. PICK h : h = [n \in 0 .. m + 1 |-> IF n = m + 1 THEN Up(m + 1, g[m]) ELSE g[n]]
    OBVIOUS
  <2>3. \A n \in 0 .. m + 1 : h[n] = IF n = 0 THEN <<>> ELSE Up(n, h[n - 1])
    <3> TAKE n \in 0 .. m + 1
    <3>1. CASE n = m + 1
      <4>1. n # 0 /\ n - 1 = m /\ m \in 0 .. m + 1 /\ m # m + 1
        BY <3>1
      <4>2. QED BY <2>2, <3>1, <4>1
    <3>2. CASE n \in 0 .. m
      <4>1. n # m + 1 /\ (n # 0 => n - 1 \in 0 .. m + 1 /\ n - 1 # m + 1)
        BY <3>2
      <4>2. g[n] = IF n = 0 THEN <<>> ELSE Up(n, g[n - 1])
        BY <2>1, <3>2
      <4>3. QED BY <2>2, <4>1, <4>2
    <3>3. QED BY <3>1, <3>2
  <2>4. Is(h, m + 1)
    BY <2>2, <2>3
  <2>5. QED BY <2>4
<1>3. L \in S
  <2>1. \A m \in Nat : m \in S => m + 1 \in S
    BY <1>2
  <2>2. QED
    <3> HIDE DEF S
    <3> QED BY <1>1, <2>1, SetInduction
<1>4. Listed(ts, b) = CHOOSE g : Is(g, L)
  BY DEF Listed, Lead
<1>5. Is(Listed(ts, b), L)
  <2> HIDE DEF Is
  <2> QED BY <1>3, <1>4
<1>6. PICK f : f = Listed(ts, b) /\ Is(f, L)
  BY <1>5
<1>7. f[0] = <<>> /\ \A n \in 1 .. L : f[n] = Up(n, f[n - 1])
  <2> HIDE DEF Up
  <2>1. 0 \in 0 .. L /\ \A n \in 1 .. L : n \in 0 .. L /\ n # 0
    OBVIOUS
  <2>2. QED BY <1>6, <2>1
<1>8. 0 .. L \subseteq {n \in 0 .. L : f[n] \in Seq(Alphabet)}
  <2> DEFINE T == {n \in 0 .. L : f[n] \in Seq(Alphabet)}
  <2>1. 0 \in T
    <3>1. <<>> \in Seq(Alphabet) /\ 0 \in 0 .. L
      OBVIOUS
    <3>2. QED BY <1>7, <3>1
  <2>2. ASSUME NEW n \in 0 .. L - 1, n \in T PROVE n + 1 \in T
    <3>1. n + 1 \in 1 .. L /\ n + 1 \in 0 .. L /\ (n + 1) - 1 = n /\ n + 1 \in Nat \ {0}
      OBVIOUS
    <3>2. Lead(n + 1, b) \in Seq(Alphabet) /\ ts[n + 1] \in Seq(Alphabet) /\ f[n] \in Seq(Alphabet)
      BY <2>2, <3>1, LeadSymbols
    <3>3. f[n] \o Lead(n + 1, b) \in Seq(Alphabet)
      BY <3>2, ConcatProperties
    <3>4. f[n] \o Lead(n + 1, b) \o ts[n + 1] \in Seq(Alphabet)
      BY <3>2, <3>3, ConcatProperties
    <3>5. f[n + 1] = f[n] \o Lead(n + 1, b) \o ts[n + 1]
      BY <1>7, <3>1
    <3>6. QED BY <3>1, <3>4, <3>5
  <2>3. \A n \in 0 .. L - 1 : n \in T => n + 1 \in T
    BY <2>2
  <2>4. QED
    <3> HIDE DEF T
    <3>1. 0 .. L \subseteq T
      BY <2>1, <2>3, UpTo
    <3>2. QED BY <3>1 DEF T
<1>9. QED BY <1>6, <1>7, <1>8

\* How f, the texts of the first entries, grows.
Growth(f, ts, b) ==
    LET N == Len(ts)  d(i) == Len(Lead(i, b)) IN
    /\ Len(f[0]) = 0
    /\ \A i \in 0 .. N : Len(f[i]) \in Nat /\ Len(f[i]) <= Len(f[N])
    /\ \A i \in 1 .. N :
          /\ Len(f[i]) = Len(f[i - 1]) + d(i) + Len(ts[i])
          /\ \A j \in 1 .. d(i) : f[N][Len(f[i - 1]) + j] = Lead(i, b)[j]
          /\ \A j \in 1 .. Len(ts[i]) : f[N][Len(f[i - 1]) + d(i) + j] = ts[i][j]

\* How long each part of Listed is, and that it begins each longer one.
LEMMA ListedGrows ==
    ASSUME NEW b \in Blanks, NEW ts, Len(ts) \in Nat,
           \A i \in 1 .. Len(ts) : ts[i] \in Seq(Alphabet)
    PROVE  Listed(ts, b)[Len(ts)] \in Seq(Alphabet) /\ Growth(Listed(ts, b), ts, b)
<1> DEFINE d(i) == Len(Lead(i, b))
<1>1. PICK N, f :
         /\ N \in Nat /\ N = Len(ts) /\ f = Listed(ts, b) /\ f[0] = <<>>
         /\ \A i \in 0 .. N : f[i] \in Seq(Alphabet)
         /\ \A i \in 1 .. N : f[i] = f[i - 1] \o Lead(i, b) \o ts[i]
         /\ \A i \in 1 .. N : ts[i] \in Seq(Alphabet)
  BY ListedLoop, Zenon
<1> N \in Nat
  BY <1>1
<1>2. \A i \in 0 .. N : Len(f[i]) \in Nat
  BY <1>1
<1>3. Len(f[0]) = 0 /\ 0 \in 0 .. N /\ N \in 0 .. N
  BY <1>1
<1>4. ASSUME NEW i \in 1 .. N
      PROVE  /\ Len(f[i]) = Len(f[i - 1]) + d(i) + Len(ts[i])
             /\ d(i) \in Nat /\ Len(ts[i]) \in Nat
             /\ \A j \in 1 .. Len(f[i - 1]) : f[i][j] = f[i - 1][j]
             /\ \A j \in 1 .. d(i) : f[i][Len(f[i - 1]) + j] = Lead(i, b)[j]
             /\ \A j \in 1 .. Len(ts[i]) : f[i][Len(f[i - 1]) + d(i) + j] = ts[i][j]
  <2>1. i \in 0 .. N /\ i - 1 \in 0 .. N /\ i \in Nat \ {0}
    OBVIOUS
  <2>2. PICK x \in Seq(Alphabet), y \in Seq(Alphabet), z \in Seq(Alphabet) :
           x = f[i - 1] /\ y = Lead(i, b) /\ z = ts[i]
    <3>1. f[i - 1] \in Seq(Alphabet) /\ ts[i] \in Seq(Alphabet)
      BY <1>1, <2>1
    <3>2. Lead(i, b) \in Seq(Alphabet)
      BY <2>1, LeadSymbols
    <3>3. QED BY <3>1, <3>2
  <2>3. f[i] = x \o y \o z
    BY <1>1, <2>2, Zenon
  <2>4. /\ Len(x \o y \o z) = Len(x) + Len(y) + Len(z)
        /\ \A j \in 1 .. Len(x) : (x \o y \o z)[j] = x[j]
        /\ \A j \in 1 .. Len(y) : (x \o y \o z)[Len(x) + j] = y[j]
        /\ \A j \in 1 .. Len(z) : (x \o y \o z)[Len(x) + Len(y) + j] = z[j]
    BY Concat3
  <2>5. Len(y) \in Nat /\ Len(z) \in Nat
    OBVIOUS
  <2>6. QED BY <2>2, <2>3, <2>4, <2>5, Zenon
<1> DEFINE G == {k \in 0 .. N : \A i \in 0 .. k :
                    Len(f[i]) <= Len(f[k]) /\ \A j \in 1 .. Len(f[i]) : f[k][j] = f[i][j]}
<1>5. 0 \in G
  <2>1. \A i \in 0 .. 0 : i = 0
    OBVIOUS
  <2>2. Len(f[0]) <= Len(f[0])
    BY <1>3
  <2>3. QED BY <1>3, <2>1, <2>2
<1>6. ASSUME NEW k \in 0 .. N - 1, k \in G PROVE k + 1 \in G
  <2>1. k + 1 \in 1 .. N /\ (k + 1) - 1 = k /\ k + 1 \in 0 .. N /\ k \in 0 .. N
    OBVIOUS
  <2>2. PICK n \in Nat, m \in Nat : n = Len(f[k]) /\ m = Len(f[k + 1])
    BY <1>2, <2>1
  <2>3. n <= m /\ \A j \in 1 .. n : f[k + 1][j] = f[k][j]
    <3>1. /\ Len(f[k + 1]) = Len(f[(k + 1) - 1]) + d(k + 1) + Len(ts[k + 1])
          /\ d(k + 1) \in Nat /\ Len(ts[k + 1]) \in Nat
          /\ \A j \in 1 .. Len(f[(k + 1) - 1]) : f[k + 1][j] = f[(k + 1) - 1][j]
      <4> HIDE DEF d
      <4> QED BY <1>4, <2>1
    <3>2. QED
      <4> HIDE DEF d
      <4> QED BY <2>1, <2>2, <3>1
  <2>4. ASSUME NEW i \in 0 .. k + 1
        PROVE  Len(f[i]) <= Len(f[k + 1]) /\ \A j \in 1 .. Len(f[i]) : f[k + 1][j] = f[i][j]
    <3>1. CASE i = k + 1
      <4>1. m <= m
        OBVIOUS
      <4>2. QED BY <2>2, <3>1, <4>1
    <3>2. CASE i \in 0 .. k
      <4>1. Len(f[i]) <= n /\ (\A j \in 1 .. Len(f[i]) : f[k][j] = f[i][j]) /\ Len(f[i]) \in Nat
        <5>1. i \in 0 .. N
          BY <2>1, <3>2
        <5>2. QED BY <1>2, <1>6, <2>2, <3>2, <5>1
      <4>2. \A j \in 1 .. Len(f[i]) : j \in 1 .. n
        BY <4>1
      <4>3. QED BY <2>2, <2>3, <4>1, <4>2
    <3>3. QED BY <3>1, <3>2
  <2>5. QED BY <2>1, <2>4
<1>7. \A i \in 0 .. N : /\ Len(f[i]) <= Len(f[N])
                        /\ \A j \in 1 .. Len(f[i]) : f[N][j] = f[i][j]
  <2>1. \A k \in 0 .. N - 1 : k \in G => k + 1 \in G
    BY <1>6
  <2>2. 0 .. N \subseteq G
    <3> HIDE DEF G
    <3> QED BY <1>5, <2>1, UpTo
  <2>3. QED BY <1>3, <2>2
<1>8. ASSUME NEW i \in 1 .. N
      PROVE  /\ \A j \in 1 .. d(i) : f[N][Len(f[i - 1]) + j] = Lead(i, b)[j]
             /\ \A j \in 1 .. Len(ts[i]) : f[N][Len(f[i - 1]) + d(i) + j] = ts[i][j]
  <2>1. i \in 0 .. N /\ i - 1 \in 0 .. N
    OBVIOUS
  <2>2. PICK n \in Nat, k \in Nat, m \in Nat :
           n = Len(f[i - 1]) /\ k = d(i) /\ m = Len(ts[i]) /\ Len(f[i]) = n + k + m
    <3>1. Len(f[i]) = Len(f[i - 1]) + d(i) + Len(ts[i]) /\ d(i) \in Nat /\ Len(ts[i]) \in Nat
      BY <1>4
    <3>2. Len(f[i - 1]) \in Nat
      BY <1>2, <2>1
    <3>3. QED
      <4> HIDE DEF d
      <4> QED BY <3>1, <3>2
  <2>3. \A j \in 1 .. n + k + m : f[N][j] = f[i][j]
    BY <1>7, <2>1, <2>2
  <2>4. /\ \A j \in 1 .. k : f[i][n + j] = Lead(i, b)[j]
        /\ \A j \in 1 .. m : f[i][n + k + j] = ts[i][j]
    <3> HIDE DEF d
    <3> QED BY <1>4, <2>2, Zenon
  <2>5. \A j \in 1 .. k : f[N][n + j] = Lead(i, b)[j]
    <3> TAKE j \in 1 .. k
    <3>1. PICK r \in 1 .. n + k + m : r = n + j
      OBVIOUS
    <3>2. f[N][r] = f[i][r]
      BY <2>3
    <3>3. QED BY <2>4, <3>1, <3>2
  <2>6. \A j \in 1 .. m : f[N][n + k + j] = ts[i][j]
    <3> TAKE j \in 1 .. m
    <3>1. PICK r \in 1 .. n + k + m : r = n + k + j
      OBVIOUS
    <3>2. f[N][r] = f[i][r]
      BY <2>3
    <3>3. QED BY <2>4, <3>1, <3>2
  <2>7. QED
    <3> HIDE DEF d
    <3> QED BY <2>2, <2>5, <2>6, Zenon
<1>9. /\ f[N] \in Seq(Alphabet) /\ Len(f[0]) = 0
      /\ \A i \in 0 .. N : Len(f[i]) \in Nat /\ Len(f[i]) <= Len(f[N])
  BY <1>1, <1>2, <1>3, <1>7, Zenon
<1>10. \A i \in 1 .. N :
                 /\ Len(f[i]) = Len(f[i - 1]) + d(i) + Len(ts[i])
                 /\ \A j \in 1 .. d(i) : f[N][Len(f[i - 1]) + j] = Lead(i, b)[j]
                 /\ \A j \in 1 .. Len(ts[i]) : f[N][Len(f[i - 1]) + d(i) + j] = ts[i][j]
  <2> HIDE DEF d
  <2> QED BY <1>4, <1>8, Zenon
<1>11. Growth(f, ts, b)
  BY <1>1, <1>9, <1>10, Zenon DEF Growth
<1>12. QED BY <1>1, <1>9, <1>11, Zenon

\* A part of a text that is shown is shown, too.
LEMMA ShownPart ==
    ASSUME NEW x, Len(x) \in Nat, NEW y, Len(y) \in Nat, NEW t, NEW p \in Nat \ {0}, NEW k \in Nat,
           Len(t) \in Nat, k + Len(y) <= Len(x), \A j \in 1 .. Len(y) : x[k + j] = y[j],
           Shown(x, t, p)
    PROVE  Shown(y, t, p + k)
<1> SUFFICES ASSUME NEW j \in 1 .. Len(y), (p + k) - 1 + j <= Len(t)
             PROVE  t[(p + k) - 1 + j] = y[j]
  BY DEF Shown
<1>1. PICK i \in 1 .. Len(x) : i = k + j
  OBVIOUS
<1>2. p - 1 + i = (p + k) - 1 + j
  BY <1>1
<1>3. t[p - 1 + i] = x[i]
  BY <1>2 DEF Shown
<1>4. QED BY <1>1, <1>2, <1>3

\* From q to the place before p there are blanks, as far as the text goes.
Spaces(t, q, p) == \A r \in q .. p - 1 : r <= Len(t) => t[r] = "sp"

LEMMA ShownBlanks ==
    ASSUME NEW y, Len(y) \in Nat, NEW t, Len(t) \in Nat, NEW p \in Nat \ {0},
           \A j \in 1 .. Len(y) : y[j] = "sp", Shown(y, t, p)
    PROVE  Spaces(t, p, p + Len(y))
<1> SUFFICES ASSUME NEW r \in p .. p + Len(y) - 1, r <= Len(t)
             PROVE  t[r] = "sp"
  BY DEF Spaces
<1>1. PICK j \in 1 .. Len(y) : p - 1 + j = r
  <2>1. r - p + 1 \in 1 .. Len(y) /\ p - 1 + (r - p + 1) = r
    OBVIOUS
  <2>2. QED BY <2>1
<1>2. t[p - 1 + j] = y[j]
  BY <1>1 DEF Shown
<1>3. QED BY <1>1, <1>2

\* What X holds, the text of a list: M is that of its entries.
Layout(X, M, b, open, close) ==
    /\ X \in Seq(Alphabet) /\ M \in Seq(Alphabet) /\ Len(X) = 1 + Len(M) + Len(b) + 1
    /\ X[1] = open /\ X[1 + Len(M) + Len(b) + 1] = close
    /\ \A j \in 1 .. Len(M) : X[1 + j] = M[j]
    /\ \A j \in 1 .. Len(b) : X[1 + Len(M) + j] = "sp"

\* Brackets, blanks and texts are where they have been put.
LEMMA BracketedSymbols ==
    ASSUME NEW b \in Blanks, NEW ts, Len(ts) \in Nat,
           \A i \in 1 .. Len(ts) : ts[i] \in Seq(Alphabet),
           NEW open \in Alphabet, NEW close \in Alphabet
    PROVE  Layout(Bracketed(open, ts, b, close), Listed(ts, b)[Len(ts)], b, open, close)
<1>1. PICK o \in Seq(Alphabet), M \in Seq(Alphabet), a \in Seq(Alphabet), c \in Seq(Alphabet) :
         o = <<open>> /\ M = Listed(ts, b)[Len(ts)] /\ a = b /\ c = <<close>>
  <2>1. <<open>> \in Seq(Alphabet) /\ <<close>> \in Seq(Alphabet)
    BY One
  <2>2. Listed(ts, b)[Len(ts)] \in Seq(Alphabet)
    BY ListedGrows
  <2>3. QED BY <2>1, <2>2, BlanksType
<1>2. Len(o) = 1 /\ Len(c) = 1 /\ o[1] = open /\ c[1] = close
  BY <1>1, One
<1>3. \A j \in 1 .. Len(a) : a[j] = "sp"
  BY <1>1, BlanksType
<1>4. PICK m \in Nat, l \in Nat : m = Len(M) /\ l = Len(a)
  OBVIOUS
<1>5. PICK d \in Seq(Alphabet) : d = o \o M \o a
  BY Concat3
<1>6. /\ Len(d) = 1 + m + l
      /\ \A j \in 1 .. 1 : d[j] = o[j]
      /\ \A j \in 1 .. m : d[1 + j] = M[j]
      /\ \A j \in 1 .. l : d[1 + m + j] = a[j]
  <2>1. /\ Len(d) = Len(o) + Len(M) + Len(a)
        /\ \A j \in 1 .. Len(o) : d[j] = o[j]
        /\ \A j \in 1 .. Len(M) : d[Len(o) + j] = M[j]
        /\ \A j \in 1 .. Len(a) : d[Len(o) + Len(M) + j] = a[j]
    <3> HIDE <1>1, <1>2, <1>3, <1>4
    <3> QED BY <1>5, Concat3
  <2>2. QED BY <1>2, <1>4, <2>1, Zenon
<1>7. PICK x \in Seq(Alphabet) : x = d \o c
  BY Concat
<1>8. /\ Len(x) = 1 + m + l + 1
      /\ \A j \in 1 .. 1 + m + l : x[j] = d[j]
      /\ \A j \in 1 .. 1 : x[1 + m + l + j] = c[j]
  <2>1. /\ Len(x) = Len(d) + Len(c)
        /\ \A j \in 1 .. Len(d) : x[j] = d[j]
        /\ \A j \in 1 .. Len(c) : x[Len(d) + j] = c[j]
    <3> HIDE <1>1, <1>2, <1>3, <1>4
    <3> QED BY <1>7, Concat
  <2>2. QED BY <1>2, <1>6, <2>1, Zenon
<1>9. x = Bracketed(open, ts, b, close)
  BY <1>1, <1>5, <1>7, Zenon DEF Bracketed
<1>10. 1 \in 1 .. 1 /\ 1 \in 1 .. 1 + m + l
  OBVIOUS
<1>11. x[1] = open /\ x[1 + m + l + 1] = close
  BY <1>2, <1>6, <1>8, <1>10
<1>12. \A j \in 1 .. m : x[1 + j] = M[j]
  <2> TAKE j \in 1 .. m
  <2>1. PICK i \in 1 .. 1 + m + l : i = 1 + j
    OBVIOUS
  <2>2. x[i] = d[i] /\ d[1 + j] = M[j]
    BY <1>6, <1>8
  <2>3. QED BY <2>1, <2>2
<1>13. \A j \in 1 .. l : x[1 + m + j] = "sp"
  <2> TAKE j \in 1 .. l
  <2>1. PICK i \in 1 .. 1 + m + l : i = 1 + m + j
    OBVIOUS
  <2>2. x[i] = d[i] /\ d[1 + m + j] = a[j] /\ a[j] = "sp"
    BY <1>3, <1>4, <1>6, <1>8
  <2>3. QED BY <2>1, <2>2
<1>14. QED BY <1>1, <1>4, <1>8, <1>9, <1>11, <1>12, <1>13, Zenon DEF Layout

\* What precedes an entry, where the text is shown.
LEMMA ShownLead ==
    ASSUME NEW b \in Blanks, NEW i \in Nat \ {0}, NEW t, Len(t) \in Nat, NEW u \in Nat \ {0},
           Shown(Lead(i, b), t, u)
    PROVE  /\ Spaces(t, u, u + Len(b))
           /\ i > 1 => /\ u + Len(b) <= Len(t) => t[u + Len(b)] = ","
                       /\ Spaces(t, u + Len(b) + 1, u + Len(b) + 1 + Len(b))
<1>1. PICK l \in Nat : l = Len(b)
  BY BlanksType
<1>2. /\ Lead(i, b) \in Seq(Alphabet)
      /\ Len(Lead(i, b)) = IF i = 1 THEN Len(b) ELSE Len(b) + 1 + Len(b)
      /\ \A j \in 1 .. Len(b) : Lead(i, b)[j] = "sp"
      /\ i > 1 => /\ Lead(i, b)[Len(b) + 1] = ","
                  /\ \A j \in 1 .. Len(b) : Lead(i, b)[Len(b) + 1 + j] = "sp"
  BY LeadSymbols
<1>3. PICK y \in Seq(Alphabet) : y = Lead(i, b)
  BY <1>2, Zenon
<1>4. Len(y) = IF i = 1 THEN l ELSE l + 1 + l
  BY <1>1, <1>3, <1>2, Zenon
<1>5. \A j \in 1 .. l : y[j] = "sp"
  BY <1>1, <1>3, <1>2, Zenon
<1>6. i > 1 => y[l + 1] = "," /\ \A j \in 1 .. l : y[l + 1 + j] = "sp"
  BY <1>1, <1>3, <1>2, Zenon
<1>7. \A j \in 1 .. Len(y) : u - 1 + j <= Len(t) => t[u - 1 + j] = y[j]
  BY <1>3 DEF Shown
<1>8. Spaces(t, u, u + l)
  <2> SUFFICES ASSUME NEW r \in u .. u + l - 1, r <= Len(t) PROVE t[r] = "sp"
    BY DEF Spaces
  <2>1. PICK j \in 1 .. l : j = r - u + 1
    OBVIOUS
  <2>2. u - 1 + j = r /\ j \in 1 .. Len(y)
    BY <1>4, <2>1
  <2>3. QED BY <1>7, <1>5, <2>1, <2>2
<1>9. ASSUME i > 1
      PROVE  /\ u + l <= Len(t) => t[u + l] = ","
             /\ Spaces(t, u + l + 1, u + l + 1 + l)
  <2>1. Len(y) = l + 1 + l
    BY <1>4, <1>9
  <2>2. u - 1 + (l + 1) = u + l /\ l + 1 \in 1 .. Len(y)
    BY <2>1
  <2>3. u + l <= Len(t) => t[u + l] = ","
    BY <1>7, <1>9, <1>6, <2>2
  <2>4. ASSUME NEW r \in u + l + 1 .. u + l + 1 + l - 1, r <= Len(t) PROVE t[r] = "sp"
    <3>1. PICK j \in 1 .. l : j = r - (u + l)
      OBVIOUS
    <3>2. PICK k \in 1 .. Len(y) : k = l + 1 + j
      BY <2>1, <3>1
    <3>3. u - 1 + k = r
      BY <3>1, <3>2
    <3>4. t[r] = y[k] /\ y[l + 1 + j] = "sp"
      BY <1>7, <1>9, <1>6, <2>4, <3>3
    <3>5. QED BY <3>2, <3>4
  <2>5. Spaces(t, u + l + 1, u + l + 1 + l)
    BY <2>4 DEF Spaces
  <2>6. QED BY <2>3, <2>5, Zenon
<1>10. QED BY <1>1, <1>8, <1>9, Zenon

\* The text ts[i] is found between the places z[i - 1] and z[i] of the signs
\* before and after it.
Laid(t, ts, l, close, z) ==
    \A i \in 1 .. Len(ts) :
       /\ z[i] = z[i - 1] + 1 + l + Len(ts[i]) + l
       /\ Spaces(t, z[i - 1] + 1, z[i - 1] + 1 + l)
       /\ Shown(ts[i], t, z[i - 1] + 1 + l)
       /\ Spaces(t, z[i - 1] + 1 + l + Len(ts[i]), z[i])
       /\ z[i] <= Len(t) => t[z[i]] = IF i = Len(ts) THEN close ELSE ","

\* The text X of a list at p is laid out so.
Placed(t, p, X, ts, l, close) ==
    \E z \in [0 .. Len(ts) -> Nat] :
       /\ z[0] = p /\ z[Len(ts)] + 1 = p + Len(X)
       /\ \A i \in 0 .. Len(ts) : z[i] <= z[Len(ts)]
       /\ Laid(t, ts, l, close, z)

\* A list that is shown has places of signs.
LEMMA ListLaid ==
    ASSUME NEW b \in Blanks, NEW ts, Len(ts) \in Nat, Len(ts) > 0,
           \A i \in 1 .. Len(ts) : ts[i] \in Seq(Alphabet),
           NEW open \in Alphabet, NEW close \in Alphabet,
           NEW t, Len(t) \in Nat, NEW p \in Nat \ {0},
           Shown(Bracketed(open, ts, b, close), t, p)
    PROVE  Placed(t, p, Bracketed(open, ts, b, close), ts, Len(b), close)
<1>1. PICK N \in Nat, l \in Nat : N = Len(ts) /\ l = Len(b) /\ N > 0
  BY BlanksType
<1>2. Layout(Bracketed(open, ts, b, close), Listed(ts, b)[Len(ts)], b, open, close)
  BY BracketedSymbols
<1>3. Growth(Listed(ts, b), ts, b)
  BY ListedGrows
<1>4. PICK X \in Seq(Alphabet), M \in Seq(Alphabet) :
         X = Bracketed(open, ts, b, close) /\ M = Listed(ts, b)[N]
  BY <1>1, <1>2, Zenon DEF Layout
<1>5. Len(X) = 1 + Len(M) + l + 1
  BY <1>1, <1>4, <1>2, Zenon DEF Layout
<1>6. /\ X[1 + Len(M) + l + 1] = close
      /\ \A j \in 1 .. Len(M) : X[1 + j] = M[j]
      /\ \A j \in 1 .. l : X[1 + Len(M) + j] = "sp"
  BY <1>1, <1>4, <1>2, Zenon DEF Layout
<1>7. PICK F : F = [i \in 0 .. N |-> Len(Listed(ts, b)[i])]
  OBVIOUS
<1>8. /\ F[0] = 0 /\ F[N] = Len(M) /\ F \in [0 .. N -> Nat]
      /\ \A i \in 0 .. N : F[i] <= F[N]
  <2>1. /\ Len(Listed(ts, b)[0]) = 0
        /\ \A i \in 0 .. N : Len(Listed(ts, b)[i]) \in Nat
                             /\ Len(Listed(ts, b)[i]) <= Len(Listed(ts, b)[N])
    BY <1>1, <1>3, Zenon DEF Growth
  <2>2. QED BY <1>4, <1>7, <2>1
<1> DEFINE d(i) == Len(Lead(i, b))
<1>9. \A i \in 1 .. N :
         /\ F[i] = F[i - 1] + d(i) + Len(ts[i])
         /\ \A j \in 1 .. d(i) : M[F[i - 1] + j] = Lead(i, b)[j]
         /\ \A j \in 1 .. Len(ts[i]) : M[F[i - 1] + d(i) + j] = ts[i][j]
  <2>1. \A i \in 1 .. N :
           LET f == Listed(ts, b) IN
                 /\ Len(f[i]) = Len(f[i - 1]) + d(i) + Len(ts[i])
                 /\ \A j \in 1 .. d(i) : f[N][Len(f[i - 1]) + j] = Lead(i, b)[j]
                 /\ \A j \in 1 .. Len(ts[i]) : f[N][Len(f[i - 1]) + d(i) + j] = ts[i][j]
    BY <1>1, <1>3, Zenon DEF Growth
  <2>2. \A i \in 1 .. N : F[i] = Len(Listed(ts, b)[i]) /\ F[i - 1] = Len(Listed(ts, b)[i - 1])
    BY <1>7
  <2>3. QED
    <3> HIDE DEF d
    <3> TAKE i \in 1 .. N
    <3>1. /\ F[i] = Len(Listed(ts, b)[i]) /\ F[i - 1] = Len(Listed(ts, b)[i - 1])
          /\ M = Listed(ts, b)[N]
      BY <1>4, <2>2, Zenon
    <3>2. LET f == Listed(ts, b) IN
                 /\ Len(f[i]) = Len(f[i - 1]) + d(i) + Len(ts[i])
                 /\ \A j \in 1 .. d(i) : f[N][Len(f[i - 1]) + j] = Lead(i, b)[j]
                 /\ \A j \in 1 .. Len(ts[i]) : f[N][Len(f[i - 1]) + d(i) + j] = ts[i][j]
      BY <2>1, Zenon
    <3>3. QED BY <3>1, <3>2, Zenon
<1>10. \A i \in 1 .. N : /\ i \in Nat \ {0} /\ Lead(i, b) \in Seq(Alphabet)
                         /\ d(i) = IF i = 1 THEN l ELSE l + 1 + l
                         /\ ts[i] \in Seq(Alphabet)
  <2> TAKE i \in 1 .. N
  <2>1. i \in Nat \ {0} /\ i \in 1 .. Len(ts)
    BY <1>1
  <2>2. Lead(i, b) \in Seq(Alphabet) /\ Len(Lead(i, b)) = IF i = 1 THEN l ELSE l + 1 + l
    <3>1. PICK n \in Nat \ {0} : n = i
      BY <2>1
    <3>2. /\ Lead(n, b) \in Seq(Alphabet)
          /\ Len(Lead(n, b)) = IF n = 1 THEN Len(b) ELSE Len(b) + 1 + Len(b)
      BY LeadSymbols, Zenon
    <3>3. QED BY <1>1, <3>1, <3>2, Zenon
  <2>3. QED BY <2>1, <2>2
<1>11. ASSUME NEW i \in 1 .. N
       PROVE  /\ Shown(Lead(i, b), t, p + 1 + F[i - 1])
              /\ Shown(ts[i], t, p + 1 + F[i - 1] + d(i))
  <2>1. PICK f \in Nat, g \in Nat, k \in Nat, m \in Nat, n \in Nat :
           f = F[i - 1] /\ g = F[i] /\ k = d(i) /\ m = Len(ts[i]) /\ n = Len(M)
           /\ g = f + k + m /\ g <= n
    <3>1. i - 1 \in 0 .. N /\ i \in 0 .. N /\ d(i) \in Nat /\ Len(ts[i]) \in Nat /\ Len(M) \in Nat
      BY <1>10
    <3>2. F[i - 1] \in Nat /\ F[i] \in Nat /\ F[i] <= Len(M) /\ F[i] = F[i - 1] + d(i) + Len(ts[i])
      <4> HIDE DEF d
      <4> QED BY <1>8, <1>9, <3>1
    <3>3. QED
      <4> HIDE DEF d
      <4> QED BY <3>1, <3>2
  <2>2. g = f + k + m /\ g <= n
    BY <2>1, Zenon
  <2>3. Shown(X, t, p) /\ Len(X) = 1 + n + l + 1
    BY <1>4, <1>5, <2>1, Zenon
  <2>4. PICK y \in Seq(Alphabet), x \in Seq(Alphabet) : y = Lead(i, b) /\ x = ts[i]
    BY <1>10
  <2>5. Len(y) = k /\ Len(x) = m
    BY <2>1, <2>4
  <2>6. \A j \in 1 .. k : X[1 + f + j] = y[j]
    <3> TAKE j \in 1 .. k
    <3>1. PICK r \in 1 .. n : r = f + j
      BY <2>2
    <3>2. X[1 + r] = M[r] /\ M[f + j] = y[j]
      <4> HIDE DEF d
      <4> QED BY <1>9, <1>6, <2>1, <2>4, Zenon
    <3>3. 1 + r = 1 + f + j
      BY <3>1
    <3>4. QED BY <3>1, <3>2, <3>3
  <2>7. \A j \in 1 .. m : X[1 + f + k + j] = x[j]
    <3> TAKE j \in 1 .. m
    <3>1. PICK r \in 1 .. n : r = f + k + j
      BY <2>2
    <3>2. X[1 + r] = M[r]
      BY <1>6, <2>1, Zenon
    <3>3. M[f + k + j] = x[j]
      <4> HIDE DEF d
      <4> QED BY <1>9, <2>1, <2>4, Zenon
    <3>4. 1 + r = 1 + f + k + j
      BY <3>1
    <3>5. QED BY <3>1, <3>2, <3>3, <3>4
  <2>8. Shown(y, t, p + (1 + f))
    <3>1. PICK c \in Nat : c = 1 + f
      OBVIOUS
    <3>2. c + k <= 1 + n + l + 1
      BY <2>2, <3>1
    <3>3. c + Len(y) <= Len(X) /\ \A j \in 1 .. Len(y) : X[c + j] = y[j]
      BY <2>3, <2>5, <2>6, <3>1, <3>2, Zenon
    <3>4. Len(y) \in Nat /\ Len(X) \in Nat /\ Shown(X, t, p)
      BY <2>3
    <3>5. Shown(y, t, p + c)
      BY <3>3, <3>4, ShownPart, Zenon
    <3>6. QED BY <3>1, <3>5
  <2>9. Shown(x, t, p + (1 + f + k))
    <3>1. PICK c \in Nat : c = 1 + f + k
      OBVIOUS
    <3>2. c + m <= 1 + n + l + 1
      BY <2>2, <3>1
    <3>3. c + Len(x) <= Len(X) /\ \A j \in 1 .. Len(x) : X[c + j] = x[j]
      BY <2>3, <2>5, <2>7, <3>1, <3>2, Zenon
    <3>4. Len(x) \in Nat /\ Len(X) \in Nat /\ Shown(X, t, p)
      BY <2>3
    <3>5. Shown(x, t, p + c)
      BY <3>3, <3>4, ShownPart, Zenon
    <3>6. QED BY <3>1, <3>5
  <2>10. p + (1 + f) = p + 1 + f /\ p + (1 + f + k) = p + 1 + f + k
    OBVIOUS
  <2>11. QED
    <3> HIDE DEF d
    <3> QED BY <2>1, <2>4, <2>8, <2>9, <2>10
<1>12. PICK z : z = [i \in 0 .. N |-> IF i = 0 THEN p ELSE p + F[i] + 1 + l]
  OBVIOUS
<1>13. /\ z \in [0 .. N -> Nat] /\ z[0] = p
       /\ \A i \in 1 .. N : z[i] = p + F[i] + 1 + l
  <2>1. \A i \in 0 .. N : F[i] \in Nat
    BY <1>8
  <2>2. QED BY <1>12, <2>1
<1>14. z[N] + 1 = p + Len(X)
  <2>1. PICK n \in Nat : n = Len(M)
    OBVIOUS
  <2>2. Len(X) = 1 + n + l + 1 /\ F[N] = n
    BY <1>5, <1>8, <2>1, Zenon
  <2>3. N \in 1 .. N
    BY <1>1
  <2>4. z[N] = p + n + 1 + l
    BY <1>13, <2>2, <2>3, Zenon
  <2>5. QED BY <2>2, <2>4
<1>15. ASSUME NEW i \in 1 .. N
       PROVE  /\ z[i - 1] + 1 + l = p + 1 + F[i - 1] + d(i)
              /\ z[i] = z[i - 1] + 1 + l + Len(ts[i]) + l
              /\ i > 1 => p + 1 + F[i - 1] + l = z[i - 1]
              /\ i = 1 => p + 1 + F[i - 1] = z[i - 1] + 1
              /\ z[i - 1] \in Nat \ {0} /\ F[i - 1] \in Nat /\ F[i] \in Nat /\ Len(ts[i]) \in Nat
  <2>1. PICK f \in Nat, g \in Nat, k \in Nat, m \in Nat :
           f = F[i - 1] /\ g = F[i] /\ k = d(i) /\ m = Len(ts[i])
           /\ g = f + k + m /\ k = (IF i = 1 THEN l ELSE l + 1 + l)
    <3>1. i - 1 \in 0 .. N /\ i \in 0 .. N /\ d(i) \in Nat /\ Len(ts[i]) \in Nat
      BY <1>10
    <3>2. F[i - 1] \in Nat /\ F[i] \in Nat /\ F[i] = F[i - 1] + d(i) + Len(ts[i])
      <4> HIDE DEF d
      <4> QED BY <1>8, <1>9, <3>1
    <3>3. d(i) = (IF i = 1 THEN l ELSE l + 1 + l)
      BY <1>10
    <3>4. QED
      <4> HIDE DEF d
      <4> QED BY <3>1, <3>2, <3>3
  <2>2. z[i] = p + g + 1 + l
    BY <1>13, <2>1
  <2>3. PICK v \in Nat, w \in Nat : v = z[i - 1] /\ w = z[i] /\ w = p + g + 1 + l
    <3>1. i - 1 \in 0 .. N
      OBVIOUS
    <3>2. QED BY <1>13, <2>2, <3>1
  <2>4. g = f + k + m
    BY <2>1, Zenon
  <2>5. IF i = 1 THEN v = p /\ f = 0 /\ k = l ELSE v = p + f + 1 + l /\ k = l + 1 + l
    <3>1. CASE i = 1
      <4>1. i - 1 = 0 /\ f = 0 /\ z[i - 1] = p /\ k = l
        BY <1>8, <1>13, <2>1, <3>1
      <4>2. QED BY <2>3, <3>1, <4>1
    <3>2. CASE i > 1
      <4>1. i - 1 \in 1 .. N /\ i # 1
        BY <3>2
      <4>2. z[i - 1] = p + f + 1 + l /\ k = l + 1 + l
        BY <1>13, <2>1, <4>1
      <4>3. QED BY <2>3, <4>1, <4>2
    <3>3. QED BY <3>1, <3>2
  <2>6. w = p + g + 1 + l
    BY <2>3
  <2>7. /\ v + 1 + l = p + 1 + f + k
        /\ w = v + 1 + l + m + l
        /\ i > 1 => p + 1 + f + l = v
        /\ i = 1 => p + 1 + f = v + 1
        /\ v \in Nat \ {0}
    BY <2>4, <2>5, <2>6
  <2>8. QED
    <3> HIDE DEF d
    <3> QED BY <2>1, <2>3, <2>7, Zenon
<1>16. \A i \in 1 .. N :
          /\ z[i - 1] \in Nat \ {0} /\ F[i - 1] \in Nat /\ F[i] \in Nat /\ Len(ts[i]) \in Nat
          /\ z[i] = p + F[i] + 1 + l
          /\ z[i] = z[i - 1] + 1 + l + Len(ts[i]) + l
  BY <1>13, <1>15, Zenon
<1>17. \A i \in 1 .. N : /\ i > 1 => p + 1 + F[i - 1] + l = z[i - 1]
                         /\ i = 1 => p + 1 + F[i - 1] = z[i - 1] + 1
  BY <1>15, Zenon
<1>18. ASSUME NEW i \in 1 .. N
       PROVE  /\ z[i] = z[i - 1] + 1 + l + Len(ts[i]) + l
              /\ Spaces(t, z[i - 1] + 1, z[i - 1] + 1 + l)
              /\ Shown(ts[i], t, z[i - 1] + 1 + l)
  <2>1. Shown(ts[i], t, z[i - 1] + 1 + l)
    <3> HIDE DEF d
    <3> QED BY <1>11, <1>15
  <2>2. PICK u \in Nat \ {0} : u = p + 1 + F[i - 1]
    <3>1. F[i - 1] \in Nat
      BY <1>16, Zenon
    <3>2. QED BY <3>1
  <2>3. Shown(Lead(i, b), t, u) /\ i \in Nat \ {0}
    BY <1>10, <1>11, <2>2, Zenon
  <2>4. /\ Spaces(t, u, u + l)
        /\ i > 1 => Spaces(t, u + l + 1, u + l + 1 + l)
    BY <1>1, <2>3, ShownLead, Zenon
  <2>5. i = 1 \/ i > 1
    BY <2>3
  <2>6. IF i = 1 THEN u = z[i - 1] + 1 ELSE u + l = z[i - 1]
    BY <1>17, <2>2, <2>5, Zenon
  <2>7. Spaces(t, z[i - 1] + 1, z[i - 1] + 1 + l)
    BY <2>4, <2>5, <2>6, Zenon
  <2>8. QED BY <1>16, <2>1, <2>7, Zenon
<1>19. ASSUME NEW i \in 1 .. N
       PROVE  /\ Spaces(t, z[i - 1] + 1 + l + Len(ts[i]), z[i])
              /\ z[i] <= Len(t) => t[z[i]] = IF i = N THEN close ELSE ","
  <2>1. PICK u \in Nat \ {0} : u = p + 1 + F[i]
    <3>1. F[i] \in Nat
      BY <1>16, Zenon
    <3>2. QED BY <3>1
  <2>2. u + l = z[i] /\ u = z[i - 1] + 1 + l + Len(ts[i])
    <3>1. /\ z[i] = p + F[i] + 1 + l /\ z[i] = z[i - 1] + 1 + l + Len(ts[i]) + l
          /\ z[i - 1] \in Nat \ {0} /\ F[i] \in Nat /\ Len(ts[i]) \in Nat
      BY <1>16, Zenon
    <3>2. PICK v \in Nat, w \in Nat, f \in Nat, m \in Nat :
             v = z[i - 1] /\ w = z[i] /\ f = F[i] /\ m = Len(ts[i])
      <4>1. z[i] \in Nat
        BY <1>13
      <4>2. QED BY <3>1, <4>1
    <3>3. w = p + f + 1 + l /\ w = v + 1 + l + m + l /\ u = p + 1 + f
      BY <2>1, <3>1, <3>2, Zenon
    <3>4. u + l = w /\ u = v + 1 + l + m
      BY <3>3
    <3>5. QED BY <3>2, <3>4, Zenon
  <2>3. CASE i < N
    <3>1. i + 1 \in 1 .. N /\ (i + 1) - 1 = i /\ i + 1 > 1 /\ i # N /\ i + 1 \in Nat \ {0}
      BY <2>3
    <3>2. Shown(Lead(i + 1, b), t, u)
      BY <1>11, <2>1, <3>1
    <3>3. Spaces(t, u, u + l) /\ (u + l <= Len(t) => t[u + l] = ",")
      BY <1>1, <3>1, <3>2, ShownLead
    <3>4. QED BY <2>2, <3>1, <3>3
  <2>4. CASE i = N
    <3>1. PICK n \in Nat : n = Len(M) /\ u = p + 1 + n /\ Len(X) = 1 + n + l + 1
      <4>1. PICK n \in Nat : n = Len(M)
        OBVIOUS
      <4>2. F[N] = n /\ Len(X) = 1 + n + l + 1
        BY <1>5, <1>8, <4>1, Zenon
      <4>3. QED BY <2>1, <2>4, <4>1, <4>2, Zenon
    <3>2. Shown(X, t, p)
      BY <1>1, <1>4
    <3>3. \A j \in 1 .. l : X[1 + n + j] = "sp"
      BY <1>6, <3>1, Zenon
    <3>4. Spaces(t, u, u + l)
      <4> SUFFICES ASSUME NEW r \in u .. u + l - 1, r <= Len(t) PROVE t[r] = "sp"
        BY DEF Spaces
      <4>1. PICK j \in 1 .. l : j = r - u + 1
        OBVIOUS
      <4>2. PICK k \in 1 .. Len(X) : k = 1 + n + j
        BY <3>1
      <4>3. p - 1 + k = r
        BY <3>1, <4>1, <4>2
      <4>4. t[r] = X[k]
        BY <3>2, <4>3 DEF Shown
      <4>5. QED BY <3>3, <4>2, <4>4
    <3>5. u + l <= Len(t) => t[u + l] = close
      <4>1. PICK k \in 1 .. Len(X) : k = 1 + n + l + 1
        BY <3>1
      <4>2. p - 1 + k = u + l
        BY <3>1, <4>1
      <4>3. X[k] = close
        BY <1>6, <3>1, <4>1, Zenon
      <4>4. QED BY <3>2, <4>2, <4>3 DEF Shown
    <3>6. QED BY <2>2, <2>4, <3>4, <3>5, Zenon
  <2>5. i < N \/ i = N
    OBVIOUS
  <2>6. QED BY <2>3, <2>4, <2>5, Zenon
<1>20. Laid(t, ts, l, close, z)
  BY <1>1, <1>18, <1>19, Zenon DEF Laid
<1>21. \A i \in 0 .. N : z[i] <= z[N]
  <2> TAKE i \in 0 .. N
  <2>1. N \in 1 .. N /\ (i = 0 \/ i \in 1 .. N)
    BY <1>1
  <2>2. PICK f \in Nat, g \in Nat : f = F[i] /\ g = F[N] /\ f <= g
    <3>1. F[i] \in Nat /\ F[N] \in Nat /\ F[i] <= F[N]
      BY <1>8, <2>1
    <3>2. QED BY <3>1
  <2>3. z[N] = p + g + 1 + l
    BY <1>13, <2>1, <2>2, Zenon
  <2>4. z[i] = p \/ z[i] = p + f + 1 + l
    BY <1>13, <2>1, <2>2, Zenon
  <2>5. f <= g
    BY <2>2, Zenon
  <2>6. QED BY <2>3, <2>4, <2>5
<1>22. QED BY <1>1, <1>4, <1>13, <1>14, <1>20, <1>21, Zenon DEF Placed

-----------------------------------------------------------------------------
(* Reading a list.                                                          *)

\* The turns r[0] to r[m] of the loop, and the last that makes e of r[m].
Run(t, kind, parse, p, m, r, e) ==
    /\ m \in Nat /\ m < Len(t)
    /\ r[0] = [at |-> p, out |-> <<>>, more |-> TRUE]
    /\ \A k \in 0 .. m : r[k].more = TRUE
    /\ \A k \in 0 .. m - 1 : ListTurn(t, kind, parse, r[k]) = r[k + 1]
    /\ ListTurn(t, kind, parse, r[m]) = e /\ e.more = FALSE

\* The loop ends with what its last turn makes.
LEMMA ListLoop ==
    ASSUME NEW t, Len(t) \in Nat, NEW kind, NEW parse, NEW p, NEW m, NEW r, NEW e,
           Run(t, kind, parse, p, m, r, e)
    PROVE  ListEnd(t, kind, parse, p) = e
<1>1. /\ m \in Nat /\ m < Len(t)
      /\ r[0] = [at |-> p, out |-> <<>>, more |-> TRUE]
      /\ \A k \in 0 .. m : r[k].more = TRUE
      /\ \A k \in 0 .. m - 1 : ListTurn(t, kind, parse, r[k]) = r[k + 1]
      /\ ListTurn(t, kind, parse, r[m]) = e /\ e.more = FALSE
  BY DEF Run
<1> DEFINE Up(x) == ListTurn(t, kind, parse, x)
<1>2. PICK L, T : L \in Nat /\ L = Len(t) /\ T = ListTurns(t, kind, parse, p)
  OBVIOUS
<1> L \in Nat
  BY <1>2
<1>3. T[0] = r[0] /\ \A k \in 1 .. L : T[k] = Up(T[k - 1])
  BY <1>1, <1>2, ListTurnsByNumber
<1>4. Up(e) = e
  BY <1>1 DEF ListTurn, Taken
<1>5. (\A k \in 0 .. m - 1 : Up(r[k]) = r[k + 1]) /\ Up(r[m]) = e /\ m < L
  BY <1>1, <1>2
<1>6. m \in Nat /\ m < L
  BY <1>1, <1>2
<1> HIDE DEF Up
<1> USE <1>6
<1>7. 0 .. m \subseteq {k \in 0 .. m : T[k] = r[k]}
  <2> DEFINE G == {k \in 0 .. m : T[k] = r[k]}
  <2>1. 0 \in G
    BY <1>3
  <2>2. ASSUME NEW k \in 0 .. m - 1, k \in G PROVE k + 1 \in G
    <3>1. k + 1 \in 1 .. L /\ (k + 1) - 1 = k /\ k + 1 \in 0 .. m
      BY <1>5
    <3>2. T[k + 1] = Up(T[k])
      BY <1>3, <3>1
    <3>3. T[k] = r[k]
      BY <2>2
    <3>4. QED BY <1>5, <3>1, <3>2, <3>3
  <2>3. \A k \in 0 .. m - 1 : k \in G => k + 1 \in G
    BY <2>2
  <2>4. QED
    <3> HIDE DEF G
    <3>1. 0 .. m \subseteq G
      BY <2>1, <2>3, UpTo
    <3>2. QED BY <3>1 DEF G
<1>8. T[m + 1] = e
  <2>1. m + 1 \in 1 .. L /\ (m + 1) - 1 = m /\ m \in 0 .. m
    BY <1>5
  <2>2. T[m + 1] = Up(T[m])
    BY <1>3, <2>1
  <2>3. T[m] = r[m]
    BY <1>7, <2>1
  <2>4. QED BY <1>5, <2>2, <2>3
<1>9. \A k \in m + 1 .. L : T[k] = e
  <2> DEFINE G == {j \in Nat : m + 1 + j <= L => T[m + 1 + j] = e}
  <2>1. 0 \in G
    BY <1>8
  <2>2. ASSUME NEW j \in Nat, j \in G PROVE j + 1 \in G
    <3>1. CASE m + 1 + (j + 1) <= L
      <4>1. PICK k \in 1 .. L : k = m + 1 + (j + 1) /\ k - 1 = m + 1 + j /\ m + 1 + j <= L
        BY <3>1
      <4>2. T[k] = Up(T[k - 1])
        BY <1>3
      <4>3. T[m + 1 + j] = e
        BY <2>2, <4>1
      <4>4. QED BY <1>4, <4>1, <4>2, <4>3
    <3>2. QED BY <3>1
  <2>3. \A j \in Nat : j \in G => j + 1 \in G
    BY <2>2
  <2>4. Nat \subseteq G
    <3> HIDE DEF G
    <3> QED BY <2>1, <2>3, SetInduction
  <2>5. ASSUME NEW k \in m + 1 .. L PROVE T[k] = e
    <3>1. PICK j \in Nat : j = k - (m + 1)
      OBVIOUS
    <3>2. m + 1 + j = k /\ m + 1 + j <= L
      BY <3>1
    <3>3. j \in G
      BY <2>4
    <3>4. QED BY <3>2, <3>3
  <2>6. QED BY <2>5
<1>10. PICK c : c = CHOOSE k \in 0 .. L : ~T[k].more
  OBVIOUS
<1>11. m + 1 \in 0 .. L /\ ~T[m + 1].more
  <2>1. e.more = FALSE
    BY <1>1
  <2>2. QED BY <1>8, <2>1
<1>12. c \in 0 .. L /\ ~T[c].more
  BY <1>10, <1>11
<1>13. c \notin 0 .. m
  <2>1. \A k \in 0 .. m : T[k].more = TRUE
    BY <1>1, <1>7
  <2>2. QED BY <1>12, <2>1
<1>14. c \in m + 1 .. L
  BY <1>12, <1>13
<1>15. ListEnd(t, kind, parse, p) = T[c]
  BY <1>2, <1>10 DEF ListEnd, Finished
<1>16. QED BY <1>9, <1>14, <1>15

\* How the level below reads an entry e whose text is x, from any place q with
\* blanks between it and the text; m bounds the length of the rest of t.
EntryReads(t, kind, parse, m, x, e) ==
    \A p \in 1 .. Len(t) + 1 : \A q \in 1 .. p :
       Len(t) + 1 - p <= m /\ Blank(t, q, p) /\ Shown(x, t, p) =>
          /\ p - 1 + Len(x) <= Len(t) /\ At(t, p + Len(x)) \notin {"-"} \cup Digit =>
                Entry(t, kind, parse, q) = [value |-> e, at |-> p + Len(x)]
          /\ Len(t) < p - 1 + Len(x) =>
                \/ Entry(t, kind, parse, q) = Fail
                \/ Entry(t, kind, parse, q).at = Len(t) + 1

Kinds == {"array", "object"}

\* Behind an entry there is a comma or the end of the list.
Signed(t, z, kind) == t[z] \in {",", Close(kind)}

\* What the loop has before and after a turn that adds an entry.
From(q, o) == [at |-> q, out |-> o, more |-> TRUE]
AfterEntry(t, kind, o, e, z) == [at |-> z + 1, out |-> Added(kind, o, e), more |-> t[z] = ","]

\* A turn without an entry, or without a sign behind it.
LEMMA TurnFails ==
    ASSUME NEW t, NEW kind \in Kinds, NEW parse, NEW q, NEW o,
           \/ Entry(t, kind, parse, q) = Fail
           \/ At(t, SkipWhitespace(t, Entry(t, kind, parse, q).at)) \notin {",", Close(kind)}
    PROVE  ListTurn(t, kind, parse, From(q, o)) = NoList
BY DEF ListTurn, Taken, From

\* A turn that finds a whole entry and the sign behind it, at z.
LEMMA EntryWhole ==
    ASSUME NEW t, Len(t) \in Nat, NEW kind \in Kinds, NEW parse, NEW m \in Nat,
           NEW x \in Seq(Alphabet), Len(x) >= 1, NEW e, EntryReads(t, kind, parse, m, x, e),
           NEW a \in 1 .. Len(t), Len(t) + 1 - a <= m, NEW q \in 1 .. a, Blank(t, q, a),
           Shown(x, t, a),
           NEW z \in 1 .. Len(t), a + Len(x) <= z, Blank(t, a + Len(x), z),
           Signed(t, z, kind), NEW o
    PROVE  ListTurn(t, kind, parse, From(q, o)) = AfterEntry(t, kind, o, e, z)
<1>1. PICK L \in Nat, s \in Nat : L = Len(t) /\ s = a + Len(x) /\ a \in 1 .. L /\ z \in 1 .. L
  OBVIOUS
<1>2. s <= z /\ s # 0 /\ Blank(t, s, z) /\ s \in 1 .. z
  BY <1>1
<1>3. At(t, s) \notin {"-"} \cup Digit
  <2>1. CASE s = z
    <3>1. At(t, s) = t[z]
      BY <1>1, <2>1 DEF At
    <3>2. QED BY <3>1 DEF Close, Signed, Digit
  <2>2. CASE s < z
    <3>1. s \in s .. z - 1 /\ s <= L
      BY <1>1, <2>2
    <3>2. t[s] = "sp" /\ At(t, s) = t[s]
      BY <1>1, <1>2, <3>1 DEF Blank, At
    <3>3. QED BY <3>2 DEF Digit
  <2>3. QED BY <1>2, <2>1, <2>2
<1>4. Entry(t, kind, parse, q) = [value |-> e, at |-> s]
  <2>1. a \in 1 .. Len(t) + 1 /\ a - 1 + Len(x) <= Len(t)
    BY <1>1, <1>2
  <2>2. QED BY <1>1, <1>3, <2>1 DEF EntryReads
<1>5. NoBlank(t, z) /\ At(t, z) = t[z]
  <2>1. At(t, z) = t[z]
    BY <1>1 DEF At
  <2>2. Close(kind) \notin {"sp", "nl"}
    BY DEF Close
  <2>3. t[z] = "," \/ t[z] = Close(kind)
    BY DEF Signed
  <2>4. t[z] \notin {"sp", "nl"}
    BY <2>2, <2>3
  <2>5. QED BY <2>1, <2>4 DEF NoBlank
<1>6. SkipWhitespace(t, s) = z
  <2>1. z \in 1 .. Len(t) + 1
    OBVIOUS
  <2>2. QED BY <1>2, <1>5, <2>1, SkipEnds
<1>7. At(t, z) \in {",", Close(kind)}
  BY <1>5 DEF Signed
<1>8. PICK r : r = [at |-> q, out |-> o, more |-> TRUE]
  OBVIOUS
<1>9. r.at = q /\ r.out = o /\ r.more = TRUE
  BY <1>8
<1>10. PICK n : n = [value |-> e, at |-> s] /\ n # Fail
  <2>1. s # 0
    BY <1>2
  <2>2. [value |-> e, at |-> s] # Fail
    BY <2>1 DEF Fail
  <2>3. QED BY <2>2
<1>11. n.value = e /\ n.at = s
  BY <1>10
<1>12. ListTurn(t, kind, parse, r)
        = [at   |-> SkipWhitespace(t, n.at) + 1,
           out  |-> Added(kind, r.out, n.value),
           more |-> At(t, SkipWhitespace(t, n.at)) = ","]
  <2>1. Entry(t, kind, parse, r.at) = n /\ At(t, SkipWhitespace(t, n.at)) \in {",", Close(kind)}
    BY <1>4, <1>6, <1>7, <1>9, <1>10, <1>11, Zenon
  <2>2. QED BY <1>9, <1>10, <2>1, Zenon DEF ListTurn, Taken
<1>13. QED BY <1>5, <1>6, <1>8, <1>9, <1>11, <1>12, Zenon DEF From, AfterEntry

\* A turn for whose entry or the sign behind it the text is too short.
LEMMA EntryEnds ==
    ASSUME NEW t, Len(t) \in Nat, NEW kind \in Kinds, NEW parse, NEW m \in Nat,
           NEW x \in Seq(Alphabet), Len(x) >= 1, NEW e, EntryReads(t, kind, parse, m, x, e),
           NEW a \in Nat \ {0}, Len(t) + 1 - a <= m, NEW q \in 1 .. a, q <= Len(t) + 1,
           Spaces(t, q, a), Shown(x, t, a),
           NEW z \in Nat, z > Len(t), Spaces(t, a + Len(x), z), NEW o
    PROVE  ListTurn(t, kind, parse, From(q, o)) = NoList
<1>1. PICK L \in Nat, n \in Nat : L = Len(t) /\ n = Len(x) /\ n >= 1
  OBVIOUS
<1>2. At(t, L + 1) = "end" /\ SkipWhitespace(t, L + 1) = L + 1
  <2>1. Blank(t, L + 1, L + 1) /\ NoBlank(t, L + 1)
    BY <1>1 DEF Blank, NoBlank
  <2>2. L + 1 \in 1 .. Len(t) + 1 /\ L + 1 \in 1 .. L + 1
    BY <1>1
  <2>3. SkipWhitespace(t, L + 1) = L + 1
    BY <2>1, <2>2, SkipEnds
  <2>4. QED BY <1>1, <2>3 DEF At
<1>3. "end" \notin {",", Close(kind)}
  BY DEF Close
<1>4. CASE a + n - 1 <= L
  <2>1. PICK s \in 1 .. L + 1 : s = a + n
    BY <1>1, <1>4
  <2>2. Blank(t, s, L + 1)
    BY <1>1, <2>1 DEF Spaces, Blank
  <2>3. At(t, s) \notin {"-"} \cup Digit
    <3>1. CASE s = L + 1
      BY <1>2, <3>1 DEF Digit
    <3>2. CASE s <= L
      <4>1. s \in s .. L + 1 - 1
        BY <3>2
      <4>2. At(t, s) = "sp"
        BY <1>1, <2>2, <3>2, <4>1 DEF Blank, At
      <4>3. QED BY <4>2 DEF Digit
    <3>3. QED BY <3>1, <3>2
  <2>4. Entry(t, kind, parse, q) = [value |-> e, at |-> s]
    <3>1. a \in 1 .. Len(t) + 1 /\ a - 1 + Len(x) <= Len(t) /\ s = a + Len(x)
      BY <1>1, <1>4, <2>1
    <3>2. Blank(t, q, a)
      BY <1>1, <1>4 DEF Spaces, Blank
    <3>3. QED BY <2>3, <3>1, <3>2 DEF EntryReads
  <2>5. NoBlank(t, L + 1) /\ L + 1 \in 1 .. Len(t) + 1
    BY <1>1 DEF NoBlank
  <2>6. SkipWhitespace(t, s) = L + 1
    BY <2>2, <2>5, SkipEnds
  <2>7. PICK y : y = Entry(t, kind, parse, q) /\ y.at = s
    BY <2>4
  <2>8. At(t, SkipWhitespace(t, y.at)) \notin {",", Close(kind)}
    BY <1>2, <1>3, <2>6, <2>7
  <2>9. QED BY <2>7, <2>8, TurnFails
<1>5. CASE L < a + n - 1
  <2>1. PICK c \in 1 .. L + 1 : c = IF a <= L THEN a ELSE L + 1
    BY <1>1
  <2>2. L < c - 1 + n /\ q \in 1 .. c /\ L + 1 - c <= m
    BY <1>1, <1>5, <2>1
  <2>3. Blank(t, q, c)
    BY <1>1, <2>1 DEF Spaces, Blank
  <2>4. Shown(x, t, c)
    BY <1>1, <2>1 DEF Shown
  <2>5. \/ Entry(t, kind, parse, q) = Fail
        \/ Entry(t, kind, parse, q).at = L + 1
    <3>1. c \in 1 .. Len(t) + 1 /\ Len(t) + 1 - c <= m /\ Len(t) < c - 1 + Len(x)
      BY <1>1, <2>2
    <3>2. QED BY <1>1, <2>2, <2>3, <2>4, <3>1 DEF EntryReads
  <2>6. QED BY <1>2, <1>3, <2>5, TurnFails
<1>6. QED BY <1>1, <1>4, <1>5

\* A text that stands in a list: it begins with something else than a blank or
\* the end of the list.
Begun(x, kind) ==
    x \in Seq(Alphabet) /\ Len(x) >= 1 /\ x[1] \notin {"sp", "nl", Close(kind)}

\* The texts ts are those of the entries es; out[i] is what i of them make.
Entries(t, kind, parse, m, ts, es, out) ==
    /\ out[0] = <<>>
    /\ \A i \in 1 .. Len(ts) :
          /\ Begun(ts[i], kind) /\ EntryReads(t, kind, parse, m, ts[i], es[i])
          /\ out[i] = Added(kind, out[i - 1], es[i])

\* What parseArray() and parseObject() return for a list that is there as a
\* whole, and for one that is not.
ListRead(t, kind, parse, X, m, p) ==
    /\ p - 1 + Len(X) <= Len(t) =>
          ParseList(t, kind, parse, p + 1) = [value |-> <<kind, m>>, at |-> p + Len(X)]
    /\ Len(t) < p - 1 + Len(X) => ParseList(t, kind, parse, p + 1) = Fail

\* The empty list: its loop does not begin.
LEMMA ListReadsNone ==
    ASSUME NEW t, Len(t) \in Nat, NEW kind \in Kinds, NEW parse, NEW b \in Blanks,
           NEW ts, Len(ts) = 0, NEW open \in Alphabet, NEW p \in 1 .. Len(t),
           Shown(Bracketed(open, ts, b, Close(kind)), t, p),
           Entry(t, kind, parse, Len(t) + 1) = Fail
    PROVE  ListRead(t, kind, parse, Bracketed(open, ts, b, Close(kind)), <<>>, p)
<1>1. Close(kind) \in Alphabet /\ Close(kind) \notin {"sp", "nl", "end"}
  BY Named DEF Close, Kinds
<1>2. Len(ts) \in Nat /\ \A i \in 1 .. Len(ts) : ts[i] \in Seq(Alphabet)
  OBVIOUS
<1>3. Layout(Bracketed(open, ts, b, Close(kind)), Listed(ts, b)[Len(ts)], b, open, Close(kind))
  BY <1>1, <1>2, BracketedSymbols
<1>4. PICK X \in Seq(Alphabet) : X = Bracketed(open, ts, b, Close(kind))
  BY <1>3, Zenon DEF Layout
<1>5. Layout(X, <<>>, b, open, Close(kind))
  <2>1. Listed(ts, b)[0] = <<>>
    BY <1>2, ListedLoop, Zenon
  <2>2. QED BY <1>4, <1>3, <2>1
<1>6. PICK L \in Nat, l \in Nat : L = Len(t) /\ l = Len(b)
  BY BlanksType
<1>7. Len(<<>>) = 0
  OBVIOUS
<1>8. Len(X) = 1 + 0 + l + 1
  BY <1>5, <1>6, <1>7, Zenon DEF Layout
<1>9. \A j \in 1 .. l : X[1 + 0 + j] = "sp"
  BY <1>5, <1>6, <1>7, Zenon DEF Layout
<1>10. X[1 + 0 + l + 1] = Close(kind)
  BY <1>5, <1>6, <1>7, Zenon DEF Layout
<1>11. \A i \in 1 .. l + 2 : p - 1 + i <= L => t[p - 1 + i] = X[i]
  <2>1. Len(X) = l + 2
    BY <1>8
  <2>2. \A i \in 1 .. Len(X) : p - 1 + i <= L => t[p - 1 + i] = X[i]
    BY <1>4, <1>6, Zenon DEF Shown
  <2>3. QED BY <2>1, <2>2, Zenon
<1>12. Spaces(t, p + 1, p + 1 + l)
  <2> SUFFICES ASSUME NEW r \in p + 1 .. p + 1 + l - 1, r <= Len(t) PROVE t[r] = "sp"
    BY DEF Spaces
  <2>1. PICK j \in 1 .. l : j = r - p
    OBVIOUS
  <2>2. PICK i \in 1 .. l + 2 : i = 1 + 0 + j /\ p - 1 + i = r
    BY <2>1
  <2>3. t[r] = X[i]
    BY <1>6, <1>11, <2>2
  <2>4. X[i] = "sp"
    BY <1>9, <2>2
  <2>5. QED BY <2>3, <2>4
<1>13. p + 1 + l <= L => t[p + 1 + l] = Close(kind)
  <2>1. PICK i \in 1 .. l + 2 : i = 1 + 0 + l + 1 /\ p - 1 + i = p + 1 + l
    OBVIOUS
  <2>2. X[i] = Close(kind)
    BY <1>10, <2>1
  <2>3. QED BY <1>11, <2>1, <2>2
<1>14. PICK s \in 1 .. L + 1 : s = IF p + 1 + l <= L THEN p + 1 + l ELSE L + 1
  BY <1>6
<1>15. p + 1 \in 1 .. s /\ s <= p + 1 + l
  BY <1>6, <1>14
<1>16. Blank(t, p + 1, s)
  BY <1>6, <1>12, <1>14, <1>15 DEF Blank, Spaces
<1>17. NoBlank(t, s)
  BY <1>1, <1>6, <1>13, <1>14 DEF NoBlank
<1>18. SkipWhitespace(t, p + 1) = s
  BY <1>6, <1>15, <1>16, <1>17, SkipEnds
<1>19. CASE p + 1 + l <= L
  <2>1. At(t, s) = Close(kind)
    BY <1>6, <1>13, <1>14, <1>19 DEF At
  <2>2. ParseList(t, kind, parse, p + 1) = [value |-> <<kind, <<>>>>, at |-> s + 1]
    BY <1>18, <2>1 DEF ParseList, ListOf
  <2>3. s + 1 = p + Len(X) /\ ~(L < p - 1 + Len(X))
    BY <1>8, <1>14, <1>19
  <2>4. QED BY <1>4, <1>6, <2>2, <2>3, Zenon DEF ListRead
<1>20. CASE p + 1 + l > L
  <2>1. s = L + 1
    BY <1>14, <1>20
  <2>2. At(t, s) = "end"
    BY <1>6, <2>1 DEF At
  <2>3. ListEnd(t, kind, parse, s) = NoList
    <3>1. PICK r : r = [k \in 0 .. 0 |-> From(s, <<>>)]
      OBVIOUS
    <3>2. r[0] = From(s, <<>>) /\ \A k \in 0 .. 0 : r[k].more = TRUE
      BY <3>1 DEF From
    <3>3. ListTurn(t, kind, parse, r[0]) = NoList
      BY <1>6, <2>1, <3>2, TurnFails
    <3>4. PICK m, e : m \in Nat /\ m = 0 /\ e = NoList
      OBVIOUS
    <3> m \in Nat
      BY <3>4
    <3>5. e.more = FALSE /\ m < Len(t)
      BY <3>4 DEF NoList
    <3>6. /\ \A k \in 0 .. m : r[k].more = TRUE
          /\ \A k \in 0 .. m - 1 : ListTurn(t, kind, parse, r[k]) = r[k + 1]
          /\ ListTurn(t, kind, parse, r[m]) = e
      BY <3>2, <3>3, <3>4
    <3>7. Run(t, kind, parse, s, m, r, e)
      BY <3>2, <3>5, <3>6, Zenon DEF Run, From
    <3>8. QED BY <3>4, <3>7, ListLoop
  <2>4. ParseList(t, kind, parse, p + 1) = Fail
    BY <1>1, <1>18, <2>2, <2>3 DEF ParseList, ListOf
  <2>5. ~(p - 1 + Len(X) <= L)
    BY <1>8, <1>20
  <2>6. QED BY <1>4, <1>6, <2>4, <2>5, Zenon DEF ListRead
<1>21. QED BY <1>6, <1>19, <1>20

\* The text x of an entry, between the signs at y and w.
Item(t, kind, x, l, y, w) ==
    /\ w = y + 1 + l + Len(x) + l
    /\ Spaces(t, y + 1, y + 1 + l)
    /\ Shown(x, t, y + 1 + l)
    /\ Spaces(t, y + 1 + l + Len(x), w)
    /\ w <= Len(t) => Signed(t, w, kind)

\* Where reading starts: behind the sign, or behind the blanks after it.
Resume(t, a) == IF a <= Len(t) THEN a ELSE Len(t) + 1

\* One turn reads one item, or the loop ends there with nothing.
LEMMA TurnOfItem ==
    ASSUME NEW t, Len(t) \in Nat, NEW kind \in Kinds, NEW parse, NEW m \in Nat, NEW l \in Nat,
           NEW x, Begun(x, kind), NEW e, EntryReads(t, kind, parse, m, x, e),
           NEW y \in 1 .. Len(t), Len(t) - y <= m, NEW w \in Nat, Item(t, kind, x, l, y, w),
           NEW q, q \in {y + 1, Resume(t, y + 1 + l)}, NEW o
    PROVE  LET turn == ListTurn(t, kind, parse, From(q, o)) IN
           /\ w <= Len(t) =>
                 turn = AfterEntry(t, kind, o, e, w)
           /\ w > Len(t) => turn = NoList
<1>1. x \in Seq(Alphabet) /\ Len(x) >= 1
  BY DEF Begun
<1>2. PICK L \in Nat, n \in Nat, a \in Nat \ {0} :
         L = Len(t) /\ n = Len(x) /\ n >= 1 /\ a = y + 1 + l
  BY <1>1
<1>3. /\ w = a + n + l /\ Spaces(t, y + 1, a) /\ Shown(x, t, a) /\ Spaces(t, a + n, w)
      /\ w <= L => Signed(t, w, kind)
  BY <1>2, Zenon DEF Item
<1>4. y \in 1 .. L /\ L - y <= m
  BY <1>2
<1>5. L + 1 - a <= m
  BY <1>2, <1>4
<1>6. q \in 1 .. a /\ q <= L + 1 /\ y + 1 <= q
  BY <1>2, <1>4 DEF Resume
<1>7. Spaces(t, q, a)
  <2> SUFFICES ASSUME NEW r \in q .. a - 1, r <= Len(t) PROVE t[r] = "sp"
    BY DEF Spaces
  <2>1. r \in y + 1 .. a - 1
    BY <1>2, <1>4, <1>6
  <2>2. QED BY <1>3, <2>1 DEF Spaces
<1>8. ASSUME w <= Len(t)
      PROVE  ListTurn(t, kind, parse, From(q, o))
               = AfterEntry(t, kind, o, e, w)
  <2>1. a \in 1 .. Len(t) /\ Len(t) + 1 - a <= m /\ w \in 1 .. Len(t) /\ a + Len(x) <= w
    <3>1. w <= L /\ w = a + n + l
      BY <1>2, <1>3, <1>8
    <3>2. a \in 1 .. L /\ w \in 1 .. L /\ a + n <= w
      BY <1>2, <3>1
    <3>3. QED BY <1>2, <1>5, <3>2
  <2>2. Blank(t, q, a)
    BY <1>7, <2>1 DEF Spaces, Blank
  <2>3. Blank(t, a + Len(x), w)
    BY <1>2, <1>3, <2>1 DEF Spaces, Blank
  <2>4. Signed(t, w, kind)
    BY <1>2, <1>3, <1>8
  <2>5. QED BY <1>1, <1>3, <1>6, <2>1, <2>2, <2>3, <2>4, EntryWhole
<1>9. ASSUME w > Len(t)
      PROVE  ListTurn(t, kind, parse, From(q, o)) = NoList
  <2>1. Len(t) + 1 - a <= m /\ q <= Len(t) + 1 /\ Spaces(t, a + Len(x), w)
    BY <1>2, <1>3, <1>5, <1>6
  <2>2. QED BY <1>1, <1>3, <1>6, <1>7, <1>9, <2>1, EntryEnds
<1>10. QED BY <1>8, <1>9, Zenon

\* Other lists: the turns up to the last, or up to the one where the text ends.
LEMMA ListReadsSome ==
    ASSUME NEW t, Len(t) \in Nat, NEW kind \in Kinds, NEW parse, NEW m \in Nat, NEW b \in Blanks,
           NEW ts, Len(ts) \in Nat, Len(ts) > 0, NEW es, NEW out,
           Entries(t, kind, parse, m, ts, es, out), NEW open \in Alphabet,
           NEW p \in 1 .. Len(t), Len(t) - p <= m,
           Shown(Bracketed(open, ts, b, Close(kind)), t, p)
    PROVE  ListRead(t, kind, parse, Bracketed(open, ts, b, Close(kind)), out[Len(ts)], p)
<1>1. PICK L \in Nat, N \in Nat, l \in Nat : L = Len(t) /\ N = Len(ts) /\ l = Len(b) /\ N > 0
  BY BlanksType
<1>2. /\ out[0] = <<>>
      /\ \A i \in 1 .. N :
          /\ Begun(ts[i], kind) /\ EntryReads(t, kind, parse, m, ts[i], es[i])
          /\ out[i] = Added(kind, out[i - 1], es[i])
  BY <1>1, Zenon DEF Entries
<1>3. Close(kind) \in Alphabet /\ Close(kind) \notin {"sp", "nl", "end", ","}
  BY Named DEF Close, Kinds
<1>4. \A i \in 1 .. Len(ts) : ts[i] \in Seq(Alphabet)
  BY <1>1, <1>2, Zenon DEF Begun
<1>5. p \in Nat \ {0} /\ p \in 1 .. L /\ L - p <= m
  BY <1>1
<1>6. PICK X : X = Bracketed(open, ts, b, Close(kind))
  OBVIOUS
<1>7. PICK z \in [0 .. Len(ts) -> Nat] :
              /\ z[0] = p /\ z[Len(ts)] + 1 = p + Len(X)
              /\ \A i \in 0 .. Len(ts) : z[i] <= z[Len(ts)]
              /\ Laid(t, ts, Len(b), Close(kind), z)
  <2>1. Placed(t, p, X, ts, Len(b), Close(kind))
    BY <1>3, <1>4, <1>5, <1>6, ListLaid
  <2>2. QED BY <2>1, Zenon DEF Placed
<1>8. z \in [0 .. N -> Nat] /\ z[0] = p
  BY <1>1, <1>7, Zenon
<1>9. z[N] + 1 = p + Len(X) /\ \A i \in 0 .. N : z[i] <= z[N]
  BY <1>1, <1>7, Zenon
<1>10. \A i \in 1 .. N :
       /\ z[i] = z[i - 1] + 1 + l + Len(ts[i]) + l
       /\ Spaces(t, z[i - 1] + 1, z[i - 1] + 1 + l)
       /\ Shown(ts[i], t, z[i - 1] + 1 + l)
       /\ Spaces(t, z[i - 1] + 1 + l + Len(ts[i]), z[i])
       /\ z[i] <= L => t[z[i]] = IF i = N THEN Close(kind) ELSE ","
  BY <1>1, <1>7, Zenon DEF Laid
<1>11. \A i \in 1 .. N : Item(t, kind, ts[i], l, z[i - 1], z[i])
  <2> TAKE i \in 1 .. N
  <2>1. z[i] <= L => Signed(t, z[i], kind)
    BY <1>10 DEF Signed
  <2>2. QED BY <1>1, <1>10, <2>1, Zenon DEF Item
<1>12. \A k \in 0 .. N : z[k] \in Nat /\ p + k <= z[k]
  <2> DEFINE G == {k \in 0 .. N : p + k <= z[k]}
  <2>1. 0 \in G
    BY <1>8
  <2>2. ASSUME NEW k \in 0 .. N - 1, k \in G PROVE k + 1 \in G
    <3>1. k + 1 \in 1 .. N /\ (k + 1) - 1 = k /\ k + 1 \in 0 .. N /\ k \in 0 .. N
      OBVIOUS
    <3>2. PICK n \in Nat : n = Len(ts[k + 1])
      <4>1. ts[k + 1] \in Seq(Alphabet)
        BY <1>1, <1>4, <3>1
      <4>2. QED BY <4>1
    <3>3. z[k + 1] = z[k] + 1 + l + n + l
      BY <1>10, <3>1, <3>2, Zenon
    <3>4. PICK v \in Nat, w \in Nat : v = z[k] /\ w = z[k + 1]
      BY <1>8, <3>1
    <3>5. w = v + 1 + l + n + l
      BY <3>3, <3>4, Zenon
    <3>6. p + k <= v
      BY <2>2, <3>4, Zenon
    <3>7. p + (k + 1) <= w
      BY <3>5, <3>6
    <3>8. QED BY <3>1, <3>4, <3>7, Zenon
  <2>3. \A k \in 0 .. N - 1 : k \in G => k + 1 \in G
    BY <2>2
  <2>4. 0 .. N \subseteq G
    <3> HIDE DEF G
    <3> QED BY <2>1, <2>3, UpTo
  <2>5. QED BY <1>8, <2>4
<1>13. PICK s \in 1 .. L + 1 : s = Resume(t, p + 1 + l)
  BY <1>1, <1>5 DEF Resume
<1>14. PICK r : r = [k \in 0 .. N |-> From(IF k = 0 THEN s ELSE z[k] + 1, out[k])]
  OBVIOUS
<1>15. ASSUME NEW k \in 0 .. N - 1, z[k] <= L
       PROVE  /\ z[k + 1] <= L =>
                   ListTurn(t, kind, parse, r[k]) = AfterEntry(t, kind, out[k], es[k + 1], z[k + 1])
              /\ z[k + 1] > L => ListTurn(t, kind, parse, r[k]) = NoList
  <2>1. k + 1 \in 1 .. N /\ (k + 1) - 1 = k /\ k + 1 \in 0 .. N /\ k \in 0 .. N
    OBVIOUS
  <2>2. PICK y \in Nat, w \in Nat : y = z[k] /\ w = z[k + 1] /\ p + k <= y
    BY <1>12, <2>1
  <2>3. y \in 1 .. L
    <3>1. p + k <= y /\ y <= L
      BY <1>15, <2>2, Zenon
    <3>2. QED BY <3>1
  <2>4. y \in 1 .. Len(t) /\ Len(t) - y <= m
    <3>1. p + k <= y
      BY <2>2, Zenon
    <3>2. L - y <= m
      BY <1>5, <2>3, <3>1
    <3>3. QED BY <1>1, <2>3, <3>2
  <2>5. PICK x, e : /\ x = ts[k + 1] /\ e = es[k + 1]
                    /\ Begun(x, kind) /\ EntryReads(t, kind, parse, m, x, e)
                    /\ Item(t, kind, x, l, y, w)
    BY <1>2, <1>11, <2>1, <2>2, Zenon
  <2>6. PICK q : q \in {y + 1, Resume(t, y + 1 + l)} /\ r[k] = From(q, out[k])
    <3>1. r[k] = From(IF k = 0 THEN s ELSE z[k] + 1, out[k])
      BY <1>14, <2>1, Zenon
    <3>2. CASE k = 0
      <4>1. y = p
        BY <1>8, <2>2, <3>2
      <4>2. QED BY <1>13, <3>1, <3>2, <4>1, Zenon
    <3>3. CASE k # 0
      BY <2>2, <3>1, <3>3, Zenon
    <3>4. QED BY <3>2, <3>3
  <2>7. /\ w <= Len(t) =>
              ListTurn(t, kind, parse, From(q, out[k])) = AfterEntry(t, kind, out[k], e, w)
        /\ w > Len(t) => ListTurn(t, kind, parse, From(q, out[k])) = NoList
    BY <2>4, <2>5, <2>6, TurnOfItem
  <2>8. QED BY <1>1, <2>2, <2>5, <2>6, <2>7, Zenon
<1>16. PICK c \in 0 .. N - 1 : /\ \A k \in 0 .. c : z[k] <= L
                               /\ z[N] <= L => c = N - 1
                               /\ z[N] > L => z[c + 1] > L
  <2>1. CASE z[N] <= L
    <3>1. PICK y \in Nat : y = z[N] /\ y <= L
      BY <1>12, <2>1
    <3>2. \A k \in 0 .. N : z[k] <= y /\ z[k] \in Nat
      BY <1>9, <1>12, <3>1, Zenon
    <3>3. \A k \in 0 .. N - 1 : z[k] <= L
      BY <3>1, <3>2
    <3>4. ~(z[N] > L) /\ N - 1 \in 0 .. N - 1
      BY <1>1, <3>1
    <3>5. QED BY <3>3, <3>4
  <2>2. CASE z[N] > L
    <3> DEFINE G == {k \in 0 .. N : \A i \in 0 .. k : z[i] <= L}
    <3>1. 0 \in G
      BY <1>5, <1>8
    <3>2. N \notin G
      <4>1. N \in 0 .. N /\ z[N] \in Nat
        BY <1>12
      <4>2. QED BY <2>2, <4>1
    <3>3. PICK c \in 0 .. N - 1 : c \in G /\ c + 1 \notin G
      <4> HIDE DEF G
      <4>1. ASSUME \A k \in 0 .. N - 1 : k \in G => k + 1 \in G PROVE FALSE
        <5>1. 0 .. N \subseteq G
          BY <3>1, <4>1, UpTo
        <5>2. QED BY <3>2, <5>1
      <4>2. QED BY <4>1
    <3>4. z[c + 1] > L
      <4>1. c + 1 \in 0 .. N /\ \A i \in 0 .. c + 1 : i \in 0 .. c \/ i = c + 1
        OBVIOUS
      <4>2. z[c + 1] \in Nat
        BY <1>12, <4>1
      <4>3. ~(z[c + 1] <= L)
        BY <3>3, <4>1
      <4>4. QED BY <4>2, <4>3
    <3>5. ~(z[N] <= L)
      <4>1. z[N] \in Nat
        BY <1>12
      <4>2. QED BY <2>2, <4>1
    <3>6. QED BY <3>3, <3>4, <3>5
  <2>3. z[N] \in Nat
    BY <1>12
  <2>4. QED BY <2>1, <2>2, <2>3
<1>17. c + 1 \in 1 .. N /\ c < L
  <2>1. PICK y \in Nat : y = z[c] /\ p + c <= y /\ y <= L
    <3>1. c \in 0 .. N /\ c \in 0 .. c
      OBVIOUS
    <3>2. QED BY <1>12, <1>16, <3>1
  <2>2. p + c <= L
    BY <2>1
  <2>3. QED BY <2>2
<1>18. r[0] = From(s, <<>>) /\ \A k \in 0 .. N : r[k].more = TRUE
  <2>1. 0 \in 0 .. N
    OBVIOUS
  <2>2. r[0] = From(s, <<>>)
    BY <1>2, <1>14, <2>1, Zenon
  <2>3. ASSUME NEW k \in 0 .. N PROVE r[k].more = TRUE
    <3>1. PICK q : r[k] = From(q, out[k])
      BY <1>14, Zenon
    <3>2. QED BY <3>1 DEF From
  <2>4. QED BY <2>2, <2>3
<1>19. \A k \in 0 .. c - 1 : ListTurn(t, kind, parse, r[k]) = r[k + 1]
  <2> TAKE k \in 0 .. c - 1
  <2>1. /\ k \in 0 .. N - 1 /\ k + 1 \in 1 .. N /\ k + 1 # N
        /\ k \in 0 .. c /\ k + 1 \in 0 .. c /\ k + 1 \in 0 .. N
        /\ (k + 1) - 1 = k /\ k + 1 # 0
    OBVIOUS
  <2>2. z[k] <= L /\ z[k + 1] <= L
    BY <1>16, <2>1
  <2>3. ListTurn(t, kind, parse, r[k]) = AfterEntry(t, kind, out[k], es[k + 1], z[k + 1])
    BY <1>15, <2>1, <2>2
  <2>4. t[z[k + 1]] = ","
    BY <1>10, <2>1, <2>2, Zenon
  <2>5. r[k + 1] = From(z[k + 1] + 1, out[k + 1]) /\ out[k + 1] = Added(kind, out[k], es[k + 1])
    BY <1>2, <1>14, <2>1, Zenon
  <2>6. QED BY <2>3, <2>4, <2>5 DEF From, AfterEntry
<1>20. SkipWhitespace(t, p + 1) = s /\ At(t, s) # Close(kind)
  <2>1. 1 \in 1 .. N /\ 1 - 1 = 0
    BY <1>1
  <2>2. Spaces(t, p + 1, p + 1 + l) /\ Shown(ts[1], t, p + 1 + l) /\ Begun(ts[1], kind)
    BY <1>2, <1>8, <1>10, <2>1, Zenon
  <2>3. p + 1 \in 1 .. s /\ s <= p + 1 + l /\ s = IF p + 1 + l <= L THEN p + 1 + l ELSE L + 1
    BY <1>1, <1>5, <1>13 DEF Resume
  <2>4. Blank(t, p + 1, s)
    BY <1>1, <2>2, <2>3 DEF Blank, Spaces
  <2>5. s <= L => t[s] \notin {"sp", "nl", Close(kind)}
    <3>1. SUFFICES ASSUME s <= L PROVE t[s] \notin {"sp", "nl", Close(kind)}
      OBVIOUS
    <3>2. s = p + 1 + l /\ (p + 1 + l) - 1 + 1 = s
      BY <2>3, <3>1
    <3>3. ts[1] \in Seq(Alphabet) /\ Len(ts[1]) >= 1 /\ ts[1][1] \notin {"sp", "nl", Close(kind)}
      BY <2>2, Zenon DEF Begun
    <3>4. 1 \in 1 .. Len(ts[1])
      BY <3>3
    <3>5. t[s] = ts[1][1]
      BY <1>1, <2>2, <3>1, <3>2, <3>4 DEF Shown
    <3>6. QED BY <3>3, <3>5
  <2>6. NoBlank(t, s)
    BY <1>1, <2>5 DEF NoBlank
  <2>7. SkipWhitespace(t, p + 1) = s
    BY <1>1, <2>3, <2>4, <2>6, SkipEnds
  <2>8. At(t, s) # Close(kind)
    <3>1. CASE s <= L
      <4>1. At(t, s) = t[s]
        BY <1>1, <3>1 DEF At
      <4>2. QED BY <2>5, <3>1, <4>1
    <3>2. CASE s = L + 1
      <4>1. At(t, s) = "end"
        BY <1>1, <3>2 DEF At
      <4>2. QED BY <1>3, <4>1
    <3>3. QED BY <3>1, <3>2
  <2>9. QED BY <2>7, <2>8
<1>21. CASE z[N] <= L
  <2>1. PICK e : e = AfterEntry(t, kind, out[c], es[c + 1], z[c + 1])
    OBVIOUS
  <2>2. c = N - 1 /\ c + 1 = N /\ (c + 1) - 1 = c /\ N \in 1 .. N
    BY <1>1, <1>16, <1>21
  <2>3. t[z[N]] = Close(kind) /\ out[N] = Added(kind, out[c], es[N])
    BY <1>2, <1>10, <1>21, <2>2, Zenon
  <2>4. e.at = z[N] + 1 /\ e.out = out[N] /\ e.more = FALSE
    <3>1. (t[z[N]] = ",") = FALSE
      BY <1>3, <2>3
    <3>2. QED BY <2>1, <2>2, <2>3, <3>1 DEF AfterEntry
  <2>5. ListTurn(t, kind, parse, r[c]) = e
    <3>1. z[c] <= L /\ z[c + 1] <= L
      BY <1>16, <1>21, <2>2
    <3>2. QED BY <1>15, <2>1, <3>1
  <2>6. Run(t, kind, parse, s, c, r, e)
    <3>1. c \in Nat /\ c < Len(t) /\ \A k \in 0 .. c : r[k].more = TRUE
      BY <1>1, <1>17, <1>18
    <3>2. QED BY <1>18, <1>19, <2>4, <2>5, <3>1, Zenon DEF Run, From
  <2>7. ListEnd(t, kind, parse, s) = e
    BY <2>6, ListLoop
  <2>8. e # NoList
    <3>1. z[N] \in Nat
      BY <1>12
    <3>2. QED BY <2>4, <3>1 DEF NoList
  <2>9. ParseList(t, kind, parse, p + 1) = [value |-> <<kind, out[N]>>, at |-> z[N] + 1]
    BY <1>20, <2>4, <2>7, <2>8, Zenon DEF ParseList, ListOf
  <2>10. ~(L < p - 1 + Len(X))
    <3>1. PICK y \in Nat : y = z[N] /\ y <= L
      BY <1>12, <1>21
    <3>2. y + 1 = p + Len(X)
      BY <1>9, <3>1
    <3>3. QED BY <3>1, <3>2
  <2>11. QED BY <1>1, <1>6, <1>9, <2>9, <2>10, Zenon DEF ListRead
<1>22. CASE z[N] > L
  <2>1. z[c] <= L /\ z[c + 1] > L
    BY <1>16, <1>22
  <2>2. NoList.more = FALSE
    BY DEF NoList
  <2>3. PICK e : e = NoList /\ e.more = FALSE
    BY <2>2, Zenon
  <2>4. ListTurn(t, kind, parse, r[c]) = e
    BY <1>15, <2>1, <2>3
  <2>5. Run(t, kind, parse, s, c, r, e)
    <3>1. c \in Nat /\ c < Len(t) /\ \A k \in 0 .. c : r[k].more = TRUE
      BY <1>1, <1>17, <1>18
    <3>2. QED BY <1>18, <1>19, <2>3, <2>4, <3>1, Zenon DEF Run, From
  <2>6. ListEnd(t, kind, parse, s) = NoList
    BY <2>3, <2>5, ListLoop
  <2>7. ParseList(t, kind, parse, p + 1) = Fail
    BY <1>20, <2>6, Zenon DEF ParseList, ListOf
  <2>8. ~(p - 1 + Len(X) <= L)
    <3>1. PICK y \in Nat : y = z[N] /\ y > L
      BY <1>12, <1>22
    <3>2. y + 1 = p + Len(X)
      BY <1>9, <3>1
    <3>3. QED BY <3>1, <3>2
  <2>9. QED BY <1>1, <1>6, <2>7, <2>8, Zenon DEF ListRead
<1>23. z[N] \in Nat
  BY <1>12
<1>24. QED BY <1>21, <1>22, <1>23

\* Every list.
LEMMA ListReads ==
    ASSUME NEW t, Len(t) \in Nat, NEW kind \in Kinds, NEW parse, NEW m \in Nat, NEW b \in Blanks,
           NEW ts, Len(ts) \in Nat, NEW es, NEW out,
           Entries(t, kind, parse, m, ts, es, out), NEW open \in Alphabet,
           NEW p \in 1 .. Len(t), Len(t) - p <= m,
           Shown(Bracketed(open, ts, b, Close(kind)), t, p),
           Entry(t, kind, parse, Len(t) + 1) = Fail
    PROVE  ListRead(t, kind, parse, Bracketed(open, ts, b, Close(kind)), out[Len(ts)], p)
<1>1. CASE Len(ts) = 0
  <2>1. out[Len(ts)] = <<>>
    BY <1>1, Zenon DEF Entries
  <2>2. QED BY <1>1, <2>1, ListReadsNone
<1>2. CASE Len(ts) > 0
  BY <1>2, ListReadsSome
<1>3. QED BY <1>1, <1>2

-----------------------------------------------------------------------------
(* Reading a value.                                                         *)

\* What the text of a value begins with.
Firsts == {"false", "-", "7", "8", "quote", "[", "{"}
Worded(x) == x \in Seq(Alphabet) /\ Len(x) >= 1 /\ x[1] \in Firsts

\* The branch that parseValue() takes at p, where there is the symbol c.
Branch(t, m, p, c) ==
    CASE c = "{"     -> ParseList(t, "object", Levels(t)[m - 1], p + 1)
      [] c = "["     -> ParseList(t, "array", Levels(t)[m - 1], p + 1)
      [] c = "quote" -> ParseRawString(t, p)
      [] c = "false" -> [value |-> False, at |-> p + 1]
      [] OTHER       -> ParseNumber(t, p)

\* The text x of the value v is read back, whole, and it is no value in part.
\* Only a number must be followed by something else than its own symbols, and a
\* part of it may be a number, the last thing in the text.
Whole(t, x, v, p, r) ==
    p - 1 + Len(x) <= Len(t) /\ (Type(v) = "number" => At(t, p + Len(x)) \notin {"-"} \cup Digit)
    => r = [value |-> v, at |-> p + Len(x)]
Part(t, x, v, p, r) ==
    Len(t) < p - 1 + Len(x) => r = Fail \/ (Type(v) = "number" /\ r.at = Len(t) + 1)

Reads(t, m, x, v) ==
    \A p \in 1 .. Len(t) + 1 : \A q \in 1 .. p :
       Len(t) + 1 - p <= m /\ Blank(t, q, p) /\ Shown(x, t, p) =>
          Whole(t, x, v, p, Levels(t)[m][q]) /\ Part(t, x, v, p, Levels(t)[m][q])

\* At the end of a text there is no value.
LEMMA AtEnd ==
    ASSUME NEW t, Len(t) \in Nat, NEW m \in 0 .. Len(t), NEW q \in 1 .. Len(t) + 1,
           Blank(t, q, Len(t) + 1)
    PROVE  Levels(t)[m][q] = Fail
<1>1. PICK L \in Nat : L = Len(t) /\ q \in 1 .. L + 1 /\ m \in 0 .. L
  OBVIOUS
<1>2. CASE m = 0
  BY <1>1, <1>2, LevelsByDepth
<1>3. CASE m \in 1 .. L
  <2>1. Levels(t)[m][q] = ParseValue(t, Levels(t)[m - 1], q)
    BY <1>1, <1>3, LevelsByDepth
  <2>2. SkipWhitespace(t, q) = L + 1
    <3>1. NoBlank(t, L + 1) /\ L + 1 \in 1 .. Len(t) + 1
      BY <1>1 DEF NoBlank
    <3>2. QED BY <1>1, <3>1, SkipEnds
  <2>3. L + 1 > Len(t) /\ At(t, L + 1) = "end"
    BY <1>1 DEF At
  <2>4. QED BY <2>1, <2>2, <2>3 DEF ParseValue
<1>4. QED BY <1>1, <1>2, <1>3

\* The first symbol decides.
LEMMA BranchTaken ==
    ASSUME NEW t, Len(t) \in Nat, NEW m \in 1 .. Len(t), NEW p \in 1 .. Len(t), NEW q \in 1 .. p,
           Blank(t, q, p), NEW x, Worded(x), Shown(x, t, p)
    PROVE  Levels(t)[m][q] = Branch(t, m, p, x[1])
<1>1. PICK L \in Nat : L = Len(t) /\ p \in 1 .. L /\ m \in 1 .. L /\ q \in 1 .. L + 1
  OBVIOUS
<1>2. PICK c \in Firsts : c = x[1]
  BY DEF Worded
<1>3. t[p] = c
  <2>1. 1 \in 1 .. Len(x) /\ p - 1 + 1 = p /\ p <= L
    BY <1>1 DEF Worded
  <2>2. QED BY <1>1, <1>2, <2>1 DEF Shown
<1>4. SkipWhitespace(t, q) = p
  <2>1. NoBlank(t, p) /\ p \in 1 .. Len(t) + 1
    <3>1. t[p] \notin {"sp", "nl"}
      BY <1>3 DEF Firsts
    <3>2. QED BY <1>1, <3>1 DEF NoBlank
  <2>2. QED BY <2>1, SkipEnds
<1>5. Levels(t)[m][q] = ParseValue(t, Levels(t)[m - 1], q)
  BY <1>1, LevelsByDepth
<1>6. At(t, p) = c /\ ~(p > Len(t))
  BY <1>1, <1>3 DEF At
<1>7. ParseValue(t, Levels(t)[m - 1], q) = Branch(t, m, p, c)
  BY <1>2, <1>4, <1>6 DEF ParseValue, Branch, Firsts
<1>8. QED BY <1>2, <1>5, <1>7

\* It is enough to know what the branch does.
LEMMA ReadsByBranch ==
    ASSUME NEW t, Len(t) \in Nat, NEW m \in 0 .. Len(t), NEW x, Worded(x), NEW v,
           \A p \in 1 .. Len(t) :
              m >= 1 /\ Len(t) + 1 - p <= m /\ Shown(x, t, p) =>
                 Whole(t, x, v, p, Branch(t, m, p, x[1])) /\ Part(t, x, v, p, Branch(t, m, p, x[1]))
    PROVE  Reads(t, m, x, v)
<1>1. PICK L \in Nat : L = Len(t) /\ m \in 0 .. L
  OBVIOUS
<1>2. SUFFICES ASSUME NEW p \in 1 .. L + 1, NEW q \in 1 .. p, L + 1 - p <= m, Blank(t, q, p),
                      Shown(x, t, p)
               PROVE  Whole(t, x, v, p, Levels(t)[m][q]) /\ Part(t, x, v, p, Levels(t)[m][q])
  BY <1>1 DEF Reads
<1>3. CASE p = L + 1
  <2>1. Levels(t)[m][q] = Fail
    BY <1>1, <1>2, <1>3, AtEnd
  <2>2. ~(p - 1 + Len(x) <= Len(t))
    BY <1>1, <1>3 DEF Worded
  <2>3. QED BY <2>1, <2>2, Zenon DEF Whole, Part
<1>4. CASE p \in 1 .. L
  <2>1. m \in 1 .. L /\ m >= 1
    BY <1>1, <1>2, <1>4
  <2>2. Levels(t)[m][q] = Branch(t, m, p, x[1])
    BY <1>1, <1>2, <1>4, <2>1, BranchTaken
  <2>3. QED BY <1>1, <1>2, <1>4, <2>1, <2>2
<1>5. QED BY <1>3, <1>4

\* A literal.
LEMMA BoolReads ==
    ASSUME NEW t, Len(t) \in Nat, NEW m \in 0 .. Len(t), NEW x, x = <<"false">>
    PROVE  Worded(x) /\ Reads(t, m, x, False)
<1>1. x \in Seq(Alphabet) /\ Len(x) = 1 /\ x[1] = "false"
  <2>1. "false" \in Alphabet
    BY Named
  <2>2. QED BY <2>1, One
<1>2. Worded(x)
  BY <1>1 DEF Worded, Firsts
<1>3. ASSUME NEW p \in 1 .. Len(t), NEW r, r = Branch(t, m, p, x[1])
      PROVE  Whole(t, x, False, p, r) /\ Part(t, x, False, p, r)
  <2>1. r = [value |-> False, at |-> p + 1]
    BY <1>1, <1>3 DEF Branch
  <2>2. p + 1 = p + Len(x) /\ ~(Len(t) < p - 1 + Len(x))
    BY <1>1
  <2>3. QED BY <2>1, <2>2, Zenon DEF Whole, Part
<1>4. QED BY <1>2, <1>3, ReadsByBranch

\* A string: what has been proved of parseRawString().
LEMMA StringReads ==
    ASSUME NEW t \in Seq(Alphabet), NEW m \in 0 .. Len(t), NEW s \in Seq(Alphabet),
           NEW x, x = Quoted(s)
    PROVE  Worded(x) /\ Reads(t, m, x, Str(s))
<1>1. x \in Seq(Alphabet) /\ Len(x) >= 1 /\ x[1] = "quote"
  <2>1. PICK N \in Nat, M \in Nat : \E a \in [0 .. N -> Nat] : PlacesOf(s, N, M, a)
    BY Named, PlacesOfSymbols
  <2>2. Len(x) = M + 2 /\ x[1] = "quote"
    BY <2>1, Zenon DEF PlacesOf
  <2>3. x \in Seq(Alphabet)
    BY Named, PlacesOfSymbols
  <2>4. QED BY <2>2, <2>3
<1>2. Worded(x)
  BY <1>1 DEF Worded, Firsts
<1>3. ASSUME NEW p \in 1 .. Len(t), Shown(x, t, p), NEW r, r = Branch(t, m, p, x[1])
      PROVE  Whole(t, x, Str(s), p, r) /\ Part(t, x, Str(s), p, r)
  <2>1. r = ParseRawString(t, p)
    BY <1>1, <1>3 DEF Branch
  <2>2. ASSUME p - 1 + Len(x) <= Len(t) PROVE r = [value |-> Str(s), at |-> p + Len(x)]
    <3>1. Stands(x, t, p)
      <4>1. \A i \in 1 .. Len(x) : p - 1 + i <= Len(t)
        BY <1>1, <2>2
      <4>2. QED BY <1>3, <2>2, <4>1, Zenon DEF Shown, Stands
    <3>2. p \in Nat \ {0}
      OBVIOUS
    <3>3. QED BY <2>1, <3>1, <3>2, Named, StringReadsBack
  <2>3. ASSUME Len(t) < p - 1 + Len(x) PROVE r = Fail
    <3>1. p \in 1 .. Len(t) + 1
      OBVIOUS
    <3>2. QED BY <1>3, <2>1, <2>3, <3>1, Named, StringPartMalformed
  <2>4. QED BY <2>2, <2>3, Zenon DEF Whole, Part
<1>4. Len(t) \in Nat
  OBVIOUS
<1>5. QED BY <1>2, <1>3, <1>4, ReadsByBranch

\* A number: the digits and the sign that are found at p, as the double that is
\* made of them.
LEMMA NumberReads ==
    ASSUME NEW t \in Seq(Alphabet), NEW m \in 0 .. Len(t),
           NEW x \in Numerals, Digits(x) <= MaxDigits
    PROVE  Worded(x) /\ Reads(t, m, x, Number(Stod(x)))
<1>1. PICK n \in Nat : n = Len(x)
  BY DEF Numerals
<1>2. x \in Seq({"-", "7", "8"}) /\ n >= 1
  <2>1. {"-"} \cup Digit = {"-", "7", "8"}
    BY DEF Digit
  <2>2. QED BY <1>1, <2>1 DEF Numerals
<1>3. x[n] \in Digit
  BY <1>1 DEF Numerals
<1>4. \A i \in 2 .. n : x[i] \in Digit
  BY <1>1, Zenon DEF Numerals
<1>5. \A i \in 1 .. n : x[i] \in {"-", "7", "8"} /\ x[i] \in {"-"} \cup Digit
  BY <1>1, <1>2 DEF Digit
<1>6. x \in Seq(Alphabet)
  <2>1. {"-", "7", "8"} \subseteq Alphabet
    BY Named
  <2>2. QED BY <1>2, <2>1
<1>7. Worded(x)
  <2>1. 1 \in 1 .. n
    BY <1>2
  <2>2. PICK c : c = x[1] /\ c \in {"-", "7", "8"}
    BY <1>5, <2>1
  <2>3. x[1] \in Firsts
    BY <2>2 DEF Firsts
  <2>4. QED BY <1>1, <1>2, <1>6, <2>3 DEF Worded
<1>8. PICK L \in Nat : L = Len(t)
  OBVIOUS
<1>9. ASSUME NEW p \in 1 .. L, Shown(x, t, p), NEW r, r = Branch(t, m, p, x[1])
      PROVE  Whole(t, x, Number(Stod(x)), p, r) /\ Part(t, x, Number(Stod(x)), p, r)
  <2>1. r = ParseNumber(t, p)
    <3>1. x[1] \in {"-", "7", "8"}
      BY <1>2, <1>5
    <3>2. QED BY <1>9, <3>1 DEF Branch
  <2>2. \A i \in 1 .. n : p - 1 + i <= L => t[p - 1 + i] = x[i]
    BY <1>1, <1>8, <1>9, Zenon DEF Shown
  <2>3. \A j \in p .. p + n - 1 :
           j <= L => t[j] \in {"-"} \cup Digit /\ (j > p => t[j] \in Digit)
    <3> TAKE j \in p .. p + n - 1
    <3> HAVE j <= L
    <3>1. PICK i \in 1 .. n : i = j - p + 1
      OBVIOUS
    <3>2. t[j] = x[i]
      <4>1. p - 1 + i = j
        BY <3>1
      <4>2. QED BY <2>2, <4>1
    <3>3. x[i] \in {"-"} \cup Digit
      BY <1>5
    <3>4. j > p => x[i] \in Digit
      <4>1. j > p => i \in 2 .. n
        BY <3>1
      <4>2. QED BY <1>4, <4>1
    <3>5. QED BY <3>2, <3>3, <3>4
  <2>4. ASSUME p - 1 + n <= L, At(t, p + n) \notin {"-"} \cup Digit
        PROVE  r = [value |-> Number(Stod(x)), at |-> p + n]
    <3>1. PICK e \in 1 .. L + 1 : e = p + n
      BY <1>2, <2>4
    <3>2. e <= L => t[e] \notin {"-"} \cup Digit
      BY <1>8, <2>4, <3>1 DEF At
    <3>3. After(t, p, {"-"} \cup Digit) = e
      <4>1. p \in 1 .. e /\ "end" \notin {"-"} \cup Digit
        BY <1>2, <3>1 DEF Digit
      <4>2. \A j \in p .. e - 1 : t[j] \in {"-"} \cup Digit
        BY <2>3, <3>1
      <4>3. QED BY <1>8, <3>2, <4>1, <4>2, ScanEnds
    <3>4. PICK d \in 1 .. e - 1 : /\ d = IF At(t, p) = "-" THEN p + 1 ELSE p
                                  /\ \A j \in d .. e - 1 : t[j] \in Digit
                                  /\ e - d = Digits(x)
      <4>1. At(t, p) = t[p] /\ t[p] = x[1]
        <5>1. 1 \in 1 .. n /\ p - 1 + 1 = p
          BY <1>2
        <5>2. QED BY <1>8, <2>2, <5>1 DEF At
      <4>2. CASE t[p] = "-"
        <5>1. n # 1
          BY <1>3, <4>1, <4>2 DEF Digit
        <5>2. PICK d \in 1 .. e - 1 : d = p + 1
          BY <1>2, <3>1, <5>1
        <5>3. \A j \in d .. e - 1 : j \in p .. p + n - 1 /\ j <= L /\ j > p
          BY <3>1, <5>2
        <5>4. \A j \in d .. e - 1 : t[j] \in Digit
          BY <2>3, <5>3
        <5>5. e - d = Digits(x)
          BY <1>1, <3>1, <4>1, <4>2, <5>2 DEF Digits
        <5>6. QED BY <4>1, <4>2, <5>2, <5>4, <5>5
      <4>3. CASE t[p] # "-"
        <5>1. PICK d \in 1 .. e - 1 : d = p
          BY <1>2, <3>1
        <5>2. t[p] \in Digit
          <6>1. p \in p .. p + n - 1 /\ p <= L
            BY <1>2
          <6>2. QED BY <2>3, <4>3, <6>1
        <5>3. \A j \in d .. e - 1 : j \in p .. p + n - 1 /\ j <= L /\ (j > p \/ j = p)
          BY <3>1, <5>1
        <5>4. \A j \in d .. e - 1 : t[j] \in Digit
          BY <2>3, <5>2, <5>3
        <5>5. e - d = Digits(x)
          BY <1>1, <3>1, <4>1, <4>3, <5>1 DEF Digits
        <5>6. QED BY <4>1, <4>3, <5>1, <5>4, <5>5
      <4>4. QED BY <4>2, <4>3
    <3>5. After(t, d, Digit) = e
      <4>1. d \in 1 .. e /\ "end" \notin Digit /\ \A j \in d .. e - 1 : t[j] \in Digit
        BY <3>4 DEF Digit
      <4>2. e <= L => t[e] \notin Digit
        BY <3>2
      <4>3. QED BY <1>8, <4>1, <4>2, ScanEnds
    <3>6. e # d /\ ~(e - d > MaxDigits)
      <4>1. e # d
        BY <3>4
      <4>2. e - d <= MaxDigits /\ e - d \in Int
        BY <3>4
      <4>3. QED BY <4>1, <4>2, NumberAssumption
    <3>7. SubSeq(t, p, e - 1) = x
      <4>1. PICK y : y = SubSeq(t, p, e - 1)
        OBVIOUS
      <4>2. y \in Seq(Alphabet) /\ Len(y) = n /\ \A i \in 1 .. n : y[i] = t[p + i - 1]
        <5>1. p \in 1 .. L + 1 /\ e - 1 \in p - 1 .. L /\ (e - 1) - p + 1 = n
          BY <3>1
        <5>2. QED BY <1>8, <4>1, <5>1, SubSeqProperties
      <4>3. \A i \in 1 .. n : y[i] = x[i]
        <5> TAKE i \in 1 .. n
        <5>1. p + i - 1 = p - 1 + i /\ p - 1 + i <= L
          BY <2>4
        <5>2. QED BY <2>2, <4>2, <5>1
      <4>4. y = x
        BY <1>1, <1>6, <4>2, <4>3, SeqEqual
      <4>5. QED BY <4>1, <4>4
    <3>8. r = [value |-> Number(Stod(SubSeq(t, p, e - 1))), at |-> e]
      BY <2>1, <3>3, <3>4, <3>5, <3>6, Zenon DEF ParseNumber
    <3>9. QED BY <3>1, <3>7, <3>8
  <2>5. ASSUME L < p - 1 + n PROVE r = Fail \/ r.at = L + 1
    <3>1. After(t, p, {"-"} \cup Digit) = L + 1
      <4>1. p \in 1 .. L + 1 /\ "end" \notin {"-"} \cup Digit /\ L + 1 \in 1 .. L + 1
        BY DEF Digit
      <4>2. \A j \in p .. (L + 1) - 1 : t[j] \in {"-"} \cup Digit
        BY <2>3, <2>5
      <4>3. L + 1 <= L => t[L + 1] \notin {"-"} \cup Digit
        OBVIOUS
      <4>4. QED BY <1>8, <4>1, <4>2, <4>3, ScanEnds
    <3>2. QED BY <2>1, <3>1 DEF ParseNumber
  <2>6. Type(Number(Stod(x))) = "number"
    BY DEF Type, Number
  <2>7. QED BY <1>1, <1>8, <2>4, <2>5, <2>6, Zenon DEF Whole, Part
<1>10. Len(t) \in Nat
  OBVIOUS
<1>11. QED BY <1>7, <1>8, <1>9, <1>10, ReadsByBranch

-----------------------------------------------------------------------------
(* Reading a member of an object.                                           *)

MemberText(k, b, x) == Quoted(k) \o b \o <<":">> \o b \o x

\* What stands where in it: n is the length of the key's text, l of the blanks.
MemberLaid(t, p, k, n, l, x) ==
    /\ Shown(Quoted(k), t, p)
    /\ Spaces(t, p + n, p + n + l)
    /\ p + n + l <= Len(t) => t[p + n + l] = ":"
    /\ Spaces(t, p + n + l + 1, p + n + l + 1 + l)
    /\ Shown(x, t, p + n + l + 1 + l)

\* y has the parts a, c and x.
Three(y, a, c, x) ==
    /\ Len(y) = Len(a) + Len(c) + Len(x)
    /\ \A j \in 1 .. Len(a) : y[j] = a[j]
    /\ \A j \in 1 .. Len(c) : y[Len(a) + j] = c[j]
    /\ \A j \in 1 .. Len(x) : y[Len(a) + Len(c) + j] = x[j]

LEMMA ThreeParts ==
    ASSUME NEW S, NEW a \in Seq(S), NEW c \in Seq(S), NEW x \in Seq(S)
    PROVE  Three(a \o c \o x, a, c, x)
BY Concat3 DEF Three

\* It begins with a quote, and its parts are where they have been put.
LEMMA MemberSymbols ==
    ASSUME NEW b \in Blanks, NEW k \in Seq(Alphabet), NEW x \in Seq(Alphabet)
    PROVE  /\ MemberText(k, b, x) \in Seq(Alphabet)
           /\ Len(MemberText(k, b, x)) = Len(Quoted(k)) + Len(b) + 1 + Len(b) + Len(x)
           /\ MemberText(k, b, x)[1] = "quote"
           /\ \A t, p : Len(t) \in Nat /\ p \in Nat \ {0} /\ Shown(MemberText(k, b, x), t, p) =>
                 MemberLaid(t, p, k, Len(Quoted(k)), Len(b), x)
<1>1. PICK u \in Seq(Alphabet), a \in Seq(Alphabet), c \in Seq(Alphabet) :
         u = Quoted(k) /\ a = b /\ c = <<":">>
  <2>1. ":" \in Alphabet
    BY Named
  <2>2. <<":">> \in Seq(Alphabet)
    BY <2>1, One
  <2>3. Quoted(k) \in Seq(Alphabet)
    BY Named, PlacesOfSymbols
  <2>4. QED BY <2>2, <2>3, BlanksType
<1>2. Len(c) = 1 /\ c[1] = ":"
  BY <1>1
<1>3. PICK n \in Nat, l \in Nat, w \in Nat : n = Len(u) /\ l = Len(a) /\ w = Len(x)
  OBVIOUS
<1>4. n >= 1 /\ u[1] = "quote"
  <2>1. PICK N \in Nat, M \in Nat : \E f \in [0 .. N -> Nat] : PlacesOf(k, N, M, f)
    BY Named, PlacesOfSymbols
  <2>2. n = M + 2 /\ u[1] = "quote"
    BY <1>1, <1>3, <2>1, Zenon DEF PlacesOf
  <2>3. QED BY <2>2
<1>5. \A j \in 1 .. l : a[j] = "sp"
  BY <1>1, <1>3, BlanksType
<1>6. PICK d \in Seq(Alphabet) : d = u \o a \o c
  BY Concat3
<1>7. /\ Len(d) = n + l + 1
      /\ \A j \in 1 .. n : d[j] = u[j]
      /\ \A j \in 1 .. l : d[n + j] = a[j]
      /\ \A j \in 1 .. 1 : d[n + l + j] = c[j]
  <2>1. Three(u \o a \o c, u, a, c)
    BY ThreeParts
  <2>2. QED BY <1>2, <1>3, <1>6, <2>1, Zenon DEF Three
<1>8. PICK y \in Seq(Alphabet) : y = d \o a \o x
  BY Concat3
<1>9. /\ Len(y) = n + l + 1 + l + w
      /\ \A j \in 1 .. n + l + 1 : y[j] = d[j]
      /\ \A j \in 1 .. l : y[n + l + 1 + j] = a[j]
      /\ \A j \in 1 .. w : y[n + l + 1 + l + j] = x[j]
  <2>1. Three(d \o a \o x, d, a, x)
    BY ThreeParts
  <2>2. QED BY <1>3, <1>7, <1>8, <2>1, Zenon DEF Three
<1>10. y = MemberText(k, b, x)
  BY <1>1, <1>6, <1>8, Zenon DEF MemberText
<1>11. y[1] = "quote"
  <2>1. 1 \in 1 .. n + l + 1 /\ 1 \in 1 .. n
    BY <1>4
  <2>2. QED BY <1>4, <1>7, <1>9, <2>1, Zenon
<1>12. \A j \in 1 .. n : y[0 + j] = u[j]
  <2> TAKE j \in 1 .. n
  <2>1. 0 + j = j /\ j \in 1 .. n + l + 1
    OBVIOUS
  <2>2. QED BY <1>7, <1>9, <2>1, Zenon
<1>13. \A j \in 1 .. l : y[n + j] = a[j]
  <2> TAKE j \in 1 .. l
  <2>1. n + j \in 1 .. n + l + 1
    OBVIOUS
  <2>2. QED BY <1>7, <1>9, <2>1, Zenon
<1>14. y[n + l + 1] = ":"
  <2>1. n + l + 1 \in 1 .. n + l + 1 /\ 1 \in 1 .. 1
    OBVIOUS
  <2>2. QED BY <1>2, <1>7, <1>9, <2>1, Zenon
<1>15. ASSUME NEW t, Len(t) \in Nat, NEW p \in Nat \ {0}, Shown(y, t, p)
       PROVE  MemberLaid(t, p, k, n, l, x)
  <2>1. Len(y) = n + l + 1 + l + w /\ Len(y) \in Nat
    BY <1>9
  <2>2. Shown(u, t, p + 0)
    <3>1. PICK h \in Nat : h = 0
      OBVIOUS
    <3>2. h + n <= n + l + 1 + l + w
      BY <3>1
    <3>3. h + Len(u) <= Len(y) /\ \A j \in 1 .. Len(u) : y[h + j] = u[j]
      BY <1>3, <1>12, <2>1, <3>1, <3>2, Zenon
    <3>4. Len(u) \in Nat
      OBVIOUS
    <3>5. Shown(u, t, p + h)
      BY <1>15, <2>1, <3>3, <3>4, ShownPart, Zenon
    <3>6. QED BY <3>1, <3>5
  <2>3. Shown(a, t, p + n)
    <3>1. n + l <= n + l + 1 + l + w
      OBVIOUS
    <3>2. n + Len(a) <= Len(y) /\ \A j \in 1 .. Len(a) : y[n + j] = a[j]
      BY <1>3, <1>13, <2>1, <3>1, Zenon
    <3>3. Len(a) \in Nat
      OBVIOUS
    <3>4. QED BY <1>15, <2>1, <3>2, <3>3, ShownPart, Zenon
  <2>4. Shown(a, t, p + (n + l + 1))
    <3>1. PICK h \in Nat : h = n + l + 1
      OBVIOUS
    <3>2. h + l <= n + l + 1 + l + w
      BY <3>1
    <3>3. h + Len(a) <= Len(y) /\ \A j \in 1 .. Len(a) : y[h + j] = a[j]
      BY <1>3, <1>9, <2>1, <3>1, <3>2, Zenon
    <3>4. Len(a) \in Nat
      OBVIOUS
    <3>5. Shown(a, t, p + h)
      BY <1>15, <2>1, <3>3, <3>4, ShownPart, Zenon
    <3>6. QED BY <3>1, <3>5
  <2>5. Shown(x, t, p + (n + l + 1 + l))
    <3>1. PICK h \in Nat : h = n + l + 1 + l
      OBVIOUS
    <3>2. h + w <= n + l + 1 + l + w
      BY <3>1
    <3>3. h + Len(x) <= Len(y) /\ \A j \in 1 .. Len(x) : y[h + j] = x[j]
      BY <1>3, <1>9, <2>1, <3>1, <3>2, Zenon
    <3>4. Len(x) \in Nat
      OBVIOUS
    <3>5. Shown(x, t, p + h)
      BY <1>15, <2>1, <3>3, <3>4, ShownPart, Zenon
    <3>6. QED BY <3>1, <3>5
  <2>6. Spaces(t, p + n, p + n + l)
    <3>1. p + n \in Nat \ {0} /\ Len(a) \in Nat
      OBVIOUS
    <3>2. Spaces(t, p + n, p + n + Len(a))
      BY <1>3, <1>5, <1>15, <2>3, <3>1, ShownBlanks
    <3>3. QED BY <1>3, <3>2
  <2>7. Spaces(t, p + n + l + 1, p + n + l + 1 + l)
    <3>1. PICK g \in Nat \ {0} : g = p + n + l + 1 /\ g = p + (n + l + 1) /\ Len(a) \in Nat
      OBVIOUS
    <3>2. Spaces(t, g, g + Len(a))
      BY <1>3, <1>5, <1>15, <2>4, <3>1, ShownBlanks
    <3>3. QED BY <1>3, <3>1, <3>2
  <2>8. p + n + l <= Len(t) => t[p + n + l] = ":"
    <3>1. PICK i \in 1 .. Len(y) : i = n + l + 1
      BY <2>1
    <3>2. p - 1 + i = p + n + l
      BY <3>1
    <3>3. y[i] = ":"
      BY <1>14, <3>1
    <3>4. QED BY <1>15, <3>2, <3>3 DEF Shown
  <2>9. p + 0 = p /\ p + (n + l + 1 + l) = p + n + l + 1 + l
    OBVIOUS
  <2>10. Shown(u, t, p) /\ Shown(x, t, p + n + l + 1 + l)
    BY <2>2, <2>5, <2>9
  <2>11. QED BY <1>1, <2>6, <2>7, <2>8, <2>10, Zenon DEF MemberLaid
<1>16. QED BY <1>1, <1>3, <1>9, <1>10, <1>11, <1>15, Zenon

\* It is read as its key and its value, or the text ends within it.
LEMMA MemberReads ==
    ASSUME NEW t \in Seq(Alphabet), NEW m \in 0 .. Len(t), NEW b \in Blanks,
           NEW k \in Seq(Alphabet), NEW x, Worded(x), NEW v, Reads(t, m, x, v)
    PROVE  /\ Begun(MemberText(k, b, x), "object")
           /\ EntryReads(t, "object", Levels(t)[m], m, MemberText(k, b, x), <<k, v>>)
<1>1. x \in Seq(Alphabet) /\ Len(x) >= 1
  BY DEF Worded
<1>2. PICK y \in Seq(Alphabet) : y = MemberText(k, b, x) /\ y[1] = "quote"
  BY <1>1, MemberSymbols
<1>3. PICK L \in Nat, n \in Nat, l \in Nat, w \in Nat :
         L = Len(t) /\ n = Len(Quoted(k)) /\ l = Len(b) /\ w = Len(x)
  <2>1. Quoted(k) \in Seq(Alphabet)
    BY Named, PlacesOfSymbols
  <2>2. QED BY <1>1, <2>1, BlanksType
<1>4. Len(y) = n + l + 1 + l + w
  BY <1>1, <1>2, <1>3, MemberSymbols, Zenon
<1>5. w >= 1 /\ m \in 0 .. L
  BY <1>1, <1>3
<1>6. n >= 2
  <2>1. PICK N \in Nat, M \in Nat : \E f \in [0 .. N -> Nat] : PlacesOf(k, N, M, f)
    BY Named, PlacesOfSymbols
  <2>2. n = M + 2
    BY <1>3, <2>1, Zenon DEF PlacesOf
  <2>3. QED BY <2>2
<1>7. Begun(y, "object")
  <2>1. Len(y) >= 1 /\ "quote" \notin {"sp", "nl", Close("object")}
    BY <1>4, <1>6 DEF Close
  <2>2. QED BY <1>2, <2>1 DEF Begun
<1>8. ASSUME NEW p \in 1 .. L + 1, NEW q \in 1 .. p, L + 1 - p <= m, Blank(t, q, p), Shown(y, t, p)
      PROVE  LET e == Entry(t, "object", Levels(t)[m], q) IN
             /\ p - 1 + Len(y) <= L /\ At(t, p + Len(y)) \notin {"-"} \cup Digit =>
                   e = [value |-> <<k, v>>, at |-> p + Len(y)]
             /\ L < p - 1 + Len(y) => e = Fail \/ e.at = L + 1
  <2>1. MemberLaid(t, p, k, n, l, x)
    <3>1. Len(t) \in Nat /\ p \in Nat \ {0}
      BY <1>3
    <3>2. QED BY <1>1, <1>2, <1>3, <1>8, <3>1, MemberSymbols, Zenon
  <2>2. PICK c \in Nat, a \in Nat : c = p + n + l /\ a = c + 1 + l
    OBVIOUS
  <2>3. /\ Shown(Quoted(k), t, p)
        /\ Spaces(t, p + n, c)
        /\ c <= L => t[c] = ":"
        /\ Spaces(t, c + 1, a)
        /\ Shown(x, t, a)
    BY <1>3, <2>1, <2>2, Zenon DEF MemberLaid
  <2>4. PICK key : key = ParseRawString(t, q)
    OBVIOUS
  <2>5. key = ParseRawString(t, p)
    <3>1. p <= L => t[p] = "quote"
      <4>1. 1 \in 1 .. Len(y) /\ p - 1 + 1 = p
        BY <1>4, <1>6
      <4>2. QED BY <1>2, <1>3, <1>8, <4>1 DEF Shown
    <3>2. NoBlank(t, p)
      BY <1>3, <3>1 DEF NoBlank
    <3>3. Len(t) \in Nat /\ p \in 1 .. Len(t) + 1
      BY <1>3
    <3>4. QED BY <1>8, <2>4, <3>2, <3>3, StringAfterBlanks
  <2>6. ASSUME p - 1 + n <= L PROVE key = [value |-> Str(k), at |-> p + n]
    <3>1. Stands(Quoted(k), t, p)
      <4>1. \A i \in 1 .. n : p - 1 + i <= L
        BY <2>6
      <4>2. QED BY <1>3, <2>3, <2>6, <4>1, Zenon DEF Shown, Stands
    <3>2. p \in Nat \ {0}
      OBVIOUS
    <3>3. QED BY <1>3, <2>5, <3>1, <3>2, Named, StringReadsBack
  <2>7. ASSUME L < p - 1 + n PROVE key = Fail
    <3>1. p \in 1 .. Len(t) + 1 /\ Len(t) < p - 1 + Len(Quoted(k))
      BY <1>3, <2>7
    <3>2. QED BY <2>3, <2>5, <3>1, Named, StringPartMalformed
  <2>8. PICK e : e = Entry(t, "object", Levels(t)[m], q)
    OBVIOUS
  <2>9. CASE L < p - 1 + n
    <3>1. e = Fail
      BY <2>4, <2>7, <2>8, <2>9, Zenon DEF Entry, Member
    <3>2. ~(p - 1 + Len(y) <= L)
      BY <1>4, <2>9
    <3>3. QED BY <2>8, <3>1, <3>2, Zenon
  <2>10. CASE p - 1 + n <= L /\ c > L
    <3>1. key.at = p + n
      BY <2>6, <2>10
    <3>2. SkipWhitespace(t, p + n) = L + 1
      <4>1. p + n \in 1 .. L + 1 /\ L + 1 \in 1 .. Len(t) + 1
        BY <1>3, <2>10
      <4>2. Blank(t, p + n, L + 1)
        BY <1>3, <2>3, <2>10 DEF Blank, Spaces
      <4>3. NoBlank(t, L + 1) /\ Len(t) \in Nat
        BY <1>3 DEF NoBlank
      <4>4. QED BY <4>1, <4>2, <4>3, SkipEnds
    <3>3. At(t, L + 1) # ":"
      BY <1>3 DEF At
    <3>4. e = Fail
      BY <2>4, <2>8, <3>1, <3>2, <3>3, Zenon DEF Entry, Member
    <3>5. ~(p - 1 + Len(y) <= L)
      BY <1>4, <2>2, <2>10
    <3>6. QED BY <2>8, <3>4, <3>5, Zenon
  <2>11. CASE p - 1 + n <= L /\ c <= L
    <3>1. key.at = p + n /\ key.value = <<"string", k>> /\ key # Fail
      BY <2>6, <2>11 DEF Fail, Str
    <3>2. SkipWhitespace(t, p + n) = c /\ At(t, c) = ":"
      <4>1. p + n \in 1 .. c /\ c \in 1 .. Len(t) + 1 /\ Len(t) \in Nat
        BY <1>3, <1>6, <2>2, <2>11
      <4>2. Blank(t, p + n, c)
        BY <1>3, <2>3, <2>11, <4>1 DEF Blank, Spaces
      <4>3. NoBlank(t, c) /\ At(t, c) = ":"
        BY <1>3, <2>3, <2>11 DEF NoBlank, At
      <4>4. QED BY <4>1, <4>2, <4>3, SkipEnds
    <3>3. PICK val : val = Levels(t)[m][c + 1]
      OBVIOUS
    <3>4. e = IF val = Fail THEN Fail ELSE [value |-> <<k, val.value>>, at |-> val.at]
      <4>1. key.value[2] = k
        BY <3>1
      <4>2. e = IF key = Fail \/ At(t, c) # ":" \/ val = Fail THEN Fail
                ELSE [value |-> <<key.value[2], val.value>>, at |-> val.at]
        BY <2>4, <2>8, <3>1, <3>2, <3>3, Zenon DEF Entry, Member
      <4>3. QED BY <3>1, <3>2, <4>1, <4>2, Zenon
    <3>5. PICK d \in 1 .. L + 1 : d = IF a <= L THEN a ELSE L + 1
      BY <1>6, <2>2, <2>11
    <3>6. c + 1 \in 1 .. d /\ L + 1 - d <= m /\ d <= a
      BY <1>5, <1>6, <1>8, <2>2, <2>11, <3>5
    <3>7. Blank(t, c + 1, d)
      BY <1>3, <2>3, <3>5, <3>6 DEF Blank, Spaces
    <3>8. Shown(x, t, d)
      BY <1>1, <1>3, <2>3, <3>5 DEF Shown
    <3>9. Whole(t, x, v, d, val) /\ Part(t, x, v, d, val)
      BY <1>3, <3>3, <3>6, <3>7, <3>8 DEF Reads
    <3>10. ASSUME p - 1 + Len(y) <= L, At(t, p + Len(y)) \notin {"-"} \cup Digit
           PROVE  e = [value |-> <<k, v>>, at |-> p + Len(y)]
      <4>1. d = a /\ d - 1 + w <= L /\ d + w = p + Len(y)
        <5>1. p - 1 + (n + l + 1 + l + w) <= L
          BY <1>4, <3>10
        <5>2. d = a /\ a = p + n + l + 1 + l
          BY <1>5, <2>2, <3>5, <5>1
        <5>3. QED BY <1>4, <5>1, <5>2
      <4>2. val = [value |-> v, at |-> p + Len(y)]
        BY <1>3, <3>9, <3>10, <4>1, Zenon DEF Whole
      <4>3. p + Len(y) # 0 /\ val.value = v /\ val.at = p + Len(y)
        BY <4>2
      <4>4. val # Fail
        <5>1. Fail.at = 0
          BY DEF Fail
        <5>2. QED BY <4>3, <5>1
      <4>5. QED BY <3>4, <4>3, <4>4, Zenon
    <3>11. ASSUME L < p - 1 + Len(y) PROVE e = Fail \/ e.at = L + 1
      <4>1. L < d - 1 + w
        <5>1. L < p - 1 + (n + l + 1 + l + w)
          BY <1>4, <3>11
        <5>2. QED BY <1>5, <2>2, <3>5, <5>1
      <4>2. val = Fail \/ val.at = L + 1
        BY <1>3, <3>9, <4>1, Zenon DEF Part
      <4>3. CASE val = Fail
        BY <3>4, <4>3
      <4>4. CASE val # Fail /\ val.at = L + 1
        <5>1. PICK z : z = val.at /\ z = L + 1
          BY <4>4
        <5>2. e = [value |-> <<k, val.value>>, at |-> z]
          BY <3>4, <4>4, <5>1, Zenon
        <5>3. QED BY <5>1, <5>2
      <4>5. QED BY <4>2, <4>3, <4>4
    <3>12. QED BY <2>8, <3>10, <3>11, Zenon
  <2>12. QED BY <2>9, <2>10, <2>11
<1>9. EntryReads(t, "object", Levels(t)[m], m, y, <<k, v>>)
  BY <1>3, <1>8, Zenon DEF EntryReads
<1>10. QED BY <1>2, <1>7, <1>9

-----------------------------------------------------------------------------
(* Arrays and objects.                                                      *)

\* At the end of the text there is no entry.
LEMMA EntryAtEnd ==
    ASSUME NEW t \in Seq(Alphabet), NEW kind \in Kinds, NEW m \in 0 .. Len(t)
    PROVE  Entry(t, kind, Levels(t)[m], Len(t) + 1) = Fail
<1>1. PICK L \in Nat : L = Len(t)
  OBVIOUS
<1>2. Blank(t, L + 1, L + 1) /\ NoBlank(t, L + 1) /\ L + 1 \in 1 .. L + 1
  BY <1>1 DEF Blank, NoBlank
<1>3. Levels(t)[m][L + 1] = Fail
  <2>1. Len(t) \in Nat /\ L + 1 \in 1 .. Len(t) + 1 /\ Blank(t, L + 1, Len(t) + 1)
    BY <1>1, <1>2
  <2>2. QED BY <1>1, <2>1, AtEnd
<1>4. ParseRawString(t, L + 1) = Fail
  <2>1. SkipWhitespace(t, L + 1) = L + 1
    BY <1>1, <1>2, SkipEnds
  <2>2. At(t, L + 1) = "end"
    BY <1>1 DEF At
  <2>3. QED BY <2>1, <2>2 DEF ParseRawString
<1>5. CASE kind = "array"
  BY <1>1, <1>3, <1>5 DEF Entry, Member
<1>6. CASE kind # "array"
  BY <1>1, <1>4, <1>6, Zenon DEF Entry, Member
<1>7. QED BY <1>5, <1>6

\* The beginnings of a sequence.
Grown(out, es, i) ==
    /\ Len(out[i - 1]) = i - 1 /\ \A j \in 1 .. i - 1 : out[i - 1][j] = es[j]
    /\ out[i] = Append(out[i - 1], es[i])

LEMMA Beginnings ==
    ASSUME NEW S, NEW es \in Seq(S)
    PROVE  \E out : /\ out[0] = <<>> /\ out[Len(es)] = es
                    /\ \A i \in 1 .. Len(es) : Grown(out, es, i)
<1>1. PICK n \in Nat : n = Len(es)
  OBVIOUS
<1>2. PICK out : out = [i \in 0 .. n |-> SubSeq(es, 1, i)]
  OBVIOUS
<1>3. \A i \in 0 .. n : /\ out[i] \in Seq(S) /\ Len(out[i]) = i
                        /\ \A j \in 1 .. i : out[i][j] = es[j]
  <2> TAKE i \in 0 .. n
  <2>1. PICK y : y = SubSeq(es, 1, i)
    OBVIOUS
  <2>2. y \in Seq(S) /\ Len(y) = i /\ \A j \in 1 .. i : y[j] = es[j]
    BY <1>1, <2>1
  <2>3. out[i] = y
    BY <1>2, <2>1
  <2>4. QED BY <2>2, <2>3
<1>4. out[0] = <<>>
  <2>1. out[0] \in Seq(S) /\ Len(out[0]) = 0
    BY <1>3
  <2>2. QED BY <2>1
<1>5. out[n] = es
  <2>1. out[n] \in Seq(S) /\ Len(out[n]) = n /\ \A j \in 1 .. n : out[n][j] = es[j]
    BY <1>3
  <2>2. QED BY <1>1, <2>1, SeqEqual
<1>6. \A i \in 1 .. n : Grown(out, es, i)
  <2> TAKE i \in 1 .. n
  <2>1. PICK k \in 0 .. n : k = i - 1
    OBVIOUS
  <2>2. out[k] \in Seq(S) /\ Len(out[k]) = k /\ \A j \in 1 .. k : out[k][j] = es[j]
    BY <1>3
  <2>3. es[i] \in S
    BY <1>1
  <2>4. PICK d \in Seq(S) : d = out[k]
    BY <2>2
  <2>5. PICK a \in Seq(S) : a = Append(d, es[i])
    BY <2>3, AppendProperties
  <2>6. Len(a) = i /\ \A j \in 1 .. i : a[j] = es[j]
    <3>1. Len(a) = Len(d) + 1 /\ (\A j \in 1 .. Len(d) : a[j] = d[j]) /\ a[Len(d) + 1] = es[i]
      BY <2>3, <2>5, AppendProperties
    <3>2. Len(d) = k /\ i = k + 1
      BY <2>1, <2>2, <2>4
    <3>3. \A j \in 1 .. k : a[j] = es[j]
      BY <2>2, <2>4, <3>1, <3>2
    <3>4. Len(a) = i /\ a[i] = es[i]
      BY <3>1, <3>2
    <3>5. \A j \in 1 .. i : j \in 1 .. k \/ j = i
      BY <3>2
    <3>6. QED BY <3>3, <3>4, <3>5
  <2>7. out[i] \in Seq(S) /\ Len(out[i]) = i /\ \A j \in 1 .. i : out[i][j] = es[j]
    BY <1>3
  <2>8. out[i] = a
    BY <2>6, <2>7, SeqEqual
  <2>9. QED BY <2>1, <2>2, <2>4, <2>8, <2>5 DEF Grown
<1>7. QED BY <1>1, <1>4, <1>5, <1>6

Open(kind) == IF kind = "array" THEN "[" ELSE "{"

\* A list whose entries are read is read.
LEMMA ListBack ==
    ASSUME NEW t \in Seq(Alphabet), NEW m \in 0 .. Len(t), NEW b \in Blanks, NEW kind \in Kinds,
           NEW ts, Len(ts) \in Nat, NEW es, NEW out,
           \A k \in 0 .. Len(t) : Entries(t, kind, Levels(t)[k], k, ts, es, out)
    PROVE  LET x == Bracketed(Open(kind), ts, b, Close(kind)) IN
           Worded(x) /\ Reads(t, m, x, <<kind, out[Len(ts)]>>)
<1>1. PICK x : x = Bracketed(Open(kind), ts, b, Close(kind))
  OBVIOUS
<1>2. Open(kind) \in Alphabet /\ Close(kind) \in Alphabet /\ Open(kind) \in Firsts
  BY Named DEF Open, Close, Firsts
<1>3. Worded(x) /\ x[1] = Open(kind)
  <2>1. \A i \in 1 .. Len(ts) : ts[i] \in Seq(Alphabet)
    <3>1. 0 \in 0 .. Len(t)
      OBVIOUS
    <3>2. Entries(t, kind, Levels(t)[0], 0, ts, es, out)
      BY <3>1
    <3>3. QED BY <3>2, Zenon DEF Entries, Begun
  <2>2. Layout(x, Listed(ts, b)[Len(ts)], b, Open(kind), Close(kind))
    BY <1>1, <1>2, <2>1, BracketedSymbols
  <2>3. Listed(ts, b)[Len(ts)] \in Seq(Alphabet)
    BY <2>1, ListedGrows
  <2>4. PICK M \in Nat, l \in Nat : M = Len(Listed(ts, b)[Len(ts)]) /\ l = Len(b)
    BY <2>3, BlanksType
  <2>5. x \in Seq(Alphabet) /\ Len(x) = 1 + M + l + 1 /\ x[1] = Open(kind)
    BY <2>2, <2>4, Zenon DEF Layout
  <2>6. Len(x) >= 1
    BY <2>5
  <2>7. QED BY <1>2, <2>5, <2>6 DEF Worded
<1>4. x[1] = Open(kind)
  BY <1>3
<1>5. ASSUME NEW p \in 1 .. Len(t), m >= 1, Len(t) + 1 - p <= m, Shown(x, t, p)
      PROVE  /\ Whole(t, x, <<kind, out[Len(ts)]>>, p, Branch(t, m, p, x[1]))
             /\ Part(t, x, <<kind, out[Len(ts)]>>, p, Branch(t, m, p, x[1]))
  <2>1. PICK k \in 0 .. Len(t) : k = m - 1
    BY <1>5
  <2>2. PICK parse : parse = Levels(t)[k]
    OBVIOUS
  <2>3. Branch(t, m, p, x[1]) = ParseList(t, kind, parse, p + 1)
    <3>1. Branch(t, m, p, Open(kind)) = ParseList(t, kind, Levels(t)[m - 1], p + 1)
      BY DEF Branch, Open, Kinds
    <3>2. QED BY <1>4, <2>1, <2>2, <3>1, Zenon
  <2>4. ListRead(t, kind, parse, x, out[Len(ts)], p)
    <3>1. Entries(t, kind, parse, k, ts, es, out)
      BY <2>2, Zenon
    <3>2. Entry(t, kind, parse, Len(t) + 1) = Fail
      BY <2>2, EntryAtEnd
    <3>3. Len(t) - p <= k /\ k \in Nat /\ Len(t) \in Nat
      BY <1>5, <2>1
    <3>4. Shown(Bracketed(Open(kind), ts, b, Close(kind)), t, p)
      BY <1>1, <1>5
    <3>5. QED BY <1>1, <1>2, <3>1, <3>2, <3>3, <3>4, ListReads
  <2>5. QED BY <2>3, <2>4, Zenon DEF ListRead, Whole, Part
<1>6. Len(t) \in Nat
  OBVIOUS
<1>7. Reads(t, m, x, <<kind, out[Len(ts)]>>)
  BY <1>3, <1>5, <1>6, ReadsByBranch
<1>8. QED BY <1>1, <1>3, <1>7, Zenon

\* The text x is read back as v, at any depth that leaves room for it.
Back(t, x, v) == Worded(x) /\ \A m \in 0 .. Len(t) : Reads(t, m, x, v)

\* An item of an array.
LEMMA ItemBack ==
    ASSUME NEW t \in Seq(Alphabet), NEW x, NEW e, Back(t, x, e), NEW k \in 0 .. Len(t)
    PROVE  Begun(x, "array") /\ EntryReads(t, "array", Levels(t)[k], k, x, e)
<1>1. Worded(x) /\ Reads(t, k, x, e)
  BY DEF Back
<1>2. Begun(x, "array")
  BY <1>1 DEF Worded, Begun, Close, Firsts
<1>3. ASSUME NEW p \in 1 .. Len(t) + 1, NEW q \in 1 .. p,
             Len(t) + 1 - p <= k, Blank(t, q, p), Shown(x, t, p)
      PROVE  /\ p - 1 + Len(x) <= Len(t) /\ At(t, p + Len(x)) \notin {"-"} \cup Digit =>
                   Entry(t, "array", Levels(t)[k], q) = [value |-> e, at |-> p + Len(x)]
             /\ Len(t) < p - 1 + Len(x) =>
                   \/ Entry(t, "array", Levels(t)[k], q) = Fail
                   \/ Entry(t, "array", Levels(t)[k], q).at = Len(t) + 1
  <2>1. Whole(t, x, e, p, Levels(t)[k][q]) /\ Part(t, x, e, p, Levels(t)[k][q])
    BY <1>1, <1>3, Zenon DEF Reads
  <2>2. Entry(t, "array", Levels(t)[k], q) = Levels(t)[k][q]
    BY DEF Entry, Member
  <2>3. QED BY <2>1, <2>2, Zenon DEF Whole, Part
<1>4. EntryReads(t, "array", Levels(t)[k], k, x, e)
  BY <1>3, Zenon DEF EntryReads
<1>5. QED BY <1>2, <1>4

\* An array whose items are read back is read back.
LEMMA ArrayBack ==
    ASSUME NEW t \in Seq(Alphabet), NEW b \in Blanks, NEW V, NEW text,
           \A e \in V : Back(t, text[e], e), NEW es \in Seq(V)
    PROVE  Back(t, TextOf(Array(es), text, b), Array(es))
<1>1. PICK n \in Nat : n = Len(es)
  OBVIOUS
<1>2. PICK ts : ts = [i \in 1 .. n |-> text[es[i]]]
  OBVIOUS
<1>3. Len(ts) = n
  BY <1>2
<1>4. \A i \in 1 .. n : es[i] \in V /\ ts[i] = text[es[i]]
  BY <1>1, <1>2
<1>5. PICK out : out[0] = <<>> /\ out[Len(es)] = es /\ \A i \in 1 .. Len(es) : Grown(out, es, i)
  BY Beginnings
<1>6. out[0] = <<>> /\ out[n] = es /\ \A i \in 1 .. n : out[i] = Append(out[i - 1], es[i])
  BY <1>1, <1>5, Zenon DEF Grown
<1>7. ASSUME NEW k \in 0 .. Len(t)
      PROVE  Entries(t, "array", Levels(t)[k], k, ts, es, out)
  <2>1. ASSUME NEW i \in 1 .. n
        PROVE  Begun(ts[i], "array") /\ EntryReads(t, "array", Levels(t)[k], k, ts[i], es[i])
    <3>1. Back(t, ts[i], es[i])
      BY <1>4
    <3>2. QED BY <3>1, ItemBack
  <2>2. \A i \in 1 .. n : out[i] = Added("array", out[i - 1], es[i])
    BY <1>6, Zenon DEF Added
  <2>3. QED BY <1>3, <1>6, <2>1, <2>2, Zenon DEF Entries
<1>8. TextOf(Array(es), text, b) = Bracketed("[", ts, b, "]")
  <2>1. EntryTexts(Array(es), text, b) = [i \in DOMAIN es |-> text[es[i]]]
    BY DEF EntryTexts, Array, Type
  <2>2. DOMAIN es = 1 .. n
    BY <1>1
  <2>3. EntryTexts(Array(es), text, b) = ts
    BY <1>2, <2>1, <2>2, Zenon
  <2>4. TextOf(Array(es), text, b) = Bracketed("[", EntryTexts(Array(es), text, b), b, "]")
    BY DEF TextOf, Array, Type
  <2>5. QED BY <2>3, <2>4
<1>9. "array" \in Kinds /\ Open("array") = "[" /\ Close("array") = "]"
  BY DEF Kinds, Open, Close
<1>10. ASSUME NEW m \in 0 .. Len(t)
       PROVE  LET x == Bracketed("[", ts, b, "]") IN Worded(x) /\ Reads(t, m, x, <<"array", es>>)
  <2>1. Len(ts) \in Nat
    BY <1>3
  <2>2. LET x == Bracketed(Open("array"), ts, b, Close("array")) IN
        Worded(x) /\ Reads(t, m, x, <<"array", out[Len(ts)]>>)
    <3> HIDE <1>9
    <3>1. "array" \in Kinds
      BY DEF Kinds
    <3>2. QED BY <1>7, <2>1, <3>1, ListBack
  <2>3. QED BY <1>3, <1>6, <1>9, <2>2, Zenon
<1>11. Back(t, Bracketed("[", ts, b, "]"), <<"array", es>>)
  <2>1. 0 \in 0 .. Len(t)
    OBVIOUS
  <2>2. QED BY <1>10, <2>1, Zenon DEF Back
<1>12. QED BY <1>8, <1>11 DEF Array

\* So is an object: set() finds none of its keys twice.
LEMMA ObjectBack ==
    ASSUME NEW t \in Seq(Alphabet), NEW b \in Blanks, NEW V, NEW text,
           \A e \in V : Back(t, text[e], e), NEW es \in Members(Seq(Alphabet), V)
    PROVE  Back(t, TextOf(Object(es), text, b), Object(es))
<1>1. PICK n \in Nat : n = Len(es)
  BY DEF Members
<1>2. PICK ts : ts = [i \in 1 .. n |-> MemberText(es[i][1], b, text[es[i][2]])]
  OBVIOUS
<1>3. Len(ts) = n
  BY <1>2
<1>4. es \in Seq(Seq(Alphabet) \X V) /\ DOMAIN es = 1 .. n
  BY <1>1 DEF Members
<1>5. \A i, j \in 1 .. n : es[i][1] = es[j][1] => i = j
  BY <1>4, Zenon DEF Members
<1>6. ASSUME NEW i \in 1 .. n
      PROVE  /\ es[i][1] \in Seq(Alphabet) /\ es[i][2] \in V /\ es[i] = <<es[i][1], es[i][2]>>
             /\ ts[i] = MemberText(es[i][1], b, text[es[i][2]])
  <2>1. es[i] \in Seq(Alphabet) \X V
    BY <1>1, <1>4
  <2>2. ts[i] = MemberText(es[i][1], b, text[es[i][2]])
    BY <1>2
  <2>3. QED BY <2>1, <2>2
<1>7. PICK out : out[0] = <<>> /\ out[Len(es)] = es /\ \A i \in 1 .. Len(es) : Grown(out, es, i)
  BY <1>4, Beginnings
<1>8. out[0] = <<>> /\ out[n] = es /\ \A i \in 1 .. n : Grown(out, es, i)
  BY <1>1, <1>7, Zenon
<1>9. ASSUME NEW i \in 1 .. n PROVE out[i] = Added("object", out[i - 1], es[i])
  <2>1. PICK o, e : o = out[i - 1] /\ e = es[i]
    OBVIOUS
  <2>2. Len(o) = i - 1 /\ (\A j \in 1 .. i - 1 : o[j] = es[j]) /\ out[i] = Append(o, e)
    BY <1>8, <2>1, Zenon DEF Grown
  <2>3. DOMAIN o = 1 .. i - 1
    BY <1>4, <1>8, <2>1, <2>2
  <2>4. ~\E j \in DOMAIN o : o[j][1] = e[1]
    <3> SUFFICES ASSUME NEW j \in 1 .. i - 1, o[j][1] = e[1] PROVE FALSE
      BY <2>3
    <3>1. j \in 1 .. n /\ j # i
      OBVIOUS
    <3>2. o[j] = es[j]
      BY <2>2
    <3>3. QED BY <1>5, <2>1, <3>1, <3>2
  <2>5. e = <<e[1], e[2]>>
    BY <1>6, <2>1
  <2>6. Set(o, e[1], e[2]) = Append(o, e)
    BY <2>4, <2>5 DEF Set
  <2>7. QED BY <2>1, <2>2, <2>6 DEF Added
<1>10. ASSUME NEW k \in 0 .. Len(t)
       PROVE  Entries(t, "object", Levels(t)[k], k, ts, es, out)
  <2>1. ASSUME NEW i \in 1 .. n
        PROVE  Begun(ts[i], "object") /\ EntryReads(t, "object", Levels(t)[k], k, ts[i], es[i])
    <3>1. PICK y, v, x : y = es[i][1] /\ v = es[i][2] /\ x = text[v]
      OBVIOUS
    <3>2. y \in Seq(Alphabet) /\ v \in V /\ es[i] = <<y, v>> /\ ts[i] = MemberText(y, b, x)
      BY <1>6, <3>1
    <3>3. Back(t, x, v)
      BY <3>1, <3>2
    <3>4. Worded(x) /\ Reads(t, k, x, v)
      BY <3>3 DEF Back
    <3>5. Begun(MemberText(y, b, x), "object")
          /\ EntryReads(t, "object", Levels(t)[k], k, MemberText(y, b, x), <<y, v>>)
      BY <3>2, <3>4, MemberReads
    <3>6. QED BY <3>2, <3>5, Zenon
  <2>2. QED BY <1>3, <1>8, <1>9, <2>1, Zenon DEF Entries
<1>11. TextOf(Object(es), text, b) = Bracketed("{", ts, b, "}")
  <2>1. EntryTexts(Object(es), text, b)
          = [i \in DOMAIN es |-> MemberText(es[i][1], b, text[es[i][2]])]
    BY DEF EntryTexts, Object, Type, MemberText
  <2>2. EntryTexts(Object(es), text, b) = ts
    BY <1>2, <1>4, <2>1, Zenon
  <2>3. TextOf(Object(es), text, b) = Bracketed("{", EntryTexts(Object(es), text, b), b, "}")
    BY DEF TextOf, Object, Type
  <2>4. QED BY <2>2, <2>3
<1>12. ASSUME NEW m \in 0 .. Len(t)
       PROVE  LET x == Bracketed("{", ts, b, "}") IN Worded(x) /\ Reads(t, m, x, <<"object", es>>)
  <2>1. Len(ts) \in Nat /\ "object" \in Kinds
    BY <1>3 DEF Kinds
  <2>2. LET x == Bracketed(Open("object"), ts, b, Close("object")) IN
        Worded(x) /\ Reads(t, m, x, <<"object", out[Len(ts)]>>)
    BY <1>10, <2>1, ListBack
  <2>3. Open("object") = "{" /\ Close("object") = "}"
    BY DEF Open, Close
  <2>4. QED BY <1>3, <1>8, <2>2, <2>3, Zenon
<1>13. Back(t, Bracketed("{", ts, b, "}"), <<"object", es>>)
  <2>1. 0 \in 0 .. Len(t)
    OBVIOUS
  <2>2. QED BY <1>12, <2>1, Zenon DEF Back
<1>14. QED BY <1>11, <1>13 DEF Object

\* A number that is printed as it is.
LEMMA NumberText ==
    ASSUME NEW x \in Exact
    PROVE  /\ x \in Numerals /\ Stod(x) = x /\ Digits(x) <= MaxDigits
           /\ \A text, b : TextOf(<<"number", x>>, text, b) = x
<1>1. x \in Numerals /\ Stod(x) = x /\ Digits(x) <= LongLong
  BY Zenon DEF Exact
<1>2. Digits(x) \in Int
  BY <1>1 DEF Digits, Numerals
<1>3. Digits(x) <= MaxDigits
  BY <1>1, <1>2, NumberAssumption
<1>4. DumpNumber(x) = x
  BY <1>1 DEF DumpNumber
<1>5. QED BY <1>1, <1>3, <1>4 DEF TextOf, Type

\* Other values.
LEMMA LeafBack ==
    ASSUME NEW t \in Seq(Alphabet), NEW b, NEW text, NEW v \in Leaves
    PROVE  Back(t, TextOf(v, text, b), v)
<1>1. v = False \/ v \in {"number"} \X Exact \/ v \in {"string"} \X Seq(Alphabet)
  BY Zenon DEF Leaves
<1>2. Len(t) \in Nat
  OBVIOUS
<1>3. CASE v = False
  <2>1. PICK x : x = <<"false">>
    OBVIOUS
  <2>2. TextOf(v, text, b) = x
    BY <1>3, <2>1 DEF TextOf, False, Type
  <2>3. Back(t, x, False)
    BY <1>2, <2>1, BoolReads DEF Back
  <2>4. QED BY <1>3, <2>2, <2>3, Zenon
<1>4. CASE v \in {"number"} \X Exact
  <2>1. PICK x \in Exact : v = <<"number", x>>
    BY <1>4
  <2>2. TextOf(v, text, b) = x
    BY <2>1, NumberText
  <2>3. \A m \in 0 .. Len(t) : Worded(x) /\ Reads(t, m, x, Number(x))
    <3>1. x \in Numerals /\ Stod(x) = x /\ Digits(x) <= MaxDigits
      BY NumberText
    <3>2. \A m \in 0 .. Len(t) : Worded(x) /\ Reads(t, m, x, Number(Stod(x)))
      BY <3>1, NumberReads
    <3>3. QED BY <3>1, <3>2
  <2>4. 0 \in 0 .. Len(t)
    OBVIOUS
  <2>5. QED BY <2>1, <2>2, <2>3, <2>4, Zenon DEF Back, Number
<1>5. CASE v \in {"string"} \X Seq(Alphabet)
  <2>1. PICK s \in Seq(Alphabet) : v = <<"string", s>>
    BY <1>5
  <2>2. PICK x : x = Quoted(s)
    OBVIOUS
  <2>3. TextOf(v, text, b) = x
    BY <2>1, <2>2 DEF TextOf, Type
  <2>4. \A m \in 0 .. Len(t) : Worded(x) /\ Reads(t, m, x, Str(s))
    BY <2>2, StringReads
  <2>5. 0 \in 0 .. Len(t)
    OBVIOUS
  <2>6. QED BY <2>1, <2>3, <2>4, <2>5, Zenon DEF Back, Str
<1>6. QED BY <1>1, <1>3, <1>4, <1>5

\* By induction on the depth, every value.
LEMMA ValueBack ==
    ASSUME NEW t \in Seq(Alphabet), NEW b \in Blanks
    PROVE  \A n \in 0 .. Depth : \A v \in Values[n] : Back(t, Text(b)[n][v], v)
<1> DEFINE S == {n \in Nat : \A v \in Values[n] : Back(t, Text(b)[n][v], v)}
<1>1. 0 \in S
  <2> SUFFICES ASSUME NEW v \in Values[0] PROVE Back(t, Text(b)[0][v], v)
    OBVIOUS
  <2>1. v \in Leaves /\ 0 \in 0 .. Depth
    BY ValuesByDepth, DepthAssumption
  <2>2. Text(b)[0][v] = TextOf(v, Text(b)[0 - 1], b)
    BY <2>1, TextByDepth
  <2>3. QED BY <2>1, <2>2, LeafBack
<1>2. ASSUME NEW k \in 0 .. Depth - 1, k \in S PROVE k + 1 \in S
  <2> SUFFICES ASSUME NEW v \in Values[k + 1] PROVE Back(t, Text(b)[k + 1][v], v)
    BY DepthAssumption
  <2>1. PICK n \in 1 .. Depth : n = k + 1 /\ n - 1 = k
    BY DepthAssumption
  <2>2. PICK text : text = Text(b)[k]
    OBVIOUS
  <2>3. Text(b)[n][v] = TextOf(v, text, b)
    <3>1. n \in 0 .. Depth /\ v \in Values[n]
      BY <2>1
    <3>2. QED BY <2>1, <2>2, <3>1, TextByDepth, Zenon
  <2>4. \A e \in Values[k] : Back(t, text[e], e)
    BY <1>2, <2>2
  <2>5. v \in Leaves \cup ({"array"} \X Seq(Values[k]))
                     \cup ({"object"} \X Members(Seq(Alphabet), Values[k]))
    BY <2>1, ValuesByDepth, Zenon
  <2>6. CASE v \in Leaves
    BY <2>1, <2>3, <2>6, LeafBack
  <2>7. CASE v \in {"array"} \X Seq(Values[k])
    <3>1. PICK es \in Seq(Values[k]) : v = Array(es)
      BY <2>7 DEF Array
    <3>2. QED BY <2>1, <2>3, <2>4, <3>1, ArrayBack
  <2>8. CASE v \in {"object"} \X Members(Seq(Alphabet), Values[k])
    <3>1. PICK es \in Members(Seq(Alphabet), Values[k]) : v = Object(es)
      BY <2>8 DEF Object
    <3>2. QED BY <2>1, <2>3, <2>4, <3>1, ObjectBack
  <2>9. QED BY <2>5, <2>6, <2>7, <2>8
<1>3. 0 .. Depth \subseteq S
  <2> HIDE DEF S
  <2> QED BY <1>1, <1>2, UpTo, DepthAssumption
<1>4. QED BY <1>3

-----------------------------------------------------------------------------
(* The parser reads what the writer writes.                                 *)

LEMMA TextSymbols ==
    ASSUME NEW b \in Blanks, NEW v \in Values[Depth]
    PROVE  Worded(Text(b)[Depth][v])
<1>1. Depth \in 0 .. Depth /\ <<>> \in Seq(Alphabet)
  BY DepthAssumption
<1>2. Back(<<>>, Text(b)[Depth][v], v)
  BY <1>1, ValueBack
<1>3. QED BY <1>2 DEF Back

\* parse() reads from the beginning, with a level for every symbol.
LEMMA FromTheBeginning ==
    ASSUME NEW b \in Blanks, NEW v \in Values[Depth], NEW t \in Seq(Alphabet),
           Shown(Text(b)[Depth][v], t, 1)
    PROVE  /\ Whole(t, Text(b)[Depth][v], v, 1, Levels(t)[Len(t)][1])
           /\ Part(t, Text(b)[Depth][v], v, 1, Levels(t)[Len(t)][1])
<1>1. PICK x : x = Text(b)[Depth][v]
  OBVIOUS
<1>2. Back(t, x, v)
  <2>1. Depth \in 0 .. Depth
    BY DepthAssumption
  <2>2. QED BY <1>1, <2>1, ValueBack
<1>3. Len(t) \in 0 .. Len(t)
  OBVIOUS
<1>4. Reads(t, Len(t), x, v)
  BY <1>2, <1>3, Zenon DEF Back
<1>5. 1 \in 1 .. Len(t) + 1 /\ 1 \in 1 .. 1 /\ Len(t) + 1 - 1 <= Len(t) /\ Blank(t, 1, 1)
  BY DEF Blank
<1>6. QED BY <1>1, <1>4, <1>5, Zenon DEF Reads

\* Every value whose numbers a double holds and a long long can print is read back
\* from its text, with or without blanks in it: what dump() writes of one means
\* it (MiniJson.cpp:63-192, 197-230).
THEOREM ValueReadsBack ==
    ASSUME NEW b \in Blanks, NEW v \in Values[Depth]
    PROVE  Parse(Text(b)[Depth][v]) = v
<1>1. PICK t \in Seq(Alphabet) : t = Text(b)[Depth][v]
  BY TextSymbols DEF Worded
<1>2. Shown(t, t, 1)
  BY DEF Shown
<1>3. Whole(t, t, v, 1, Levels(t)[Len(t)][1])
  BY <1>1, <1>2, FromTheBeginning, Zenon
<1>4. 1 - 1 + Len(t) <= Len(t) /\ At(t, 1 + Len(t)) \notin {"-"} \cup Digit
  BY DEF At, Digit
<1>5. Levels(t)[Len(t)][1] = [value |-> v, at |-> 1 + Len(t)]
  BY <1>3, <1>4, Zenon DEF Whole
<1>6. QED BY <1>1, <1>5 DEF Parse

\* Of any other number the double next to it is read, and that one can be printed
\* and read back if it is not too long for a long long; of 15 digits or less it is
\* the number itself (MiniJson.cpp:178-192, 201-205).
THEOREM NumeralAsDouble ==
    ASSUME NEW x \in Numerals, Digits(x) <= LongLong
    PROVE  /\ Parse(x) = Number(Stod(x))
           /\ Stod(x) \in Exact
           /\ Digits(x) <= Precision => Stod(x) = x
<1>1. Digits(x) \in Int /\ Digits(x) <= MaxDigits
  <2>1. Digits(x) \in Int
    BY DEF Digits, Numerals
  <2>2. QED BY <2>1, NumberAssumption
<1>2. PICK t \in Seq(Alphabet) : t = x
  <2>1. PICK e \in Seq(Alphabet) : e = <<>>
    <3>1. <<>> \in Seq(Alphabet)
      OBVIOUS
    <3>2. QED BY <3>1
  <2>2. 0 \in 0 .. Len(e)
    BY <2>1
  <2>3. Worded(x)
    BY <1>1, <2>2, NumberReads
  <2>4. QED BY <2>3 DEF Worded
<1>3. Parse(x) = Number(Stod(x))
  <2>1. Len(t) \in 0 .. Len(t)
    OBVIOUS
  <2>2. Reads(t, Len(t), t, Number(Stod(t)))
    BY <1>1, <1>2, <2>1, NumberReads
  <2>3. 1 \in 1 .. Len(t) + 1 /\ 1 \in 1 .. 1 /\ Len(t) + 1 - 1 <= Len(t) /\ Blank(t, 1, 1)
    BY DEF Blank
  <2>4. Shown(t, t, 1)
    BY DEF Shown
  <2>5. Whole(t, t, Number(Stod(t)), 1, Levels(t)[Len(t)][1])
    BY <2>2, <2>3, <2>4, Zenon DEF Reads
  <2>6. 1 - 1 + Len(t) <= Len(t) /\ At(t, 1 + Len(t)) \notin {"-"} \cup Digit
    BY DEF At, Digit
  <2>7. Levels(t)[Len(t)][1] = [value |-> Number(Stod(t)), at |-> 1 + Len(t)]
    BY <2>5, <2>6, Zenon DEF Whole
  <2>8. QED BY <1>2, <2>7 DEF Parse
<1>4. Stod(x) \in Exact
  <2>1. CASE Digits(x) <= Precision
    <3>1. Stod(x) = x
      BY <2>1 DEF Stod
    <3>2. QED BY <3>1 DEF Exact
  <2>2. CASE ~(Digits(x) <= Precision)
    <3>1. PICK y : y = [i \in DOMAIN x |-> IF x[i] \in Digit THEN "8" ELSE x[i]]
      OBVIOUS
    <3>2. Stod(x) = y
      BY <2>2, <3>1 DEF Stod
    <3>3. PICK n \in Nat : n = Len(x) /\ DOMAIN x = 1 .. n /\ n >= 1
      BY DEF Numerals
    <3>4. \A i \in 1 .. n : x[i] \in {"-"} \cup Digit
      BY <3>3 DEF Numerals
    <3>5. \A i \in 1 .. n : y[i] \in {"-"} \cup Digit /\ y[i] = IF x[i] \in Digit THEN "8" ELSE x[i]
      BY <3>1, <3>3, <3>4 DEF Digit
    <3>6. y \in Seq({"-"} \cup Digit) /\ Len(y) = n /\ DOMAIN y = 1 .. n
      <4>1. y \in [1 .. n -> {"-"} \cup Digit]
        BY <3>1, <3>3, <3>5
      <4>2. QED BY <4>1
    <3>7. y \in Numerals
      <4>1. y # <<>> /\ y[Len(y)] \in Digit
        BY <3>3, <3>5, <3>6 DEF Numerals, Digit
      <4>2. \A i \in 2 .. Len(y) : y[i] \in Digit
        BY <3>3, <3>5, <3>6 DEF Numerals, Digit
      <4>3. QED BY <3>6, <4>1, <4>2 DEF Numerals
    <3>8. Digits(y) = Digits(x)
      <4>1. y[1] = "-" <=> x[1] = "-"
        BY <3>3, <3>5 DEF Digit
      <4>2. QED BY <3>3, <3>6, <4>1 DEF Digits
    <3>9. Stod(y) = y
      <4>1. \A i \in 1 .. n : (IF y[i] \in Digit THEN "8" ELSE y[i]) = y[i]
        BY <3>5 DEF Digit
      <4>2. [i \in DOMAIN y |-> IF y[i] \in Digit THEN "8" ELSE y[i]] = y
        BY <3>6, <4>1
      <4>3. QED BY <2>2, <3>8, <4>2 DEF Stod
    <3>10. QED BY <3>2, <3>7, <3>8, <3>9 DEF Exact
  <2>3. QED BY <2>1, <2>2
<1>5. QED BY <1>3, <1>4 DEF Stod

\* A part of the text of an object, an array or a string is no value: no loop of
\* the parser takes the end of the text for the end of what it reads
\* (MiniJson.cpp:95-159).
THEOREM PartMalformed ==
    ASSUME NEW b \in Blanks, NEW v \in Values[Depth], Type(v) # "number",
           NEW t \in Seq(Alphabet), Len(t) < Len(Text(b)[Depth][v]),
           \A i \in 1 .. Len(t) : t[i] = Text(b)[Depth][v][i]
    PROVE  Parse(t) = Malformed
<1>1. PICK x \in Seq(Alphabet) : x = Text(b)[Depth][v]
  BY TextSymbols DEF Worded
<1>2. Shown(x, t, 1)
  BY <1>1 DEF Shown
<1>3. Part(t, x, v, 1, Levels(t)[Len(t)][1])
  BY <1>1, <1>2, FromTheBeginning, Zenon
<1>4. Len(t) < 1 - 1 + Len(x)
  BY <1>1
<1>5. Levels(t)[Len(t)][1] = Fail
  BY <1>3, <1>4, Zenon DEF Part
<1>6. QED BY <1>5 DEF Parse, Fail

-----------------------------------------------------------------------------
(* What is written is one line.                                             *)

InLine == Alphabet \ {"nl"}

LEMMA JoinedInLine ==
    ASSUME NEW S, NEW a \in Seq(S), NEW c \in Seq(S)
    PROVE  a \o c \in Seq(S)
BY Concat

LEMMA QuotedInLine ==
    ASSUME NEW s \in Seq(Alphabet)
    PROVE  Quoted(s) \in Seq(InLine)
<1>1. PICK q \in Seq(Alphabet) : q = Quoted(s)
  BY Named, PlacesOfSymbols
<1>2. \A i \in 1 .. Len(q) : q[i] # "nl"
  BY <1>1, Named, QuotedIsOneLine
<1>3. \A i \in 1 .. Len(q) : q[i] \in InLine
  BY <1>2 DEF InLine
<1>4. q \in Seq(InLine)
  BY <1>3
<1>5. QED BY <1>1, <1>4

LEMMA BlanksInLine ==
    ASSUME NEW b \in Blanks
    PROVE  b \in Seq(InLine)
<1>1. {"sp"} \subseteq InLine
  BY Named DEF InLine
<1>2. b \in Seq({"sp"})
  BY DEF Blanks
<1>3. QED BY <1>1, <1>2

LEMMA BracketedInLine ==
    ASSUME NEW b \in Blanks, NEW ts, Len(ts) \in Nat, \A i \in 1 .. Len(ts) : ts[i] \in Seq(InLine),
           NEW open \in InLine, NEW close \in InLine
    PROVE  Bracketed(open, ts, b, close) \in Seq(InLine)
<1>1. PICK n \in Nat : n = Len(ts)
  OBVIOUS
<1>2. PICK f : f = Listed(ts, b)
  OBVIOUS
<1>3. f[0] = <<>> /\ \A i \in 1 .. n : f[i] = f[i - 1] \o Lead(i, b) \o ts[i]
  <2>1. \A i \in 1 .. Len(ts) : ts[i] \in Seq(Alphabet)
    <3>1. InLine \subseteq Alphabet
      BY DEF InLine
    <3>2. Seq(InLine) \subseteq Seq(Alphabet)
      BY <3>1
    <3>3. QED BY <3>2
  <2>2. QED BY <1>1, <1>2, <2>1, ListedLoop, Zenon
<1>4. b \in Seq(InLine)
  BY BlanksInLine
<1>5. \A i : Lead(i, b) \in Seq(InLine)
  <2>1. "," \in InLine
    BY Named DEF InLine
  <2>2. <<",">> \in Seq(InLine)
    BY <2>1, One
  <2>3. b \o <<",">> \o b \in Seq(InLine)
    BY <1>4, <2>2, JoinedInLine
  <2>4. QED BY <1>4, <2>3, Zenon DEF Lead
<1> DEFINE S == {i \in Nat : f[i] \in Seq(InLine)}
<1>6. 0 \in S
  <2>1. <<>> \in Seq(InLine) /\ 0 \in Nat
    OBVIOUS
  <2>2. QED BY <1>3, <2>1, Zenon
<1>7. \A k \in 0 .. n - 1 : k \in S => k + 1 \in S
  <2> TAKE k \in 0 .. n - 1
  <2> HAVE k \in S
  <2>1. PICK i \in 1 .. n : i = k + 1 /\ i - 1 = k
    OBVIOUS
  <2>2. f[i] = f[k] \o Lead(i, b) \o ts[i]
    BY <1>3, <2>1, Zenon
  <2>3. f[k] \in Seq(InLine) /\ Lead(i, b) \in Seq(InLine) /\ ts[i] \in Seq(InLine)
    BY <1>1, <1>5
  <2>4. f[k] \o Lead(i, b) \o ts[i] \in Seq(InLine)
    BY <2>3, JoinedInLine
  <2>5. f[i] \in Seq(InLine) /\ i \in Nat
    BY <2>2, <2>4
  <2>6. QED BY <2>1, <2>5, Zenon
<1>8. 0 .. n \subseteq S
  <2> HIDE DEF S
  <2> QED BY <1>6, <1>7, UpTo
<1>9. f[n] \in Seq(InLine)
  <2>1. n \in 0 .. n
    OBVIOUS
  <2>2. QED BY <1>8, <2>1
<1>10. <<open>> \in Seq(InLine) /\ <<close>> \in Seq(InLine)
  BY One
<1>11. <<open>> \o f[n] \o b \o <<close>> \in Seq(InLine)
  <2>1. <<open>> \o f[n] \in Seq(InLine)
    BY <1>9, <1>10, JoinedInLine
  <2>2. <<open>> \o f[n] \o b \in Seq(InLine)
    BY <1>4, <2>1, JoinedInLine
  <2>3. QED BY <1>10, <2>2, JoinedInLine
<1>12. QED BY <1>1, <1>2, <1>11, Zenon DEF Bracketed

\* By induction on the depth.
LEMMA TextInLine ==
    ASSUME NEW b \in Blanks
    PROVE  \A n \in 0 .. Depth : \A v \in Values[n] : Text(b)[n][v] \in Seq(InLine)
<1> DEFINE S == {n \in Nat : \A v \in Values[n] : Text(b)[n][v] \in Seq(InLine)}
<1>1. \A c \in {"{", "}", "[", "]", ":", "false", "-", "7", "8"} : c \in InLine
  BY Named DEF InLine
<1>2. ASSUME NEW v \in Leaves, NEW text PROVE TextOf(v, text, b) \in Seq(InLine)
  <2>1. v = False \/ v \in {"number"} \X Exact \/ v \in {"string"} \X Seq(Alphabet)
    BY <1>2, Zenon DEF Leaves
  <2>2. CASE v = False
    <3>1. TextOf(v, text, b) = <<"false">>
      BY <2>2 DEF TextOf, False, Type
    <3>2. QED BY <1>1, <3>1, One
  <2>3. CASE v \in {"number"} \X Exact
    <3>1. PICK x \in Exact : v = <<"number", x>>
      BY <2>3
    <3>2. TextOf(v, text, b) = x
      BY <3>1, NumberText
    <3>3. x \in Seq({"-"} \cup Digit) /\ {"-"} \cup Digit \subseteq InLine
      BY <1>1, NumberText DEF Numerals, Digit
    <3>4. x \in Seq(InLine)
      BY <3>3
    <3>5. QED BY <3>2, <3>4
  <2>4. CASE v \in {"string"} \X Seq(Alphabet)
    <3>1. PICK s \in Seq(Alphabet) : v = <<"string", s>>
      BY <2>4
    <3>2. TextOf(v, text, b) = Quoted(s)
      BY <3>1 DEF TextOf, Type
    <3>3. QED BY <3>2, QuotedInLine
  <2>5. QED BY <2>1, <2>2, <2>3, <2>4
<1>3. 0 \in S
  <2> SUFFICES ASSUME NEW v \in Values[0] PROVE Text(b)[0][v] \in Seq(InLine)
    OBVIOUS
  <2>1. v \in Leaves /\ 0 \in 0 .. Depth
    BY ValuesByDepth, DepthAssumption
  <2>2. Text(b)[0][v] = TextOf(v, Text(b)[0 - 1], b)
    BY <2>1, TextByDepth
  <2>3. QED BY <1>2, <2>1, <2>2
<1>4. ASSUME NEW k \in 0 .. Depth - 1, k \in S PROVE k + 1 \in S
  <2> SUFFICES ASSUME NEW v \in Values[k + 1] PROVE Text(b)[k + 1][v] \in Seq(InLine)
    BY DepthAssumption
  <2>1. PICK n \in 1 .. Depth : n = k + 1 /\ n - 1 = k
    BY DepthAssumption
  <2>2. PICK text : text = Text(b)[k]
    OBVIOUS
  <2>3. Text(b)[n][v] = TextOf(v, text, b)
    <3>1. n \in 0 .. Depth /\ v \in Values[n]
      BY <2>1
    <3>2. QED BY <2>1, <2>2, <3>1, TextByDepth, Zenon
  <2>4. \A e \in Values[k] : text[e] \in Seq(InLine)
    BY <1>4, <2>2
  <2>5. v \in Leaves \cup ({"array"} \X Seq(Values[k]))
                     \cup ({"object"} \X Members(Seq(Alphabet), Values[k]))
    BY <2>1, ValuesByDepth, Zenon
  <2>6. CASE v \in Leaves
    BY <1>2, <2>1, <2>3, <2>6
  <2>7. CASE v \in {"array"} \X Seq(Values[k])
    <3>1. PICK es \in Seq(Values[k]) : v = <<"array", es>>
      BY <2>7
    <3>2. PICK ts : ts = [i \in DOMAIN es |-> text[es[i]]]
      OBVIOUS
    <3>3. Len(ts) \in Nat /\ \A i \in 1 .. Len(ts) : ts[i] \in Seq(InLine)
      BY <2>4, <3>2
    <3>4. TextOf(v, text, b) = Bracketed("[", ts, b, "]")
      BY <3>1, <3>2 DEF TextOf, EntryTexts, Type
    <3>5. QED BY <1>1, <2>1, <2>3, <3>3, <3>4, BracketedInLine
  <2>8. CASE v \in {"object"} \X Members(Seq(Alphabet), Values[k])
    <3>1. PICK es \in Members(Seq(Alphabet), Values[k]) : v = <<"object", es>>
      BY <2>8
    <3>2. PICK ts : ts = [i \in DOMAIN es |-> MemberText(es[i][1], b, text[es[i][2]])]
      OBVIOUS
    <3>3. es \in Seq(Seq(Alphabet) \X Values[k])
      BY DEF Members
    <3>4. Len(ts) \in Nat /\ DOMAIN es = 1 .. Len(ts)
      BY <3>2, <3>3
    <3>5. \A i \in 1 .. Len(ts) : ts[i] \in Seq(InLine)
      <4> TAKE i \in 1 .. Len(ts)
      <4>1. es[i] \in Seq(Alphabet) \X Values[k] /\ i \in DOMAIN es
        BY <3>3, <3>4
      <4>2. PICK y, x : y = es[i][1] /\ x = text[es[i][2]]
        OBVIOUS
      <4>3. ts[i] = MemberText(y, b, x)
        BY <3>2, <4>1, <4>2
      <4>4. y \in Seq(Alphabet) /\ x \in Seq(InLine)
        BY <2>4, <4>1, <4>2
      <4>5. Quoted(y) \in Seq(InLine) /\ b \in Seq(InLine) /\ <<":">> \in Seq(InLine)
        BY <1>1, <4>4, QuotedInLine, BlanksInLine, One
      <4>6. Quoted(y) \o b \in Seq(InLine)
        BY <4>5, JoinedInLine
      <4>7. Quoted(y) \o b \o <<":">> \in Seq(InLine)
        BY <4>5, <4>6, JoinedInLine
      <4>8. Quoted(y) \o b \o <<":">> \o b \in Seq(InLine)
        BY <4>5, <4>7, JoinedInLine
      <4>9. Quoted(y) \o b \o <<":">> \o b \o x \in Seq(InLine)
        BY <4>4, <4>8, JoinedInLine
      <4>10. QED BY <4>3, <4>9, Zenon DEF MemberText
    <3>6. TextOf(v, text, b) = Bracketed("{", ts, b, "}")
      <4>1. EntryTexts(v, text, b) = ts
        BY <3>1, <3>2 DEF EntryTexts, Type, MemberText
      <4>2. TextOf(v, text, b) = Bracketed("{", EntryTexts(v, text, b), b, "}")
        BY <3>1 DEF TextOf, Type
      <4>3. QED BY <4>1, <4>2
    <3>7. QED BY <1>1, <2>1, <2>3, <3>4, <3>5, <3>6, BracketedInLine
  <2>9. QED BY <2>5, <2>6, <2>7, <2>8
<1>5. 0 .. Depth \subseteq S
  <2> HIDE DEF S
  <2> QED BY <1>3, <1>4, UpTo, DepthAssumption
<1>6. QED BY <1>5

\* What is written has no end of a line in it, however deep it is nested
\* (MiniJson.cpp:47-61, 197-230).
THEOREM TextIsOneLine ==
    ASSUME NEW b \in Blanks, NEW v \in Values[Depth], NEW i \in 1 .. Len(Text(b)[Depth][v])
    PROVE  Text(b)[Depth][v][i] # "nl"
<1>1. PICK x \in Seq(InLine) : x = Text(b)[Depth][v]
  <2>1. Depth \in 0 .. Depth
    BY DepthAssumption
  <2>2. QED BY <2>1, TextInLine
<1>2. x[i] \in InLine
  BY <1>1
<1>3. QED BY <1>1, <1>2 DEF InLine

-----------------------------------------------------------------------------
(* Objects.                                                                 *)

LEMMA GetMember ==
    ASSUME NEW m, NEW i \in DOMAIN m, \A j \in DOMAIN m : m[j][1] = m[i][1] => j = i
    PROVE  Get(Object(m), m[i][1]) = m[i][2]
BY DEF Get, Object

\* After set() the key has the new value, every other key has what it had, and
\* no key is there twice: what a line says of a key last is what a handler
\* gets (MiniJson.cpp:25-38).
THEOREM SetThenGet ==
    ASSUME NEW K, NEW V, NEW m \in Members(K, V), NEW k \in K, NEW v \in V
    PROVE  /\ Set(m, k, v) \in Members(K, V)
           /\ Has(Object(Set(m, k, v)), k) /\ Get(Object(Set(m, k, v)), k) = v
           /\ \A l \in K \ {k} : Has(Object(m), l) =>
                 /\ Has(Object(Set(m, k, v)), l)
                 /\ Get(Object(Set(m, k, v)), l) = Get(Object(m), l)
           /\ \A l \in K \ {k} : Has(Object(Set(m, k, v)), l) => Has(Object(m), l)
<1>1. PICK s : s = Set(m, k, v)
  OBVIOUS
<1>2. /\ m \in Seq(K \X V) /\ Len(m) \in Nat /\ DOMAIN m = 1 .. Len(m)
      /\ \A i, j \in DOMAIN m : m[i][1] = m[j][1] => i = j
      /\ \A i \in DOMAIN m : m[i] \in K \X V
  BY ElementOfSeq DEF Members
<1>3. \A o : Type(Object(o)) = "object" /\ Object(o)[2] = o
  BY DEF Type, Object
\* In either case s has one more key at most, and it has k.
<1>4. /\ s \in Members(K, V)
      /\ \E i \in DOMAIN s : s[i] = <<k, v>>
      /\ \A i \in DOMAIN m : m[i][1] # k => i \in DOMAIN s /\ s[i] = m[i]
      /\ \A i \in DOMAIN s : s[i][1] # k => i \in DOMAIN m /\ s[i] = m[i]
  <2>1. CASE \E i \in DOMAIN m : m[i][1] = k
    <3>1. s = [i \in DOMAIN m |-> IF m[i][1] = k THEN <<k, v>> ELSE m[i]]
      BY <1>1, <2>1 DEF Set
    <3>2. \A i \in DOMAIN m : s[i] \in K \X V
      BY <1>2, <3>1
    <3>3. s \in Seq(K \X V) /\ DOMAIN s = DOMAIN m
      BY <1>2, <3>1, <3>2
    <3>4. \A i \in DOMAIN m : s[i][1] = m[i][1]
      BY <3>1
    <3>5. s \in Members(K, V)
      BY <1>2, <3>3, <3>4 DEF Members
    <3>6. QED BY <2>1, <3>1, <3>3, <3>4, <3>5
  <2>2. CASE ~\E i \in DOMAIN m : m[i][1] = k
    <3>1. s = Append(m, <<k, v>>)
      BY <1>1, <2>2 DEF Set
    <3>2. /\ s \in Seq(K \X V) /\ Len(s) = Len(m) + 1
          /\ \A i \in 1 .. Len(m) : s[i] = m[i]
          /\ s[Len(m) + 1] = <<k, v>>
      BY <1>2, <3>1, AppendProperties
    <3>3. DOMAIN s = DOMAIN m \cup {Len(m) + 1}
      BY <1>2, <3>2
    <3>4. /\ \A i \in DOMAIN m : s[i] = m[i] /\ s[i][1] # k
          /\ s[Len(m) + 1][1] = k
      BY <1>2, <2>2, <3>2
    <3>5. ASSUME NEW i \in DOMAIN s, NEW j \in DOMAIN s, s[i][1] = s[j][1] PROVE i = j
      <4>1. CASE i \in DOMAIN m /\ j \in DOMAIN m
        BY <1>2, <3>4, <3>5, <4>1
      <4>2. CASE i \notin DOMAIN m \/ j \notin DOMAIN m
        BY <3>3, <3>4, <3>5, <4>2
      <4>3. QED BY <4>1, <4>2
    <3>6. s \in Members(K, V)
      BY <3>2, <3>5 DEF Members
    <3>7. QED BY <1>2, <3>2, <3>3, <3>6
  <2>3. QED BY <2>1, <2>2
<1>5. \A i, j \in DOMAIN s : s[i][1] = s[j][1] => i = j
  BY <1>4 DEF Members
<1>6. Has(Object(s), k) /\ Get(Object(s), k) = v
  <2>1. PICK i \in DOMAIN s : s[i] = <<k, v>>
    BY <1>4
  <2>2. Get(Object(s), s[i][1]) = s[i][2]
    BY <1>5, GetMember
  <2>3. QED BY <1>3, <2>1, <2>2 DEF Has
<1>7. ASSUME NEW l \in K \ {k}, Has(Object(m), l)
      PROVE  Has(Object(s), l) /\ Get(Object(s), l) = Get(Object(m), l)
  <2>1. PICK i \in DOMAIN m : m[i][1] = l
    BY <1>3, <1>7 DEF Has
  <2>2. i \in DOMAIN s /\ s[i] = m[i]
    BY <1>4, <2>1
  <2>3. Get(Object(m), m[i][1]) = m[i][2]
    BY <1>2, GetMember
  <2>4. Get(Object(s), s[i][1]) = s[i][2]
    BY <1>5, <2>2, GetMember
  <2>5. QED BY <1>3, <2>1, <2>2, <2>3, <2>4 DEF Has
<1>8. ASSUME NEW l \in K \ {k}, Has(Object(s), l) PROVE Has(Object(m), l)
  BY <1>3, <1>4, <1>8 DEF Has
<1>9. QED BY <1>1, <1>4, <1>6, <1>7, <1>8

-----------------------------------------------------------------------------
(* The buffer and the stream.                                               *)

USE TextsAssumption, ParserAssumption, RecvAssumption, BoundsAssumption

\* A buffer that ends at the place r of a text, symbol by symbol.
LEMMA EndsAt ==
    ASSUME NEW S, NEW s \in Seq(S), NEW b \in Seq(S), NEW r \in 0 .. Len(s), Len(b) <= r
    PROVE  b = SubSeq(s, r - Len(b) + 1, r)
              <=> \A p \in 1 .. Len(b) : b[p] = s[r - Len(b) + p]
<1> DEFINE m == r - Len(b)
<1>1. m \in Nat /\ Len(b) \in Nat /\ Len(s) \in Nat /\ r = m + Len(b) /\ r <= Len(s)
  OBVIOUS
<1>2. SubSeq(s, m + 1, r) \in Seq(S) /\ Len(SubSeq(s, m + 1, r)) = Len(b)
  BY <1>1
<1>3. \A p \in 1 .. Len(b) : SubSeq(s, m + 1, r)[p] = s[m + p]
  BY <1>1
<1>4. QED BY <1>2, <1>3, SeqEqual

\* A text, another one and one symbol more.
LEMMA Longer ==
    ASSUME NEW S, NEW s \in Seq(S), NEW t \in Seq(S), NEW e \in S
    PROVE  /\ Append(s \o t, e) \in Seq(S)
           /\ Len(Append(s \o t, e)) = Len(s) + Len(t) + 1
           /\ \A p \in 1 .. Len(s) : Append(s \o t, e)[p] = s[p]
           /\ \A p \in 1 .. Len(t) : Append(s \o t, e)[Len(s) + p] = t[p]
           /\ Append(s \o t, e)[Len(s) + Len(t) + 1] = e
<1> DEFINE b == s \o t
<1>1. Len(s) \in Nat /\ Len(t) \in Nat
  OBVIOUS
<1>2. /\ b \in Seq(S) /\ Len(b) = Len(s) + Len(t)
      /\ \A p \in 1 .. Len(s) + Len(t) : b[p] = IF p <= Len(s) THEN s[p] ELSE t[p - Len(s)]
  BY ConcatProperties
<1> HIDE DEF b
<1>3. /\ Append(b, e) \in Seq(S) /\ Len(Append(b, e)) = Len(b) + 1
      /\ \A p \in 1 .. Len(b) : Append(b, e)[p] = b[p]
      /\ Append(b, e)[Len(b) + 1] = e
  <2>1. b \in Seq(S)
    BY <1>2
  <2>2. QED BY <2>1, AppendProperties
<1>4. PICK r : r = Append(b, e)
  OBVIOUS
<1>5. Len(b) = Len(s) + Len(t) /\ \A p \in 1 .. Len(b) : r[p] = b[p]
  BY <1>2, <1>3, <1>4
<1>6. \A p \in 1 .. Len(s) : r[p] = s[p]
  BY <1>1, <1>2, <1>5
<1>7. \A p \in 1 .. Len(t) : r[Len(s) + p] = t[p]
  <2> SUFFICES ASSUME NEW p \in 1 .. Len(t) PROVE r[Len(s) + p] = t[p]
    OBVIOUS
  <2>1. Len(s) + p \in 1 .. Len(s) + Len(t) /\ ~(Len(s) + p <= Len(s)) /\ (Len(s) + p) - Len(s) = p
    BY <1>1
  <2>2. QED BY <1>2, <1>5, <2>1
<1>8. QED BY <1>2, <1>3, <1>4, <1>6, <1>7 DEF b

LEMMA BufferAt ==
    ASSUME TypeOK
    PROVE  /\ lineBuffer \in Seq(Bytes) /\ Len(lineBuffer) \in Nat
           /\ \A p \in 1 .. Len(lineBuffer) :
                 lineBuffer[p] = stream[received - Len(lineBuffer) + p]
<1>1. stream \in Seq(Bytes) /\ received \in 0 .. Len(stream) /\ Len(stream) \in Nat
  BY DEF TypeOK
<1>2. Len(lineBuffer) \in Nat /\ lineBuffer \in Seq(Bytes)
  BY <1>1 DEF TypeOK
<1>3. QED BY <1>1, <1>2, EndsAt DEF TypeOK

LEMMA TextType ==
    ASSUME NEW line \in Lines
    PROVE  /\ line.text \in Seq(Bytes) /\ Len(line.text) \in Nat
           /\ \A p \in 1 .. Len(line.text) : line.text[p] # "nl"
<1>1. line.text \in Seq(Symbols \ {"nl"})
  OBVIOUS
<1>2. \A p \in 1 .. Len(line.text) : line.text[p] \in Symbols \ {"nl"}
  BY <1>1, ElementOfSeq
<1>3. line.text \in Seq(Bytes)
  BY <1>1, SeqMonotonic, Symbols \ {"nl"} \subseteq Bytes DEF Bytes
<1>4. QED BY <1>1, <1>2, <1>3

LEMMA StartType ==
    ASSUME TypeOK
    PROVE  /\ Len(sent) \in Nat /\ Len(handled) \in Nat
           /\ \A k \in 1 .. Len(sent) : ends[k] \in Nat /\ sent[k] \in Lines
           /\ \A k \in 1 .. Len(sent) + 1 : Start(k) \in Nat
<1>1. Len(sent) \in Nat /\ Len(handled) \in Nat
  BY DEF TypeOK
<1>2. \A k \in 1 .. Len(sent) : ends[k] \in Nat /\ sent[k] \in Lines
  BY <1>1 DEF TypeOK
<1>3. \A k \in 1 .. Len(sent) + 1 : Start(k) \in Nat
  BY <1>1, <1>2 DEF Start
<1>4. QED BY <1>1, <1>2, <1>3

-----------------------------------------------------------------------------
(* One line.                                                                *)

\* The first end of a line in the buffer is that of the first line that has
\* not been handled, and what comes before it is its text.
LEMMA NextInBuffer ==
    ASSUME IInv, NEW p \in DOMAIN lineBuffer, FirstEnd(p),
           NEW k, k = Len(handled) + 1
    PROVE  /\ k \in 1 .. Len(sent)
           /\ ends[k] = received - Len(lineBuffer) + p
           /\ SubSeq(lineBuffer, 1, p - 1) = sent[k].text
<1> DEFINE m    == received - Len(lineBuffer)
           text == sent[k].text
<1>1. TypeOK /\ StreamIsLines /\ BufferIsRest
  BY DEF IInv
<1>2. /\ received \in 0 .. Len(stream) /\ Len(stream) \in Nat
      /\ Len(lineBuffer) \in Nat /\ Len(lineBuffer) <= received /\ lineBuffer \in Seq(Bytes)
      /\ Len(handled) <= Len(sent)
  BY <1>1 DEF TypeOK
<1>3. p \in 1 .. Len(lineBuffer) /\ m \in Nat /\ Start(k) = m
  BY <1>1, <1>2 DEF BufferIsRest
<1>4. k \in 1 .. Len(sent)
  <2> SUFFICES ASSUME k = Len(sent) + 1 PROVE FALSE
    BY <1>1, <1>2, StartType
  <2>1. Start(k) = Len(stream)
    BY <1>1 DEF StreamIsLines
  <2>2. QED BY <2>1, <1>2, <1>3
<1>5. sent[k] \in Lines /\ Len(text) \in Nat /\ text \in Seq(Bytes)
  BY <1>1, <1>4, StartType, TextType
<1>6. /\ ends[k] = m + Len(text) + 1 /\ stream[ends[k]] = "nl"
      /\ \A q \in 1 .. Len(text) : stream[m + q] = text[q]
  <2>1. /\ ends[k] = Start(k) + Len(text) + 1 /\ stream[ends[k]] = "nl"
        /\ \A q \in 1 .. Len(text) : stream[Start(k) + q] = text[q]
    BY <1>1, <1>4, Zenon DEF StreamIsLines
  <2>2. QED BY <2>1, <1>3
<1>7. \A q \in 1 .. Len(lineBuffer) : lineBuffer[q] = stream[m + q]
  BY <1>1, BufferAt
<1>8. p > Len(text)
  <2> SUFFICES ASSUME p \in 1 .. Len(text) PROVE FALSE
    BY <1>3, <1>5
  <2>1. lineBuffer[p] = text[p]
    BY <1>3, <1>6, <1>7
  <2>2. QED BY <2>1, <1>5, TextType DEF FirstEnd
<1>9. p <= Len(text) + 1
  <2> DEFINE q == Len(text) + 1
  <2> SUFFICES ASSUME q < p PROVE FALSE
    BY <1>3, <1>5
  <2>1. q \in 1 .. p - 1 /\ q \in 1 .. Len(lineBuffer) /\ m + q = ends[k]
    BY <1>2, <1>3, <1>5, <1>6
  <2>2. lineBuffer[q] = "nl"
    BY <2>1, <1>6, <1>7
  <2>3. QED BY <2>1, <2>2 DEF FirstEnd
<1>10. p = Len(text) + 1
  BY <1>3, <1>5, <1>8, <1>9
<1>11. SubSeq(lineBuffer, 1, p - 1) = text
  <2>1. SubSeq(lineBuffer, 1, p - 1) \in Seq(Bytes)
        /\ Len(SubSeq(lineBuffer, 1, p - 1)) = Len(text)
    BY <1>2, <1>3, <1>5, <1>10
  <2>2. \A q \in 1 .. Len(text) : SubSeq(lineBuffer, 1, p - 1)[q] = lineBuffer[q]
    BY <1>2, <1>3, <1>5, <1>10
  <2>3. \A q \in 1 .. Len(text) : lineBuffer[q] = text[q]
    <3>1. \A q \in 1 .. Len(text) : q \in 1 .. Len(lineBuffer)
      BY <1>2, <1>3, <1>5, <1>10
    <3>2. QED BY <3>1, <1>6, <1>7
  <2>4. QED BY <1>5, <2>1, <2>2, <2>3, SeqEqual
<1>12. QED BY <1>3, <1>4, <1>5, <1>6, <1>10, <1>11

-----------------------------------------------------------------------------
(* The steps.                                                               *)

\* A step that leaves the stream and the buffer as they are.
LEMMA Idle ==
    ASSUME IInv, UNCHANGED <<conn, pool, received, lineBuffer, handled>>,
           running' \in BOOLEAN, reader' \in {"poll", "lines", "lost", "off"},
           reader' # "lines" => \/ reader # "lines"
                                \/ \A p \in DOMAIN lineBuffer : lineBuffer[p] # "nl"
    PROVE  IInv'
<1>1. TypeOK'
  BY DEF IInv, TypeOK, pool
<1>2. LinesAsSent'
  BY DEF IInv, LinesAsSent, pool
<1>3. StreamIsLines'
  BY DEF IInv, StreamIsLines, Start, pool
<1>4. BufferIsRest' /\ OnlyPartsStay'
  BY DEF IInv, BufferIsRest, OnlyPartsStay, Start, pool
<1>5. QED BY <1>1, <1>2, <1>3, <1>4 DEF IInv

\* A new line comes after the others; where they are stays as it is.
LEMMA WriteIInv ==
    ASSUME IInv, NEW line \in Lines, Write(line)
    PROVE  IInv'
<1>1. PICK n, size, more : n = Len(sent) /\ size = Len(stream) /\ more = Len(line.text)
  OBVIOUS
<1>2. TypeOK /\ LinesAsSent /\ StreamIsLines /\ BufferIsRest /\ OnlyPartsStay
  BY DEF IInv
<1>3. line.text \in Seq(Bytes) /\ more \in Nat
  BY <1>1, TextType
<1>4. /\ sent \in Seq(Lines) /\ stream \in Seq(Bytes) /\ ends \in Seq(Nat)
      /\ Len(ends) = n /\ lineBuffer \in Seq(Bytes)
  BY <1>1, <1>2 DEF TypeOK
<1>5. /\ n \in Nat /\ size \in Nat /\ received \in 0 .. size
      /\ Len(lineBuffer) \in Nat /\ Len(handled) \in Nat
      /\ Len(lineBuffer) <= received /\ Len(handled) <= n
  BY <1>1, <1>2 DEF TypeOK
<1>6. /\ sent' \in Seq(Lines) /\ Len(sent') = n + 1 /\ sent'[n + 1] = line
      /\ \A k \in 1 .. n : sent'[k] = sent[k]
  BY <1>1, <1>4, AppendProperties DEF Write
<1>7. /\ ends' \in Seq(Nat) /\ Len(ends') = n + 1
      /\ ends'[n + 1] = size + more + 1
      /\ \A k \in 1 .. n : ends'[k] = ends[k]
  <2>1. size + more + 1 \in Nat
    BY <1>3, <1>5
  <2>2. QED BY <1>1, <1>4, <2>1, AppendProperties DEF Write
<1>8. /\ stream' \in Seq(Bytes) /\ Len(stream') = size + more + 1
      /\ \A p \in 1 .. size : stream'[p] = stream[p]
      /\ \A p \in 1 .. more : stream'[size + p] = line.text[p]
      /\ stream'[size + more + 1] = "nl"
  <2>1. "nl" \in Bytes
    BY DEF Bytes
  <2>2. stream' = Append(stream \o line.text, "nl")
    BY DEF Write
  <2>3. /\ stream' \in Seq(Bytes) /\ Len(stream') = Len(stream) + Len(line.text) + 1
        /\ \A p \in 1 .. Len(stream) : stream'[p] = stream[p]
        /\ \A p \in 1 .. Len(line.text) : stream'[Len(stream) + p] = line.text[p]
        /\ stream'[Len(stream) + Len(line.text) + 1] = "nl"
    <3>1. line.text \in Seq(Bytes) /\ stream \in Seq(Bytes)
      BY <1>3, <1>4
    <3> DEFINE r == Append(stream \o line.text, "nl")
    <3>2. /\ r \in Seq(Bytes) /\ Len(r) = Len(stream) + Len(line.text) + 1
          /\ \A p \in 1 .. Len(stream) : r[p] = stream[p]
          /\ \A p \in 1 .. Len(line.text) : r[Len(stream) + p] = line.text[p]
          /\ r[Len(stream) + Len(line.text) + 1] = "nl"
      BY <2>1, <3>1, Longer
    <3> HIDE DEF r
    <3>3. stream' = r
      BY <2>2 DEF r
    <3>4. QED BY <3>2, <3>3
  <2>4. QED BY <1>1, <2>3
<1>9. /\ Start(n + 1) = size
      /\ \A k \in 1 .. n : ends[k] \in Nat /\ ends[k] <= size
      /\ \A k \in 1 .. n + 1 : Start(k) \in Nat
      /\ \A k \in 1 .. n : Len(sent[k].text) \in Nat
  BY <1>1, <1>2, StartType, TextType DEF StreamIsLines
<1>10. \A k \in 1 .. n + 1 : Start(k)' = Start(k)
  <2>1. \A k \in 1 .. n + 1 : k = 1 \/ k - 1 \in 1 .. n
    BY <1>5
  <2>2. QED BY <1>7, <2>1 DEF Start
<1>11. TypeOK'
  <2>1. \A p \in 1 .. Len(lineBuffer) : received - Len(lineBuffer) + p \in 1 .. size
    BY <1>5
  <2>2. \A p \in 1 .. Len(lineBuffer) : lineBuffer[p] = stream'[received - Len(lineBuffer) + p]
    BY <1>2, <1>8, <2>1, BufferAt
  <2>3. received \in 0 .. Len(stream')
    BY <1>3, <1>5, <1>8
  <2>4. lineBuffer = SubSeq(stream', received - Len(lineBuffer) + 1, received)
    <3>1. stream' \in Seq(Bytes) /\ lineBuffer \in Seq(Bytes) /\ Len(lineBuffer) <= received
      BY <1>4, <1>5, <1>8
    <3>2. QED BY <2>2, <2>3, <3>1, EndsAt
  <2>5. Len(sent') <= MaxLines /\ Len(handled) <= Len(sent')
    BY <1>1, <1>5, <1>6 DEF Write
  <2>6. UNCHANGED <<running, conn, received, lineBuffer, reader, handled>>
    BY DEF Write
  <2>7. QED BY <1>2, <1>6, <1>7, <1>8, <2>3, <2>4, <2>5, <2>6 DEF TypeOK
<1>12. LinesAsSent'
  <2>1. \A k \in 1 .. Len(handled) : k \in 1 .. n
    BY <1>5
  <2>2. QED BY <1>2, <1>5, <1>6, <2>1 DEF LinesAsSent, Write
<1>13. StreamIsLines'
  <2>1. Start(Len(sent) + 1)' = Len(stream')
    <3>1. Len(sent') + 1 # 1 /\ (Len(sent') + 1) - 1 = n + 1
      BY <1>5, <1>6
    <3>2. QED BY <1>7, <1>8, <3>1 DEF Start
  <2>2. ASSUME NEW k \in 1 .. n
        PROVE  /\ ends'[k] = Start(k)' + Len(sent'[k].text) + 1
               /\ ends'[k] <= Len(stream') /\ stream'[ends'[k]] = "nl"
               /\ \A p \in 1 .. Len(sent'[k].text) : stream'[Start(k)' + p] = sent'[k].text[p]
    <3>1. /\ ends[k] = Start(k) + Len(sent[k].text) + 1
          /\ stream[ends[k]] = "nl"
          /\ \A p \in 1 .. Len(sent[k].text) : stream[Start(k) + p] = sent[k].text[p]
      BY <1>1, <1>2 DEF StreamIsLines
    <3>2. ends[k] \in Nat /\ ends[k] <= size /\ Start(k) \in Nat /\ Len(sent[k].text) \in Nat
          /\ k \in 1 .. n + 1
      BY <1>5, <1>9
    <3>3. Start(k)' = Start(k) /\ ends'[k] = ends[k] /\ sent'[k] = sent[k]
      BY <1>6, <1>7, <1>10, <3>2
    <3>4. ends[k] \in 1 .. size
          /\ \A p \in 1 .. Len(sent[k].text) : Start(k) + p \in 1 .. size
      <4>1. PICK a, l, e : a = Start(k) /\ l = Len(sent[k].text) /\ e = ends[k]
        OBVIOUS
      <4>2. a \in Nat /\ l \in Nat /\ e = a + l + 1 /\ e <= size
        BY <3>1, <3>2, <4>1
      <4>3. e \in 1 .. size /\ \A p \in 1 .. l : a + p \in 1 .. size
        BY <1>5, <4>2
      <4>4. QED BY <4>1, <4>3
    <3>5. ends[k] <= Len(stream')
      BY <1>3, <1>5, <1>8, <3>2
    <3>6. QED BY <1>8, <3>1, <3>3, <3>4, <3>5
  <2>3. /\ ends'[n + 1] = Start(n + 1)' + Len(sent'[n + 1].text) + 1
        /\ ends'[n + 1] <= Len(stream') /\ stream'[ends'[n + 1]] = "nl"
        /\ \A p \in 1 .. Len(sent'[n + 1].text) :
              stream'[Start(n + 1)' + p] = sent'[n + 1].text[p]
    <3>1. Start(n + 1)' = size
      BY <1>5, <1>9, <1>10
    <3>2. Len(sent'[n + 1].text) = more
      BY <1>1, <1>6
    <3>3. ends'[n + 1] <= Len(stream')
      BY <1>3, <1>5, <1>7, <1>8
    <3>4. QED BY <1>6, <1>7, <1>8, <3>1, <3>2, <3>3
  <2>4. \A k \in 1 .. Len(sent') : k \in 1 .. n \/ k = n + 1
    BY <1>5, <1>6
  <2>5. ASSUME NEW j \in 1 .. Len(sent'), NEW k \in 1 .. Len(sent'), j < k
        PROVE  ends'[j] < ends'[k]
    <3>1. CASE k \in 1 .. n
      <4>1. j \in 1 .. n
        BY <1>5, <2>5, <3>1
      <4>2. ends[j] < ends[k]
        BY <1>2, <2>5, <3>1, <4>1, <1>1 DEF StreamIsLines
      <4>3. QED BY <1>7, <3>1, <4>1, <4>2
    <3>2. CASE k = n + 1
      <4>1. j \in 1 .. n
        BY <1>5, <2>4, <2>5, <3>2
      <4>2. ends'[j] = ends[j] /\ ends[j] \in Nat /\ ends[j] <= size
        BY <1>7, <1>9, <4>1
      <4>3. QED BY <1>3, <1>5, <1>7, <3>2, <4>2
    <3>3. QED BY <2>4, <3>1, <3>2
  <2>6. \A k \in 1 .. Len(sent') :
           /\ ends'[k] = Start(k)' + Len(sent'[k].text) + 1
           /\ ends'[k] <= Len(stream') /\ stream'[ends'[k]] = "nl"
           /\ \A p \in 1 .. Len(sent'[k].text) : stream'[Start(k)' + p] = sent'[k].text[p]
    BY <2>2, <2>3, <2>4
  <2>7. QED BY <2>1, <2>5, <2>6 DEF StreamIsLines
<1>14. BufferIsRest'
  <2>1. Len(handled) + 1 \in 1 .. n + 1
    BY <1>5
  <2>2. QED BY <1>2, <1>10, <2>1 DEF BufferIsRest, Write
<1>15. OnlyPartsStay'
  BY <1>2 DEF OnlyPartsStay, Write
<1>16. QED BY <1>11, <1>12, <1>13, <1>14, <1>15 DEF IInv

\* What is received is what follows in the stream.
LEMMA RecvIInv ==
    ASSUME IInv, Recv
    PROVE  IInv'
<1>1. TypeOK /\ LinesAsSent /\ StreamIsLines /\ BufferIsRest
  BY DEF IInv
<1>2. PICK n \in 1 .. RecvSize :
         /\ received + n <= Len(stream)
         /\ received' = received + n
         /\ lineBuffer' = lineBuffer \o SubSeq(stream, received + 1, received + n)
  BY DEF Recv
<1>3. reader' = "lines" /\ UNCHANGED <<running, conn, sent, stream, ends, handled>>
  BY DEF Recv, pool
<1>4. PICK b, r, size : b = Len(lineBuffer) /\ r = received /\ size = Len(stream)
  OBVIOUS
<1>5. b \in Nat /\ r \in Nat /\ size \in Nat /\ n \in Nat \ {0} /\ b <= r /\ r + n <= size
  BY <1>1, <1>2, <1>4 DEF TypeOK
<1>6. stream \in Seq(Bytes) /\ lineBuffer \in Seq(Bytes)
  BY <1>1 DEF TypeOK
<1>7. PICK more : more = SubSeq(stream, r + 1, r + n)
  OBVIOUS
<1>8. /\ more \in Seq(Bytes) /\ Len(more) = n
      /\ \A p \in 1 .. n : more[p] = stream[r + p]
  <2>1. \A p \in r + 1 .. r + n : stream[p] \in Bytes
    <3>1. \A p \in r + 1 .. r + n : p \in 1 .. size
      BY <1>5
    <3>2. QED BY <1>4, <1>6, <3>1, ElementOfSeq
  <2>2. r + 1 \in Int /\ r + n \in Int /\ r + 1 <= r + n /\ (r + n) - (r + 1) + 1 = n
        /\ \A p \in 1 .. n : (r + 1) + p - 1 = r + p
    BY <1>5
  <2>3. QED BY <1>7, <2>1, <2>2, SubSeqProperties
<1>9. /\ lineBuffer' \in Seq(Bytes) /\ Len(lineBuffer') = b + n
      /\ \A p \in 1 .. b + n : lineBuffer'[p] = IF p <= b THEN lineBuffer[p] ELSE more[p - b]
  <2>1. lineBuffer' = lineBuffer \o more
    BY <1>2, <1>4, <1>7
  <2>2. /\ lineBuffer \o more \in Seq(Bytes)
        /\ Len(lineBuffer \o more) = Len(lineBuffer) + Len(more)
        /\ \A p \in 1 .. Len(lineBuffer) + Len(more) :
              (lineBuffer \o more)[p] = IF p <= Len(lineBuffer) THEN lineBuffer[p]
                                        ELSE more[p - Len(lineBuffer)]
    BY <1>6, <1>8, ConcatProperties
  <2>3. QED BY <1>4, <1>8, <2>1, <2>2, Zenon
<1>10. received' = r + n /\ (r + n) - (b + n) = r - b
  BY <1>2, <1>4, <1>5
<1>11. \A p \in 1 .. b + n : lineBuffer'[p] = stream[(r - b) + p]
  <2> SUFFICES ASSUME NEW p \in 1 .. b + n PROVE lineBuffer'[p] = stream[(r - b) + p]
    OBVIOUS
  <2>1. CASE p <= b
    <3>1. p \in 1 .. b
      BY <1>5, <2>1
    <3>2. QED BY <1>1, <1>4, <1>9, <2>1, <3>1, BufferAt
  <2>2. CASE ~(p <= b)
    <3>1. p - b \in 1 .. n /\ r + (p - b) = (r - b) + p
      BY <1>5, <2>2
    <3>2. QED BY <1>8, <1>9, <2>2, <3>1
  <2>3. QED BY <2>1, <2>2
<1>12. TypeOK'
  <2>1. received' \in 0 .. Len(stream) /\ Len(lineBuffer') <= received'
    BY <1>4, <1>5, <1>9, <1>10
  <2>2. lineBuffer' = SubSeq(stream, received' - Len(lineBuffer') + 1, received')
    <3>1. \A p \in 1 .. Len(lineBuffer') :
             lineBuffer'[p] = stream[received' - Len(lineBuffer') + p]
      BY <1>9, <1>10, <1>11
    <3>2. QED BY <1>6, <1>9, <2>1, <3>1, EndsAt
  <2>3. QED BY <1>1, <1>3, <1>9, <2>1, <2>2 DEF TypeOK
<1>13. LinesAsSent' /\ StreamIsLines'
  BY <1>1, <1>3 DEF LinesAsSent, StreamIsLines, Start
<1>14. BufferIsRest'
  <2>1. received' - Len(lineBuffer') = received - Len(lineBuffer)
    BY <1>4, <1>9, <1>10
  <2>2. QED BY <1>1, <1>3, <2>1 DEF BufferIsRest, Start
<1>15. OnlyPartsStay'
  BY <1>3 DEF OnlyPartsStay
<1>16. QED BY <1>12, <1>13, <1>14, <1>15 DEF IInv

\* A line is handled, and the next one begins where the buffer does.
LEMMA NextLineIInv ==
    ASSUME IInv, NextLine
    PROVE  IInv'
<1>1. TypeOK /\ LinesAsSent /\ StreamIsLines
  BY DEF IInv
<1>2. PICK p \in DOMAIN lineBuffer :
         /\ FirstEnd(p)
         /\ handled' = Append(handled, Handled(ParseLine(SubSeq(lineBuffer, 1, p - 1))))
         /\ lineBuffer' = SubSeq(lineBuffer, p + 1, Len(lineBuffer))
  BY DEF NextLine
<1>3. reader = "lines" /\ UNCHANGED <<running, conn, sent, stream, ends, received, reader>>
  BY DEF NextLine, pool
<1>4. PICK k, b, r : k = Len(handled) + 1 /\ b = Len(lineBuffer) /\ r = received
  OBVIOUS
<1>5. /\ k \in 1 .. Len(sent) /\ ends[k] = r - b + p
      /\ SubSeq(lineBuffer, 1, p - 1) = sent[k].text
  BY <1>2, <1>4, NextInBuffer
<1>6. /\ b \in Nat /\ r \in 0 .. Len(stream) /\ b <= r /\ Len(stream) \in Nat
      /\ lineBuffer \in Seq(Bytes) /\ stream \in Seq(Bytes) /\ sent[k] \in Lines
      /\ handled \in Seq({Handled(l.value) : l \in Lines})
      /\ Len(handled) \in Nat /\ Len(sent) \in Nat
  BY <1>1, <1>4, <1>5, StartType DEF TypeOK
<1>7. p \in 1 .. b
  BY <1>4, <1>6
<1>8. /\ handled' \in Seq({Handled(l.value) : l \in Lines}) /\ Len(handled') = k
      /\ handled'[k] = Handled(sent[k].value)
      /\ \A j \in 1 .. k - 1 : handled'[j] = handled[j]
  <2>1. handled' = Append(handled, Handled(sent[k].value))
    BY <1>2, <1>5, <1>6
  <2>2. Handled(sent[k].value) \in {Handled(l.value) : l \in Lines}
    BY <1>6
  <2>3. k - 1 = Len(handled)
    BY <1>4, <1>6
  <2>4. QED BY <1>4, <1>6, <2>1, <2>2, <2>3, AppendProperties
<1>9. /\ lineBuffer' \in Seq(Bytes) /\ Len(lineBuffer') = b - p
      /\ \A q \in 1 .. b - p : lineBuffer'[q] = lineBuffer[p + q]
  <2>1. \A q \in p + 1 .. b : lineBuffer[q] \in Bytes
    <3>1. \A q \in p + 1 .. b : q \in 1 .. b
      BY <1>7
    <3>2. QED BY <1>4, <1>6, <3>1, ElementOfSeq
  <2>2. p + 1 \in Int /\ b \in Int /\ (IF p + 1 <= b THEN b - (p + 1) + 1 ELSE 0) = b - p
        /\ b - (p + 1) + 1 = b - p
        /\ \A q \in 1 .. b - p : (p + 1) + q - 1 = p + q
    <3>1. p \in Int /\ b \in Int /\ p <= b
      BY <1>6, <1>7
    <3>2. CASE p = b
      BY <3>1, <3>2
    <3>3. CASE p < b
      BY <3>1, <3>3
    <3>4. QED BY <3>1, <3>2, <3>3
  <2>3. QED BY <1>2, <1>4, <2>1, <2>2, SubSeqProperties
<1>10. TypeOK'
  <2>1. Len(lineBuffer') <= r
    BY <1>6, <1>7, <1>9
  <2>2. \A q \in 1 .. Len(lineBuffer') : lineBuffer'[q] = stream[r - Len(lineBuffer') + q]
    <3> SUFFICES ASSUME NEW q \in 1 .. b - p PROVE lineBuffer'[q] = stream[r - (b - p) + q]
      BY <1>9
    <3>1. p + q \in 1 .. b /\ r - b + (p + q) = r - (b - p) + q
      BY <1>6, <1>7
    <3>2. lineBuffer[p + q] = stream[r - b + (p + q)]
      BY <1>1, <1>4, <3>1, BufferAt
    <3>3. QED BY <1>9, <3>1, <3>2
  <2>3. lineBuffer' = SubSeq(stream, r - Len(lineBuffer') + 1, r)
    <3>1. lineBuffer' \in Seq(Bytes) /\ stream \in Seq(Bytes) /\ r \in 0 .. Len(stream)
      BY <1>6, <1>9
    <3>2. QED BY <2>1, <2>2, <3>1, EndsAt
  <2>4. Len(handled') <= Len(sent)
    BY <1>5, <1>8
  <2>5. QED BY <1>1, <1>3, <1>4, <1>8, <1>9, <2>1, <2>3, <2>4 DEF TypeOK
<1>11. LinesAsSent'
  <2>1. \A j \in 1 .. k : j \in 1 .. k - 1 \/ j = k
    BY <1>5
  <2>2. \A j \in 1 .. k - 1 : handled[j] = Handled(sent[j].value)
    BY <1>1, <1>4, <1>6 DEF LinesAsSent
  <2>3. Len(handled') <= Len(sent')
    BY <1>3, <1>5, <1>8
  <2>4. QED BY <1>3, <1>8, <2>1, <2>2, <2>3 DEF LinesAsSent
<1>12. StreamIsLines'
  BY <1>1, <1>3 DEF StreamIsLines, Start
<1>13. BufferIsRest'
  <2>1. r - (b - p) = ends[k]
    BY <1>5, <1>6, <1>7
  <2>2. k + 1 # 1 /\ (k + 1) - 1 = k
    BY <1>5
  <2>3. Start(k + 1)' = ends[k]
    BY <1>3, <2>2 DEF Start
  <2>4. QED BY <1>3, <1>4, <1>8, <1>9, <2>1, <2>3 DEF BufferIsRest
<1>14. OnlyPartsStay'
  BY <1>3 DEF OnlyPartsStay
<1>15. QED BY <1>10, <1>11, <1>12, <1>13, <1>14 DEF IInv

-----------------------------------------------------------------------------
(* The invariant.                                                           *)

\* A connection begins with nothing sent and nothing received.
LEMMA Empty ==
    ASSUME running \in BOOLEAN, conn \in 1 .. MaxConns, reader = "poll",
           sent = <<>>, stream = <<>>, ends = <<>>, lineBuffer = <<>>, handled = <<>>,
           received = 0
    PROVE  IInv
<1>1. Len(sent) = 0 /\ Len(stream) = 0 /\ Len(ends) = 0 /\ Len(lineBuffer) = 0
      /\ Len(handled) = 0
  OBVIOUS
<1>2. lineBuffer = SubSeq(stream, received - Len(lineBuffer) + 1, received)
  BY <1>1, SubSeqEmpty
<1>3. TypeOK
  BY <1>1, <1>2 DEF TypeOK
<1>4. LinesAsSent /\ StreamIsLines /\ BufferIsRest /\ OnlyPartsStay
  <2>1. Start(Len(sent) + 1) = 0 /\ Start(Len(handled) + 1) = 0
    BY <1>1 DEF Start
  <2>2. 1 .. Len(sent) = {} /\ 1 .. Len(handled) = {} /\ DOMAIN lineBuffer = {}
    BY <1>1
  <2>3. QED BY <1>1, <2>1, <2>2 DEF LinesAsSent, StreamIsLines, BufferIsRest, OnlyPartsStay
<1>5. QED BY <1>3, <1>4 DEF IInv

LEMMA InitIInv == Init => IInv
BY Empty DEF Init

LEMMA ReconnectIInv ==
    ASSUME IInv, Reconnect
    PROVE  IInv'
<1>1. conn' \in 1 .. MaxConns /\ running' \in BOOLEAN
  BY DEF IInv, TypeOK, Reconnect
<1>2. reader' = "poll" /\ sent' = <<>> /\ stream' = <<>> /\ ends' = <<>>
      /\ lineBuffer' = <<>> /\ handled' = <<>> /\ received' = 0
  BY DEF Reconnect
<1>3. /\ Len(sent') = 0 /\ Len(stream') = 0 /\ Len(ends') = 0 /\ Len(lineBuffer') = 0
      /\ Len(handled') = 0
  BY <1>2
<1>4. lineBuffer' = SubSeq(stream', received' - Len(lineBuffer') + 1, received')
  BY <1>2, <1>3, SubSeqEmpty
<1>5. TypeOK'
  BY <1>1, <1>2, <1>3, <1>4 DEF TypeOK
<1>6. LinesAsSent' /\ StreamIsLines' /\ BufferIsRest' /\ OnlyPartsStay'
  <2>1. Start(Len(sent) + 1)' = 0 /\ Start(Len(handled) + 1)' = 0
    BY <1>3 DEF Start
  <2>2. 1 .. Len(sent') = {} /\ 1 .. Len(handled') = {} /\ DOMAIN lineBuffer' = {}
    BY <1>2, <1>3
  <2>3. QED BY <1>2, <1>3, <2>1, <2>2 DEF LinesAsSent, StreamIsLines, BufferIsRest,
                                          OnlyPartsStay
<1>7. QED BY <1>5, <1>6 DEF IInv

LEMMA StepIInv == IInv /\ [Next]_vars => IInv'
<1> SUFFICES ASSUME IInv, [Next]_vars PROVE IInv'
  OBVIOUS
<1>1. running \in BOOLEAN /\ reader \in {"poll", "lines", "lost", "off"}
  BY DEF IInv, TypeOK
<1>2. ASSUME NEW line \in Lines, Write(line) PROVE IInv'
  BY <1>2, WriteIInv
<1>3. CASE Recv
  BY <1>3, RecvIInv
<1>4. CASE NextLine
  BY <1>4, NextLineIInv
<1>5. CASE NoMoreLines
  BY <1>1, <1>5, Idle DEF NoMoreLines
<1>6. CASE Lost
  BY <1>1, <1>6, Idle DEF Lost
<1>7. CASE Reconnect
  BY <1>7, ReconnectIInv
<1>8. CASE Stop
  BY <1>1, <1>8, Idle DEF Stop
<1>9. CASE Leave
  BY <1>1, <1>9, Idle DEF Leave
<1>10. CASE UNCHANGED vars
  BY <1>1, <1>10, Idle DEF vars, pool
<1>11. QED BY <1>2, <1>3, <1>4, <1>5, <1>6, <1>7, <1>8, <1>9, <1>10 DEF Next

LEMMA InvariantHolds == Spec => []IInv
  BY InitIInv, StepIInv, PTL DEF Spec

-----------------------------------------------------------------------------
\* Every variable has its type, and lineBuffer holds the end of what has been
\* received (StratumClient.cpp:505).
THEOREM TypeCorrect == Spec => []TypeOK
<1>1. IInv => TypeOK
  BY DEF IInv
<1>2. QED BY <1>1, InvariantHolds, PTL

\* Each handler gets the values of the lines of the present connection as the
\* pool meant them, in their order and not one twice (StratumClient.cpp:416-443,
\* 505-511).
THEOREM LinesInOrder == Spec => []LinesAsSent
<1>1. IInv => LinesAsSent
  BY DEF IInv
<1>2. QED BY <1>1, InvariantHolds, PTL

\* A thread that waits for more has handled every line that has arrived
\* (StratumClient.cpp:507-511).
THEOREM NothingWaits == Spec => []NoLineWaits
<1>1. IInv => NoLineWaits
  <2> SUFFICES ASSUME IInv, reader # "lines", NEW k \in 1 .. Len(sent)
               PROVE  k <= Len(handled) <=> ends[k] <= received
    BY DEF NoLineWaits
  <2>1. PICK b, r, h : b = Len(lineBuffer) /\ r = received /\ h = Len(handled)
    OBVIOUS
  <2>2. TypeOK /\ StreamIsLines /\ BufferIsRest /\ OnlyPartsStay
    BY DEF IInv
  <2>3. /\ b \in Nat /\ r \in Nat /\ b <= r /\ h \in Nat /\ h <= Len(sent)
        /\ lineBuffer \in Seq(Bytes) /\ Len(sent) \in Nat
    BY <2>1, <2>2 DEF TypeOK
  <2>4. r - b = Start(h + 1) /\ \A j \in 1 .. Len(sent) : ends[j] \in Nat
    BY <2>1, <2>2, StartType DEF BufferIsRest
  <2>5. ASSUME k <= h PROVE ends[k] <= r
    <3>1. h + 1 # 1 /\ (h + 1) - 1 = h /\ h \in 1 .. Len(sent)
      BY <2>3, <2>5
    <3>2. ends[h] = r - b
      BY <2>4, <3>1 DEF Start
    <3>3. ends[k] <= ends[h]
      BY <2>2, <2>4, <2>5, <3>1 DEF StreamIsLines
    <3>4. QED BY <2>3, <2>4, <3>1, <3>2, <3>3
  <2>6. ASSUME k > h PROVE ends[k] > r
    <3>1. h + 1 \in 1 .. Len(sent)
      BY <2>3, <2>6
    <3>2. Start(h + 1) \in Nat /\ ends[h + 1] \in Nat
          /\ ends[h + 1] = Start(h + 1) + Len(sent[h + 1].text) + 1
          /\ stream[ends[h + 1]] = "nl" /\ Len(sent[h + 1].text) \in Nat
      BY <2>2, <3>1, StartType, TextType DEF StreamIsLines
    <3>3. ends[h + 1] > r
      <4> SUFFICES ASSUME ends[h + 1] <= r PROVE FALSE
        BY <2>3, <3>2
      <4>1. PICK p : p = ends[h + 1] - (r - b)
        OBVIOUS
      <4>2. p \in 1 .. b /\ (r - b) + p = ends[h + 1]
        <5>1. PICK a, e, l : a = Start(h + 1) /\ e = ends[h + 1] /\ l = Len(sent[h + 1].text)
          OBVIOUS
        <5>2. a \in Nat /\ l \in Nat /\ e = a + l + 1 /\ e <= r /\ a = r - b /\ p = e - a
          BY <2>4, <3>2, <4>1, <5>1
        <5>3. p \in 1 .. b /\ (r - b) + p = e
          BY <2>3, <5>2
        <5>4. QED BY <5>1, <5>3
      <4>3. lineBuffer[p] = "nl"
        BY <2>1, <2>2, <3>2, <4>2, BufferAt
      <4>4. p \in DOMAIN lineBuffer
        BY <2>1, <2>3, <4>2
      <4>5. QED BY <2>2, <4>3, <4>4 DEF OnlyPartsStay
    <3>4. ends[h + 1] <= ends[k]
      BY <2>2, <2>3, <2>4, <2>6, <3>1 DEF StreamIsLines
    <3>5. QED BY <2>3, <2>4, <3>1, <3>3, <3>4
  <2>7. QED BY <2>1, <2>3, <2>4, <2>5, <2>6
<1>2. QED BY <1>1, InvariantHolds, PTL
-----------------------------------------------------------------------------
(* Lines of JSON.                                                           *)

\* A value of some depth is one of every greater depth.
LEMMA Deeper == \A n \in Nat : n + 1 \in 0 .. Depth => Values[n] \subseteq Values[n + 1]
<1> DEFINE S == {n \in Nat : n + 1 \in 0 .. Depth => Values[n] \subseteq Values[n + 1]}
<1>1. 0 \in S
  <2> SUFFICES ASSUME 0 + 1 \in 0 .. Depth PROVE Values[0] \subseteq Values[0 + 1]
    OBVIOUS
  <2>1. 0 + 1 \in 1 .. Depth
    OBVIOUS
  <2>2. QED BY <2>1, ValuesByDepth
<1>2. ASSUME NEW n \in Nat, n \in S PROVE n + 1 \in S
  <2> SUFFICES ASSUME (n + 1) + 1 \in 0 .. Depth PROVE Values[n + 1] \subseteq Values[(n + 1) + 1]
    OBVIOUS
  <2>1. PICK i \in 1 .. Depth, j \in 1 .. Depth : i = n + 1 /\ j = i + 1 /\ i - 1 = n /\ j - 1 = i
    BY DepthAssumption
  <2>2. Values[n] \subseteq Values[i]
    BY <1>2, <2>1
  <2>3. PICK U, V : U = Values[n] /\ V = Values[i] /\ U \subseteq V
    BY <2>2
  <2>4. Values[i] = Leaves \cup ({"array"} \X Seq(U)) \cup ({"object"} \X Members(Seq(Alphabet), U))
    BY <2>1, <2>3, ValuesByDepth, Zenon
  <2>5. Values[j] = Leaves \cup ({"array"} \X Seq(V)) \cup ({"object"} \X Members(Seq(Alphabet), V))
    BY <2>1, <2>3, ValuesByDepth, Zenon
  <2>6. Seq(U) \subseteq Seq(V)
    BY <2>3, SeqMonotonic
  <2>7. Members(Seq(Alphabet), U) \subseteq Members(Seq(Alphabet), V)
    <3>1. Seq(Alphabet) \X U \subseteq Seq(Alphabet) \X V
      BY <2>3
    <3>2. Seq(Seq(Alphabet) \X U) \subseteq Seq(Seq(Alphabet) \X V)
      BY <3>1, SeqMonotonic
    <3>3. QED BY <3>2, Zenon DEF Members
  <2>8. Values[i] \subseteq Values[j]
    BY <2>4, <2>5, <2>6, <2>7
  <2>9. QED BY <2>1, <2>8
<1>3. QED
  <2>1. Nat \subseteq S
    <3>1. \A n \in Nat : n \in S => n + 1 \in S
      BY <1>2
    <3> HIDE DEF S
    <3>2. QED BY <1>1, <3>1, SetInduction
  <2>2. QED BY <2>1

\* What a handler gets is no deeper than the message.
LEMMA ArgumentInValues ==
    ASSUME NEW v \in Values[Depth]
    PROVE  Argument(v) \in Values[Depth]
<1>1. CASE Handler(v) = "handleResponse"
  BY <1>1 DEF Argument
<1>2. CASE Handler(v) # "handleResponse"
  <2>1. Type(v) = "object"
    BY <1>2 DEF Handler, Has
  <2>2. v \notin Leaves
    BY <2>1, LeafTypes
  <2>3. Depth \in 1 .. Depth /\ Depth - 1 \in Nat /\ (Depth - 1) + 1 \in 0 .. Depth
    <3>1. Depth # 0
      BY <2>2, ValuesByDepth
    <3>2. QED BY <3>1, DepthAssumption
  <2>4. PICK V : V = Values[Depth - 1]
    OBVIOUS
  <2>5. Values[Depth] = Leaves \cup ({"array"} \X Seq(V))
                               \cup ({"object"} \X Members(Seq(Alphabet), V))
    BY <2>3, <2>4, ValuesByDepth, Zenon
  <2>6. V \subseteq Values[Depth]
    <3>1. (Depth - 1) + 1 = Depth
      BY DepthAssumption
    <3>2. Values[Depth - 1] \subseteq Values[(Depth - 1) + 1]
      BY <2>3, Deeper
    <3>3. QED BY <2>4, <3>1, <3>2
  <2>7. PICK m \in Members(Seq(Alphabet), V) : v = <<"object", m>>
    <3>1. v \notin {"array"} \X Seq(V)
      BY <2>1 DEF Type
    <3>2. QED BY <2>2, <2>5, <3>1
  <2>8. CASE Has(v, <<"params">>)
    <3>1. PICK i \in DOMAIN m : /\ Get(v, <<"params">>) = m[i][2]
      BY <2>7, <2>8 DEF Has, Get
    <3>2. m \in Seq(Seq(Alphabet) \X V)
      BY DEF Members
    <3>3. m[i][2] \in V
      BY <3>1, <3>2
    <3>4. Argument(v) = m[i][2]
      BY <1>2, <2>8, <3>1 DEF Argument
    <3>5. QED BY <2>6, <3>3, <3>4
  <2>9. CASE ~Has(v, <<"params">>)
    <3>1. Argument(v) = <<"array", <<>>>>
      BY <1>2, <2>9 DEF Argument, Array
    <3>2. <<>> \in Seq(V)
      OBVIOUS
    <3>3. QED BY <2>5, <3>1, <3>2
  <2>10. QED BY <2>8, <2>9
<1>3. QED BY <1>1, <1>2

LEMMA NoBlanks == <<>> \in Blanks /\ <<"sp">> \in Blanks
BY One DEF Blanks

\* A line is the text of a value, or neither an object, an array nor a string.
LEMMA LineOf ==
    ASSUME NEW line \in Lines
    PROVE  \/ Type(line.value) \notin {"object", "array", "string"}
           \/ \E v \in Values[Depth], b \in Blanks : line.text = Text(b)[Depth][v] /\ line.value = v
<1>1. line \in JsonLines
  BY LinesAssumption
<1>2. CASE \E v \in Messages, b \in {<<>>, <<"sp">>} :
               line = [text |-> Text(b)[Depth][v], value |-> v]
  <2>1. PICK v \in Messages, b \in {<<>>, <<"sp">>} :
           line = [text |-> Text(b)[Depth][v], value |-> v]
    BY <1>2
  <2>2. v \in Values[Depth]
    BY MessagesAssumption
  <2>3. b \in Blanks
    BY NoBlanks
  <2>4. line.text = Text(b)[Depth][v] /\ line.value = v
    BY <2>1
  <2>5. QED BY <2>2, <2>3, <2>4
<1>3. CASE line \in Others
  BY <1>3, OthersAssumption
<1>4. QED BY <1>1, <1>2, <1>3 DEF JsonLines, MessageLines

\* A part of an object, an array or a string, as the buffer holds it between two
\* calls of recv(), is no value (MiniJson.cpp:95-159, StratumClient.cpp:505-511).
THEOREM PartsIgnored == Spec => []PartsAreMalformed
<1>1. IInv => PartsAreMalformed
  <2> SUFFICES ASSUME IInv, NEW k \in 1 .. Len(sent), k = Len(handled) + 1,
                      Len(lineBuffer) < Len(sent[k].text),
                      Type(sent[k].value) \in {"object", "array", "string"}
               PROVE  Parse(lineBuffer) = Malformed
    BY DEF PartsAreMalformed
  <2>1. TypeOK /\ StreamIsLines /\ BufferIsRest
    BY DEF IInv
  <2>2. sent[k] \in Lines
    BY <2>1, StartType
  <2>3. PICK v \in Values[Depth], b \in Blanks :
           sent[k].text = Text(b)[Depth][v] /\ sent[k].value = v
    BY <2>2, LineOf
  <2>4. PICK x \in Seq(Alphabet) : x = Text(b)[Depth][v] /\ x = sent[k].text
    BY <2>3, TextSymbols DEF Worded
  <2>5. PICK n \in Nat : n = Len(lineBuffer) /\ n < Len(x)
    BY <2>1, <2>4, BufferAt
  <2>6. \A i \in 1 .. n : lineBuffer[i] = x[i]
    <3>1. received - n = Start(k)
      BY <2>1, <2>5 DEF BufferIsRest
    <3>2. \A i \in 1 .. n : lineBuffer[i] = stream[Start(k) + i]
      BY <2>1, <2>5, <3>1, BufferAt
    <3>3. \A i \in 1 .. Len(x) : stream[Start(k) + i] = x[i]
      BY <2>1, <2>4 DEF StreamIsLines
    <3>4. \A i \in 1 .. n : i \in 1 .. Len(x)
      BY <2>5
    <3>5. QED BY <3>2, <3>3, <3>4
  <2>7. PICK t \in Seq(Alphabet) : t = lineBuffer
    <3>1. lineBuffer \in Seq(Bytes)
      BY <2>1, BufferAt
    <3>2. \A i \in 1 .. n : lineBuffer[i] \in Alphabet
      <4> TAKE i \in 1 .. n
      <4>1. i \in 1 .. Len(x)
        BY <2>5
      <4>2. QED BY <2>6, <4>1
    <3>3. lineBuffer \in Seq(Alphabet)
      BY <2>5, <3>1, <3>2
    <3>4. QED BY <3>3
  <2>8. /\ Type(v) # "number" /\ Len(t) < Len(Text(b)[Depth][v])
        /\ \A i \in 1 .. Len(t) : t[i] = Text(b)[Depth][v][i]
    BY <2>3, <2>4, <2>5, <2>6, <2>7
  <2>9. QED BY <2>7, <2>8, PartMalformed
<1>2. QED BY <1>1, InvariantHolds, PTL

-----------------------------------------------------------------------------
(* Shares.                                                                  *)

\* What is in a string and in an array.
LEMMA StringPair ==
    ASSUME NEW v \in Values[Depth], Type(v) = "string"
    PROVE  v[2] \in Seq(Alphabet) /\ Str(v[2]) = v
<1>1. v \in Leaves
  <2>1. CASE Depth = 0
    BY <2>1, ValuesByDepth
  <2>2. CASE Depth # 0
    <3>1. Depth \in 1 .. Depth
      BY <2>2, DepthAssumption
    <3>2. PICK V : V = Values[Depth - 1]
      OBVIOUS
    <3>3. v \in Leaves \cup ({"array"} \X Seq(V)) \cup ({"object"} \X Members(Seq(Alphabet), V))
      BY <3>1, <3>2, ValuesByDepth, Zenon
    <3>4. QED BY <3>3 DEF Type
  <2>3. QED BY <2>1, <2>2
<1>2. v = False \/ v \in {"number"} \X Exact \/ v \in {"string"} \X Seq(Alphabet)
  BY <1>1, Zenon DEF Leaves
<1>3. PICK s \in Seq(Alphabet) : v = <<"string", s>>
  <2>1. v[1] = "string"
    BY DEF Type
  <2>2. v # False
    <3>1. False[1] = "bool"
      BY DEF False
    <3>2. QED BY <2>1, <3>1
  <2>3. v \notin {"number"} \X Exact
    BY <2>1
  <2>4. QED BY <1>2, <2>2, <2>3
<1>4. QED BY <1>3 DEF Str

LEMMA PartsOfValues ==
    ASSUME NEW v \in Values[Depth]
    PROVE  /\ Type(v) = "array" => v[2] \in Seq(Values[Depth])
           /\ AsString(v) \in Seq(Alphabet)
<1>1. ASSUME Type(v) = "string" PROVE v[2] \in Seq(Alphabet)
  BY <1>1, StringPair
<1>2. ASSUME Type(v) = "array" PROVE v[2] \in Seq(Values[Depth])
  <2>1. v \notin Leaves
    BY <1>2, LeafTypes
  <2>2. Depth \in 1 .. Depth /\ Depth - 1 \in Nat /\ (Depth - 1) + 1 = Depth
    <3>1. Depth # 0
      BY <2>1, ValuesByDepth
    <3>2. QED BY <3>1, DepthAssumption
  <2>3. PICK V : V = Values[Depth - 1]
    OBVIOUS
  <2>4. v \in Leaves \cup ({"array"} \X Seq(V)) \cup ({"object"} \X Members(Seq(Alphabet), V))
    BY <2>2, <2>3, ValuesByDepth, Zenon
  <2>5. v[2] \in Seq(V)
    BY <1>2, <2>1, <2>4 DEF Type
  <2>6. V \subseteq Values[Depth]
    <3>1. Values[Depth - 1] \subseteq Values[(Depth - 1) + 1]
      BY <2>2, Deeper
    <3>2. QED BY <2>2, <2>3, <3>1
  <2>7. Seq(V) \subseteq Seq(Values[Depth])
    BY <2>6, SeqMonotonic
  <2>8. QED BY <2>5, <2>7
<1>3. QED BY <1>1, <1>2 DEF AsString

\* A request for a share is a value that is not too deep.
LEMMA SubmitIsValue ==
    ASSUME NEW params, params \in Values[Depth], IsJob(params)
    PROVE  /\ Submit(params) \in Values[Depth]
           /\ Get(Submit(params), <<"params">>)[2][2] = Str(AsString(params[2][1]))
<1>1. PICK id \in Seq(Alphabet) : id = JobId(params) /\ id = AsString(params[2][1])
  <2>1. params[2] \in Seq(Values[Depth]) /\ 1 \in 1 .. Len(params[2])
    BY PartsOfValues DEF IsJob
  <2>2. params[2][1] \in Values[Depth]
    BY <2>1
  <2>3. QED BY <2>2, PartsOfValues DEF JobId
<1>2. \A s \in Seq(Alphabet) : Str(s) \in Leaves
  BY DEF Str, Leaves
<1>3. PICK ps \in Seq(Leaves) : ps = ShareParams(params) /\ ps[2] = Str(id)
  <2>1. User \in Seq(Alphabet) /\ Hex \in Seq(Alphabet)
    BY ShareAssumption
  <2>2. PICK u \in Leaves, h \in Leaves, i \in Leaves :
           u = Str(User) /\ h = Str(Hex) /\ i = Str(JobId(params))
    BY <1>1, <1>2, <2>1
  <2>3. CASE HasBlob(params)
    <3>1. ShareParams(params) = <<Str(User), Str(JobId(params)), Str(Hex)>>
      BY <2>3, Zenon DEF ShareParams
    <3>2. ShareParams(params) = <<u, i, h>>
      BY <2>2, <3>1, Zenon
    <3>3. PICK ps \in Seq(Leaves) : ps = <<u, i, h>> /\ ps[2] = i
      <4>1. <<u, i, h>> \in Seq(Leaves) /\ <<u, i, h>>[2] = i
        OBVIOUS
      <4>2. QED BY <4>1
    <3>4. QED BY <1>1, <2>2, <3>2, <3>3
  <2>4. CASE ~HasBlob(params)
    <3>1. JobTime(params) \in Seq(Alphabet)
      <4>1. CASE Len(params[2]) = 7
        BY <2>1, <4>1 DEF JobTime
      <4>2. CASE Len(params[2]) # 7
        <5>1. params[2] \in Seq(Values[Depth]) /\ 8 \in 1 .. Len(params[2])
          BY <4>2, PartsOfValues DEF IsJob
        <5>2. params[2][8] \in Values[Depth]
          BY <5>1
        <5>3. QED BY <4>2, <5>2, PartsOfValues DEF JobTime
      <4>3. QED BY <4>1, <4>2
    <3>2. PICK w \in Leaves : w = Str(JobTime(params))
      BY <1>2, <3>1
    <3>3. ShareParams(params) =
            <<Str(User), Str(JobId(params)), Str(Hex), Str(JobTime(params)), Str(Hex)>>
      BY <2>4, Zenon DEF ShareParams
    <3>4. ShareParams(params) = <<u, i, h, w, h>>
      BY <2>2, <3>2, <3>3, Zenon
    <3>5. PICK ps \in Seq(Leaves) : ps = <<u, i, h, w, h>> /\ ps[2] = i
      <4>1. <<u, i, h, w, h>> \in Seq(Leaves) /\ <<u, i, h, w, h>>[2] = i
        OBVIOUS
      <4>2. QED BY <4>1
    <3>6. QED BY <1>1, <2>2, <3>4, <3>5
  <2>5. QED BY <2>3, <2>4
<1>4. PICK V, U : /\ V = Values[Depth - 1] /\ U = Values[(Depth - 1) - 1]
                  /\ Leaves \subseteq U /\ Leaves \subseteq V
                  /\ {"array"} \X Seq(U) \subseteq V
                  /\ {"object"} \X Members(Seq(Alphabet), V) \subseteq Values[Depth]
  <2>1. Depth \in 1 .. Depth /\ Depth - 1 \in 1 .. Depth /\ (Depth - 1) - 1 \in 0 .. Depth
    BY DepthAssumption, ShareAssumption
  <2>2. Leaves \subseteq Values[(Depth - 1) - 1]
    <3>1. CASE (Depth - 1) - 1 = 0
      BY <3>1, ValuesByDepth
    <3>2. CASE (Depth - 1) - 1 # 0
      <4>1. PICK n \in 1 .. Depth : n = (Depth - 1) - 1
        BY <2>1, <3>2
      <4>2. QED BY <4>1, ValuesByDepth
    <3>3. QED BY <3>1, <3>2
  <2>3. PICK V, U : V = Values[Depth - 1] /\ U = Values[(Depth - 1) - 1]
    OBVIOUS
  <2>4. V = Leaves \cup ({"array"} \X Seq(U)) \cup ({"object"} \X Members(Seq(Alphabet), U))
    BY <2>1, <2>3, ValuesByDepth, Zenon
  <2>5. Values[Depth] = Leaves \cup ({"array"} \X Seq(V))
                               \cup ({"object"} \X Members(Seq(Alphabet), V))
    BY <2>1, <2>3, ValuesByDepth, Zenon
  <2>6. QED BY <2>2, <2>3, <2>4, <2>5
<1>5. PICK a \in V : a = Array(ps)
  <2>1. ps \in Seq(U)
    <3>1. Seq(Leaves) \subseteq Seq(U)
      BY <1>4, SeqMonotonic
    <3>2. QED BY <3>1
  <2>2. Array(ps) \in {"array"} \X Seq(U)
    BY <2>1 DEF Array
  <2>3. QED BY <1>4, <2>2
<1>6. PICK n \in V, s \in V : n = Number(ShareId) /\ s = Str(<<"submit">>)
  <2>1. Number(ShareId) \in Leaves
    BY ShareAssumption DEF Number, Leaves
  <2>2. "submit" \in Alphabet
    BY ShareAssumption DEF Alphabet
  <2>3. <<"submit">> \in Seq(Alphabet)
    BY <2>2
  <2>4. QED BY <1>2, <1>4, <2>1, <2>3
<1>7. PICK k \in Seq(Alphabet), l \in Seq(Alphabet), o \in Seq(Alphabet) :
         /\ k = <<"id">> /\ l = <<"method">> /\ o = <<"params">>
         /\ k # l /\ k # o /\ l # o
  <2>1. "id" \in Alphabet /\ "method" \in Alphabet /\ "params" \in Alphabet
    BY ShareAssumption DEF Alphabet
  <2>2. PICK k \in Seq(Alphabet), l \in Seq(Alphabet), o \in Seq(Alphabet) :
           k = <<"id">> /\ l = <<"method">> /\ o = <<"params">>
    <3>1. <<"id">> \in Seq(Alphabet) /\ <<"method">> \in Seq(Alphabet)
      BY <2>1, One
    <3>2. <<"params">> \in Seq(Alphabet)
      BY <2>1, One
    <3>3. QED BY <3>1, <3>2
  <2>3. k[1] = "id" /\ l[1] = "method" /\ o[1] = "params"
    BY <2>2
  <2>4. k # l /\ k # o /\ l # o
    BY <2>3
  <2>5. QED BY <2>2, <2>4
<1>8. PICK m : m = << <<k, n>>, <<l, s>>, <<o, a>> >>
  OBVIOUS
<1>9. Submit(params) = Object(m)
  BY <1>3, <1>5, <1>6, <1>7, <1>8 DEF Submit
<1>10. m \in Members(Seq(Alphabet), V)
  <2>1. m \in Seq(Seq(Alphabet) \X V) /\ DOMAIN m = 1 .. 3
    BY <1>8
  <2>2. m[1][1] = k /\ m[2][1] = l /\ m[3][1] = o
    BY <1>8
  <2>3. \A i, j \in 1 .. 3 : m[i][1] = m[j][1] => i = j
    BY <1>7, <2>2
  <2>4. QED BY <2>1, <2>3 DEF Members
<1>11. Submit(params) \in Values[Depth]
  BY <1>4, <1>9, <1>10 DEF Object
<1>12. Get(Submit(params), <<"params">>) = a
  <2>1. 3 \in DOMAIN m /\ m[3][1] = <<"params">> /\ m[3][2] = a
    BY <1>7, <1>8
  <2>2. \A j \in DOMAIN m : m[j][1] = m[3][1] => j = 3
    BY <1>10, <2>1, Zenon DEF Members
  <2>3. QED BY <1>9, <2>1, <2>2, GetMember
<1>13. a[2][2] = Str(AsString(params[2][1]))
  BY <1>1, <1>3, <1>5 DEF Array
<1>14. QED BY <1>11, <1>12, <1>13

\* A share of a job that the pool has announced goes out as one line, which reads
\* as the request and names the job as the pool did, if by a string, whatever
\* there is in it (MiniJson.cpp:47-61, 197-230, StratumClient.cpp:230-279,
\* 302-345).
THEOREM SharesNameJobs == Spec => []SharesNameTheirJob
<1>1. IInv => SharesNameTheirJob
  <2> SUFFICES ASSUME IInv, NEW k \in 1 .. Len(handled),
                      handled[k][1] = "handleNotify", IsJob(handled[k][2]),
                      NEW job, job = sent[k].value,
                      NEW name, name = Get(job, <<"params">>)[2][1],
                      NEW t, t = Dump(Submit(handled[k][2]))
               PROVE  /\ \A i \in DOMAIN t : t[i] # "nl"
                      /\ Parse(t) = Submit(handled[k][2])
                      /\ Get(Parse(t), <<"params">>)[2][2] =
                           IF Type(name) = "string" THEN name ELSE Str(<<>>)
    BY DEF SharesNameTheirJob
  <2>1. handled[k] = Handled(job) /\ sent[k] \in Lines
    <3>1. TypeOK /\ LinesAsSent
      BY DEF IInv
    <3>2. Len(handled) <= Len(sent) /\ Len(handled) \in Nat /\ Len(sent) \in Nat
      BY <3>1, StartType DEF LinesAsSent
    <3>3. k \in 1 .. Len(sent)
      BY <3>2
    <3>4. QED BY <3>1, <3>3, StartType DEF LinesAsSent
  <2>2. job # Malformed
    BY <2>1 DEF Handled
  <2>3. handled[k][2] = Argument(job) /\ Handler(job) = "handleNotify"
    BY <2>1, <2>2 DEF Handled
  <2>4. Type(job) = "object"
    BY <2>3 DEF Handler, Has
  <2>5. job \in Values[Depth]
    BY <2>1, <2>4, LineOf
  <2>6. PICK w \in Values[Depth] : w = Argument(job) /\ w = handled[k][2] /\ IsJob(w)
    BY <2>3, <2>5, ArgumentInValues
  <2>7. w = Get(job, <<"params">>)
    <3>1. CASE Has(job, <<"params">>)
      BY <2>3, <2>6, <3>1 DEF Argument
    <3>2. CASE ~Has(job, <<"params">>)
      <4>1. w = <<"array", <<>>>>
        BY <2>3, <2>6, <3>2 DEF Argument, Array
      <4>2. Len(w[2]) = 0
        BY <4>1
      <4>3. QED BY <2>6, <4>2 DEF IsJob
    <3>3. QED BY <3>1, <3>2
  <2>8. PICK v \in Values[Depth] :
           v = Submit(w) /\ Get(v, <<"params">>)[2][2] = Str(AsString(w[2][1]))
    BY <2>6, SubmitIsValue
  <2>9. PICK x \in Seq(Alphabet) : x = Text(<<>>)[Depth][v]
    BY NoBlanks, TextSymbols DEF Worded
  <2>10. t = x
    BY <2>6, <2>8, <2>9 DEF Dump
  <2>11. \A i \in 1 .. Len(x) : x[i] # "nl"
    BY <2>9, NoBlanks, TextIsOneLine
  <2>12. Parse(x) = v
    BY <2>9, NoBlanks, ValueReadsBack
  <2>13. DOMAIN x = 1 .. Len(x)
    OBVIOUS
  <2>14. Str(AsString(name)) = IF Type(name) = "string" THEN name ELSE Str(<<>>)
    <3>1. name = w[2][1]
      BY <2>7
    <3>2. name \in Values[Depth]
      <4>1. Type(w) = "array" /\ (Len(w[2]) = 7 \/ Len(w[2]) >= 9)
        BY <2>6, Zenon DEF IsJob
      <4>2. PICK ps \in Seq(Values[Depth]) : ps = w[2]
        BY <4>1, PartsOfValues
      <4>3. PICK n \in Nat : n = Len(ps) /\ (n = 7 \/ n >= 9)
        <5>1. Len(ps) \in Nat
          OBVIOUS
        <5>2. Len(ps) = 7 \/ Len(ps) >= 9
          BY <4>1, <4>2
        <5>3. QED BY <5>1, <5>2
      <4>4. 1 \in 1 .. n
        BY <4>3
      <4>5. ps[1] \in Values[Depth]
        BY <4>3, <4>4
      <4>6. QED BY <3>1, <4>2, <4>5
    <3>3. ASSUME Type(name) = "string" PROVE Str(name[2]) = name
      BY <3>2, <3>3, StringPair
    <3>4. QED BY <3>3 DEF AsString
  <2>15. w[2][1] = name
    BY <2>7
  <2>16. QED BY <2>6, <2>8, <2>10, <2>11, <2>12, <2>13, <2>14, <2>15
<1>2. QED BY <1>1, InvariantHolds, PTL
=============================================================================
