----------------------------- MODULE Text_proofs -----------------------------
(***************************************************************************)
(* Proofs about the edit algorithm, for texts, inserted strings and        *)
(* transactions of any length over any characters; about line endings, for *)
(* files of any length; about merged cells, for tables of any size; and    *)
(* about the settings of Kmark comments, for documents of any depth.       *)
(*                                                                         *)
(* The algorithms are recursive over their data. Induction over numbers    *)
(* (Induction) comes from the well-founded order of the naturals, and with *)
(* it follows that recursive functions have the values their equations     *)
(* say (Recursion, SameSteps). Rewriting is the argument about sequences:  *)
(* while the ranges are spliced from right to left, the rope is a part of  *)
(* the text from the start, and behind it what is written from left to     *)
(* right in the end. Characters become code units by UnitsConcat and       *)
(* UnitsOfPart. Files are read and written piece by piece, and pieces read *)
(* and write as they do alone (FlattenConcat, ReadConcat, WriteConcat).    *)
(* Settings are overlaid, the last that says something counts, and what    *)
(* says nothing may be left out (OverlayConcat, OverlayLoud).              *)
(***************************************************************************)
EXTENDS TextEditing, LineEndings, Tables, KmarkScopes, SequenceTheorems, FiniteSetTheorems, WellFoundedInduction, TLAPS

-----------------------------------------------------------------------------
(* Recursive functions *)

\* Induction over the numbers, for a set of them.
LEMMA Induction ==
  ASSUME NEW S, 0 \in S, \A n \in Nat : n \in S => n + 1 \in S
  PROVE  Nat \subseteq S
<1> DEFINE Less == {p \in Nat \X Nat : p[1] < p[2]}
           Rest == Nat \ S
<1> SUFFICES ASSUME Rest # {} PROVE FALSE
  OBVIOUS
<1>1. IsWellFoundedOn(Less, Nat)
  BY NatLessThanWellFounded, Zenon DEF OpToRel
<1>2. PICK n \in Rest : \A m \in Rest : <<m, n>> \notin Less
  <2> HIDE DEF Less
  <2>1. Rest \subseteq Nat
    OBVIOUS
  <2> HIDE DEF Rest
  <2> QED
    BY <1>1, <2>1, WFMin
<1>3. n \in Nat /\ n # 0
  OBVIOUS
<1>4. n - 1 \in Nat /\ n - 1 < n
  BY <1>3
<1>5. <<n - 1, n>> \in Less
  BY <1>3, <1>4
<1>6. n - 1 \in S
  BY <1>2, <1>4, <1>5
<1>7. (n - 1) + 1 \in S
  BY <1>4, <1>6
<1> QED
  BY <1>3, <1>7

\* The functions a base and a step from one number to the next define.
Defined(T, N, base, step) ==
  {f \in [0 .. N -> T] : f[0] = base /\ \A n \in 1 .. N : f[n] = step[n][f[n - 1]]}

LEMMA Recursion ==
  ASSUME NEW T, NEW N \in Nat, NEW base \in T, NEW step \in [1 .. N -> [T -> T]]
  PROVE  Defined(T, N, base, step) # {}
<1> DEFINE Upto(m) ==
      \E f \in [0 .. m -> T] : f[0] = base /\ \A n \in 1 .. m : f[n] = step[n][f[n - 1]]
    S == {m \in Nat : m <= N => Upto(m)}
<1>1. 0 \in S
  <2> DEFINE f == [n \in 0 .. 0 |-> base]
  <2>1. f \in [0 .. 0 -> T] /\ f[0] = base /\ 1 .. 0 = {}
    OBVIOUS
  <2> HIDE DEF f
  <2>2. Upto(0)
    BY <2>1
  <2> QED
    BY <2>2
<1>2. ASSUME NEW m \in Nat, m \in S
      PROVE  m + 1 \in S
  <2> SUFFICES ASSUME m + 1 <= N PROVE Upto(m + 1)
    OBVIOUS
  <2>1. PICK f \in [0 .. m -> T] : f[0] = base /\ \A n \in 1 .. m : f[n] = step[n][f[n - 1]]
    BY <1>2
  <2>2. m + 1 \in 1 .. N /\ f[m] \in T
    OBVIOUS
  <2>3. step[m + 1][f[m]] \in T
    BY <2>2
  <2>4. PICK v \in T : v = step[m + 1][f[m]]
    BY <2>3
  <2> DEFINE g == [n \in 0 .. m + 1 |-> IF n = m + 1 THEN v ELSE f[n]]
  <2>5. g \in [0 .. m + 1 -> T] /\ g[0] = base
    BY <2>1
  <2>6. ASSUME NEW n \in 1 .. m + 1 PROVE g[n] = step[n][g[n - 1]]
    <3>1. CASE n = m + 1
      BY <2>4, <3>1
    <3>2. CASE n # m + 1
      BY <2>1, <3>2
    <3> QED
      BY <3>1, <3>2
  <2> HIDE DEF g
  <2> QED
    BY <2>5, <2>6
<1>3. N \in S
  <2> HIDE DEF S
  <2> QED
    BY <1>1, <1>2, Induction
<1> QED
  BY <1>3 DEF Defined

-----------------------------------------------------------------------------
(* Offsets and code units *)

LEMMA OffsetsOf ==
  ASSUME NEW text \in Seq(Chars)
  PROVE  /\ Utf16Offsets(text) \in [0 .. Len(text) -> Nat]
         /\ Utf16Offsets(text)[0] = 0
         /\ \A k \in 1 .. Len(text) :
              Utf16Offsets(text)[k] = Utf16Offsets(text)[k - 1] + Width(text[k])
<1> DEFINE N == Len(text)
           step == [k \in 1 .. N |-> [n \in Nat |-> n + Width(text[k])]]
           Is(f) == f = [k \in 0 .. N |-> IF k = 0 THEN 0 ELSE f[k - 1] + Width(text[k])]
<1>1. N \in Nat
  OBVIOUS
<1>2. step \in [1 .. N -> [Nat -> Nat]]
  BY DEF Width
<1>3. PICK f \in [0 .. N -> Nat] : f[0] = 0 /\ \A n \in 1 .. N : f[n] = step[n][f[n - 1]]
  <2> HIDE DEF N, step
  <2>1. Defined(Nat, N, 0, step) # {}
    BY <1>1, <1>2, Recursion
  <2> QED
    BY <2>1 DEF Defined
<1>4. \A n \in 1 .. N : f[n] = f[n - 1] + Width(text[n])
  <2>1. ASSUME NEW n \in 1 .. N PROVE f[n] = f[n - 1] + Width(text[n])
    <3>1. f[n - 1] \in Nat
      OBVIOUS
    <3> QED
      BY <1>3, <3>1
  <2> QED
    BY <2>1
<1>5. Is(f)
  BY <1>3, <1>4
<1>6. Utf16Offsets(text) = CHOOSE g : Is(g)
  BY DEF Utf16Offsets
<1>7. Is(Utf16Offsets(text))
  BY <1>5, <1>6
<1> DEFINE g == Utf16Offsets(text)
<1>8. /\ DOMAIN g = 0 .. N /\ g[0] = 0
      /\ \A k \in 1 .. N : g[k] = g[k - 1] + Width(text[k])
  BY <1>1, <1>7
<1>9. g \in [0 .. N -> Nat]
  <2> DEFINE S == {k \in Nat : k <= N => g[k] \in Nat}
  <2>1. 0 \in S /\ \A k \in Nat : k \in S => k + 1 \in S
    BY <1>8 DEF Width
  <2>2. Nat \subseteq S
    <3> HIDE DEF S
    <3> QED
      BY <2>1, Induction
  <2> QED
    BY <1>7, <1>8, <2>2
<1> QED
  BY <1>8, <1>9

Unit == Chars \X {1, 2}

LEMMA UnitsOfType ==
  ASSUME NEW c \in Chars
  PROVE  UnitsOf(c) \in Seq(Unit) /\ Len(UnitsOf(c)) = Width(c)
BY DEF UnitsOf, Width, Unit

LEMMA UnitsUptoOf ==
  ASSUME NEW text \in Seq(Chars)
  PROVE  /\ UnitsUpto(text) \in [0 .. Len(text) -> Seq(Unit)]
         /\ UnitsUpto(text)[0] = << >>
         /\ \A k \in 1 .. Len(text) :
              UnitsUpto(text)[k] = UnitsUpto(text)[k - 1] \o UnitsOf(text[k])
<1> DEFINE N == Len(text)
           step == [k \in 1 .. N |-> [u \in Seq(Unit) |-> u \o UnitsOf(text[k])]]
           Is(f) == f = [k \in 0 .. N |-> IF k = 0 THEN << >> ELSE f[k - 1] \o UnitsOf(text[k])]
<1>1. N \in Nat /\ \A k \in 1 .. N : text[k] \in Chars
  OBVIOUS
<1>2. step \in [1 .. N -> [Seq(Unit) -> Seq(Unit)]]
  <2>1. ASSUME NEW k \in 1 .. N, NEW u \in Seq(Unit)
        PROVE  u \o UnitsOf(text[k]) \in Seq(Unit)
    <3> HIDE DEF N
    <3>1. UnitsOf(text[k]) \in Seq(Unit)
      BY <1>1, UnitsOfType
    <3> QED
      BY <3>1, ConcatProperties
  <2> QED
    BY <2>1
<1>3. PICK f \in [0 .. N -> Seq(Unit)] : f[0] = << >> /\ \A n \in 1 .. N : f[n] = step[n][f[n - 1]]
  <2>1. << >> \in Seq(Unit)
    OBVIOUS
  <2> HIDE DEF N, step
  <2>2. Defined(Seq(Unit), N, << >>, step) # {}
    BY <1>1, <1>2, <2>1, Recursion
  <2> QED
    BY <2>2 DEF Defined
<1>4. \A n \in 1 .. N : f[n] = f[n - 1] \o UnitsOf(text[n])
  <2>1. ASSUME NEW n \in 1 .. N PROVE f[n] = f[n - 1] \o UnitsOf(text[n])
    <3>1. f[n - 1] \in Seq(Unit)
      OBVIOUS
    <3> QED
      BY <1>3, <3>1
  <2> QED
    BY <2>1
<1>5. Is(f)
  <2>1. f = [k \in 0 .. N |-> f[k]]
    OBVIOUS
  <2>2. ASSUME NEW k \in 0 .. N
        PROVE  f[k] = IF k = 0 THEN << >> ELSE f[k - 1] \o UnitsOf(text[k])
    <3>1. CASE k = 0
      BY <1>3, <3>1
    <3>2. CASE k # 0
      <4>1. k \in 1 .. N
        BY <3>2
      <4> QED
        BY <1>4, <3>2, <4>1
    <3> QED
      BY <3>1, <3>2
  <2> QED
    BY <2>1, <2>2, Zenon
<1>6. UnitsUpto(text) = CHOOSE g : Is(g)
  BY DEF UnitsUpto
<1> DEFINE g == UnitsUpto(text)
<1>7. g = [k \in 0 .. N |-> IF k = 0 THEN << >> ELSE g[k - 1] \o UnitsOf(text[k])]
  BY <1>5, <1>6, Zenon
<1> HIDE DEF g
<1>8. g[0] = << >> /\ \A k \in 1 .. N : g[k] = g[k - 1] \o UnitsOf(text[k])
  <2>1. 0 \in 0 .. N /\ \A k \in 1 .. N : k \in 0 .. N /\ k # 0
    BY <1>1
  <2> HIDE DEF N
  <2> QED
    BY <1>7, <2>1, Zenon
<1>9. g = f
  <2> DEFINE S == {k \in Nat : k <= N => g[k] = f[k]}
  <2>1. 0 \in S
    BY <1>3, <1>8
  <2>2. ASSUME NEW k \in Nat, k \in S PROVE k + 1 \in S
    <3> SUFFICES ASSUME k + 1 <= N PROVE g[k + 1] = f[k + 1]
      OBVIOUS
    <3>1. g[k] = f[k] /\ k + 1 \in 1 .. N /\ (k + 1) - 1 = k
      BY <2>2
    <3> QED
      BY <1>4, <1>8, <3>1
  <2>3. Nat \subseteq S
    <3> HIDE DEF S
    <3> QED
      BY <2>1, <2>2, Induction
  <2>4. \A k \in 0 .. N : g[k] = f[k]
    BY <2>3
  <2>5. f = [k \in 0 .. N |-> f[k]] /\ g = [k \in 0 .. N |-> g[k]]
    <3>1. DOMAIN g = 0 .. N
      BY <1>7
    <3> QED
      BY <1>7
  <2> HIDE DEF N
  <2> QED
    BY <2>4, <2>5
<1> QED
  BY <1>8, <1>9 DEF g

\* Later characters have later offsets.
LEMMA OffsetsGrow ==
  ASSUME NEW text \in Seq(Chars)
  PROVE  \A j, k \in 0 .. Len(text) : j < k => Utf16Offsets(text)[j] < Utf16Offsets(text)[k]
<1> DEFINE g == Utf16Offsets(text)
           N == Len(text)
           S == {k \in Nat : k <= N => \A j \in 0 .. N : j < k => g[j] < g[k]}
<1>1. /\ N \in Nat /\ g \in [0 .. N -> Nat]
      /\ \A k \in 1 .. N : g[k] = g[k - 1] + Width(text[k])
  BY OffsetsOf
<1> HIDE DEF g, N
<1>2. 0 \in S
  BY <1>1
<1>3. ASSUME NEW k \in Nat, k \in S PROVE k + 1 \in S
  <2> SUFFICES ASSUME k + 1 <= N, NEW j \in 0 .. N, j < k + 1 PROVE g[j] < g[k + 1]
    OBVIOUS
  <2>1. k \in 0 .. N /\ k + 1 \in 1 .. N /\ (k + 1) - 1 = k
    BY <1>1
  <2>2. g[k + 1] = g[k] + Width(text[k + 1])
    BY <1>1, <2>1
  <2>3. Width(text[k + 1]) \in {1, 2} /\ g[k] \in Nat /\ g[j] \in Nat
    BY <1>1, <2>1 DEF Width
  <2>4. CASE j = k
    BY <2>2, <2>3, <2>4
  <2>5. CASE j # k
    <3>1. g[j] < g[k]
      BY <1>1, <1>3, <2>1, <2>5
    <3> QED
      BY <2>2, <2>3, <3>1
  <2> QED
    BY <2>4, <2>5
<1>4. Nat \subseteq S
  <2> HIDE DEF S
  <2> QED
    BY <1>2, <1>3, Induction
<1>5. \A j, k \in 0 .. N : j < k => g[j] < g[k]
  BY <1>1, <1>4
<1> QED
  BY <1>5 DEF g, N

\* The offset of a character is the number of code units before it.
LEMMA UnitsLength ==
  ASSUME NEW text \in Seq(Chars)
  PROVE  \A k \in 0 .. Len(text) : Len(UnitsUpto(text)[k]) = Utf16Offsets(text)[k]
<1> DEFINE g == Utf16Offsets(text)
           u == UnitsUpto(text)
           N == Len(text)
           S == {k \in Nat : k <= N => Len(u[k]) = g[k]}
<1>1. /\ N \in Nat /\ g[0] = 0
      /\ \A k \in 1 .. N : g[k] = g[k - 1] + Width(text[k])
  BY OffsetsOf
<1>2. /\ u \in [0 .. N -> Seq(Unit)] /\ u[0] = << >>
      /\ \A k \in 1 .. N : u[k] = u[k - 1] \o UnitsOf(text[k])
  BY UnitsUptoOf
<1>3. \A k \in 1 .. N : text[k] \in Chars
  OBVIOUS
<1> HIDE DEF g, u, N
<1>4. 0 \in S
  BY <1>1, <1>2
<1>5. ASSUME NEW k \in Nat, k \in S PROVE k + 1 \in S
  <2> SUFFICES ASSUME k + 1 <= N PROVE Len(u[k + 1]) = g[k + 1]
    OBVIOUS
  <2>1. k \in 0 .. N /\ k + 1 \in 1 .. N /\ (k + 1) - 1 = k
    BY <1>1
  <2>2. g[k + 1] = g[k] + Width(text[k + 1]) /\ u[k + 1] = u[k] \o UnitsOf(text[k + 1])
    BY <1>1, <1>2, <2>1
  <2>3. u[k] \in Seq(Unit) /\ Len(u[k]) = g[k]
    BY <1>2, <1>5, <2>1
  <2>4. UnitsOf(text[k + 1]) \in Seq(Unit) /\ Len(UnitsOf(text[k + 1])) = Width(text[k + 1])
    BY <1>3, <2>1, UnitsOfType
  <2>5. Len(u[k] \o UnitsOf(text[k + 1])) = Len(u[k]) + Len(UnitsOf(text[k + 1]))
    BY <2>3, <2>4, ConcatProperties, Zenon
  <2> QED
    BY <2>2, <2>3, <2>4, <2>5
<1>6. Nat \subseteq S
  <2> HIDE DEF S
  <2> QED
    BY <1>4, <1>5, Induction
<1>7. \A k \in 0 .. N : Len(u[k]) = g[k]
  BY <1>1, <1>6
<1> QED
  BY <1>7 DEF g, u, N

\* What a text is up to a place is all that its offsets and code units up to there are of.
LEMMA PrefixesAgree ==
  ASSUME NEW s \in Seq(Chars), NEW t \in Seq(Chars), NEW n \in Nat,
         n <= Len(s), n <= Len(t), \A i \in 1 .. n : s[i] = t[i]
  PROVE  Utf16Offsets(s)[n] = Utf16Offsets(t)[n] /\ UnitsUpto(s)[n] = UnitsUpto(t)[n]
<1> DEFINE gs == Utf16Offsets(s)
           gt == Utf16Offsets(t)
           us == UnitsUpto(s)
           ut == UnitsUpto(t)
           S == {k \in Nat : k <= n => gs[k] = gt[k] /\ us[k] = ut[k]}
<1>1. /\ gs[0] = 0 /\ us[0] = << >>
      /\ \A k \in 1 .. Len(s) : gs[k] = gs[k - 1] + Width(s[k]) /\ us[k] = us[k - 1] \o UnitsOf(s[k])
  BY OffsetsOf, UnitsUptoOf
<1>2. /\ gt[0] = 0 /\ ut[0] = << >>
      /\ \A k \in 1 .. Len(t) : gt[k] = gt[k - 1] + Width(t[k]) /\ ut[k] = ut[k - 1] \o UnitsOf(t[k])
  BY OffsetsOf, UnitsUptoOf
<1>3. Len(s) \in Nat /\ Len(t) \in Nat
  OBVIOUS
<1> HIDE DEF gs, gt, us, ut
<1>4. 0 \in S
  BY <1>1, <1>2
<1>5. ASSUME NEW k \in Nat, k \in S PROVE k + 1 \in S
  <2> SUFFICES ASSUME k + 1 <= n PROVE gs[k + 1] = gt[k + 1] /\ us[k + 1] = ut[k + 1]
    OBVIOUS
  <2>1. /\ k + 1 \in 1 .. Len(s) /\ k + 1 \in 1 .. Len(t) /\ k + 1 \in 1 .. n
        /\ (k + 1) - 1 = k
    BY <1>3
  <2>2. s[k + 1] = t[k + 1] /\ gs[k] = gt[k] /\ us[k] = ut[k]
    BY <1>5, <2>1
  <2>3. gs[k + 1] = gs[k] + Width(s[k + 1]) /\ us[k + 1] = us[k] \o UnitsOf(s[k + 1])
    BY <1>1, <2>1
  <2>4. gt[k + 1] = gt[k] + Width(t[k + 1]) /\ ut[k + 1] = ut[k] \o UnitsOf(t[k + 1])
    BY <1>2, <2>1
  <2> QED
    BY <2>2, <2>3, <2>4
<1>6. Nat \subseteq S
  <2> HIDE DEF S
  <2> QED
    BY <1>4, <1>5, Induction
<1> QED
  BY <1>6 DEF gs, gt, us, ut

Associates(a, b, c) == (a \o b) \o c = a \o (b \o c)

LEMMA Association ==
  ASSUME NEW S, NEW a \in Seq(S), NEW b \in Seq(S), NEW c \in Seq(S)
  PROVE  Associates(a, b, c)
BY ConcatAssociative DEF Associates

\* The code units of two texts, one behind the other.
LEMMA UnitsConcat ==
  ASSUME NEW s \in Seq(Chars), NEW t \in Seq(Chars)
  PROVE  Units(s \o t) = Units(s) \o Units(t)
<1> DEFINE st == s \o t
           u == UnitsUpto(st)
           ut == UnitsUpto(t)
           us == Units(s)
           N == Len(t)
           M == Len(s)
           S == {k \in Nat : k <= N => u[M + k] = us \o ut[k]}
<1>1. /\ M \in Nat /\ N \in Nat /\ st \in Seq(Chars) /\ Len(st) = M + N
      /\ \A i \in 1 .. M : st[i] = s[i]
      /\ \A i \in 1 .. N : st[M + i] = t[i]
  OBVIOUS
<1> HIDE DEF st
<1>2. \A k \in 1 .. M + N : u[k] = u[k - 1] \o UnitsOf(st[k])
  BY <1>1, UnitsUptoOf
<1>3. /\ ut \in [0 .. N -> Seq(Unit)] /\ ut[0] = << >>
      /\ \A k \in 1 .. N : ut[k] = ut[k - 1] \o UnitsOf(t[k])
  BY UnitsUptoOf
<1>4. us \in Seq(Unit) /\ u[M] = us
  <2>0. M \in Nat /\ M <= Len(st) /\ M <= Len(s) /\ \A i \in 1 .. M : st[i] = s[i]
    BY <1>1
  <2>1. UnitsUpto(st)[M] = UnitsUpto(s)[M]
    <3> HIDE DEF M
    <3> QED
      BY <1>1, <2>0, PrefixesAgree
  <2>2. UnitsUpto(s)[M] \in Seq(Unit)
    <3>1. UnitsUpto(s) \in [0 .. Len(s) -> Seq(Unit)]
      BY UnitsUptoOf
    <3>2. M \in 0 .. Len(s)
      BY <2>0
    <3> HIDE DEF M
    <3> QED
      BY <3>1, <3>2
  <2> QED
    BY <2>1, <2>2 DEF Units
<1>5. \A k \in 1 .. N : UnitsOf(t[k]) \in Seq(Unit)
  BY UnitsOfType
<1> HIDE DEF u, ut, us, M, N
<1>6. 0 \in S
  <2>1. us \o << >> = us
    BY <1>4, ConcatEmptySeq, Zenon
  <2>2. M + 0 = M
    BY <1>1
  <2>3. u[M + 0] = us \o ut[0]
    BY <1>3, <1>4, <2>1, <2>2
  <2> QED
    BY <2>3
<1>7. ASSUME NEW k \in Nat, k \in S PROVE k + 1 \in S
  <2> SUFFICES ASSUME k + 1 <= N PROVE u[M + (k + 1)] = us \o ut[k + 1]
    OBVIOUS
  <2>1. /\ k \in 0 .. N /\ k + 1 \in 1 .. N /\ (k + 1) - 1 = k
        /\ M + (k + 1) \in 1 .. M + N /\ (M + (k + 1)) - 1 = M + k
    BY <1>1
  <2>2. u[M + (k + 1)] = u[M + k] \o UnitsOf(st[M + (k + 1)])
    BY <1>2, <2>1
  <2>3. st[M + (k + 1)] = t[k + 1]
    BY <1>1, <2>1
  <2>4. ut[k + 1] = ut[k] \o UnitsOf(t[k + 1]) /\ ut[k] \in Seq(Unit)
    BY <1>3, <2>1
  <2>5. u[M + k] = us \o ut[k]
    BY <1>7, <2>1
  <2>6. (us \o ut[k]) \o UnitsOf(t[k + 1]) = us \o (ut[k] \o UnitsOf(t[k + 1]))
    <3>1. us \in Seq(Unit) /\ ut[k] \in Seq(Unit) /\ UnitsOf(t[k + 1]) \in Seq(Unit)
      BY <1>4, <1>5, <2>1, <2>4
    <3>2. Associates(us, ut[k], UnitsOf(t[k + 1]))
      BY <3>1, Association, Zenon
    <3> QED
      BY <3>2, Zenon DEF Associates
  <2> QED
    BY <2>2, <2>3, <2>4, <2>5, <2>6
<1>8. Nat \subseteq S
  <2> HIDE DEF S
  <2> QED
    BY <1>6, <1>7, Induction
<1>9. u[M + N] = us \o ut[N]
  <2>1. N \in S
    <3> HIDE DEF S
    <3> QED
      BY <1>1, <1>8
  <2> QED
    BY <1>1, <2>1
<1> QED
  BY <1>1, <1>9 DEF Units, u, us, ut, N, M, st

-----------------------------------------------------------------------------
(* Parts of sequences *)

LEMMA Piece ==
  ASSUME NEW S, NEW s \in Seq(S), NEW m \in Nat, NEW k \in Nat, m <= k, k <= Len(s)
  PROVE  /\ SubSeq(s, m + 1, k) \in Seq(S) /\ Len(SubSeq(s, m + 1, k)) = k - m
         /\ \A i \in 1 .. k - m : SubSeq(s, m + 1, k)[i] = s[m + i]
<1>1. \A i \in m + 1 .. k : s[i] \in S
  BY ElementOfSeq
<1>2. /\ SubSeq(s, m + 1, k) \in Seq(S)
      /\ Len(SubSeq(s, m + 1, k)) = IF m + 1 <= k THEN k - (m + 1) + 1 ELSE 0
      /\ \A i \in 1 .. k - (m + 1) + 1 : SubSeq(s, m + 1, k)[i] = s[(m + 1) + i - 1]
  BY <1>1, SubSeqProperties
<1> QED
  BY <1>2

LEMMA FirstPiece ==
  ASSUME NEW S, NEW s \in Seq(S), NEW k \in Nat, k <= Len(s)
  PROVE  /\ SubSeq(s, 1, k) \in Seq(S) /\ Len(SubSeq(s, 1, k)) = k
         /\ \A i \in 1 .. k : SubSeq(s, 1, k)[i] = s[i]
<1>1. \A i \in 1 .. k : s[i] \in S
  BY ElementOfSeq
<1>2. /\ SubSeq(s, 1, k) \in Seq(S)
      /\ Len(SubSeq(s, 1, k)) = IF 1 <= k THEN k - 1 + 1 ELSE 0
      /\ \A i \in 1 .. k - 1 + 1 : SubSeq(s, 1, k)[i] = s[1 + i - 1]
  BY <1>1, SubSeqProperties
<1> QED
  BY <1>2

LEMMA TwoPieces ==
  ASSUME NEW S, NEW s \in Seq(S), NEW m \in Nat, NEW k \in Nat, m <= k, k <= Len(s)
  PROVE  SubSeq(s, 1, k) = SubSeq(s, 1, m) \o SubSeq(s, m + 1, k)
<1>1. PICK whole \in Seq(S) : whole = SubSeq(s, 1, k)
  BY FirstPiece
<1>0. m <= Len(s)
  BY LenProperties
<1>2. PICK first \in Seq(S) : first = SubSeq(s, 1, m)
  BY <1>0, FirstPiece
<1>3. PICK second \in Seq(S) : second = SubSeq(s, m + 1, k)
  BY Piece
<1>4. Len(whole) = k /\ \A i \in 1 .. k : whole[i] = s[i]
  BY <1>1, FirstPiece
<1>5. /\ Len(first) = m /\ \A i \in 1 .. m : first[i] = s[i]
      /\ Len(second) = k - m /\ \A i \in 1 .. k - m : second[i] = s[m + i]
  <2>1. Len(first) = m /\ \A i \in 1 .. m : first[i] = s[i]
    BY <1>0, <1>2, FirstPiece
  <2>2. Len(second) = k - m /\ \A i \in 1 .. k - m : second[i] = s[m + i]
    BY <1>3, Piece
  <2> QED
    BY <2>1, <2>2
<1>6. /\ first \o second \in Seq(S) /\ Len(first \o second) = k
      /\ \A i \in 1 .. k : (first \o second)[i] = IF i <= m THEN first[i] ELSE second[i - m]
  <2>1. /\ first \o second \in Seq(S) /\ Len(first \o second) = Len(first) + Len(second)
        /\ \A i \in 1 .. Len(first) + Len(second) :
              (first \o second)[i] = IF i <= Len(first) THEN first[i] ELSE second[i - Len(first)]
    BY ConcatProperties, Zenon
  <2>2. Len(first) = m /\ Len(second) = k - m /\ m + (k - m) = k
    BY <1>5
  <2>3. Len(first) + Len(second) = k
    BY <2>2
  <2> QED
    BY <2>1, <2>2, <2>3, Zenon
<1>7. PICK both \in Seq(S) : both = first \o second
  BY <1>6
<1>8. ASSUME NEW i \in 1 .. k PROVE whole[i] = both[i]
  <2>0. both[i] = (IF i <= m THEN first[i] ELSE second[i - m]) /\ whole[i] = s[i]
    BY <1>4, <1>6, <1>7
  <2>1. CASE i <= m
    <3>1. i \in 1 .. m
      BY <2>1
    <3> QED
      BY <1>5, <2>0, <2>1, <3>1
  <2>2. CASE i > m
    <3>1. i - m \in 1 .. k - m /\ m + (i - m) = i /\ ~ (i <= m)
      BY <2>2
    <3> QED
      BY <1>5, <2>0, <3>1
  <2> QED
    BY <2>1, <2>2
<1>9. whole = both
  BY <1>4, <1>6, <1>7, <1>8, SeqEqual
<1> QED
  BY <1>1, <1>2, <1>3, <1>7, <1>9

LEMMA MiddlePiece ==
  ASSUME NEW S, NEW a \in Seq(S), NEW b \in Seq(S), NEW c \in Seq(S)
  PROVE  SubSeq((a \o b) \o c, Len(a) + 1, Len(a) + Len(b)) = b
<1>1. /\ a \o b \in Seq(S) /\ Len(a \o b) = Len(a) + Len(b)
      /\ \A i \in 1 .. Len(a) + Len(b) : (a \o b)[i] = IF i <= Len(a) THEN a[i] ELSE b[i - Len(a)]
  BY ConcatProperties
<1>2. PICK ab \in Seq(S) : ab = a \o b
  BY <1>1
<1>3. /\ ab \o c \in Seq(S) /\ Len(ab \o c) = Len(ab) + Len(c)
      /\ \A i \in 1 .. Len(ab) + Len(c) : (ab \o c)[i] = IF i <= Len(ab) THEN ab[i] ELSE c[i - Len(ab)]
  BY ConcatProperties
<1>4. PICK abc \in Seq(S) : abc = ab \o c
  BY <1>3
<1>5. PICK la \in Nat, lb \in Nat, lc \in Nat : la = Len(a) /\ lb = Len(b) /\ lc = Len(c)
  BY LenProperties
<1>6. Len(abc) = la + lb + lc /\ \A i \in 1 .. lb : abc[la + i] = b[i]
  <2>1. Len(ab) = la + lb
    BY <1>1, <1>2, <1>5
  <2>2. ASSUME NEW i \in 1 .. lb PROVE abc[la + i] = b[i]
    <3>1. /\ la + i \in 1 .. la + lb /\ ~ (la + i <= la) /\ (la + i) - la = i
          /\ la + i <= la + lb /\ la + i \in 1 .. (la + lb) + lc
      OBVIOUS
    <3>2. ab[la + i] = b[i]
      BY <1>1, <1>2, <1>5, <3>1
    <3> QED
      BY <1>3, <1>4, <1>5, <2>1, <3>1, <3>2
  <2> QED
    BY <1>3, <1>4, <1>5, <2>1, <2>2
<1>7. /\ SubSeq(abc, la + 1, la + lb) \in Seq(S) /\ Len(SubSeq(abc, la + 1, la + lb)) = (la + lb) - la
      /\ \A i \in 1 .. (la + lb) - la : SubSeq(abc, la + 1, la + lb)[i] = abc[la + i]
  <2>1. PICK k \in Nat : k = la + lb
    OBVIOUS
  <2>2. la <= k /\ k <= Len(abc)
    BY <1>6, <2>1
  <2>3. /\ SubSeq(abc, la + 1, k) \in Seq(S) /\ Len(SubSeq(abc, la + 1, k)) = k - la
        /\ \A i \in 1 .. k - la : SubSeq(abc, la + 1, k)[i] = abc[la + i]
    BY <2>2, Piece
  <2> QED
    BY <2>1, <2>3
<1>8. PICK part \in Seq(S) : part = SubSeq(abc, la + 1, la + lb)
  BY <1>7
<1>9. Len(part) = lb /\ \A i \in 1 .. lb : part[i] = b[i]
  <2>1. (la + lb) - la = lb
    OBVIOUS
  <2>2. Len(part) = lb /\ \A i \in 1 .. lb : part[i] = abc[la + i]
    BY <1>7, <1>8, <2>1
  <2> QED
    BY <1>6, <2>2
<1>10. part = b
  BY <1>5, <1>9, SeqEqual
<1> QED
  BY <1>2, <1>4, <1>5, <1>8, <1>10

-----------------------------------------------------------------------------
(* Code units of parts of a text *)

LEMMA UnitsOfPrefix ==
  ASSUME NEW text \in Seq(Chars), NEW k \in Nat, k <= Len(text)
  PROVE  Units(SubSeq(text, 1, k)) = UnitsUpto(text)[k]
<1>2. PICK s \in Seq(Chars) : s = SubSeq(text, 1, k)
  BY FirstPiece
<1>3. Len(s) = k /\ \A i \in 1 .. k : s[i] = text[i]
  BY <1>2, FirstPiece
<1>4. UnitsUpto(s)[k] = UnitsUpto(text)[k]
  BY <1>3, PrefixesAgree
<1> QED
  BY <1>2, <1>3, <1>4 DEF Units

LEMMA UnitsType ==
  ASSUME NEW text \in Seq(Chars)
  PROVE  Units(text) \in Seq(Unit) /\ Len(Units(text)) = Utf16Len(text)
<1>0. Len(text) \in Nat
  OBVIOUS
<1>1. Len(text) \in 0 .. Len(text)
  BY <1>0
<1>9. UnitsUpto(text) \in [0 .. Len(text) -> Seq(Unit)]
  BY UnitsUptoOf
<1>2. Units(text) \in Seq(Unit)
  BY <1>1, <1>9, Zenon DEF Units
<1>3. Len(Units(text)) = Utf16Len(text)
  BY <1>1, UnitsLength DEF Units, Utf16Len
<1> QED
  BY <1>2, <1>3

\* The code units of a part of a text are those between its offsets.
LEMMA UnitsOfPart ==
  ASSUME NEW text \in Seq(Chars), NEW m \in Nat, NEW k \in Nat, m <= k, k <= Len(text)
  PROVE  Units(SubSeq(text, m + 1, k))
           = SubSeq(Units(text), Utf16Offsets(text)[m] + 1, Utf16Offsets(text)[k])
<1>1. Len(text) \in Nat
  OBVIOUS
<1>2. PICK n \in Nat : n = Len(text)
  BY <1>1
<1>3. /\ SubSeq(text, 1, m) \in Seq(Chars) /\ SubSeq(text, 1, k) \in Seq(Chars)
      /\ SubSeq(text, m + 1, k) \in Seq(Chars) /\ SubSeq(text, k + 1, n) \in Seq(Chars)
  BY <1>2, FirstPiece, Piece
<1> DEFINE p == SubSeq(text, 1, m)
           q == SubSeq(text, m + 1, k)
           r == SubSeq(text, k + 1, n)
           pq == SubSeq(text, 1, k)
<1>4. pq = p \o q
  BY TwoPieces
<1>5. text = pq \o r
  <2>1. SubSeq(text, 1, n) = SubSeq(text, 1, k) \o SubSeq(text, k + 1, n)
    <3>1. k <= n /\ n <= Len(text)
      BY <1>2
    <3> QED
      BY <3>1, TwoPieces
  <2>2. SubSeq(text, 1, n) = text
    BY <1>2, SubSeqFull
  <2> QED
    BY <2>1, <2>2
<1>30. p \in Seq(Chars) /\ q \in Seq(Chars) /\ r \in Seq(Chars) /\ pq \in Seq(Chars)
  BY <1>3
<1>31. Units(p) = UnitsUpto(text)[m] /\ Units(pq) = UnitsUpto(text)[k]
  BY UnitsOfPrefix
<1> HIDE DEF p, q, r, pq
<1>6. Units(text) = (Units(p) \o Units(q)) \o Units(r)
  <2>1. Units(text) = Units(pq) \o Units(r)
    BY <1>5, <1>30, UnitsConcat
  <2>2. Units(pq) = Units(p) \o Units(q)
    BY <1>4, <1>30, UnitsConcat
  <2> QED
    BY <2>1, <2>2
<1>7. Units(p) \in Seq(Unit) /\ Units(q) \in Seq(Unit) /\ Units(r) \in Seq(Unit)
  BY <1>30, UnitsType
<1>8. Len(Units(p)) = Utf16Offsets(text)[m]
  <2>1. Units(p) = UnitsUpto(text)[m]
    BY <1>31
  <2>2. m \in 0 .. Len(text)
    BY <1>1
  <2> QED
    BY <2>1, <2>2, UnitsLength
<1>9. Len(Units(p)) + Len(Units(q)) = Utf16Offsets(text)[k]
  <2>1. Units(pq) = UnitsUpto(text)[k]
    BY <1>31
  <2>2. k \in 0 .. Len(text)
    BY <1>1
  <2>3. Len(Units(pq)) = Utf16Offsets(text)[k]
    BY <2>1, <2>2, UnitsLength
  <2>4. Units(pq) = Units(p) \o Units(q)
    BY <1>4, <1>30, UnitsConcat
  <2> QED
    BY <1>7, <2>3, <2>4, ConcatProperties
<1>10. PICK up, uq, ur \in Seq(Unit) : up = Units(p) /\ uq = Units(q) /\ ur = Units(r)
  BY <1>7
<1>11. SubSeq((up \o uq) \o ur, Len(up) + 1, Len(up) + Len(uq)) = uq
  BY MiddlePiece
<1>12. SubSeq(Units(text), Utf16Offsets(text)[m] + 1, Utf16Offsets(text)[k]) = Units(q)
  BY <1>6, <1>8, <1>9, <1>10, <1>11
<1> QED
  BY <1>12 DEF q

-----------------------------------------------------------------------------
(* Replacing ranges of a sequence *)

LEMMA TwoParts ==
  ASSUME NEW S, NEW a \in Seq(S), NEW b \in Seq(S)
  PROVE  /\ SubSeq(a \o b, 1, Len(a)) = a
         /\ SubSeq(a \o b, Len(a) + 1, Len(a \o b)) = b
<1>1. << >> \in Seq(S) /\ Len(<< >>) = 0
  OBVIOUS
<1>2. PICK e \in Seq(S) : e = << >>
  BY <1>1
<1>3. Len(a) \in Nat /\ Len(b) \in Nat
  OBVIOUS
<1>4. PICK ab \in Seq(S) : ab = a \o b
  BY ConcatProperties
<1>5. Len(ab) = Len(a) + Len(b)
  BY <1>4, ConcatProperties
<1>6. e \o a = a /\ ab \o e = ab
  BY <1>2, ConcatEmptySeq
<1>7. SubSeq((e \o a) \o b, Len(e) + 1, Len(e) + Len(a)) = a
  BY MiddlePiece
<1>8. SubSeq((a \o b) \o e, Len(a) + 1, Len(a) + Len(b)) = b
  BY MiddlePiece
<1>9. Len(e) + 1 = 1 /\ Len(e) + Len(a) = Len(a)
  BY <1>1, <1>2, <1>3
<1> QED
  BY <1>4, <1>5, <1>6, <1>7, <1>8, <1>9

\* A splice of a sequence in pieces.
SplicedInPieces(x, m, z, insert) ==
  Splice((x \o m) \o z, Len(x), Len(x \o m), insert) = x \o (insert \o z)

LEMMA SpliceInPieces ==
  ASSUME NEW S, NEW x \in Seq(S), NEW m \in Seq(S), NEW z \in Seq(S), NEW insert \in Seq(S)
  PROVE  SplicedInPieces(x, m, z, insert)
<1>1. (x \o m) \o z = x \o (m \o z)
  BY ConcatAssociative
<1>2. (x \o insert) \o z = x \o (insert \o z)
  BY ConcatAssociative
<1>3. PICK xm \in Seq(S) : xm = x \o m
  BY ConcatProperties
<1>4. PICK mz \in Seq(S) : mz = m \o z
  BY ConcatProperties
<1>5. SubSeq(x \o mz, 1, Len(x)) = x
  BY TwoParts
<1>6. SubSeq(xm \o z, Len(xm) + 1, Len(xm \o z)) = z
  BY TwoParts
<1> QED
  BY <1>1, <1>2, <1>3, <1>4, <1>5, <1>6 DEF Splice, SplicedInPieces

\* A splice within the part of a text that is still in front of a rope.
SplicedInFront(text, tail, insert, a, b, p) ==
  Splice(SubSeq(text, 1, p) \o tail, a, b, insert)
    = SubSeq(text, 1, a) \o (insert \o (SubSeq(text, b + 1, p) \o tail))

LEMMA SpliceInFront ==
  ASSUME NEW S, NEW text \in Seq(S), NEW tail \in Seq(S), NEW insert \in Seq(S),
         NEW a \in Nat, NEW b \in Nat, NEW p \in Nat, a <= b, b <= p, p <= Len(text)
  PROVE  SplicedInFront(text, tail, insert, a, b, p)
<1>0. a <= p /\ a <= Len(text) /\ b <= Len(text)
  BY LenProperties
<1> DEFINE x == SubSeq(text, 1, a)
           m == SubSeq(text, a + 1, b)
           y == SubSeq(text, b + 1, p)
           xm == SubSeq(text, 1, b)
           h == SubSeq(text, 1, p)
           z == y \o tail
<1>1. x \in Seq(S) /\ m \in Seq(S) /\ y \in Seq(S) /\ xm \in Seq(S)
  BY <1>0, FirstPiece, Piece
<1>2. xm = x \o m
  BY <1>0, TwoPieces
<1>3. h = xm \o y
  BY TwoPieces
<1>4. Len(x) = a /\ Len(xm) = b
  BY <1>0, FirstPiece
<1> HIDE DEF x, m, y, xm, h
<1>5. z \in Seq(S)
  BY <1>1, ConcatProperties, Zenon
<1>6. Associates(xm, y, tail)
  BY <1>1, Association, Zenon
<1>7. SplicedInPieces(x, m, z, insert)
  BY <1>1, <1>5, SpliceInPieces, Zenon
<1>8. h \o tail = (x \o m) \o z
  BY <1>2, <1>3, <1>6, Zenon DEF Associates
<1> HIDE DEF z
<1>9. Splice(h \o tail, a, b, insert) = x \o (insert \o z)
  BY <1>2, <1>4, <1>7, <1>8, Zenon DEF SplicedInPieces
<1> QED
  BY <1>9, Zenon DEF x, y, z, h, SplicedInFront

\* One more range replaced, from the right.
StepsTo(S, text, tail, insert, v, whole, c, a, b, p) ==
  \E new \in Seq(S) :
    /\ Splice(SubSeq(text, 1, p) \o tail, a, b, insert) = SubSeq(text, 1, a) \o new
    /\ (v \o SubSeq(text, c + 1, a)) \o new = whole

LEMMA OneStep ==
  ASSUME NEW S, NEW text \in Seq(S), NEW tail \in Seq(S), NEW insert \in Seq(S),
         NEW v \in Seq(S), NEW whole,
         NEW c \in Nat, NEW a \in Nat, NEW b \in Nat, NEW p \in Nat,
         c <= a, a <= b, b <= p, p <= Len(text),
         (((v \o SubSeq(text, c + 1, a)) \o insert) \o SubSeq(text, b + 1, p)) \o tail = whole
  PROVE  StepsTo(S, text, tail, insert, v, whole, c, a, b, p)
<1>0. a <= Len(text)
  BY LenProperties
<1> DEFINE kept == SubSeq(text, c + 1, a)
           y == SubSeq(text, b + 1, p)
           k == v \o kept
           ki == k \o insert
           z == y \o tail
           new == insert \o z
<1>1. kept \in Seq(S) /\ y \in Seq(S)
  BY <1>0, Piece
<1>2. SplicedInFront(text, tail, insert, a, b, p)
  BY SpliceInFront, Zenon
<1>3. (ki \o y) \o tail = whole
  OBVIOUS
<1> HIDE DEF kept, y
<1>4. k \in Seq(S) /\ z \in Seq(S)
  BY <1>1, ConcatProperties, Zenon
<1> HIDE DEF k, z
<1>5. ki \in Seq(S) /\ new \in Seq(S)
  BY <1>4, ConcatProperties, Zenon
<1> HIDE DEF ki
<1>6. Associates(ki, y, tail) /\ Associates(k, insert, z)
  BY <1>1, <1>4, <1>5, Association, Zenon
<1>7. (ki \o y) \o tail = ki \o z
  BY <1>6, Zenon DEF Associates, z
<1>8. ki \o z = k \o new
  BY <1>6, Zenon DEF Associates, ki
<1>9. k \o new = whole
  BY <1>3, <1>7, <1>8, Zenon
<1>10. Splice(SubSeq(text, 1, p) \o tail, a, b, insert) = SubSeq(text, 1, a) \o new
  BY <1>2, Zenon DEF SplicedInFront, z, y
<1> HIDE DEF new
<1> QED
  BY <1>5, <1>9, <1>10, Zenon DEF k, kept, StepsTo

\* The ranges a[i] .. b[i] of a text, in order, each with what replaces it.
Ranged(S, text, n, a, b, ins) ==
  /\ text \in Seq(S) /\ n \in Nat /\ n >= 1
  /\ a \in [1 .. n -> Nat] /\ b \in [0 .. n -> Nat] /\ ins \in [1 .. n -> Seq(S)]
  /\ b[0] = 0
  /\ \A i \in 0 .. n : b[i] <= Len(text)
  /\ \A i \in 1 .. n : b[i - 1] <= a[i] /\ a[i] <= b[i]

\* The text written so far, from left to right.
WrittenTexts(S, text, n, a, b, ins) ==
  {v \in [0 .. n -> Seq(S)] :
     /\ v[0] = << >>
     /\ \A i \in 1 .. n : v[i] = (v[i - 1] \o SubSeq(text, b[i - 1] + 1, a[i])) \o ins[i]}

\* The rope after each splice, from right to left.
Ropes(S, text, n, a, b, ins) ==
  {f \in [0 .. n -> Seq(S)] :
     /\ f[0] = text
     /\ \A j \in 1 .. n :
          f[j] = Splice(f[j - 1], a[(n + 1) - j], b[(n + 1) - j], ins[(n + 1) - j])}

LEMMA Writing ==
  ASSUME NEW S, NEW text, NEW n, NEW a, NEW b, NEW ins, Ranged(S, text, n, a, b, ins)
  PROVE  WrittenTexts(S, text, n, a, b, ins) # {}
<1> DEFINE T == Seq(S)
           kept(i) == SubSeq(text, b[i - 1] + 1, a[i])
           step == [i \in 1 .. n |-> [v \in T |-> (v \o kept(i)) \o ins[i]]]
<1>1. n \in Nat /\ << >> \in T
  BY DEF Ranged
<1>2. ASSUME NEW i \in 1 .. n, NEW v \in T
      PROVE  (v \o kept(i)) \o ins[i] \in T
  <2>1. /\ text \in Seq(S) /\ ins[i] \in Seq(S)
        /\ b[i - 1] \in Nat /\ a[i] \in Nat /\ b[i - 1] <= a[i] /\ a[i] <= Len(text)
    <3>1. i - 1 \in 0 .. n /\ i \in 0 .. n
      BY <1>1
    <3>2. /\ text \in Seq(S) /\ ins[i] \in Seq(S) /\ b[i - 1] \in Nat /\ a[i] \in Nat
          /\ b[i] \in Nat /\ b[i - 1] <= a[i] /\ a[i] <= b[i] /\ b[i] <= Len(text)
      BY <3>1 DEF Ranged
    <3>3. Len(text) \in Nat
      BY <3>2
    <3> QED
      BY <3>2, <3>3
  <2>2. kept(i) \in Seq(S)
    BY <2>1, Piece
  <2> HIDE DEF kept
  <2>3. v \o kept(i) \in Seq(S)
    BY <2>2, ConcatProperties
  <2>4. PICK x \in Seq(S) : x = v \o kept(i)
    BY <2>3
  <2>5. x \o ins[i] \in Seq(S)
    BY <2>1, ConcatProperties, Zenon
  <2> QED
    BY <2>4, <2>5
<1> HIDE DEF kept
<1>3. step \in [1 .. n -> [T -> T]]
  <2> HIDE DEF T
  <2> QED
    BY <1>2
<1>4. \A i \in 1 .. n, v \in T : step[i][v] = (v \o kept(i)) \o ins[i]
  <2> HIDE DEF T
  <2> QED
    OBVIOUS
<1> HIDE DEF step
<1>5. Defined(T, n, << >>, step) # {}
  <2> HIDE DEF T
  <2> QED
    BY <1>1, <1>3, Recursion
<1>6. PICK v \in [0 .. n -> T] : v[0] = << >> /\ \A i \in 1 .. n : v[i] = step[i][v[i - 1]]
  BY <1>5 DEF Defined
<1>7. ASSUME NEW i \in 1 .. n PROVE v[i] = (v[i - 1] \o kept(i)) \o ins[i]
  <2>1. i - 1 \in 0 .. n
    BY <1>1
  <2>2. v[i - 1] \in T
    <3> HIDE DEF T
    <3> QED
      BY <2>1
  <2>3. v[i] = step[i][v[i - 1]]
    BY <1>6
  <2> QED
    BY <1>4, <2>2, <2>3, Zenon
<1> QED
  BY <1>6, <1>7, Zenon DEF WrittenTexts, kept

\* What is left of a text from a place on, behind what has been written.
Tails(S, text, p, v, c, r, whole) ==
  {tail \in Seq(S) :
     /\ r = SubSeq(text, 1, p) \o tail
     /\ (v \o SubSeq(text, c + 1, p)) \o tail = whole}

\* Splicing the ranges from right to left gives the text written from left to right.
LEMMA Rewriting ==
  ASSUME NEW S, NEW text, NEW n, NEW a, NEW b, NEW ins, Ranged(S, text, n, a, b, ins),
         NEW v \in WrittenTexts(S, text, n, a, b, ins)
  PROVE  \E f \in Ropes(S, text, n, a, b, ins) :
           f[n] = v[n] \o SubSeq(text, b[n] + 1, Len(text))
<1> DEFINE T == Seq(S)
           spliced(k, r) == Splice(r, a[(n + 1) - k], b[(n + 1) - k], ins[(n + 1) - k])
           step == [k \in 1 .. n |-> [r \in T |->
                     IF spliced(k, r) \in T THEN spliced(k, r) ELSE << >>]]
           p == [j \in 0 .. n |-> IF j = 0 THEN Len(text) ELSE a[(n + 1) - j]]
           whole == v[n] \o SubSeq(text, b[n] + 1, Len(text))
<1>1. n \in Nat /\ n >= 1 /\ text \in T /\ << >> \in T /\ Len(text) \in Nat
  BY DEF Ranged
<1>2. step \in [1 .. n -> [T -> T]]
  <2> HIDE DEF T, spliced
  <2> QED
    BY <1>1
<1>3. \A k \in 1 .. n, r \in T :
        step[k][r] = IF spliced(k, r) \in T THEN spliced(k, r) ELSE << >>
  <2> HIDE DEF T, spliced
  <2> QED
    OBVIOUS
<1> HIDE DEF step
<1>4. Defined(T, n, text, step) # {}
  <2> HIDE DEF T
  <2> QED
    BY <1>1, <1>2, Recursion
<1>5. PICK f \in [0 .. n -> T] : f[0] = text /\ \A k \in 1 .. n : f[k] = step[k][f[k - 1]]
  BY <1>4 DEF Defined
<1> DEFINE Good(j) == Tails(S, text, p[j], v[n - j], b[n - j], f[j], whole) # {}
           G == {j \in Nat : j <= n => Good(j) /\ (j # 0 => f[j] = spliced(j, f[j - 1]))}
<1>6. v \in [0 .. n -> T] /\ v[0] = << >>
  BY DEF WrittenTexts
<1>7. p[0] = Len(text) /\ \A j \in 1 .. n : p[j] = a[(n + 1) - j]
  BY <1>1
<1> HIDE DEF p
<1>8. 0 \in G
  <2>1. SubSeq(text, 1, p[0]) = text
    BY <1>1, <1>7, SubSeqFull
  <2>2. text \o << >> = text
    BY <1>1, ConcatEmptySeq
  <2>3. PICK vn \in T : vn = v[n]
    BY <1>1, <1>6
  <2>4. PICK rest \in T : rest = SubSeq(text, b[n] + 1, Len(text))
    <3>1. b[n] \in Nat /\ b[n] <= Len(text) /\ Len(text) <= Len(text)
      <4>1. n \in 0 .. n
        BY <1>1
      <4> QED
        BY <1>1, <4>1 DEF Ranged
    <3>2. SubSeq(text, b[n] + 1, Len(text)) \in Seq(S)
      BY <1>1, <3>1, Piece
    <3> QED
      BY <3>2
  <2>5. PICK w \in T : w = vn \o rest
    BY ConcatProperties
  <2>6. w \o << >> = w
    BY ConcatEmptySeq
  <2>7. n - 0 = n
    BY <1>1
  <2>8. (v[n - 0] \o SubSeq(text, b[n - 0] + 1, p[0])) \o << >> = whole
    BY <1>7, <2>3, <2>4, <2>5, <2>6, <2>7
  <2>9. f[0] = SubSeq(text, 1, p[0]) \o << >>
    BY <1>5, <2>1, <2>2
  <2>10. << >> \in Tails(S, text, p[0], v[n - 0], b[n - 0], f[0], whole)
    <3> HIDE DEF whole
    <3> QED
      BY <1>1, <2>8, <2>9 DEF Tails
  <2> QED
    BY <2>10
<1>9. ASSUME NEW k \in Nat, k \in G PROVE k + 1 \in G
  <2> SUFFICES ASSUME k + 1 <= n
               PROVE  Good(k + 1) /\ f[k + 1] = spliced(k + 1, f[k])
    BY <1>1
  <2>1. PICK i \in 1 .. n : i = n - k
    BY <1>1
  <2>2. /\ (n + 1) - (k + 1) = i /\ n - (k + 1) = i - 1 /\ k + 1 \in 1 .. n /\ (k + 1) - 1 = k
        /\ k \in 0 .. n /\ i - 1 \in 0 .. n /\ i \in 0 .. n
    BY <1>1, <2>1
  <2>3. PICK tail \in T : f[k] = SubSeq(text, 1, p[k]) \o tail
                          /\ (v[i] \o SubSeq(text, b[i] + 1, p[k])) \o tail = whole
    <3>1. k <= n
      BY <2>2
    <3>2. Good(k)
      BY <1>9, <3>1
    <3>3. Tails(S, text, p[k], v[i], b[i], f[k], whole) # {}
      BY <2>1, <3>2
    <3> HIDE DEF whole
    <3> QED
      BY <3>3 DEF Tails
  <2>4. /\ a[i] \in Nat /\ b[i] \in Nat /\ b[i - 1] \in Nat /\ ins[i] \in T
        /\ b[i - 1] <= a[i] /\ a[i] <= b[i] /\ b[i] <= Len(text)
    BY <2>2 DEF Ranged
  <2>5. p[k] \in Nat /\ b[i] <= p[k] /\ p[k] <= Len(text)
    <3>1. CASE k = 0
      BY <1>1, <1>7, <2>1, <2>4, <3>1
    <3>2. CASE k # 0
      <4>1. i + 1 \in 1 .. n /\ (i + 1) - 1 = i /\ p[k] = a[i + 1] /\ i + 1 \in 0 .. n
        BY <1>1, <1>7, <2>1, <2>2, <3>2
      <4>2. b[i] <= a[i + 1] /\ a[i + 1] <= b[i + 1] /\ b[i + 1] <= Len(text) /\ a[i + 1] \in Nat
            /\ b[i + 1] \in Nat
        BY <4>1 DEF Ranged
      <4>3. Len(text) \in Nat
        BY <1>1
      <4>4. a[i + 1] <= Len(text)
        BY <4>2, <4>3
      <4> QED
        BY <4>1, <4>2, <4>4, Zenon
    <3> QED
      BY <3>1, <3>2
  <2>6. v[i] = (v[i - 1] \o SubSeq(text, b[i - 1] + 1, a[i])) \o ins[i]
    BY DEF WrittenTexts
  <2>7. PICK u \in T : u = v[i - 1]
    BY <1>6, <2>2
  <2>8. PICK w : w = whole
    OBVIOUS
  <2> HIDE DEF whole
  <2>9. StepsTo(S, text, tail, ins[i], u, w, b[i - 1], a[i], b[i], p[k])
    <3>1. (((u \o SubSeq(text, b[i - 1] + 1, a[i])) \o ins[i]) \o SubSeq(text, b[i] + 1, p[k])) \o tail = w
      BY <2>3, <2>6, <2>7, <2>8
    <3>2. PICK c, x, y, z \in Nat : c = b[i - 1] /\ x = a[i] /\ y = b[i] /\ z = p[k]
      BY <2>4, <2>5
    <3>3. PICK insert \in T : insert = ins[i]
      BY <2>4
    <3>4. c <= x /\ x <= y /\ y <= z /\ z <= Len(text)
      BY <2>4, <2>5, <3>2
    <3>5. (((u \o SubSeq(text, c + 1, x)) \o insert) \o SubSeq(text, y + 1, z)) \o tail = w
      BY <3>1, <3>2, <3>3
    <3>6. StepsTo(S, text, tail, insert, u, w, c, x, y, z)
      BY <1>1, <3>4, <3>5, OneStep, Zenon
    <3> QED
      BY <3>2, <3>3, <3>6
  <2>10. PICK new \in T :
           /\ Splice(f[k], a[i], b[i], ins[i]) = SubSeq(text, 1, a[i]) \o new
           /\ (v[i - 1] \o SubSeq(text, b[i - 1] + 1, a[i])) \o new = whole
    BY <2>3, <2>7, <2>8, <2>9 DEF StepsTo
  <2>11. spliced(k + 1, f[k]) = SubSeq(text, 1, a[i]) \o new
    BY <2>2, <2>10
  <2>12. spliced(k + 1, f[k]) \in T
    <3>1. SubSeq(text, 1, a[i]) \in T
      <4>1. a[i] <= Len(text)
        BY <1>1, <2>4
      <4> QED
        BY <1>1, <2>4, <4>1, FirstPiece
    <3>2. PICK x \in T : x = SubSeq(text, 1, a[i])
      BY <3>1
    <3>3. x \o new \in T
      BY ConcatProperties
    <3> QED
      BY <2>11, <3>2, <3>3
  <2>13. f[k + 1] = spliced(k + 1, f[k])
    <3>1. f[k + 1] = step[k + 1][f[k]] /\ f[k] \in T
      BY <1>5, <2>2
    <3> HIDE DEF spliced, T
    <3> QED
      BY <1>3, <2>2, <2>12, <3>1
  <2>14. p[k + 1] = a[i]
    BY <1>7, <2>2
  <2>15. new \in Tails(S, text, p[k + 1], v[n - (k + 1)], b[n - (k + 1)], f[k + 1], whole)
    <3>1. f[k + 1] = SubSeq(text, 1, p[k + 1]) \o new
      BY <2>11, <2>13, <2>14
    <3>2. (v[n - (k + 1)] \o SubSeq(text, b[n - (k + 1)] + 1, p[k + 1])) \o new = whole
      BY <2>2, <2>10, <2>14
    <3> QED
      BY <3>1, <3>2, Zenon DEF Tails
  <2> QED
    BY <2>13, <2>15, Zenon
<1>10. Nat \subseteq G
  <2> HIDE DEF G
  <2> QED
    BY <1>8, <1>9, Induction
<1>11. f \in Ropes(S, text, n, a, b, ins)
  <2>1. ASSUME NEW j \in 1 .. n PROVE f[j] = spliced(j, f[j - 1])
    <3>1. j \in G /\ j <= n /\ j # 0
      <4>1. j \in Nat
        BY <1>1
      <4>2. j \in G
        <5> HIDE DEF G
        <5> QED
          BY <1>10, <4>1
      <4> QED
        BY <1>1, <4>2
    <3> HIDE DEF spliced, Good
    <3> QED
      BY <3>1
  <2> QED
    BY <1>5, <2>1, Zenon DEF Ropes
<1>12. f[n] = whole
  <2>1. Good(n)
    <3>1. n \in G
      <4> HIDE DEF G
      <4> QED
        BY <1>1, <1>10
    <3> HIDE DEF Good, spliced
    <3> QED
      BY <1>1, <3>1
  <2>2. n - n = 0
    BY <1>1
  <2>3. PICK tail \in T : f[n] = SubSeq(text, 1, p[n]) \o tail
                          /\ (v[0] \o SubSeq(text, b[0] + 1, p[n])) \o tail = whole
    <3> HIDE DEF whole
    <3> QED
      BY <2>1, <2>2 DEF Tails
  <2>4. p[n] = a[1] /\ b[0] = 0 /\ v[0] = << >> /\ a[1] \in Nat /\ a[1] <= Len(text)
    <3>1. p[n] = a[1] /\ 1 \in 1 .. n /\ 1 \in 0 .. n
      BY <1>1, <1>7
    <3>2. b[0] = 0 /\ a[1] \in Nat /\ b[1] \in Nat /\ a[1] <= b[1] /\ b[1] <= Len(text)
      BY <3>1 DEF Ranged
    <3>3. Len(text) \in Nat
      BY <1>1
    <3>4. a[1] <= Len(text)
      BY <3>2, <3>3
    <3> QED
      BY <1>6, <3>1, <3>2, <3>4, Zenon
  <2>5. SubSeq(text, 1, a[1]) \in T
    BY <1>1, <2>4, FirstPiece
  <2>6. PICK x \in T : x = SubSeq(text, 1, a[1])
    BY <2>5
  <2>7. << >> \o x = x /\ 0 + 1 = 1
    BY ConcatEmptySeq
  <2> HIDE DEF whole
  <2> QED
    BY <2>3, <2>4, <2>6, <2>7
<1> QED
  BY <1>11, <1>12

-----------------------------------------------------------------------------
(* The changes of a transaction *)

\* Two functions that take the same steps are the same.
StepsAgree(N, f, g) ==
  f[0] = g[0] /\ \A k \in 1 .. N : f[k - 1] = g[k - 1] => f[k] = g[k]

Agree(N, f, g) == \A k \in 0 .. N : f[k] = g[k]

LEMMA SameSteps ==
  ASSUME NEW N \in Nat, NEW f, NEW g, StepsAgree(N, f, g)
  PROVE  Agree(N, f, g)
<1> USE DEF StepsAgree, Agree
<1> DEFINE S == {k \in Nat : k <= N => f[k] = g[k]}
<1>1. 0 \in S
  OBVIOUS
<1>2. ASSUME NEW k \in Nat, k \in S PROVE k + 1 \in S
  <2> SUFFICES ASSUME k + 1 <= N PROVE f[k + 1] = g[k + 1]
    OBVIOUS
  <2>1. k + 1 \in 1 .. N /\ (k + 1) - 1 = k /\ k <= N
    OBVIOUS
  <2>2. f[k] = g[k]
    BY <1>2, <2>1
  <2> QED
    BY <2>1, <2>2
<1>3. Nat \subseteq S
  <2> HIDE DEF S
  <2> QED
    BY <1>1, <1>2, Induction
<1> QED
  BY <1>3

ChangesOf(S) == [from : Nat, to : Nat, insert : Seq(S)]

ValidChanges(text, changes) ==
  /\ changes # << >>
  /\ InOrder(changes)
  /\ \A i \in 1 .. Len(changes) : ValidChange(text, changes[i])

\* The ranges of a transaction in characters, behind an empty one at the start.
Starts(text, changes) ==
  [i \in 1 .. Len(changes) |-> StrictUtf16ToChar(text, changes[i].from)]

Ends(text, changes) ==
  [i \in 0 .. Len(changes) |-> IF i = 0 THEN 0 ELSE StrictUtf16ToChar(text, changes[i].to)]

Insertions(changes) == [i \in 1 .. Len(changes) |-> changes[i].insert]

LEMMA EditedOf ==
  ASSUME NEW S, NEW text, NEW changes \in Seq(ChangesOf(S)),
         NEW f \in Ropes(S, text, Len(changes), Starts(text, changes), Ends(text, changes),
                         Insertions(changes))
  PROVE  Edited(text, changes) = f[Len(changes)]
<1> DEFINE n == Len(changes)
           Is(g) == g = [j \in 0 .. n |-> IF j = 0 THEN text
                                          ELSE ApplyChange(text, g[j - 1], changes[n + 1 - j])]
<1>1. n \in Nat
  OBVIOUS
<1>2. DOMAIN f = 0 .. n /\ f = [j \in 0 .. n |-> f[j]] /\ f[0] = text
  BY DEF Ropes
<1>3. ASSUME NEW j \in 1 .. n
      PROVE  f[j] = ApplyChange(text, f[j - 1], changes[n + 1 - j])
  <2>1. n + 1 - j \in 1 .. n /\ n + 1 - j \in 0 .. n /\ n + 1 - j # 0
    BY <1>1
  <2>2. PICK i \in 1 .. n : i = n + 1 - j /\ i \in 0 .. n /\ i # 0
    BY <2>1
  <2>3. f[j] = Splice(f[j - 1], Starts(text, changes)[i], Ends(text, changes)[i],
                      Insertions(changes)[i])
    BY <2>2 DEF Ropes
  <2>4. /\ Starts(text, changes)[i] = StrictUtf16ToChar(text, changes[i].from)
        /\ Ends(text, changes)[i] = StrictUtf16ToChar(text, changes[i].to)
        /\ Insertions(changes)[i] = changes[i].insert
    BY <2>2, Zenon DEF Starts, Ends, Insertions
  <2> QED
    BY <2>2, <2>3, <2>4, Zenon DEF ApplyChange
<1> HIDE DEF n
<1>4. Is(f)
  <2>1. ASSUME NEW j \in 0 .. n
        PROVE  f[j] = IF j = 0 THEN text ELSE ApplyChange(text, f[j - 1], changes[n + 1 - j])
    <3>1. CASE j = 0
      BY <1>2, <3>1
    <3>2. CASE j # 0
      <4>1. j \in 1 .. n
        BY <1>1, <3>2
      <4> QED
        BY <1>3, <3>2, <4>1, Zenon
    <3> QED
      BY <3>1, <3>2
  <2> QED
    BY <1>2, <2>1, Zenon
<1> DEFINE g == CHOOSE h : Is(h)
<1>5. Edited(text, changes) = g[n]
  BY Zenon DEF Edited, n
<1>6. Is(g)
  BY <1>4, Zenon
<1> HIDE DEF g
<1>7. g[0] = text /\ \A j \in 1 .. n : g[j] = ApplyChange(text, g[j - 1], changes[n + 1 - j])
  <2>1. 0 \in 0 .. n /\ \A j \in 1 .. n : j \in 0 .. n /\ j # 0
    BY <1>1
  <2> QED
    BY <1>6, <2>1, Zenon
<1>8. \A k \in 0 .. n : f[k] = g[k]
  <2>1. f[0] = g[0]
    BY <1>2, <1>7
  <2>2. \A k \in 1 .. n : f[k - 1] = g[k - 1] => f[k] = g[k]
    BY <1>3, <1>7, Zenon
  <2> QED
    <3>1. StepsAgree(n, f, g)
      BY <2>1, <2>2, Zenon DEF StepsAgree
    <3>2. Agree(n, f, g)
      BY <1>1, <3>1, SameSteps, Zenon
    <3> QED
      BY <3>2, Zenon DEF Agree
<1>9. n \in 0 .. n
  BY <1>1
<1> QED
  BY <1>5, <1>8, <1>9, Zenon DEF n

LEMMA StrictIndex ==
  ASSUME NEW text \in Seq(Chars), NEW offset, StrictUtf16ToChar(text, offset) # NoIndex
  PROVE  /\ StrictUtf16ToChar(text, offset) \in 0 .. Len(text)
         /\ Utf16Offsets(text)[StrictUtf16ToChar(text, offset)] = offset
<1> DEFINE found == {k \in 0 .. Len(text) : Utf16Offsets(text)[k] = offset}
<1>1. found # {}
  BY DEF StrictUtf16ToChar
<1>2. StrictUtf16ToChar(text, offset) = CHOOSE k \in found : TRUE
  BY <1>1, Zenon DEF StrictUtf16ToChar
<1>3. StrictUtf16ToChar(text, offset) \in found
  <2> HIDE DEF found
  <2> QED
    BY <1>1, <1>2, Zenon
<1> QED
  BY <1>3

LEMMA IndexOrder ==
  ASSUME NEW text \in Seq(Chars), NEW j \in 0 .. Len(text), NEW k \in 0 .. Len(text),
         Utf16Offsets(text)[j] <= Utf16Offsets(text)[k]
  PROVE  j <= k
<1> SUFFICES ASSUME k < j PROVE FALSE
  <2>1. Len(text) \in Nat
    OBVIOUS
  <2> QED
    BY <2>1
<1>1. Utf16Offsets(text)[k] < Utf16Offsets(text)[j]
  BY OffsetsGrow
<1>2. Utf16Offsets(text)[j] \in Nat /\ Utf16Offsets(text)[k] \in Nat
  BY OffsetsOf
<1> QED
  BY <1>1, <1>2

\* A valid transaction is a sequence of ranges of characters, in order.
LEMMA ValidRanges ==
  ASSUME NEW S, S \subseteq Chars, NEW text \in Seq(S), NEW changes \in Seq(ChangesOf(S)),
         ValidChanges(text, changes)
  PROVE  /\ Ranged(S, text, Len(changes), Starts(text, changes), Ends(text, changes),
                   Insertions(changes))
         /\ \A i \in 1 .. Len(changes) :
              /\ Utf16Offsets(text)[Starts(text, changes)[i]] = changes[i].from
              /\ Utf16Offsets(text)[Ends(text, changes)[i]] = changes[i].to
<1> DEFINE n == Len(changes)
           a == Starts(text, changes)
           b == Ends(text, changes)
           ins == Insertions(changes)
           off == Utf16Offsets(text)
<1>1. text \in Seq(Chars) /\ Len(text) \in Nat
  OBVIOUS
<1>2. n \in Nat /\ n >= 1 /\ \A i \in 1 .. n : changes[i] \in ChangesOf(S)
  <2>1. changes # << >>
    BY DEF ValidChanges
  <2> QED
    BY <2>1
<1>3. ASSUME NEW i \in 1 .. n
      PROVE  /\ a[i] \in 0 .. Len(text) /\ off[a[i]] = changes[i].from
             /\ b[i] \in 0 .. Len(text) /\ off[b[i]] = changes[i].to
             /\ changes[i].from <= changes[i].to
  <2>1. i # 0 /\ i \in 0 .. n
    BY <1>2
  <2>2. a[i] = StrictUtf16ToChar(text, changes[i].from)
        /\ b[i] = StrictUtf16ToChar(text, changes[i].to)
    BY <2>1, Zenon DEF Starts, Ends
  <2>3. ValidChange(text, changes[i])
    BY Zenon DEF ValidChanges
  <2>4. StrictUtf16ToChar(text, changes[i].from) # NoIndex
        /\ StrictUtf16ToChar(text, changes[i].to) # NoIndex
        /\ changes[i].from <= changes[i].to
    BY <2>3, Zenon DEF ValidChange
  <2>5. PICK from, to : from = changes[i].from /\ to = changes[i].to
    OBVIOUS
  <2>6. /\ StrictUtf16ToChar(text, from) \in 0 .. Len(text)
        /\ off[StrictUtf16ToChar(text, from)] = from
    BY <1>1, <2>4, <2>5, StrictIndex
  <2>7. /\ StrictUtf16ToChar(text, to) \in 0 .. Len(text)
        /\ off[StrictUtf16ToChar(text, to)] = to
    BY <1>1, <2>4, <2>5, StrictIndex
  <2> HIDE DEF a, b, off
  <2> QED
    BY <2>2, <2>4, <2>5, <2>6, <2>7, Zenon
<1>4. b[0] = 0
  <2>1. 0 \in 0 .. n
    BY <1>2
  <2> QED
    BY <2>1, Zenon DEF Ends
<1>5. \A i \in 0 .. n : b[i] \in 0 .. Len(text)
  <2>1. ASSUME NEW i \in 0 .. n PROVE b[i] \in 0 .. Len(text)
    <3>1. CASE i = 0
      <4> HIDE DEF b
      <4> QED
        BY <1>1, <1>4, <3>1
    <3>2. CASE i # 0
      <4>1. i \in 1 .. n
        BY <1>2, <3>2
      <4> QED
        BY <1>3, <4>1
    <3> QED
      BY <3>1, <3>2
  <2> QED
    BY <2>1
<1>6. ASSUME NEW i \in 1 .. n PROVE a[i] <= b[i]
  <2>1. a[i] \in 0 .. Len(text) /\ b[i] \in 0 .. Len(text) /\ off[a[i]] <= off[b[i]]
    <3> HIDE DEF a, b, off
    <3> QED
      BY <1>3
  <2> QED
    BY <1>1, <2>1, IndexOrder
<1>7. ASSUME NEW i \in 1 .. n PROVE b[i - 1] <= a[i]
  <2>1. CASE i = 1
    <3>1. b[i - 1] = 0
      <4> HIDE DEF b
      <4> QED
        BY <1>4, <2>1
    <3>2. a[i] \in 0 .. Len(text)
      BY <1>3
    <3> HIDE DEF a, b
    <3> QED
      BY <3>1, <3>2
  <2>2. CASE i # 1
    <3>1. i \in 2 .. n /\ i - 1 \in 1 .. n
      BY <1>2, <2>2
    <3>2. changes[i].from >= changes[i - 1].to
      BY <3>1 DEF ValidChanges, InOrder
    <3>3. /\ a[i] \in 0 .. Len(text) /\ b[i - 1] \in 0 .. Len(text)
          /\ off[a[i]] = changes[i].from /\ off[b[i - 1]] = changes[i - 1].to
      <4> HIDE DEF a, b, off
      <4> QED
        BY <1>3, <3>1
    <3>4. changes[i].from \in Nat /\ changes[i - 1].to \in Nat
      BY <1>2, <3>1 DEF ChangesOf
    <3>5. off[b[i - 1]] <= off[a[i]]
      <4> HIDE DEF a, b, off
      <4> QED
        BY <3>2, <3>3, <3>4
    <3> QED
      BY <1>1, <3>3, <3>5, IndexOrder
  <2> QED
    BY <2>1, <2>2
<1>8. a \in [1 .. n -> Nat]
  <2>1. a = [i \in 1 .. n |-> a[i]]
    BY DEF Starts
  <2> HIDE DEF a
  <2> QED
    BY <1>3, <2>1
<1>9. b \in [0 .. n -> Nat]
  <2>1. b = [i \in 0 .. n |-> b[i]]
    BY DEF Ends
  <2> HIDE DEF b
  <2> QED
    BY <1>5, <2>1
<1>10. ins \in [1 .. n -> Seq(S)]
  <2>1. ASSUME NEW i \in 1 .. n PROVE changes[i].insert \in Seq(S)
    BY <1>2 DEF ChangesOf
  <2> HIDE DEF n
  <2> QED
    BY <2>1 DEF Insertions, n
<1> HIDE DEF a, b, ins, off, n
<1>11. Ranged(S, text, n, a, b, ins)
  <2>1. \A i \in 0 .. n : b[i] <= Len(text)
    BY <1>1, <1>5
  <2> QED
    BY <1>2, <1>4, <1>6, <1>7, <1>8, <1>9, <1>10, <2>1, Zenon DEF Ranged
<1> QED
  BY <1>3, <1>11, Zenon DEF a, b, ins, off, n

LEMMA LeftToRightOf ==
  ASSUME NEW S, S \subseteq Chars, NEW text \in Seq(S), NEW changes \in Seq(ChangesOf(S)),
         ValidChanges(text, changes),
         NEW v \in WrittenTexts(S, text, Len(changes), Starts(text, changes),
                                Ends(text, changes), Insertions(changes))
  PROVE  LeftToRight(Units(text), changes)
           = Units(v[Len(changes)]
                     \o SubSeq(text, Ends(text, changes)[Len(changes)] + 1, Len(text)))
<1> DEFINE n == Len(changes)
           a == Starts(text, changes)
           b == Ends(text, changes)
           off == Utf16Offsets(text)
           units == Units(text)
           KeptBefore(i) ==
             SubSeq(units, (IF i = 1 THEN 0 ELSE changes[i - 1].to) + 1, changes[i].from)
           Is(g) == g = [i \in 0 .. n |-> IF i = 0 THEN << >>
                             ELSE g[i - 1] \o KeptBefore(i) \o Units(changes[i].insert)]
           w == [i \in 0 .. n |-> Units(v[i])]
           rest == SubSeq(text, b[n] + 1, Len(text))
<1>1. text \in Seq(Chars) /\ Len(text) \in Nat /\ Seq(S) \subseteq Seq(Chars)
  OBVIOUS
<1>2. n \in Nat /\ n >= 1 /\ n \in 0 .. n /\ n \in 1 .. n
  <2>1. changes # << >>
    BY DEF ValidChanges
  <2> QED
    BY <2>1
<1>3. /\ b[0] = 0 /\ \A i \in 0 .. n : b[i] \in Nat /\ b[i] <= Len(text)
      /\ \A i \in 1 .. n : /\ a[i] \in Nat /\ b[i - 1] <= a[i] /\ a[i] <= b[i]
                           /\ off[a[i]] = changes[i].from /\ off[b[i]] = changes[i].to
                           /\ changes[i].insert \in Seq(S)
  <2>1. /\ Ranged(S, text, Len(changes), Starts(text, changes), Ends(text, changes),
                  Insertions(changes))
        /\ \A i \in 1 .. Len(changes) :
             /\ Utf16Offsets(text)[Starts(text, changes)[i]] = changes[i].from
             /\ Utf16Offsets(text)[Ends(text, changes)[i]] = changes[i].to
    BY ValidRanges
  <2>2. \A i \in 1 .. n : changes[i].insert \in Seq(S)
    <3>1. \A i \in 1 .. n : changes[i] \in ChangesOf(S)
      OBVIOUS
    <3> QED
      BY <3>1 DEF ChangesOf
  <2> HIDE DEF off
  <2>3. b[0] = 0 /\ (\A i \in 0 .. n : b[i] \in Nat /\ b[i] <= Len(text))
        /\ (\A i \in 1 .. n : a[i] \in Nat /\ b[i - 1] <= a[i] /\ a[i] <= b[i])
    <3> HIDE DEF a, b
    <3>1. Ranged(S, text, n, a, b, Insertions(changes))
      BY <2>1, Zenon DEF a, b
    <3> HIDE DEF n
    <3> QED
      BY <3>1 DEF Ranged
  <2> QED
    BY <2>1, <2>2, <2>3, Zenon DEF off
<1>4. /\ v \in [0 .. n -> Seq(S)] /\ v[0] = << >>
      /\ \A i \in 1 .. n :
           v[i] = (v[i - 1] \o SubSeq(text, b[i - 1] + 1, a[i])) \o changes[i].insert
  <2>1. \A i \in 1 .. n : Insertions(changes)[i] = changes[i].insert
    BY Zenon DEF Insertions
  <2> QED
    BY <2>1, Zenon DEF WrittenTexts
<1>5. off[0] = 0 /\ off[Len(text)] = Len(units)
  <2>1. off[0] = 0
    BY <1>1, OffsetsOf
  <2>2. Len(units) = Utf16Len(text)
    BY <1>1, UnitsType
  <2> QED
    BY <2>1, <2>2 DEF Utf16Len
<1> HIDE DEF a, b, off, n
<1>6. \A i \in 0 .. n : v[i] \in Seq(S) /\ v[i] \in Seq(Chars)
  BY <1>1, <1>4
<1>7. ASSUME NEW i \in 1 .. n
      PROVE  Units(v[i]) = (Units(v[i - 1]) \o KeptBefore(i)) \o Units(changes[i].insert)
  <2>1. i - 1 \in 0 .. n /\ i \in 0 .. n
    BY <1>2
  <2>2. /\ b[i - 1] \in Nat /\ a[i] \in Nat /\ b[i - 1] <= a[i] /\ a[i] <= Len(text)
    <3>1. b[i] \in Nat /\ b[i] <= Len(text) /\ a[i] <= b[i] /\ a[i] \in Nat /\ b[i - 1] \in Nat
          /\ b[i - 1] <= a[i]
      BY <1>3, <2>1
    <3> QED
      BY <1>1, <3>1
  <2> DEFINE kept == SubSeq(text, b[i - 1] + 1, a[i])
             k == v[i - 1] \o kept
  <2>3. kept \in Seq(Chars)
    BY <1>1, <2>2, Piece
  <2>4. Units(kept) = SubSeq(units, off[b[i - 1]] + 1, off[a[i]])
    BY <1>1, <2>2, UnitsOfPart DEF off
  <2>5. off[b[i - 1]] = (IF i = 1 THEN 0 ELSE changes[i - 1].to) /\ off[a[i]] = changes[i].from
    <3>1. CASE i = 1
      BY <1>3, <1>5, <3>1
    <3>2. CASE i # 1
      <4>1. i - 1 \in 1 .. n
        BY <1>2, <3>2
      <4> QED
        BY <1>3, <3>2, <4>1
    <3> QED
      BY <3>1, <3>2
  <2>6. Units(kept) = KeptBefore(i)
    <3> HIDE DEF kept, units
    <3> QED
      BY <2>4, <2>5
  <2> HIDE DEF kept, KeptBefore
  <2>7. v[i - 1] \in Seq(Chars)
    BY <1>6, <2>1
  <2>8. k \in Seq(Chars)
    BY <2>3, <2>7, ConcatProperties, Zenon
  <2>9. Units(k) = Units(v[i - 1]) \o Units(kept)
    BY <2>3, <2>7, UnitsConcat, Zenon
  <2>10. v[i] = k \o changes[i].insert
    BY <1>4, Zenon DEF kept
  <2> HIDE DEF k
  <2>11. changes[i].insert \in Seq(Chars)
    <3>1. changes[i].insert \in Seq(S)
      BY <1>3
    <3> QED
      BY <1>1, <3>1, Zenon
  <2>12. Units(k \o changes[i].insert) = Units(k) \o Units(changes[i].insert)
    BY <2>8, <2>11, UnitsConcat, Zenon
  <2> QED
    BY <2>6, <2>9, <2>10, <2>12, Zenon
<1>8. Units(v[0]) = << >>
  <2>1. v[0] \in Seq(Chars) /\ Len(v[0]) = 0
    <3>1. << >> \in Seq(Chars) /\ Len(<< >>) = 0
      OBVIOUS
    <3> QED
      BY <1>4, <3>1
  <2>2. UnitsUpto(v[0])[0] = << >>
    BY <2>1, UnitsUptoOf, Zenon
  <2> QED
    BY <2>1, <2>2, Zenon DEF Units
<1> HIDE DEF KeptBefore, units
<1>9. w[0] = << >> /\ \A i \in 1 .. n : w[i] = w[i - 1] \o KeptBefore(i) \o Units(changes[i].insert)
  <2>1. 0 \in 0 .. n /\ \A i \in 1 .. n : i \in 0 .. n /\ i - 1 \in 0 .. n
    BY <1>2
  <2> QED
    BY <1>7, <1>8, <2>1, Zenon
<1>10. w = [i \in 0 .. n |-> w[i]] /\ w[n] = Units(v[n])
  BY <1>2, Zenon
<1> HIDE DEF w
<1>11. Is(w)
  <2>1. ASSUME NEW i \in 0 .. n
        PROVE  w[i] = IF i = 0 THEN << >>
                      ELSE w[i - 1] \o KeptBefore(i) \o Units(changes[i].insert)
    <3>1. CASE i = 0
      BY <1>9, <3>1
    <3>2. CASE i # 0
      <4>1. i \in 1 .. n
        BY <1>2, <3>2
      <4> QED
        BY <1>9, <3>2, <4>1, Zenon
    <3> QED
      BY <3>1, <3>2
  <2> QED
    BY <1>10, <2>1, Zenon
<1> DEFINE g == CHOOSE h : Is(h)
<1>12. LeftToRight(units, changes) = g[n] \o SubSeq(units, changes[n].to + 1, Len(units))
  BY Zenon DEF LeftToRight, n, KeptBefore
<1>13. Is(g)
  BY <1>11, Zenon
<1> HIDE DEF g
<1>14. g[0] = << >> /\ \A i \in 1 .. n : g[i] = g[i - 1] \o KeptBefore(i) \o Units(changes[i].insert)
  <2>1. 0 \in 0 .. n /\ \A i \in 1 .. n : i \in 0 .. n /\ i # 0
    BY <1>2
  <2> QED
    BY <1>13, <2>1, Zenon
<1>15. w[n] = g[n]
  <2>1. w[0] = g[0]
    BY <1>9, <1>14, Zenon
  <2>2. \A k \in 1 .. n : w[k - 1] = g[k - 1] => w[k] = g[k]
    BY <1>9, <1>14, Zenon
  <2>3. StepsAgree(n, w, g)
    BY <2>1, <2>2, Zenon DEF StepsAgree
  <2>4. Agree(n, w, g)
    BY <1>2, <2>3, SameSteps, Zenon
  <2> QED
    BY <1>2, <2>4, Zenon DEF Agree
<1>16. rest \in Seq(Chars) /\ Units(rest) = SubSeq(units, changes[n].to + 1, Len(units))
  <2>1. b[n] \in Nat /\ b[n] <= Len(text) /\ off[b[n]] = changes[n].to /\ Len(text) <= Len(text)
    BY <1>1, <1>2, <1>3
  <2>2. rest \in Seq(Chars)
    BY <1>1, <2>1, Piece
  <2>3. Units(rest) = SubSeq(Units(text), Utf16Offsets(text)[b[n]] + 1, Utf16Offsets(text)[Len(text)])
    BY <1>1, <2>1, UnitsOfPart
  <2> HIDE DEF rest
  <2> QED
    BY <1>5, <2>1, <2>2, <2>3, Zenon DEF units, off
<1> HIDE DEF rest
<1>17. Units(v[n] \o rest) = Units(v[n]) \o Units(rest)
  <2>1. v[n] \in Seq(Chars)
    BY <1>2, <1>6
  <2> QED
    BY <1>16, <2>1, UnitsConcat, Zenon
<1> QED
  BY <1>10, <1>12, <1>15, <1>16, <1>17, Zenon DEF units, rest, n, b

\* The changes of a valid transaction, applied last to first, are all of them
\* replaced at once in code units, for any number of changes in a text of any
\* length (apply_transaction in editor_document.rs).
THEOREM Simultaneous ==
  ASSUME NEW S, S \subseteq Chars, NEW text \in Seq(S), NEW changes \in Seq(ChangesOf(S)),
         ValidChanges(text, changes)
  PROVE  /\ Edited(text, changes) \in Seq(S)
         /\ Units(Edited(text, changes)) = LeftToRight(Units(text), changes)
<1> DEFINE n == Len(changes)
           a == Starts(text, changes)
           b == Ends(text, changes)
           ins == Insertions(changes)
<1>1. Ranged(S, text, n, a, b, ins)
  BY ValidRanges
<1> HIDE DEF a, b, ins
<1>2. PICK v \in WrittenTexts(S, text, n, a, b, ins) : TRUE
  BY <1>1, Writing
<1>3. PICK f \in Ropes(S, text, n, a, b, ins) : f[n] = v[n] \o SubSeq(text, b[n] + 1, Len(text))
  BY <1>1, Rewriting
<1>4. Edited(text, changes) = f[n]
  BY EditedOf, Zenon DEF a, b, ins
<1>5. LeftToRight(Units(text), changes) = Units(v[n] \o SubSeq(text, b[n] + 1, Len(text)))
  BY LeftToRightOf, Zenon DEF a, b, ins
<1>6. f[n] \in Seq(S)
  <2>1. n \in 0 .. n
    OBVIOUS
  <2> QED
    BY <2>1 DEF Ropes
<1> QED
  BY <1>3, <1>4, <1>5, <1>6, Zenon

-----------------------------------------------------------------------------
(* Transactions *)

Plain == Chars \ {CarriageReturn}

Transaction == [beforeLength : Nat, changes : Seq(ChangesOf(Chars))]

LEMMA PlainTexts == Plain \subseteq Chars /\ Seq(Plain) \subseteq Seq(Chars)
BY DEF Plain

\* What is inserted holds no carriage return.
LEMMA ValidAreTransactions ==
  ASSUME NEW text, NEW tx \in Transaction, ValidTransaction(text, tx)
  PROVE  tx.changes \in Seq(ChangesOf(Plain)) /\ ValidChanges(text, tx.changes)
<1> DEFINE changes == tx.changes
<1>1. changes \in Seq(ChangesOf(Chars))
  BY DEF Transaction
<1>2. ValidChanges(text, changes)
  BY Zenon DEF ValidTransaction, ValidChanges
<1> HIDE DEF changes
<1>3. ASSUME NEW i \in 1 .. Len(changes) PROVE changes[i] \in ChangesOf(Plain)
  <2>1. changes[i] \in ChangesOf(Chars) /\ ~HasCarriageReturn(changes[i].insert)
    BY <1>1, <1>2 DEF ValidChanges, ValidChange
  <2>2. PICK change : change = changes[i]
    OBVIOUS
  <2>3. \A k \in 1 .. Len(change.insert) : change.insert[k] # CarriageReturn
    BY <2>1, <2>2 DEF HasCarriageReturn, Contains
  <2>4. change.insert \in Seq(Plain)
    <3>1. change.insert \in Seq(Chars)
      BY <2>1, <2>2 DEF ChangesOf
    <3>2. \A k \in 1 .. Len(change.insert) : change.insert[k] \in Plain
      BY <2>3, <3>1 DEF Plain
    <3> QED
      BY <3>1, <3>2
  <2> QED
    BY <2>1, <2>2, <2>4 DEF ChangesOf
<1>4. changes \in Seq(ChangesOf(Plain))
  BY <1>1, <1>3
<1> QED
  BY <1>2, <1>4 DEF changes

LEMMA TransactionResult ==
  ASSUME NEW text \in Seq(Plain), NEW tx \in Transaction
  PROVE  /\ ApplyTransaction(text, tx) \in Seq(Plain) \cup {Rejected}
         /\ ValidTransaction(text, tx) =>
              /\ ApplyTransaction(text, tx) = Edited(text, tx.changes)
              /\ Edited(text, tx.changes) \in Seq(Plain)
              /\ Units(Edited(text, tx.changes)) = LeftToRight(Units(text), tx.changes)
         /\ ~ValidTransaction(text, tx) => ApplyTransaction(text, tx) = Rejected
<1>1. ASSUME ValidTransaction(text, tx)
      PROVE  /\ Edited(text, tx.changes) \in Seq(Plain)
             /\ Units(Edited(text, tx.changes)) = LeftToRight(Units(text), tx.changes)
  <2>1. tx.changes \in Seq(ChangesOf(Plain)) /\ ValidChanges(text, tx.changes)
    BY <1>1, ValidAreTransactions
  <2> QED
    BY <2>1, PlainTexts, Simultaneous
<1> QED
  BY <1>1, Zenon DEF ApplyTransaction

\* The texts a batch goes through.
Candidates(text, txs) ==
  {c \in [0 .. Len(txs) -> Seq(Plain) \cup {Rejected}] :
     /\ c[0] = text
     /\ \A j \in 1 .. Len(txs) :
          c[j] = IF c[j - 1] = Rejected THEN Rejected ELSE ApplyTransaction(c[j - 1], txs[j])}

LEMMA CandidateOf ==
  ASSUME NEW text \in Seq(Plain), NEW txs \in Seq(Transaction), txs # << >>
  PROVE  \E c \in Candidates(text, txs) : ApplyTransactions(text, txs) = c[Len(txs)]
<1> DEFINE T == Seq(Plain) \cup {Rejected}
           n == Len(txs)
           next(j, t) == IF t = Rejected THEN Rejected ELSE ApplyTransaction(t, txs[j])
           step == [j \in 1 .. n |-> [t \in T |-> next(j, t)]]
           Is(g) == g = [j \in 0 .. n |-> IF j = 0 THEN text
                           ELSE IF g[j - 1] = Rejected THEN Rejected
                           ELSE ApplyTransaction(g[j - 1], txs[j])]
<1>1. n \in Nat /\ text \in T
  OBVIOUS
<1>2. ASSUME NEW j \in 1 .. n, NEW t \in T PROVE next(j, t) \in T
  <2>1. CASE t = Rejected
    BY <2>1
  <2>2. CASE t # Rejected
    <3>1. t \in Seq(Plain) /\ txs[j] \in Transaction
      BY <2>2
    <3>2. ApplyTransaction(t, txs[j]) \in T
      BY <3>1, TransactionResult, Zenon
    <3> QED
      BY <2>2, <3>2
  <2> QED
    BY <2>1, <2>2
<1> HIDE DEF next, T, n
<1>3. step \in [1 .. n -> [T -> T]]
  BY <1>2
<1>4. \A j \in 1 .. n, t \in T : step[j][t] = next(j, t)
  OBVIOUS
<1> HIDE DEF step
<1>5. Defined(T, n, text, step) # {}
  BY <1>1, <1>3, Recursion
<1>6. PICK c \in [0 .. n -> T] : c[0] = text /\ \A j \in 1 .. n : c[j] = step[j][c[j - 1]]
  BY <1>5 DEF Defined
<1>7. ASSUME NEW j \in 1 .. n PROVE c[j] = next(j, c[j - 1])
  <2>1. c[j - 1] \in T
    <3>1. j - 1 \in 0 .. n
      BY <1>1
    <3> QED
      BY <3>1
  <2> QED
    BY <1>4, <1>6, <2>1, Zenon
<1>8. Is(c)
  <2>1. ASSUME NEW j \in 0 .. n
        PROVE  c[j] = IF j = 0 THEN text
                      ELSE IF c[j - 1] = Rejected THEN Rejected
                      ELSE ApplyTransaction(c[j - 1], txs[j])
    <3>1. CASE j = 0
      BY <1>6, <3>1
    <3>2. CASE j # 0
      <4>1. j \in 1 .. n
        BY <1>1, <3>2
      <4> QED
        BY <1>7, <3>2, <4>1, Zenon DEF next
    <3> QED
      BY <3>1, <3>2
  <2>2. c = [j \in 0 .. n |-> c[j]]
    OBVIOUS
  <2> QED
    BY <2>1, <2>2, Zenon
<1> DEFINE g == CHOOSE h : Is(h)
<1>9. ApplyTransactions(text, txs) = g[n]
  BY Zenon DEF ApplyTransactions, n
<1>10. Is(g)
  BY <1>8, Zenon
<1> HIDE DEF g
<1>11. g[0] = text /\ \A j \in 1 .. n : g[j] = next(j, g[j - 1])
  <2>1. 0 \in 0 .. n /\ \A j \in 1 .. n : j \in 0 .. n /\ j # 0
    BY <1>1
  <2> QED
    BY <1>10, <2>1, Zenon DEF next
<1>12. c[n] = g[n]
  <2>1. c[0] = g[0]
    BY <1>6, <1>11, Zenon
  <2>2. \A k \in 1 .. n : c[k - 1] = g[k - 1] => c[k] = g[k]
    BY <1>7, <1>11, Zenon
  <2>3. StepsAgree(n, c, g)
    BY <2>1, <2>2, Zenon DEF StepsAgree
  <2>4. Agree(n, c, g)
    BY <1>1, <2>3, SameSteps, Zenon
  <2>5. n \in 0 .. n
    BY <1>1
  <2> QED
    BY <2>4, <2>5, Zenon DEF Agree
<1>13. c \in Candidates(text, txs)
  BY <1>6, <1>7, Zenon DEF Candidates, next, T, n
<1> QED
  BY <1>9, <1>12, <1>13, Zenon DEF n

LEMMA BatchResult ==
  ASSUME NEW text \in Seq(Plain), NEW txs \in Seq(Transaction), txs # << >>
  PROVE  /\ ApplyTransactions(text, txs) \in Seq(Plain) \cup {Rejected}
         /\ Len(txs) = 1 /\ text # Rejected =>
              ApplyTransactions(text, txs) = ApplyTransaction(text, txs[1])
<1>1. PICK c \in Candidates(text, txs) : ApplyTransactions(text, txs) = c[Len(txs)]
  BY CandidateOf
<1>2. Len(txs) \in 0 .. Len(txs)
  OBVIOUS
<1>3. c[Len(txs)] \in Seq(Plain) \cup {Rejected}
  BY <1>2 DEF Candidates
<1>4. ASSUME Len(txs) = 1, text # Rejected
      PROVE  c[Len(txs)] = ApplyTransaction(text, txs[1])
  <2>1. 1 \in 1 .. Len(txs) /\ 1 - 1 = 0
    BY <1>4
  <2>2. c[0] = text /\ c[1] = IF c[1 - 1] = Rejected THEN Rejected ELSE ApplyTransaction(c[1 - 1], txs[1])
    BY <2>1, Zenon DEF Candidates
  <2> QED
    BY <1>4, <2>1, <2>2
<1> QED
  BY <1>1, <1>3, <1>4

-----------------------------------------------------------------------------
(* The text that receives the batches *)

\* The inductive invariant: the text is what the last batch made of the one
\* before it. Both hold no carriage return.
Inv ==
  /\ EditTypeOK
  /\ batch \in Seq(Transaction)
  /\ batch # << >> => rope = Result(before, batch)

LEMMA ResultType ==
  ASSUME NEW text \in Seq(Plain), NEW txs \in Seq(Transaction), txs # << >>
  PROVE  Result(text, txs) \in Seq(Plain)
<1>1. ApplyTransactions(text, txs) \in Seq(Plain) \cup {Rejected}
  BY BatchResult
<1> QED
  BY <1>1 DEF Result

LEMMA LengthInUnits ==
  ASSUME NEW text \in Seq(Plain)
  PROVE  Utf16Len(text) \in Nat
<1>1. text \in Seq(Chars) /\ Len(text) \in Nat
  BY PlainTexts
<1>2. Utf16Offsets(text) \in [0 .. Len(text) -> Nat] /\ Len(text) \in 0 .. Len(text)
  BY <1>1, OffsetsOf
<1> QED
  BY <1>2 DEF Utf16Len

LEMMA PairsAreSequences ==
  ASSUME NEW S, NEW pair \in [1 .. 2 -> S]
  PROVE  pair \in Seq(S)
BY SeqDef

LEMMA OfferedTransactions ==
  ASSUME TextsAssumption, NEW text \in Seq(Plain)
  PROVE  /\ Transactions(text) \subseteq Transaction
         /\ Followers(text) \subseteq Transaction
         /\ \A s \in Inserts :
              [beforeLength |-> Utf16Len(text),
               changes |-> <<[from |-> 0, to |-> 0, insert |-> s]>>] \in Transaction
<1>1. Utf16Len(text) \in Nat
  BY LengthInUnits
<1>2. PICK u \in Nat : u = Utf16Len(text)
  BY <1>1
<1>3. Inserts \subseteq Seq(Chars) /\ MaxLength \in Nat
  BY DEF TextsAssumption
<1>4. << >> \in Seq(ChangesOf(Chars)) /\ << >> \in Seq(Chars)
  OBVIOUS
<1>5. \A change \in ChangesOf(Chars) : <<change>> \in Seq(ChangesOf(Chars))
  OBVIOUS
<1>6. AnyChange \subseteq ChangesOf(Chars)
  BY <1>3 DEF AnyChange, Offsets, ChangesOf
<1>7. ForwardChangesWithin(text) \subseteq ChangesOf(Chars)
  BY <1>2, <1>3 DEF ForwardChangesWithin, ChangesWithin, ChangesOf
<1>8. ASSUME NEW tx \in Transactions(text) PROVE tx \in Transaction
  <2>1. CASE tx \in [beforeLength : {Utf16Len(text), Utf16Len(text) + 1},
                     changes : {<< >>} \cup {<<change>> : change \in AnyChange}]
    <3>1. tx.changes \in Seq(ChangesOf(Chars))
      <4>1. tx.changes \in {<< >>} \cup {<<change>> : change \in AnyChange}
        BY <2>1
      <4> QED
        BY <1>4, <1>5, <1>6, <4>1
    <3> HIDE DEF AnyChange
    <3>2. tx = [beforeLength |-> tx.beforeLength, changes |-> tx.changes]
          /\ tx.beforeLength \in Nat
      BY <1>2, <2>1
    <3> QED
      BY <3>1, <3>2, Zenon DEF Transaction
  <2>2. CASE tx \in [beforeLength : {Utf16Len(text)}, changes : [1 .. 2 -> ForwardChangesWithin(text)]]
    <3>1. tx.changes \in Seq(ChangesOf(Chars))
      <4>1. tx.changes \in [1 .. 2 -> ForwardChangesWithin(text)]
        BY <2>2
      <4>2. tx.changes \in [1 .. 2 -> ChangesOf(Chars)]
        BY <1>7, <4>1
      <4> QED
        BY <4>2, PairsAreSequences
    <3>2. tx = [beforeLength |-> tx.beforeLength, changes |-> tx.changes]
          /\ tx.beforeLength \in Nat
      BY <1>2, <2>2
    <3> QED
      BY <3>1, <3>2, Zenon DEF Transaction
  <2> QED
    BY <2>1, <2>2, Zenon DEF Transactions
<1>9. ASSUME NEW tx \in Followers(text) PROVE tx \in Transaction
  <2>1. PICK d \in {1, 2} :
          tx = [beforeLength |-> Utf16Len(text), changes |-> <<[from |-> 0, to |-> d, insert |-> << >>]>>]
    BY DEF Followers
  <2>2. [from |-> 0, to |-> d, insert |-> << >>] \in ChangesOf(Chars)
    BY <1>4 DEF ChangesOf
  <2>3. PICK change \in ChangesOf(Chars) : change = [from |-> 0, to |-> d, insert |-> << >>]
    BY <2>2
  <2>4. <<change>> \in Seq(ChangesOf(Chars))
    BY <1>5
  <2> QED
    BY <1>2, <2>1, <2>3, <2>4 DEF Transaction
<1>10. ASSUME NEW s \in Inserts
       PROVE  [beforeLength |-> Utf16Len(text),
               changes |-> <<[from |-> 0, to |-> 0, insert |-> s]>>] \in Transaction
  <2>1. [from |-> 0, to |-> 0, insert |-> s] \in ChangesOf(Chars)
    BY <1>3 DEF ChangesOf
  <2>2. PICK change \in ChangesOf(Chars) : change = [from |-> 0, to |-> 0, insert |-> s]
    BY <2>1
  <2>3. <<change>> \in Seq(ChangesOf(Chars))
    BY <1>5
  <2> QED
    BY <1>2, <2>2, <2>3 DEF Transaction
<1> QED
  BY <1>8, <1>9, <1>10

LEMMA InitInv ==
  ASSUME TextsAssumption, EditInit
  PROVE  Inv
BY DEF TextsAssumption, EditInit, Inv, EditTypeOK

LEMMA SubmitInv ==
  ASSUME TextsAssumption, Inv, NEW txs \in Seq(Transaction), txs # << >>, Submit(txs)
  PROVE  Inv'
<1>1. rope \in Seq(Plain)
  BY DEF Inv, EditTypeOK, Plain
<1>2. rope' = Result(rope, txs) /\ Len(rope') <= MaxLength /\ before' = rope /\ batch' = txs
  BY DEF Submit
<1>3. Result(rope, txs) \in Seq(Plain)
  BY <1>1, ResultType
<1>4. EditTypeOK'
  BY <1>1, <1>2, <1>3 DEF EditTypeOK, Plain
<1>5. rope' = Result(before', batch')
  BY <1>2, Zenon
<1>6. (batch # << >> => rope = Result(before, batch))'
  BY <1>5, Zenon DEF Result, ApplyTransactions
<1> QED
  BY <1>2, <1>4, <1>6, Zenon DEF Inv

LEMMA NextInv ==
  ASSUME TextsAssumption, Inv, [EditNext]_editVars
  PROVE  Inv'
<1>1. rope \in Seq(Plain)
  BY DEF Inv, EditTypeOK, Plain
<1>2. CASE Settle
  BY <1>2 DEF Inv, EditTypeOK, Settle
<1>3. CASE \E tx \in Transactions(rope) : Submit(<<tx>>)
  <2>1. PICK tx \in Transactions(rope) : Submit(<<tx>>)
    BY <1>3
  <2>2. tx \in Transaction
    BY <1>1, OfferedTransactions, Zenon
  <2>3. <<tx>> \in Seq(Transaction) /\ <<tx>> # << >>
    BY <2>2
  <2> QED
    BY <2>1, <2>3, SubmitInv
<1>4. CASE \E tx \in {[beforeLength |-> Utf16Len(rope),
                       changes |-> <<[from |-> 0, to |-> 0, insert |-> s]>>] : s \in Inserts} :
             \E next \in Followers(Result(rope, <<tx>>)) : Submit(<<tx, next>>)
  <2>1. PICK s \in Inserts :
          \E next \in Followers(Result(rope, <<[beforeLength |-> Utf16Len(rope),
                       changes |-> <<[from |-> 0, to |-> 0, insert |-> s]>>]>>)) :
             Submit(<<[beforeLength |-> Utf16Len(rope),
                       changes |-> <<[from |-> 0, to |-> 0, insert |-> s]>>], next>>)
    BY <1>4
  <2> DEFINE tx == [beforeLength |-> Utf16Len(rope),
                    changes |-> <<[from |-> 0, to |-> 0, insert |-> s]>>]
  <2>2. tx \in Transaction
    BY <1>1, OfferedTransactions, Zenon
  <2>3. PICK next \in Followers(Result(rope, <<tx>>)) : Submit(<<tx, next>>)
    BY <2>1
  <2> HIDE DEF tx
  <2>4. <<tx>> \in Seq(Transaction) /\ <<tx>> # << >>
    BY <2>2
  <2>5. Result(rope, <<tx>>) \in Seq(Plain)
    BY <1>1, <2>4, ResultType
  <2>6. next \in Transaction
    BY <2>5, OfferedTransactions, Zenon
  <2>7. <<tx, next>> \in Seq(Transaction) /\ <<tx, next>> # << >>
    BY <2>2, <2>6
  <2> QED
    BY <2>3, <2>7, SubmitInv
<1>5. CASE UNCHANGED editVars
  BY <1>5 DEF Inv, EditTypeOK, editVars, Result, ApplyTransactions
<1> QED
  BY <1>2, <1>3, <1>4, <1>5 DEF EditNext

LEMMA Invariance == ASSUME TextsAssumption PROVE EditSpec => []Inv
<1>1. EditInit => Inv
  BY InitInv
<1>2. Inv /\ [EditNext]_editVars => Inv'
  BY NextInv
<1> QED
  BY <1>1, <1>2, PTL DEF EditSpec

\* The text is within its bound and holds no carriage return, whatever is
\* submitted to it.
THEOREM EditTypeCorrect == EditSpec => []EditTypeOK
<1>1. Inv => EditTypeOK
  BY DEF Inv
<1> QED
  BY <1>1, Invariance, TextsAssumption, PTL

\* What the property says of one batch of one transaction.
LEMMA LoneTransaction ==
  ASSUME TextsAssumption, Inv, Accepted, Len(batch) = 1
  PROVE  /\ before \in Seq(Plain) /\ batch[1] \in Transaction
         /\ ValidTransaction(before, batch[1])
         /\ rope = Edited(before, batch[1].changes)
         /\ Units(rope) = LeftToRight(Units(before), batch[1].changes)
<1>1. before \in Seq(Plain) /\ batch \in Seq(Transaction) /\ batch # << >>
      /\ rope = Result(before, batch)
  BY DEF Inv, EditTypeOK, Plain, Accepted
<1>2. batch[1] \in Transaction
  BY <1>1
<1>3. before # Rejected
  BY <1>1, PlainTexts DEF TextsAssumption
<1>4. ApplyTransactions(before, batch) = ApplyTransaction(before, batch[1])
  BY <1>1, <1>3, BatchResult
<1>5. ApplyTransaction(before, batch[1]) # Rejected
  BY <1>4 DEF Accepted
<1>6. rope = ApplyTransaction(before, batch[1])
  BY <1>1, <1>4, <1>5, Zenon DEF Result
<1>7. ValidTransaction(before, batch[1])
  BY <1>5, Zenon DEF ApplyTransaction
<1> QED
  BY <1>1, <1>2, <1>6, <1>7, TransactionResult, Zenon

\* The changes of a transaction, applied last to first on the rope, are all of
\* them replaced at once in the code units the editor counts, for texts and
\* transactions of any length over any alphabet (apply_transaction in
\* editor_document.rs).
THEOREM ReverseOrderIsRight == EditSpec => []ReverseOrderIsSimultaneous
<1>1. ASSUME TextsAssumption, Inv PROVE ReverseOrderIsSimultaneous
  BY <1>1, LoneTransaction DEF ReverseOrderIsSimultaneous
<1>2. Inv => ReverseOrderIsSimultaneous
  BY <1>1, TextsAssumption
<1> QED
  BY <1>2, Invariance, TextsAssumption, PTL

\* The frontend's queue and the document agree on which transactions are valid
\* but for empty ones and offsets within a surrogate pair (enqueue in
\* editorMutationQueue.ts and apply_transaction in editor_document.rs).
THEOREM ValidationsAgreeAlways == EditSpec => []ValidationsAgree
<1>1. ASSUME Inv, batch # << >>
      PROVE  LET tx == batch[1]
                 onBoundary == \A k \in 1 .. Len(tx.changes) :
                                 /\ StrictUtf16ToChar(before, tx.changes[k].from) # NoIndex
                                 /\ StrictUtf16ToChar(before, tx.changes[k].to) # NoIndex
             IN  (ApplyTransaction(before, tx) # Rejected) =
                   (EnqueueAccepts(Utf16Len(before), tx) /\ tx.changes # << >> /\ onBoundary)
  <2>1. before \in Seq(Plain) /\ batch[1] \in Transaction
    BY <1>1 DEF Inv, EditTypeOK, Plain
  <2>2. PICK tx \in Transaction : tx = batch[1]
    BY <2>1
  <2>3. ApplyTransaction(before, tx) # Rejected <=> ValidTransaction(before, tx)
    <3>1. Rejected \notin Seq(Plain)
      BY TextsAssumption, PlainTexts DEF TextsAssumption
    <3>2. CASE ValidTransaction(before, tx)
      <4>1. ApplyTransaction(before, tx) \in Seq(Plain)
        BY <2>1, <3>2, TransactionResult, Zenon
      <4> QED
        BY <3>1, <3>2, <4>1
    <3>3. CASE ~ValidTransaction(before, tx)
      BY <3>3, Zenon DEF ApplyTransaction
    <3> QED
      BY <3>2, <3>3
  <2> DEFINE onBoundary == \A k \in 1 .. Len(tx.changes) :
                             /\ StrictUtf16ToChar(before, tx.changes[k].from) # NoIndex
                             /\ StrictUtf16ToChar(before, tx.changes[k].to) # NoIndex
  <2>4. ValidTransaction(before, tx) <=>
          (EnqueueAccepts(Utf16Len(before), tx) /\ tx.changes # << >> /\ onBoundary)
    BY Zenon DEF ValidTransaction, ValidChange, EnqueueAccepts
  <2>5. (ApplyTransaction(before, tx) # Rejected) =
          (EnqueueAccepts(Utf16Len(before), tx) /\ tx.changes # << >> /\ onBoundary)
    <3> HIDE DEF onBoundary
    <3> QED
      BY <2>3, <2>4, Zenon DEF EnqueueAccepts
  <2> QED
    BY <2>2, <2>5, Zenon
<1>2. Inv => ValidationsAgree
  BY <1>1, Zenon DEF ValidationsAgree
<1> QED
  BY <1>2, Invariance, TextsAssumption, PTL

\* The text after a valid transaction of one change.
LEMMA OneChange ==
  ASSUME NEW text \in Seq(Plain), NEW changes \in Seq(ChangesOf(Plain)),
         ValidChanges(text, changes), Len(changes) = 1
  PROVE  \E from, to \in Nat :
           /\ from = StrictUtf16ToChar(text, changes[1].from)
           /\ to = StrictUtf16ToChar(text, changes[1].to)
           /\ from <= to /\ to <= Len(text)
           /\ Edited(text, changes) = Splice(text, from, to, changes[1].insert)
<1> DEFINE a == Starts(text, changes)
           b == Ends(text, changes)
           ins == Insertions(changes)
<1>1. Ranged(Plain, text, 1, a, b, ins)
  BY PlainTexts, ValidRanges
<1> HIDE DEF a, b, ins
<1>2. PICK v \in WrittenTexts(Plain, text, 1, a, b, ins) : TRUE
  BY <1>1, Writing
<1>3. PICK f \in Ropes(Plain, text, 1, a, b, ins) : TRUE
  BY <1>1, <1>2, Rewriting
<1>4. Edited(text, changes) = f[1]
  BY <1>3, EditedOf, Zenon DEF a, b, ins
<1>5. f[1] = Splice(text, a[1], b[1], ins[1])
  <2>1. 1 \in 1 .. 1 /\ 1 - 1 = 0 /\ (1 + 1) - 1 = 1
    OBVIOUS
  <2>2. f[0] = text /\ f[1] = Splice(f[1 - 1], a[(1 + 1) - 1], b[(1 + 1) - 1], ins[(1 + 1) - 1])
    BY <2>1, Zenon DEF Ropes
  <2> QED
    BY <2>1, <2>2
<1>6. /\ a[1] = StrictUtf16ToChar(text, changes[1].from)
      /\ b[1] = StrictUtf16ToChar(text, changes[1].to)
      /\ ins[1] = changes[1].insert
  <2>1. 1 \in 1 .. Len(changes) /\ 1 \in 0 .. Len(changes) /\ 1 # 0
    OBVIOUS
  <2> QED
    BY <2>1, Zenon DEF a, b, ins, Starts, Ends, Insertions
<1>7. a[1] \in Nat /\ b[1] \in Nat /\ a[1] <= b[1] /\ b[1] <= Len(text)
  <2>1. 1 \in 1 .. 1 /\ 1 \in 0 .. 1
    OBVIOUS
  <2> QED
    BY <1>1, <2>1 DEF Ranged
<1> QED
  BY <1>4, <1>5, <1>6, <1>7

OutsideIsKept(r, text, from, to, insert) ==
  /\ SubSeq(r, 1, from) = SubSeq(text, 1, from)
  /\ SubSeq(r, (from + Len(insert)) + 1, Len(r)) = SubSeq(text, to + 1, Len(text))

LEMMA OutsideSplice ==
  ASSUME NEW S, NEW text \in Seq(S), NEW insert \in Seq(S), NEW from \in Nat, NEW to \in Nat,
         from <= to, to <= Len(text), NEW r, r = Splice(text, from, to, insert)
  PROVE  OutsideIsKept(r, text, from, to, insert)
<1>0. from <= Len(text) /\ Len(text) \in Nat
  BY LenProperties
<1> DEFINE x == SubSeq(text, 1, from)
           z == SubSeq(text, to + 1, Len(text))
           xi == x \o insert
           iz == insert \o z
<1>1. x \in Seq(S) /\ z \in Seq(S)
  <2>1. Len(text) <= Len(text)
    BY <1>0
  <2> QED
    BY <1>0, <2>1, FirstPiece, Piece
<1>2. Len(x) = from
  BY <1>0, FirstPiece
<1>3. r = xi \o z
  BY DEF Splice
<1> HIDE DEF x, z
<1>4. xi \in Seq(S) /\ iz \in Seq(S)
  BY <1>1, ConcatProperties, Zenon
<1>5. Len(xi) = from + Len(insert)
  BY <1>1, <1>2, ConcatProperties
<1>6. Associates(x, insert, z)
  BY <1>1, Association, Zenon
<1>7. r = x \o iz
  BY <1>3, <1>6, Zenon DEF Associates
<1> HIDE DEF xi, iz
<1>8. SubSeq(x \o iz, 1, Len(x)) = x
  BY <1>1, <1>4, TwoParts, Zenon
<1>9. SubSeq(xi \o z, Len(xi) + 1, Len(xi \o z)) = z
  BY <1>1, <1>4, TwoParts, Zenon
<1>10. SubSeq(r, 1, from) = x
  BY <1>2, <1>7, <1>8, Zenon
<1>11. SubSeq(r, (from + Len(insert)) + 1, Len(r)) = z
  BY <1>3, <1>5, <1>9, Zenon
<1> QED
  BY <1>10, <1>11, Zenon DEF x, z, OutsideIsKept

\* Outside the ranges the preview is told of, a batch changes nothing
\* (single_change_impact in editor_document.rs).
THEOREM ImpactCovers == EditSpec => []ImpactCoversChange
<1>1. ASSUME TextsAssumption, Inv, Accepted, SingleChangeImpact(before, batch) # NoIndex
      PROVE  LET impact == SingleChangeImpact(before, batch)
             IN  /\ SubSeq(rope, 1, impact.after[1]) = SubSeq(before, 1, impact.before[1])
                 /\ SubSeq(rope, impact.after[2] + 1, Len(rope)) =
                      SubSeq(before, impact.before[2] + 1, Len(before))
  <2>1. Len(batch) = 1 /\ Len(batch[1].changes) = 1
    BY <1>1, Zenon DEF SingleChangeImpact
  <2>2. /\ before \in Seq(Plain) /\ batch[1] \in Transaction
        /\ ValidTransaction(before, batch[1])
        /\ rope = Edited(before, batch[1].changes)
    BY <1>1, <2>1, LoneTransaction
  <2>3. batch[1].changes \in Seq(ChangesOf(Plain)) /\ ValidChanges(before, batch[1].changes)
    BY <2>2, ValidAreTransactions
  <2>4. PICK changes \in Seq(ChangesOf(Plain)) : changes = batch[1].changes
    BY <2>3
  <2>5. PICK from, to \in Nat :
          /\ from = StrictUtf16ToChar(before, changes[1].from)
          /\ to = StrictUtf16ToChar(before, changes[1].to)
          /\ from <= to /\ to <= Len(before)
          /\ Edited(before, changes) = Splice(before, from, to, changes[1].insert)
    BY <2>1, <2>2, <2>3, <2>4, OneChange
  <2>6. PICK insert \in Seq(Plain) : insert = changes[1].insert
    <3>1. changes[1] \in ChangesOf(Plain)
      BY <2>1, <2>4
    <3> QED
      BY <3>1 DEF ChangesOf
  <2>7. /\ SubSeq(rope, 1, from) = SubSeq(before, 1, from)
        /\ SubSeq(rope, (from + Len(insert)) + 1, Len(rope)) = SubSeq(before, to + 1, Len(before))
    <3>1. rope = Splice(before, from, to, insert)
      BY <2>2, <2>4, <2>5, <2>6
    <3>2. OutsideIsKept(rope, before, from, to, insert)
      BY <2>2, <2>5, <3>1, OutsideSplice, Zenon
    <3> QED
      BY <3>2, Zenon DEF OutsideIsKept
  <2>8. SingleChangeImpact(before, batch)
          = [before |-> <<from, to>>, after |-> <<from, from + Len(insert)>>]
    BY <1>1, <2>1, <2>4, <2>5, <2>6, Zenon DEF SingleChangeImpact
  <2> DEFINE impact == SingleChangeImpact(before, batch)
  <2>9. /\ impact.after[1] = from /\ impact.before[1] = from
        /\ impact.after[2] = from + Len(insert) /\ impact.before[2] = to
    BY <2>8
  <2> HIDE DEF impact
  <2>10. /\ SubSeq(rope, 1, impact.after[1]) = SubSeq(before, 1, impact.before[1])
         /\ SubSeq(rope, impact.after[2] + 1, Len(rope)) =
              SubSeq(before, impact.before[2] + 1, Len(before))
    BY <2>7, <2>9
  <2> QED
    BY <2>10 DEF impact
<1>2. Inv => ImpactCoversChange
  BY <1>1, TextsAssumption, Zenon DEF ImpactCoversChange
<1> QED
  BY <1>2, Invariance, TextsAssumption, PTL

-----------------------------------------------------------------------------
(* Sequences one behind the other *)

\* The sequences of a sequence, put together from the first to each of them.
Concatenated(q, S) ==
  CHOOSE u \in [0 .. Len(q) -> Seq(S)] :
    u[0] = << >> /\ \A n \in 1 .. Len(q) : u[n] = u[n - 1] \o q[n]

LEMMA JoinedOf ==
  ASSUME NEW S, NEW q \in Seq(Seq(S))
  PROVE  /\ Concatenated(q, S) \in [0 .. Len(q) -> Seq(S)]
         /\ Concatenated(q, S)[0] = << >>
         /\ \A n \in 1 .. Len(q) : Concatenated(q, S)[n] = Concatenated(q, S)[n - 1] \o q[n]
<1> DEFINE N == Len(q)
           step == [n \in 1 .. N |-> [u \in Seq(S) |-> u \o q[n]]]
<1>1. N \in Nat /\ \A n \in 1 .. N : q[n] \in Seq(S)
  BY ElementOfSeq, LenProperties
<1>2. step \in [1 .. N -> [Seq(S) -> Seq(S)]]
  <2>1. ASSUME NEW n \in 1 .. N, NEW u \in Seq(S) PROVE u \o q[n] \in Seq(S)
    <3>1. q[n] \in Seq(S)
      BY <1>1
    <3> QED
      BY <3>1, ConcatProperties
  <2> QED
    BY <2>1
<1>3. PICK f \in [0 .. N -> Seq(S)] : f[0] = << >> /\ \A n \in 1 .. N : f[n] = step[n][f[n - 1]]
  <2>1. << >> \in Seq(S)
    OBVIOUS
  <2> HIDE DEF N, step
  <2>2. Defined(Seq(S), N, << >>, step) # {}
    BY <1>1, <1>2, <2>1, Recursion
  <2> QED
    BY <2>2 DEF Defined
<1>4. \A n \in 1 .. N : f[n] = f[n - 1] \o q[n]
  <2>1. ASSUME NEW n \in 1 .. N PROVE f[n] = f[n - 1] \o q[n]
    <3>1. n - 1 \in 0 .. N
      BY <1>1
    <3> HIDE DEF N
    <3>2. f[n - 1] \in Seq(S)
      BY <3>1
    <3>3. step[n][f[n - 1]] = f[n - 1] \o q[n]
      BY <3>2
    <3> QED
      BY <1>3, <3>3
  <2> QED
    BY <2>1
<1> QED
  BY <1>3, <1>4, Zenon DEF Concatenated

\* FlattenSeq is the last of them.
LEMMA FlattenOf ==
  ASSUME NEW S, NEW q \in Seq(Seq(S))
  PROVE  FlattenSeq(q) = Concatenated(q, S)[Len(q)] /\ FlattenSeq(q) \in Seq(S)
<1> DEFINE N == Len(q)
           u == Concatenated(q, S)
           Is(g) == g = [i \in 1 .. N |-> IF i = 1 THEN q[i] ELSE g[i - 1] \o q[i]]
           part == [i \in 1 .. N |-> u[i]]
<1>1. /\ N \in Nat /\ \A n \in 1 .. N : q[n] \in Seq(S)
      /\ u \in [0 .. N -> Seq(S)] /\ u[0] = << >>
      /\ \A n \in 1 .. N : u[n] = u[n - 1] \o q[n]
  BY ElementOfSeq, LenProperties, JoinedOf
<1>2. CASE N = 0
  <2>1. q = << >>
    BY <1>2
  <2>2. FlattenSeq(q) = q
    BY <1>2, Zenon DEF FlattenSeq
  <2> QED
    BY <1>1, <1>2, <2>1, <2>2
<1>3. CASE N # 0
  <2>1. FlattenSeq(q) = (CHOOSE g : Is(g))[N]
    BY <1>3, Zenon DEF FlattenSeq
  <2> HIDE DEF u
  <2>2. \A i \in 1 .. N : u[i] = IF i = 1 THEN q[i] ELSE part[i - 1] \o q[i]
    <3>1. ASSUME NEW i \in 1 .. N, i = 1 PROVE u[i] = q[i]
      <4>0. i - 1 = 0
        BY <3>1
      <4> HIDE DEF N
      <4>1. u[i] = << >> \o q[i] /\ q[i] \in Seq(S)
        BY <1>1, <4>0
      <4> QED
        BY <4>1, ConcatEmptySeq, Zenon
    <3>2. ASSUME NEW i \in 1 .. N, i # 1 PROVE u[i] = part[i - 1] \o q[i]
      <4>1. i - 1 \in 1 .. N
        BY <1>1, <3>2
      <4> QED
        BY <1>1, <4>1
    <3> HIDE DEF part, N
    <3> QED
      BY <3>1, <3>2
  <2>3. Is(part)
    <3> HIDE DEF N
    <3> QED
      BY <2>2
  <2>4. Is(CHOOSE g : Is(g))
    <3> HIDE DEF part
    <3> HIDE DEF Is
    <3> QED
      BY <2>3, Zenon
  <2>5. PICK g : g = (CHOOSE h : Is(h))
    OBVIOUS
  <2>6. Is(g)
    BY <2>4, <2>5, Zenon
  <2> DEFINE T == {n \in Nat : n + 1 <= N => g[n + 1] = u[n + 1]}
  <2>7. 0 \in T
    <3>1. 1 \in 1 .. N
      BY <1>1, <1>3
    <3>2. g[1] = q[1] /\ u[1] = q[1]
      BY <2>2, <2>6, <3>1
    <3> QED
      BY <3>2
  <2>8. ASSUME NEW n \in Nat, n \in T PROVE n + 1 \in T
    <3> SUFFICES ASSUME (n + 1) + 1 <= N PROVE g[(n + 1) + 1] = u[(n + 1) + 1]
      OBVIOUS
    <3> DEFINE m == (n + 1) + 1
    <3>1. m \in 1 .. N /\ m # 1 /\ m - 1 = n + 1 /\ n + 1 <= N
      BY <1>1
    <3> HIDE DEF m
    <3>2. g[m] = g[m - 1] \o q[m]
      BY <2>6, <3>1
    <3>3. u[m] = u[m - 1] \o q[m]
      BY <1>1, <3>1
    <3>4. g[m - 1] = u[m - 1]
      BY <2>8, <3>1
    <3> QED
      BY <3>2, <3>3, <3>4, Zenon DEF m
  <2>9. Nat \subseteq T
    <3> HIDE DEF T
    <3> QED
      BY <2>7, <2>8, Induction
  <2>10. N - 1 \in Nat /\ (N - 1) + 1 = N /\ N \in 0 .. N
    BY <1>1, <1>3
  <2>11. g[N] = u[N]
    <3>1. N - 1 \in T
      BY <2>9, <2>10
    <3>2. (N - 1) + 1 <= N
      BY <2>10
    <3>3. g[(N - 1) + 1] = u[(N - 1) + 1]
      BY <3>1, <3>2
    <3> QED
      BY <2>10, <3>3
  <2> QED
    BY <1>1, <2>1, <2>5, <2>10, <2>11 DEF u
<1> QED
  BY <1>2, <1>3

LEMMA FlattenFew ==
  ASSUME NEW S, NEW p \in Seq(S), NEW q \in Seq(S)
  PROVE  FlattenSeq(<<p>>) = p /\ FlattenSeq(<<p, q>>) = p \o q
<1>1. /\ << >> \o p = p
      /\ Concatenated(<<p>>, S)[0] = << >> /\ Concatenated(<<p>>, S)[1] = Concatenated(<<p>>, S)[0] \o p
  <2>1. <<p>> \in Seq(Seq(S)) /\ 1 \in 1 .. Len(<<p>>) /\ <<p>>[1] = p /\ 1 - 1 = 0
    OBVIOUS
  <2>2. << >> \o p = p
    BY ConcatEmptySeq, Zenon
  <2>3. Concatenated(<<p>>, S)[1] = Concatenated(<<p>>, S)[1 - 1] \o <<p>>[1] /\ Concatenated(<<p>>, S)[0] = << >>
    BY <2>1, JoinedOf, Zenon
  <2> QED
    BY <2>1, <2>2, <2>3, Zenon
<1>2. FlattenSeq(<<p>>) = p
  <2>1. <<p>> \in Seq(Seq(S)) /\ Len(<<p>>) = 1
    OBVIOUS
  <2> QED
    BY <1>1, <2>1, FlattenOf, Zenon
<1>3. /\ Concatenated(<<p, q>>, S)[1] = p
      /\ Concatenated(<<p, q>>, S)[2] = p \o q
  <2> DEFINE two == <<p, q>>
  <2>1. two \in Seq(Seq(S)) /\ 1 \in 1 .. Len(two) /\ 2 \in 1 .. Len(two)
        /\ two[1] = p /\ two[2] = q /\ 1 - 1 = 0 /\ 2 - 1 = 1
    OBVIOUS
  <2> HIDE DEF two
  <2>2. /\ Concatenated(two, S)[0] = << >>
        /\ Concatenated(two, S)[1] = Concatenated(two, S)[1 - 1] \o two[1]
        /\ Concatenated(two, S)[2] = Concatenated(two, S)[2 - 1] \o two[2]
    BY <2>1, JoinedOf, Zenon
  <2>3. Concatenated(two, S)[1] = p /\ Concatenated(two, S)[2] = p \o q
    BY <1>1, <2>1, <2>2, Zenon
  <2> QED
    BY <2>3 DEF two
<1>4. FlattenSeq(<<p, q>>) = p \o q
  <2>1. <<p, q>> \in Seq(Seq(S)) /\ Len(<<p, q>>) = 2
    OBVIOUS
  <2> QED
    BY <1>3, <2>1, FlattenOf, Zenon
<1> QED
  BY <1>2, <1>4

\* A sequence that starts as one and goes on as another.
Behind(a, b, c) ==
  /\ Len(c) = Len(a) + Len(b)
  /\ \A i \in 1 .. Len(a) : c[i] = a[i]
  /\ \A i \in 1 .. Len(b) : c[Len(a) + i] = b[i]

LEMMA BehindOneAnother ==
  ASSUME NEW S, NEW a \in Seq(S), NEW b \in Seq(S), NEW c \in Seq(S), Behind(a, b, c)
  PROVE  c = a \o b
<1> USE DEF Behind
<1>1. PICK d \in Seq(S) : d = a \o b
  BY ConcatProperties
<1>2. /\ Len(a) \in Nat /\ Len(b) \in Nat /\ Len(d) = Len(a) + Len(b)
      /\ \A i \in 1 .. Len(a) : d[i] = a[i]
      /\ \A i \in 1 .. Len(b) : d[Len(a) + i] = b[i]
  BY <1>1
<1>3. ASSUME NEW i \in 1 .. Len(c) PROVE c[i] = d[i]
  <2>1. CASE i <= Len(a)
    <3>1. i \in 1 .. Len(a)
      BY <2>1
    <3> QED
      BY <1>2, <3>1
  <2>2. CASE i > Len(a)
    <3>1. i - Len(a) \in 1 .. Len(b) /\ Len(a) + (i - Len(a)) = i
      BY <1>2, <2>2
    <3> QED
      BY <1>2, <3>1
  <2> QED
    BY <1>2, <2>1, <2>2
<1> QED
  BY <1>1, <1>2, <1>3, SeqEqual

LEMMA FlattenConcat ==
  ASSUME NEW S, NEW p \in Seq(Seq(S)), NEW q \in Seq(Seq(S))
  PROVE  FlattenSeq(p \o q) = FlattenSeq(p) \o FlattenSeq(q)
<1> DEFINE pq == p \o q
           M == Len(p)
           N == Len(q)
           u == Concatenated(pq, S)
           up == Concatenated(p, S)
           uq == Concatenated(q, S)
           whole == FlattenSeq(p)
<1>1. /\ M \in Nat /\ N \in Nat /\ pq \in Seq(Seq(S)) /\ Len(pq) = M + N
      /\ \A i \in 1 .. M : pq[i] = p[i]
      /\ \A i \in 1 .. N : pq[M + i] = q[i]
  OBVIOUS
<1> HIDE DEF pq
<1>2. u[0] = << >> /\ \A n \in 1 .. M + N : u[n] = u[n - 1] \o pq[n]
  <2>1. u[0] = << >> /\ \A n \in 1 .. Len(pq) : u[n] = u[n - 1] \o pq[n]
    BY <1>1, JoinedOf, Zenon
  <2> QED
    BY <1>1, <2>1, Zenon
<1>3. up[0] = << >> /\ \A n \in 1 .. M : up[n] = up[n - 1] \o p[n]
  BY JoinedOf, Zenon
<1>4. /\ uq \in [0 .. N -> Seq(S)] /\ uq[0] = << >>
      /\ \A n \in 1 .. N : uq[n] = uq[n - 1] \o q[n]
  BY JoinedOf, Zenon
<1>5. whole \in Seq(S) /\ whole = up[M] /\ FlattenSeq(q) = uq[N] /\ FlattenSeq(pq) = u[M + N]
  BY <1>1, FlattenOf
<1>6. \A n \in 1 .. N : q[n] \in Seq(S)
  BY ElementOfSeq
<1> HIDE DEF u, up, uq, whole, M, N
<1>7. u[M] = whole
  <2>1. StepsAgree(M, u, up)
    <3>1. \A n \in 1 .. M : n \in 1 .. M + N
      BY <1>1
    <3>2. ASSUME NEW n \in 1 .. M, u[n - 1] = up[n - 1] PROVE u[n] = up[n]
      BY <1>1, <1>2, <1>3, <3>1, <3>2, Zenon
    <3> QED
      BY <1>2, <1>3, <3>2, Zenon DEF StepsAgree
  <2>2. Agree(M, u, up) /\ M \in 0 .. M
    BY <1>1, <2>1, SameSteps
  <2> QED
    BY <1>5, <2>2, Zenon DEF Agree
<1> DEFINE T == {n \in Nat : n <= N => u[M + n] = whole \o uq[n]}
<1>8. 0 \in T
  <2>1. whole \o << >> = whole
    BY <1>5, ConcatEmptySeq, Zenon
  <2>2. M + 0 = M
    BY <1>1
  <2>3. u[M + 0] = whole \o uq[0]
    BY <1>4, <1>7, <2>1, <2>2, Zenon
  <2> QED
    BY <2>3
<1>9. ASSUME NEW n \in Nat, n \in T PROVE n + 1 \in T
  <2> SUFFICES ASSUME n + 1 <= N PROVE u[M + (n + 1)] = whole \o uq[n + 1]
    OBVIOUS
  <2>1. /\ n \in 0 .. N /\ n + 1 \in 1 .. N /\ (n + 1) - 1 = n /\ n <= N
        /\ M + (n + 1) \in 1 .. M + N /\ (M + (n + 1)) - 1 = M + n
    BY <1>1
  <2>2. u[M + (n + 1)] = u[M + n] \o pq[M + (n + 1)]
    BY <1>2, <2>1
  <2>3. pq[M + (n + 1)] = q[n + 1]
    BY <1>1, <2>1
  <2>4. uq[n + 1] = uq[n] \o q[n + 1] /\ uq[n] \in Seq(S) /\ q[n + 1] \in Seq(S)
    BY <1>4, <1>6, <2>1
  <2>5. u[M + n] = whole \o uq[n]
    BY <1>9, <2>1
  <2>6. Associates(whole, uq[n], q[n + 1])
    BY <1>5, <2>4, Association, Zenon
  <2> QED
    BY <2>2, <2>3, <2>4, <2>5, <2>6, Zenon DEF Associates
<1>10. Nat \subseteq T
  <2> HIDE DEF T
  <2> QED
    BY <1>8, <1>9, Induction
<1>11. N \in T /\ N <= N
  <2> HIDE DEF T
  <2> QED
    BY <1>1, <1>10
<1> QED
  BY <1>5, <1>11 DEF pq, whole

\* What holds of the empty sequence and of each with one element more.
LEMMA AppendInduction ==
  ASSUME NEW S, NEW G, << >> \in G, \A s \in Seq(S), c \in S : s \in G => s \o <<c>> \in G
  PROVE  Seq(S) \subseteq G
<1> DEFINE T == {n \in Nat : \A s \in Seq(S) : Len(s) = n => s \in G}
<1>1. 0 \in T
  OBVIOUS
<1>2. ASSUME NEW n \in Nat, n \in T PROVE n + 1 \in T
  <2> SUFFICES ASSUME NEW s \in Seq(S), Len(s) = n + 1 PROVE s \in G
    OBVIOUS
  <2>1. n <= Len(s) /\ Len(s) \in Nat /\ n + 1 \in 1 .. Len(s)
    OBVIOUS
  <2>2. PICK short \in Seq(S) : short = SubSeq(s, 1, n)
    BY <2>1, FirstPiece
  <2>3. Len(short) = n /\ \A i \in 1 .. n : short[i] = s[i]
    BY <2>1, <2>2, FirstPiece
  <2>4. short \in G /\ s[n + 1] \in S
    BY <1>2, <2>1, <2>3
  <2>5. short \o <<s[n + 1]>> \in G
    BY <2>4
  <2>6. short \o <<s[n + 1]>> = s
    <3>1. PICK c \in S : c = s[n + 1]
      BY <2>4
    <3>2. PICK again \in Seq(S) : again = short \o <<c>>
      <4>1. <<c>> \in Seq(S)
        OBVIOUS
      <4> QED
        BY <4>1, ConcatProperties
    <3>3. Len(again) = n + 1 /\ again[n + 1] = c /\ \A i \in 1 .. n : again[i] = short[i]
      BY <2>3, <3>2
    <3>4. ASSUME NEW i \in 1 .. n + 1 PROVE again[i] = s[i]
      <4>1. i \in 1 .. n \/ i = n + 1
        OBVIOUS
      <4> QED
        BY <2>3, <3>1, <3>3, <4>1
    <3>5. again = s
      BY <3>3, <3>4, SeqEqual
    <3> QED
      BY <3>1, <3>2, <3>5
  <2> QED
    BY <2>5, <2>6
<1>3. Nat \subseteq T
  <2> HIDE DEF T
  <2> QED
    BY <1>1, <1>2, Induction
<1> QED
  BY <1>3

-----------------------------------------------------------------------------
(* Line endings *)

FileChars == Letters \cup {CR, LF}
TextChars == Letters \cup {LF}

ReadParts(s) ==
  [i \in 1 .. Len(s) |->
     IF i \in CrlfEnds(s) THEN << >> ELSE IF s[i] = CR THEN <<LF>> ELSE <<s[i]>>]

WrittenParts(t) == [i \in 1 .. Len(t) |-> IF t[i] = LF THEN <<CR, LF>> ELSE <<t[i]>>]

LEMMA ReadType ==
  ASSUME NEW s \in Seq(FileChars)
  PROVE  /\ ReadParts(s) \in Seq(Seq(TextChars)) /\ Len(ReadParts(s)) = Len(s)
         /\ CanonicalText(s) = FlattenSeq(ReadParts(s))
         /\ CanonicalText(s) \in Seq(TextChars)
<1>1. ASSUME NEW i \in 1 .. Len(s) PROVE ReadParts(s)[i] \in Seq(TextChars)
  <2>1. s[i] \in FileChars
    BY ElementOfSeq
  <2>2. << >> \in Seq(TextChars) /\ <<LF>> \in Seq(TextChars)
    BY DEF TextChars
  <2>3. CASE s[i] = CR
    BY <2>2, <2>3 DEF ReadParts
  <2>4. CASE s[i] # CR
    <3>1. s[i] \in TextChars
      BY <2>1, <2>4 DEF FileChars, TextChars
    <3>2. <<s[i]>> \in Seq(TextChars)
      BY <3>1
    <3> QED
      BY <2>2, <2>4, <3>2, Zenon DEF ReadParts
  <2> QED
    BY <2>3, <2>4
<1>2. ReadParts(s) \in Seq(Seq(TextChars)) /\ Len(ReadParts(s)) = Len(s)
  <2>1. Len(s) \in Nat /\ ReadParts(s) \in [1 .. Len(s) -> Seq(TextChars)]
    BY <1>1 DEF ReadParts
  <2> HIDE DEF TextChars
  <2> QED
    BY <2>1
<1>3. CanonicalText(s) = FlattenSeq(ReadParts(s))
  BY DEF CanonicalText, ReadParts
<1> QED
  BY <1>2, <1>3, FlattenOf

LEMMA WriteType ==
  ASSUME NEW t \in Seq(TextChars)
  PROVE  /\ WrittenParts(t) \in Seq(Seq(FileChars)) /\ Len(WrittenParts(t)) = Len(t)
         /\ WriteCrlfChunk(t) = FlattenSeq(WrittenParts(t))
         /\ WriteCrlfChunk(t) \in Seq(FileChars)
<1>1. ASSUME NEW i \in 1 .. Len(t) PROVE WrittenParts(t)[i] \in Seq(FileChars)
  <2>1. t[i] \in TextChars
    BY ElementOfSeq
  <2>2. <<CR, LF>> \in Seq(FileChars)
    BY DEF FileChars
  <2>3. t[i] \in FileChars
    BY <2>1 DEF FileChars, TextChars
  <2>4. <<t[i]>> \in Seq(FileChars)
    BY <2>3
  <2> QED
    BY <2>2, <2>4, Zenon DEF WrittenParts
<1>2. WrittenParts(t) \in Seq(Seq(FileChars)) /\ Len(WrittenParts(t)) = Len(t)
  <2>1. Len(t) \in Nat /\ WrittenParts(t) \in [1 .. Len(t) -> Seq(FileChars)]
    BY <1>1 DEF WrittenParts
  <2> HIDE DEF FileChars
  <2> QED
    BY <2>1
<1>3. WriteCrlfChunk(t) = FlattenSeq(WrittenParts(t))
  BY DEF WriteCrlfChunk, WrittenParts
<1> QED
  BY <1>2, <1>3, FlattenOf

\* Two pieces one behind the other are written as each of them is.
LEMMA WriteConcat ==
  ASSUME NEW s \in Seq(TextChars), NEW t \in Seq(TextChars)
  PROVE  WriteCrlfChunk(s \o t) = WriteCrlfChunk(s) \o WriteCrlfChunk(t)
<1> DEFINE st == s \o t
<1>1. /\ st \in Seq(TextChars) /\ Len(st) = Len(s) + Len(t)
      /\ Len(s) \in Nat /\ Len(t) \in Nat
      /\ \A i \in 1 .. Len(s) : st[i] = s[i]
      /\ \A i \in 1 .. Len(t) : st[Len(s) + i] = t[i]
  OBVIOUS
<1> HIDE DEF st
<1>2. /\ WrittenParts(st) \in Seq(Seq(FileChars)) /\ Len(WrittenParts(st)) = Len(st)
      /\ WrittenParts(s) \in Seq(Seq(FileChars)) /\ Len(WrittenParts(s)) = Len(s)
      /\ WrittenParts(t) \in Seq(Seq(FileChars)) /\ Len(WrittenParts(t)) = Len(t)
  BY <1>1, WriteType
<1>3. WrittenParts(st) = WrittenParts(s) \o WrittenParts(t)
  <2>1. ASSUME NEW i \in 1 .. Len(s) PROVE WrittenParts(st)[i] = WrittenParts(s)[i]
    <3>1. i \in 1 .. Len(st) /\ st[i] = s[i]
      BY <1>1
    <3> QED
      BY <3>1 DEF WrittenParts
  <2>2. ASSUME NEW i \in 1 .. Len(t) PROVE WrittenParts(st)[Len(s) + i] = WrittenParts(t)[i]
    <3>1. Len(s) + i \in 1 .. Len(st) /\ st[Len(s) + i] = t[i]
      BY <1>1
    <3> QED
      BY <3>1 DEF WrittenParts
  <2>3. Len(WrittenParts(st)) = Len(WrittenParts(s)) + Len(WrittenParts(t))
    BY <1>1, <1>2
  <2>4. Behind(WrittenParts(s), WrittenParts(t), WrittenParts(st))
    BY <1>2, <2>1, <2>2, <2>3, Zenon DEF Behind
  <2> QED
    BY <1>2, <2>4, BehindOneAnother, Zenon
<1>4. FlattenSeq(WrittenParts(s) \o WrittenParts(t))
        = FlattenSeq(WrittenParts(s)) \o FlattenSeq(WrittenParts(t))
  BY <1>2, FlattenConcat
<1> QED
  BY <1>1, <1>3, <1>4, WriteType, Zenon DEF st

NoCrLast(s) == s # << >> => s[Len(s)] # CR

\* Where the last character is no \r, what follows makes no difference to what was there,
\* nor the other way round.
LEMMA EndsConcat ==
  ASSUME NEW s \in Seq(FileChars), NEW t \in Seq(FileChars), NoCrLast(s)
  PROVE  /\ \A i \in 1 .. Len(s) : i \in CrlfEnds(s \o t) <=> i \in CrlfEnds(s)
         /\ \A i \in 1 .. Len(t) : Len(s) + i \in CrlfEnds(s \o t) <=> i \in CrlfEnds(t)
         /\ SingleEnds(s) = {} /\ SingleEnds(t) = {} => SingleEnds(s \o t) = {}
<1>1. PICK st \in Seq(FileChars) : st = s \o t
  BY ConcatProperties
<1>2. /\ Len(st) = Len(s) + Len(t) /\ Len(s) \in Nat /\ Len(t) \in Nat
      /\ \A i \in 1 .. Len(s) : st[i] = s[i]
      /\ \A i \in 1 .. Len(t) : st[Len(s) + i] = t[i]
  BY <1>1
<1>3. ASSUME NEW i \in 1 .. Len(s) PROVE i \in CrlfEnds(st) <=> i \in CrlfEnds(s)
  <2>1. CASE i = Len(s)
    <3>1. st[i] # CR
      BY <1>2, <2>1 DEF NoCrLast
    <3>2. ~ (i \in 1 .. Len(s) - 1)
      BY <1>2, <2>1
    <3> QED
      BY <3>1, <3>2 DEF CrlfEnds
  <2>2. CASE i # Len(s)
    <3>1. i \in 1 .. Len(s) - 1 /\ i \in 1 .. Len(st) - 1 /\ i + 1 \in 1 .. Len(s)
      BY <1>2, <2>2
    <3>2. st[i] = s[i] /\ st[i + 1] = s[i + 1]
      BY <1>2, <3>1
    <3> QED
      BY <3>1, <3>2 DEF CrlfEnds
  <2> QED
    BY <2>1, <2>2
<1>4. ASSUME NEW i \in 1 .. Len(t) PROVE Len(s) + i \in CrlfEnds(st) <=> i \in CrlfEnds(t)
  <2>1. CASE i = Len(t)
    <3>1. Len(s) + i \notin 1 .. Len(st) - 1 /\ i \notin 1 .. Len(t) - 1
      BY <1>2, <2>1
    <3> QED
      BY <3>1 DEF CrlfEnds
  <2>2. CASE i # Len(t)
    <3>1. /\ i \in 1 .. Len(t) - 1 /\ i + 1 \in 1 .. Len(t)
          /\ Len(s) + i \in 1 .. Len(st) - 1 /\ (Len(s) + i) + 1 = Len(s) + (i + 1)
      BY <1>2, <2>2
    <3>2. st[Len(s) + i] = t[i] /\ st[(Len(s) + i) + 1] = t[i + 1]
      BY <1>2, <3>1
    <3> QED
      BY <3>1, <3>2 DEF CrlfEnds
  <2> QED
    BY <2>1, <2>2
<1>5. ASSUME SingleEnds(s) = {}, SingleEnds(t) = {}, NEW k \in SingleEnds(st) PROVE FALSE
  <2>1. /\ k \in 1 .. Len(st) /\ st[k] \in {CR, LF}
        /\ k \notin CrlfEnds(st) /\ k - 1 \notin CrlfEnds(st)
    BY <1>5 DEF SingleEnds
  <2>2. CASE k <= Len(s)
    <3>1. k \in 1 .. Len(s)
      BY <2>1, <2>2
    <3>2. k \notin CrlfEnds(s) /\ s[k] \in {CR, LF}
      BY <1>2, <1>3, <2>1, <3>1
    <3>3. k - 1 \notin CrlfEnds(s)
      <4>1. CASE k = 1
        BY <4>1 DEF CrlfEnds
      <4>2. CASE k # 1
        <5>1. k - 1 \in 1 .. Len(s)
          BY <3>1, <4>2
        <5> QED
          BY <1>3, <2>1, <5>1
      <4> QED
        BY <4>1, <4>2
    <3> QED
      BY <1>5, <3>1, <3>2, <3>3, Zenon DEF SingleEnds
  <2>3. CASE ~ (k <= Len(s))
    <3>1. PICK i \in 1 .. Len(t) : k = Len(s) + i
      <4>1. k - Len(s) \in 1 .. Len(t) /\ k = Len(s) + (k - Len(s))
        BY <1>2, <2>1, <2>3
      <4> QED
        BY <4>1
    <3>2. i \notin CrlfEnds(t) /\ t[i] \in {CR, LF}
      BY <1>2, <1>4, <2>1, <3>1
    <3>3. i - 1 \notin CrlfEnds(t)
      <4>1. CASE i = 1
        BY <4>1 DEF CrlfEnds
      <4>2. CASE i # 1
        <5>1. i - 1 \in 1 .. Len(t) /\ k - 1 = Len(s) + (i - 1)
          BY <1>2, <3>1, <4>2
        <5> QED
          BY <1>4, <2>1, <5>1
      <4> QED
        BY <4>1, <4>2
    <3> QED
      BY <1>5, <3>2, <3>3, Zenon DEF SingleEnds
  <2> QED
    BY <2>2, <2>3
<1> QED
  BY <1>1, <1>3, <1>4, <1>5, Zenon

\* ... and so both read as they read alone.
LEMMA ReadConcat ==
  ASSUME NEW s \in Seq(FileChars), NEW t \in Seq(FileChars), NoCrLast(s)
  PROVE  CanonicalText(s \o t) = CanonicalText(s) \o CanonicalText(t)
<1>1. PICK st \in Seq(FileChars) : st = s \o t
  BY ConcatProperties
<1>2. /\ Len(st) = Len(s) + Len(t) /\ Len(s) \in Nat /\ Len(t) \in Nat
      /\ \A i \in 1 .. Len(s) : st[i] = s[i]
      /\ \A i \in 1 .. Len(t) : st[Len(s) + i] = t[i]
  BY <1>1
<1>3. /\ ReadParts(st) \in Seq(Seq(TextChars)) /\ Len(ReadParts(st)) = Len(st)
      /\ ReadParts(s) \in Seq(Seq(TextChars)) /\ Len(ReadParts(s)) = Len(s)
      /\ ReadParts(t) \in Seq(Seq(TextChars)) /\ Len(ReadParts(t)) = Len(t)
  BY ReadType
<1>4. /\ \A i \in 1 .. Len(s) : i \in CrlfEnds(st) <=> i \in CrlfEnds(s)
      /\ \A i \in 1 .. Len(t) : Len(s) + i \in CrlfEnds(st) <=> i \in CrlfEnds(t)
  BY <1>1, EndsConcat, Zenon
<1>5. ReadParts(st) = ReadParts(s) \o ReadParts(t)
  <2>1. ASSUME NEW i \in 1 .. Len(s) PROVE ReadParts(st)[i] = ReadParts(s)[i]
    <3>1. i \in 1 .. Len(st) /\ st[i] = s[i]
      BY <1>2
    <3> QED
      BY <1>4, <3>1, Zenon DEF ReadParts
  <2>2. ASSUME NEW i \in 1 .. Len(t) PROVE ReadParts(st)[Len(s) + i] = ReadParts(t)[i]
    <3>1. Len(s) + i \in 1 .. Len(st) /\ st[Len(s) + i] = t[i]
      BY <1>2
    <3> QED
      BY <1>4, <3>1, Zenon DEF ReadParts
  <2>3. Len(ReadParts(st)) = Len(ReadParts(s)) + Len(ReadParts(t))
    BY <1>2, <1>3
  <2>4. Behind(ReadParts(s), ReadParts(t), ReadParts(st))
    BY <1>3, <2>1, <2>2, <2>3, Zenon DEF Behind
  <2> QED
    BY <1>3, <2>4, BehindOneAnother, Zenon
<1>6. FlattenSeq(ReadParts(s) \o ReadParts(t)) = FlattenSeq(ReadParts(s)) \o FlattenSeq(ReadParts(t))
  BY <1>3, FlattenConcat
<1> QED
  BY <1>1, <1>5, <1>6, ReadType, Zenon

\* A text without \r has no ends of two characters and reads as it is.
LEMMA PlainRead ==
  ASSUME NEW t \in Seq(TextChars)
  PROVE  CrlfEnds(t) = {} /\ NoCrLast(t) /\ CanonicalText(t) = t
<1>1. CR \notin TextChars /\ TextChars \subseteq FileChars
  BY EndingsAreNoLetters DEF TextChars, FileChars
<1>2. ASSUME NEW s \in Seq(TextChars)
      PROVE  s \in Seq(FileChars) /\ CrlfEnds(s) = {} /\ NoCrLast(s)
  <2>1. \A i \in 1 .. Len(s) : s[i] \in TextChars
    BY ElementOfSeq
  <2>2. \A i \in 1 .. Len(s) : s[i] # CR
    BY <1>1, <2>1, Zenon
  <2>3. Len(s) \in Nat /\ \A i \in 1 .. Len(s) - 1 : i \in 1 .. Len(s)
    BY LenProperties
  <2>4. CrlfEnds(s) = {}
    BY <2>2, <2>3, Zenon DEF CrlfEnds
  <2>5. NoCrLast(s)
    <3>1. s # << >> => Len(s) \in 1 .. Len(s)
      BY EmptySeq, LenProperties
    <3> QED
      BY <2>2, <3>1, Zenon DEF NoCrLast
  <2>6. s \in Seq(FileChars)
    <3> HIDE DEF FileChars, TextChars
    <3> QED
      BY <1>1, <2>1
  <2> QED
    BY <2>4, <2>5, <2>6
<1> DEFINE G == {s \in Seq(TextChars) : CanonicalText(s) = s}
<1>3. << >> \in G
  <2>1. ReadParts(<< >>) = << >>
    BY DEF ReadParts
  <2>2. << >> \in Seq(FileChars) /\ Len(<< >>) = 0 /\ << >> \in Seq(TextChars)
    OBVIOUS
  <2>3. FlattenSeq(<< >>) = << >>
    BY <2>2, Zenon DEF FlattenSeq
  <2> QED
    BY <2>1, <2>2, <2>3, ReadType, Zenon
<1>4. ASSUME NEW c \in TextChars PROVE CanonicalText(<<c>>) = <<c>>
  <2>1. <<c>> \in Seq(TextChars) /\ Len(<<c>>) = 1 /\ <<c>>[1] = c /\ c # CR
    BY <1>1
  <2>2. ReadParts(<<c>>) = <<<<c>>>>
    <3>1. CrlfEnds(<<c>>) = {}
      BY <1>2, <2>1
    <3> QED
      BY <2>1, <3>1 DEF ReadParts
  <2>3. <<c>> \in Seq(FileChars)
    BY <1>2, <2>1
  <2>4. FlattenSeq(<<<<c>>>>) = <<c>>
    BY <2>1, FlattenFew
  <2> QED
    BY <2>2, <2>3, <2>4, ReadType, Zenon
<1>5. ASSUME NEW s \in Seq(TextChars), NEW c \in TextChars, s \in G
      PROVE  s \o <<c>> \in G
  <2>1. <<c>> \in Seq(TextChars)
    BY <1>1
  <2>2. s \o <<c>> \in Seq(TextChars)
    BY <2>1, ConcatProperties
  <2>3. CanonicalText(s \o <<c>>) = CanonicalText(s) \o CanonicalText(<<c>>)
    BY <1>2, <2>1, ReadConcat
  <2> QED
    BY <1>4, <1>5, <2>2, <2>3, Zenon
<1>6. Seq(TextChars) \subseteq G
  <2> HIDE DEF G
  <2> QED
    BY <1>3, <1>5, AppendInduction
<1> QED
  BY <1>2, <1>6, Zenon

\* How a character of a text is written.
LEMMA WrittenCharacter ==
  ASSUME NEW c \in TextChars
  PROVE  /\ WriteCrlfChunk(<<c>>) = IF c = LF THEN <<CR, LF>> ELSE <<c>>
         /\ WriteCrlfChunk(<<c>>) \in Seq(FileChars) /\ NoCrLast(WriteCrlfChunk(<<c>>))
         /\ CanonicalText(WriteCrlfChunk(<<c>>)) = <<c>>
         /\ SingleEnds(WriteCrlfChunk(<<c>>)) = {}
         /\ c = LF => CrlfEnds(WriteCrlfChunk(<<c>>)) # {}
<1>1. <<c>> \in Seq(TextChars) /\ Len(<<c>>) = 1 /\ <<c>>[1] = c /\ c # CR /\ LF # CR
  BY EndingsAreNoLetters DEF TextChars
<1> DEFINE p == IF c = LF THEN <<CR, LF>> ELSE <<c>>
<1>2. p \in Seq(FileChars)
  <2>1. <<CR, LF>> \in Seq(FileChars) /\ c \in FileChars
    BY DEF FileChars, TextChars
  <2>2. <<c>> \in Seq(FileChars)
    BY <2>1
  <2> QED
    BY <2>1, <2>2
<1>3. WriteCrlfChunk(<<c>>) = p
  <2>1. WrittenParts(<<c>>) = <<p>>
    BY <1>1 DEF WrittenParts
  <2>2. FlattenSeq(<<p>>) = p
    <3> HIDE DEF p
    <3> QED
      BY <1>2, FlattenFew
  <2> QED
    BY <1>1, <2>1, <2>2, WriteType, Zenon
<1>4. CASE c = LF
  <2>0. p = <<CR, LF>> /\ LF \in TextChars
    BY <1>4
  <2>1. <<CR, LF>> \in Seq(FileChars) /\ Len(<<CR, LF>>) = 2
        /\ <<CR, LF>>[1] = CR /\ <<CR, LF>>[2] = LF
    BY <1>2, <2>0
  <2>2. CrlfEnds(<<CR, LF>>) = {1}
    BY <2>1 DEF CrlfEnds
  <2>3. SingleEnds(<<CR, LF>>) = {}
    BY <2>1, <2>2 DEF SingleEnds
  <2>4. NoCrLast(<<CR, LF>>)
    BY <1>1, <2>1, Zenon DEF NoCrLast
  <2>5. CanonicalText(<<CR, LF>>) = <<LF>>
    <3>1. ReadParts(<<CR, LF>>) = <<<< >>, <<LF>>>>
      BY <1>1, <2>1, <2>2 DEF ReadParts
    <3>2. << >> \in Seq(TextChars) /\ <<LF>> \in Seq(TextChars)
      BY <2>0
    <3>3. FlattenSeq(<<<< >>, <<LF>>>>) = << >> \o <<LF>>
      BY <3>2, FlattenFew
    <3>4. << >> \o <<LF>> = <<LF>>
      BY <3>2, ConcatEmptySeq, Zenon
    <3> QED
      BY <2>1, <3>1, <3>3, <3>4, ReadType, Zenon
  <2> QED
    BY <1>2, <1>3, <1>4, <2>0, <2>2, <2>3, <2>4, <2>5
<1>5. CASE c # LF
  <2>0. p = <<c>>
    BY <1>5
  <2>1. SingleEnds(<<c>>) = {}
    BY <1>1, <1>5 DEF SingleEnds
  <2> QED
    BY <1>1, <1>2, <1>3, <1>5, <2>0, <2>1, PlainRead
<1> QED
  BY <1>4, <1>5

\* What is written with \r\n reads back, with no other line end in it.
LEMMA WriteReadsBack ==
  ASSUME NEW t \in Seq(TextChars)
  PROVE  /\ CanonicalText(WriteCrlfChunk(t)) = t
         /\ SingleEnds(WriteCrlfChunk(t)) = {}
         /\ Contains(t, LF) => CrlfEnds(WriteCrlfChunk(t)) # {}
<1> DEFINE G == {s \in Seq(TextChars) :
                   LET w == WriteCrlfChunk(s)
                   IN  /\ NoCrLast(w)
                       /\ CanonicalText(w) = s
                       /\ SingleEnds(w) = {}
                       /\ Contains(s, LF) => CrlfEnds(w) # {}}
<1>1. << >> \in G
  <2>1. << >> \in Seq(TextChars) /\ Len(<< >>) = 0 /\ << >> \in Seq(FileChars)
    OBVIOUS
  <2>2. WriteCrlfChunk(<< >>) = << >>
    <3>1. WrittenParts(<< >>) = << >>
      BY DEF WrittenParts
    <3>2. FlattenSeq(<< >>) = << >>
      BY <2>1, Zenon DEF FlattenSeq
    <3> QED
      BY <2>1, <3>1, <3>2, WriteType, Zenon
  <2>3. CanonicalText(<< >>) = << >> /\ NoCrLast(<< >>)
    BY <2>1, PlainRead
  <2>4. SingleEnds(<< >>) = {} /\ ~ Contains(<< >>, LF)
    BY <2>1 DEF SingleEnds, Contains
  <2> QED
    BY <2>1, <2>2, <2>3, <2>4, Zenon
<1>2. ASSUME NEW s \in Seq(TextChars), NEW c \in TextChars, s \in G
      PROVE  s \o <<c>> \in G
  <2>0. <<c>> \in Seq(TextChars) /\ Len(<<c>>) = 1 /\ <<c>>[1] = c
    OBVIOUS
  <2>1. PICK w \in Seq(FileChars) : w = WriteCrlfChunk(s)
    BY WriteType
  <2>2. PICK p \in Seq(FileChars) : p = WriteCrlfChunk(<<c>>)
    BY WrittenCharacter
  <2>3. /\ NoCrLast(w) /\ CanonicalText(w) = s /\ SingleEnds(w) = {}
        /\ Contains(s, LF) => CrlfEnds(w) # {}
    BY <1>2, <2>1, Zenon
  <2>4. /\ NoCrLast(p) /\ CanonicalText(p) = <<c>> /\ SingleEnds(p) = {}
        /\ c = LF => CrlfEnds(p) # {}
        /\ p # << >>
    <3>1. p = IF c = LF THEN <<CR, LF>> ELSE <<c>>
      BY <2>2, WrittenCharacter, Zenon
    <3>2. p # << >>
      BY <3>1
    <3> QED
      BY <2>2, <3>2, WrittenCharacter, Zenon
  <2>5. /\ WriteCrlfChunk(s \o <<c>>) = w \o p /\ s \o <<c>> \in Seq(TextChars)
    BY <2>0, <2>1, <2>2, WriteConcat, ConcatProperties
  <2>6. CanonicalText(w \o p) = s \o <<c>>
    BY <2>3, <2>4, ReadConcat
  <2>7. /\ SingleEnds(w \o p) = {}
        /\ \A i \in 1 .. Len(w) : i \in CrlfEnds(w \o p) <=> i \in CrlfEnds(w)
        /\ \A i \in 1 .. Len(p) : Len(w) + i \in CrlfEnds(w \o p) <=> i \in CrlfEnds(p)
    BY <2>3, <2>4, EndsConcat, Zenon
  <2>8. NoCrLast(w \o p)
    <3>1. Len(p) \in 1 .. Len(p) /\ Len(w \o p) = Len(w) + Len(p)
          /\ (w \o p)[Len(w) + Len(p)] = p[Len(p)]
      BY <2>4
    <3> QED
      BY <2>4, <3>1, Zenon DEF NoCrLast
  <2>9. Contains(s \o <<c>>, LF) => CrlfEnds(w \o p) # {}
    <3>0. CrlfEnds(w) \subseteq 1 .. Len(w) /\ CrlfEnds(p) \subseteq 1 .. Len(p)
      BY LenProperties DEF CrlfEnds
    <3>1. CASE c = LF
      BY <2>4, <2>7, <3>0, <3>1
    <3>2. CASE c # LF
      <4>1. Contains(s \o <<c>>, LF) => Contains(s, LF)
        <5>1. Len(s \o <<c>>) = Len(s) + 1 /\ Len(s) \in Nat
              /\ (s \o <<c>>)[Len(s) + 1] = c
              /\ \A i \in 1 .. Len(s) : (s \o <<c>>)[i] = s[i]
          BY <2>0
        <5>2. \A i \in 1 .. Len(s) + 1 : i \in 1 .. Len(s) \/ i = Len(s) + 1
          BY <5>1
        <5> QED
          BY <3>2, <5>1, <5>2, Zenon DEF Contains
      <4>2. CASE Contains(s, LF)
        BY <2>3, <2>7, <3>0, <4>2
      <4> QED
        BY <4>1, <4>2
    <3> QED
      BY <3>1, <3>2
  <2> QED
    BY <2>5, <2>6, <2>7, <2>8, <2>9, Zenon
<1>3. Seq(TextChars) \subseteq G
  <2> HIDE DEF G
  <2> QED
    BY <1>1, <1>2, AppendInduction
<1> QED
  BY <1>3, Zenon

\* Both endings read back, as the ending itself too where there is a line to end.
LEMMA WholeReadsBack ==
  ASSUME NEW t \in Seq(TextChars), NEW ending \in {"lf", "crlf"}
  PROVE  LET w == IF ending = "lf" THEN t ELSE WriteCrlfChunk(t)
         IN  /\ CanonicalText(w) = t
             /\ Contains(t, LF) => DetectedEnding(w) = ending
<1>0. Cardinality({}) = 0
  BY FS_EmptySet
<1>1. \A w \in Seq(FileChars) :
        /\ CrlfEnds(w) # {} => Cardinality(CrlfEnds(w)) > 0 /\ Cardinality(CrlfEnds(w)) \in Nat
        /\ SingleEnds(w) # {} => Cardinality(SingleEnds(w)) > 0 /\ Cardinality(SingleEnds(w)) \in Nat
  <2>1. ASSUME NEW w \in Seq(FileChars), NEW T, T \subseteq 1 .. Len(w), T # {}
        PROVE  Cardinality(T) > 0 /\ Cardinality(T) \in Nat
    <3>1. Len(w) \in Nat
      BY LenProperties
    <3>4. IsFiniteSet(1 .. Len(w))
      BY <3>1, FS_Interval
    <3>2. IsFiniteSet(T)
      BY <2>1, <3>4, FS_Subset, Zenon
    <3>3. Cardinality(T) \in Nat /\ Cardinality(T) # 0
      BY <2>1, <3>2, FS_CardinalityType, FS_EmptySet
    <3> QED
      BY <3>3
  <2>2. ASSUME NEW w \in Seq(FileChars)
        PROVE  CrlfEnds(w) \subseteq 1 .. Len(w) /\ SingleEnds(w) \subseteq 1 .. Len(w)
    BY LenProperties DEF CrlfEnds, SingleEnds
  <2> QED
    BY <2>1, <2>2
<1>2. CASE ending = "lf"
  <2>1. CanonicalText(t) = t /\ CrlfEnds(t) = {}
    BY PlainRead
  <2>2. ASSUME Contains(t, LF) PROVE DetectedEnding(t) = "lf"
    <3>1. PICK i \in 1 .. Len(t) : t[i] = LF
      BY <2>2 DEF Contains
    <3>2. i \in SingleEnds(t)
      BY <2>1, <3>1 DEF SingleEnds
    <3>3. t \in Seq(FileChars)
      <4>1. TextChars \subseteq FileChars
        BY DEF TextChars, FileChars
      <4> HIDE DEF TextChars, FileChars
      <4> QED
        BY <4>1
    <3>4. Cardinality(CrlfEnds(t)) < Cardinality(SingleEnds(t)) /\ ~ (Cardinality(CrlfEnds(t)) > Cardinality(SingleEnds(t)))
      BY <1>0, <1>1, <2>1, <3>2, <3>3
    <3> QED
      BY <3>4, Zenon DEF DetectedEnding
  <2> QED
    BY <1>2, <2>1, <2>2
<1>3. CASE ending = "crlf"
  <2> DEFINE w == WriteCrlfChunk(t)
  <2>1. w \in Seq(FileChars) /\ CanonicalText(w) = t /\ SingleEnds(w) = {}
        /\ (Contains(t, LF) => CrlfEnds(w) # {})
    BY WriteReadsBack, WriteType
  <2> HIDE DEF w
  <2>2. ASSUME Contains(t, LF) PROVE DetectedEnding(w) = "crlf"
    <3>1. Cardinality(CrlfEnds(w)) > Cardinality(SingleEnds(w))
          /\ ~ (Cardinality(CrlfEnds(w)) < Cardinality(SingleEnds(w)))
      BY <1>0, <1>1, <2>1, <2>2
    <3> QED
      BY <3>1, Zenon DEF DetectedEnding
  <2> QED
    BY <1>3, <2>1, <2>2 DEF w
<1> QED
  BY <1>2, <1>3

\* The rope may be cut anywhere.
LEMMA ChunksAreWhole ==
  ASSUME NEW t \in Seq(TextChars), NEW cut \in 0 .. Len(t), NEW ending \in {"lf", "crlf"}
  PROVE  WrittenChunks(<<SubSeq(t, 1, cut), SubSeq(t, cut + 1, Len(t))>>, ending)
           = IF ending = "lf" THEN t ELSE WriteCrlfChunk(t)
<1>1. cut \in Nat /\ cut <= Len(t) /\ Len(t) \in Nat
  BY LenProperties
<1>2. PICK a \in Seq(TextChars) : a = SubSeq(t, 1, cut)
  BY <1>1, FirstPiece
<1>3. PICK n \in Nat : n = Len(t)
  BY <1>1
<1>4. cut <= n /\ n <= Len(t)
  BY <1>1, <1>3
<1>5. PICK b \in Seq(TextChars) : b = SubSeq(t, cut + 1, Len(t))
  BY <1>1, <1>3, <1>4, Piece
<1>6. t = a \o b
  <2>0. PICK whole \in Seq(TextChars) : whole = SubSeq(t, 1, n)
    BY <1>4, FirstPiece
  <2>1. whole = t
    <3>1. Len(whole) = n /\ \A i \in 1 .. n : whole[i] = t[i]
      BY <1>4, <2>0, FirstPiece
    <3> QED
      BY <1>3, <3>1, SeqEqual
  <2>2. SubSeq(t, 1, n) = SubSeq(t, 1, cut) \o SubSeq(t, cut + 1, n)
    BY <1>1, <1>4, TwoPieces, Zenon
  <2> QED
    BY <1>2, <1>5, <1>3, <2>0, <2>1, <2>2
<1>7. CASE ending = "lf"
  <2>1. FlattenSeq(<<a, b>>) = a \o b
    BY FlattenFew
  <2> QED
    BY <1>2, <1>5, <1>6, <1>7, <2>1, Zenon DEF WrittenChunks
<1>8. CASE ending = "crlf"
  <2> DEFINE wa == WriteCrlfChunk(a)
             wb == WriteCrlfChunk(b)
             chunks == <<a, b>>
  <2>1. wa \in Seq(FileChars) /\ wb \in Seq(FileChars)
    BY WriteType
  <2>2. [i \in 1 .. Len(chunks) |-> WriteCrlfChunk(chunks[i])] = <<wa, wb>>
    <3>1. Len(chunks) = 2 /\ chunks[1] = a /\ chunks[2] = b
      OBVIOUS
    <3> QED
      BY <3>1
  <2>3. FlattenSeq(<<wa, wb>>) = wa \o wb
    <3> HIDE DEF wa, wb
    <3> QED
      BY <2>1, FlattenFew
  <2>4. wa \o wb = WriteCrlfChunk(t)
    BY <1>6, WriteConcat
  <2>5. WrittenChunks(chunks, ending) = FlattenSeq(<<wa, wb>>)
    BY <1>8, <2>2, Zenon DEF WrittenChunks
  <2> QED
    BY <1>2, <1>5, <1>8, <2>3, <2>4, <2>5
<1> QED
  BY <1>7, <1>8

-----------------------------------------------------------------------------
(* The document *)

\* The text in memory never holds a \r, and what is on disk after a save is the whole text in
\* its ending.
EndingsInv ==
  /\ TypeOK
  /\ phase = "written" => file = IF lineEnding = "lf" THEN lfText ELSE WriteCrlfChunk(lfText)

LEMMA FrontOf ==
  ASSUME NEW S, NEW s \in Seq(S), s # << >>
  PROVE  Front(s) \in Seq(S)
<1>1. Len(s) \in Nat /\ Len(s) # 0
  BY EmptySeq, LenProperties
<1>2. Len(s) - 1 \in Nat /\ Len(s) - 1 <= Len(s)
  BY <1>1
<1> QED
  BY <1>2, FirstPiece DEF Front

LEMMA InitEndings == Init => EndingsInv
<1> SUFFICES ASSUME Init PROVE EndingsInv
  OBVIOUS
<1>1. file \in Seq(Letters \cup {CR, LF})
  BY DEF Init
<1> QED
  BY <1>1 DEF Init, EndingsInv, TypeOK

LEMMA NextEndings == EndingsInv /\ [Next]_vars => EndingsInv'
<1> SUFFICES ASSUME EndingsInv, [Next]_vars PROVE EndingsInv'
  OBVIOUS
<1>0. /\ file \in Seq(FileChars) /\ lfText \in Seq(TextChars)
      /\ lineEnding \in {"lf", "crlf"} /\ phase \in {"closed", "open", "written"}
  BY DEF EndingsInv, TypeOK, FileChars, TextChars
<1>1. CASE Open
  <2>1. lfText' \in Seq(TextChars) /\ lineEnding' \in {"lf", "crlf"} /\ phase' = "open" /\ file' = file
    BY <1>0, <1>1, ReadType DEF Open, DetectedEnding
  <2> QED
    BY <1>0, <2>1 DEF EndingsInv, TypeOK, FileChars, TextChars
<1>2. CASE Edit
  <2>1. lfText' \in Seq(TextChars)
    <3>1. CASE \E c \in TextChars : lfText' = Append(lfText, c)
      BY <1>0, <3>1, AppendProperties
    <3>2. CASE lfText # << >> /\ lfText' = Front(lfText)
      BY <1>0, <3>2, FrontOf
    <3> QED
      BY <1>2, <3>1, <3>2 DEF Edit, TextChars
  <2> QED
    BY <1>0, <1>2, <2>1 DEF Edit, EndingsInv, TypeOK, FileChars, TextChars
<1>3. CASE Save
  <2>1. PICK cut \in 0 .. Len(lfText) :
          file' = WrittenChunks(<<SubSeq(lfText, 1, cut), SubSeq(lfText, cut + 1, Len(lfText))>>, lineEnding)
    BY <1>3 DEF Save
  <2>2. file' = IF lineEnding = "lf" THEN lfText ELSE WriteCrlfChunk(lfText)
    BY <1>0, <2>1, ChunksAreWhole, Zenon
  <2>3. file' \in Seq(FileChars)
    <3>1. WriteCrlfChunk(lfText) \in Seq(FileChars)
      BY <1>0, WriteType
    <3>2. lfText \in Seq(FileChars)
      <4>1. TextChars \subseteq FileChars
        BY DEF TextChars, FileChars
      <4> HIDE DEF TextChars, FileChars
      <4> QED
        BY <1>0, <4>1
    <3> QED
      BY <2>2, <3>1, <3>2
  <2> QED
    BY <1>0, <1>3, <2>2, <2>3 DEF Save, EndingsInv, TypeOK, FileChars, TextChars
<1>4. CASE Close
  BY <1>0, <1>4 DEF Close, EndingsInv, TypeOK, FileChars, TextChars
<1>5. CASE UNCHANGED vars
  BY <1>5 DEF vars, EndingsInv, TypeOK
<1> QED
  BY <1>1, <1>2, <1>3, <1>4, <1>5 DEF Next

LEMMA EndingsInvariance == Spec => []EndingsInv
BY InitEndings, NextEndings, PTL DEF Spec

\* The text in memory never holds a \r, whatever the file had (normalize_editor_text in
\* editor_document.rs).
THEOREM TextIsCanonical == Spec => []TypeOK
<1>1. EndingsInv => TypeOK
  BY DEF EndingsInv
<1> QED
  BY <1>1, EndingsInvariance, PTL

\* What was written reads back as the same document, with the same ending as soon as there is
\* a line to end, however the rope was cut (write_to and normalize_editor_text in
\* editor_document.rs).
THEOREM FilesReadBack == Spec => []WrittenReadsBack
<1>1. ASSUME EndingsInv, phase = "written"
      PROVE  CanonicalText(file) = lfText /\ (Contains(lfText, LF) => DetectedEnding(file) = lineEnding)
  <2>1. lfText \in Seq(TextChars) /\ lineEnding \in {"lf", "crlf"}
    BY <1>1 DEF EndingsInv, TypeOK, TextChars
  <2>2. file = IF lineEnding = "lf" THEN lfText ELSE WriteCrlfChunk(lfText)
    BY <1>1 DEF EndingsInv
  <2> QED
    BY <2>1, <2>2, WholeReadsBack, Zenon
<1>2. EndingsInv => WrittenReadsBack
  BY <1>1, Zenon DEF WrittenReadsBack
<1> QED
  BY <1>2, EndingsInvariance, PTL

-----------------------------------------------------------------------------
(* Merged cells *)

LEMMA MaxOf ==
  ASSUME NEW N \in Nat, NEW S \in SUBSET (0 .. N), S # {}
  PROVE  Max(S) \in S /\ \A x \in S : Max(S) >= x
<1> DEFINE G == {n \in Nat : \A T \in SUBSET (0 .. n) : T # {} => \E m \in T : \A x \in T : m >= x}
<1>1. 0 \in G
  <2>1. \A x \in 0 .. 0 : x = 0
    OBVIOUS
  <2>2. ASSUME NEW T \in SUBSET (0 .. 0), T # {} PROVE \E m \in T : \A x \in T : m >= x
    <3>1. PICK m \in T : TRUE
      BY <2>2
    <3>2. m = 0 /\ \A x \in T : x = 0
      BY <2>1
    <3> QED
      BY <3>2
  <2> QED
    BY <2>2
<1>2. ASSUME NEW n \in Nat, n \in G PROVE n + 1 \in G
  <2>1. ASSUME NEW T \in SUBSET (0 .. n + 1), T # {} PROVE \E m \in T : \A x \in T : m >= x
    <3>1. CASE n + 1 \in T
      <4>1. \A x \in T : n + 1 >= x
        OBVIOUS
      <4> QED
        BY <3>1, <4>1
    <3>2. CASE n + 1 \notin T
      <4>1. \A x \in 0 .. n + 1 : x # n + 1 => x \in 0 .. n
        OBVIOUS
      <4>2. T \in SUBSET (0 .. n)
        BY <3>2, <4>1
      <4> QED
        BY <1>2, <2>1, <4>2
    <3> QED
      BY <3>1, <3>2
  <2> QED
    BY <2>1
<1>3. N \in G
  <2>1. Nat \subseteq G
    <3> HIDE DEF G
    <3> QED
      BY <1>1, <1>2, Induction
  <2> QED
    BY <2>1
<1>4. \E m \in S : \A x \in S : m >= x
  BY <1>3
<1> QED
  BY <1>4, Zenon DEF Max

\* The same for the least.
LEMMA MinIs ==
  ASSUME NEW N \in Nat, NEW S \in SUBSET (0 .. N), NEW m \in S, \A x \in S : m <= x
  PROVE  Min(S) = m
<1>1. \A x \in S : x \in Int
  OBVIOUS
<1>2. PICK k \in S : k = Min(S) /\ \A x \in S : k =< x
  BY Zenon DEF Min
<1>3. k <= m /\ m <= k
  BY <1>2
<1> QED
  BY <1>1, <1>2, <1>3

\* The places of a table, and the one whose owner a place has too.
Places(markers) == (1 .. Len(markers)) \X (1 .. Len(markers[1]))

FromLeft(markers, p) == markers[p[1]][p[2]] = "left" /\ p[2] > 1
FromAbove(markers, p) == markers[p[1]][p[2]] = "up" /\ p[1] > 1

\* What the owners are if those of the places before are g.
OwnersAfter(markers, g) ==
  [p \in Places(markers) |->
     CASE FromLeft(markers, p) -> g[<<p[1], p[2] - 1>>]
       [] FromAbove(markers, p) -> g[<<p[1] - 1, p[2]>>]
       [] OTHER -> p]

AreOwners(markers, g) == g = OwnersAfter(markers, g)

LEMMA AfterType ==
  ASSUME NEW markers, Len(markers) \in Nat, Len(markers[1]) \in Nat,
         NEW g \in [Places(markers) -> Places(markers)]
  PROVE  OwnersAfter(markers, g) \in [Places(markers) -> Places(markers)]
<1>1. ASSUME NEW p \in Places(markers), FromLeft(markers, p) PROVE <<p[1], p[2] - 1>> \in Places(markers)
  BY <1>1 DEF Places, FromLeft
<1>2. ASSUME NEW p \in Places(markers), FromAbove(markers, p) PROVE <<p[1] - 1, p[2]>> \in Places(markers)
  BY <1>2 DEF Places, FromAbove
<1>3. ASSUME NEW p \in Places(markers)
      PROVE  (CASE FromLeft(markers, p) -> g[<<p[1], p[2] - 1>>]
                [] FromAbove(markers, p) -> g[<<p[1] - 1, p[2]>>]
                [] OTHER -> p) \in Places(markers)
  <2>1. FromLeft(markers, p) => ~ FromAbove(markers, p)
    BY DEF FromLeft, FromAbove
  <2> QED
    BY <1>1, <1>2, <2>1
<1> QED
  BY <1>3 DEF OwnersAfter

LEMMA OwnersExist ==
  ASSUME NEW markers, Len(markers) \in Nat, Len(markers[1]) \in Nat
  PROVE  \E g \in [Places(markers) -> Places(markers)] : AreOwners(markers, g)
<1> DEFINE D == Places(markers)
           T == [D -> D]
           N == Len(markers) + Len(markers[1]) + 1
           base == [p \in D |-> p]
           step == [n \in 1 .. N |-> [g \in T |-> OwnersAfter(markers, g)]]
<1>1. N \in Nat /\ N # 0 /\ N - 1 \in Nat
  OBVIOUS
<1>2. base \in T
  OBVIOUS
<1>3. \A g \in T : OwnersAfter(markers, g) \in T
  BY AfterType
<1>4. PICK f \in [0 .. N -> T] : f[0] = base /\ \A n \in 1 .. N : f[n] = step[n][f[n - 1]]
  <2>1. step \in [1 .. N -> [T -> T]]
    BY <1>3
  <2> HIDE DEF step, N, T, base
  <2>2. Defined(T, N, base, step) # {}
    BY <1>1, <1>2, <2>1, Recursion
  <2> QED
    BY <2>2 DEF Defined
<1>5. \A n \in 1 .. N : f[n] = OwnersAfter(markers, f[n - 1]) /\ f[n] \in T
  <2>1. ASSUME NEW n \in 1 .. N PROVE f[n] = OwnersAfter(markers, f[n - 1]) /\ f[n] \in T
    <3>1. n - 1 \in 0 .. N /\ n \in 0 .. N
      BY <1>1
    <3> HIDE DEF N, T
    <3>2. f[n - 1] \in T /\ f[n] \in T
      BY <3>1
    <3> QED
      BY <1>4, <3>2
  <2> QED
    BY <2>1
<1>6. \A p \in D : p[1] + p[2] <= N - 1 /\ p[1] + p[2] \in Nat /\ p[1] + p[2] >= 2 /\ p = <<p[1], p[2]>>
                   /\ p[1] \in Nat /\ p[2] \in Nat
  BY DEF Places
<1> DEFINE Same(n) == \A p \in D : p[1] + p[2] <= n + 1 => f[n + 1][p] = f[n][p]
           S == {n \in Nat : n < N => Same(n)}
<1> HIDE DEF T, N, base, step
<1>7. 0 \in S
  BY <1>6
<1>8. ASSUME NEW n \in Nat, n \in S PROVE n + 1 \in S
  <2> SUFFICES ASSUME n + 1 < N, NEW p \in D, p[1] + p[2] <= (n + 1) + 1
               PROVE  f[(n + 1) + 1][p] = f[n + 1][p]
    OBVIOUS
  <2>1. /\ n + 1 \in 1 .. N /\ (n + 1) - 1 = n
        /\ (n + 1) + 1 \in 1 .. N /\ ((n + 1) + 1) - 1 = n + 1 /\ n < N
    BY <1>1
  <2>2. f[(n + 1) + 1] = OwnersAfter(markers, f[n + 1]) /\ f[n + 1] = OwnersAfter(markers, f[n])
    BY <1>5, <2>1
  <2>3. Same(n)
    BY <1>8, <2>1
  <2>4. CASE FromLeft(markers, p)
    <3>1. <<p[1], p[2] - 1>> \in D /\ p[1] + (p[2] - 1) <= n + 1
      BY <1>6, <2>4 DEF Places, FromLeft
    <3>2. f[n + 1][<<p[1], p[2] - 1>>] = f[n][<<p[1], p[2] - 1>>]
      BY <2>3, <3>1
    <3> QED
      BY <2>2, <2>4, <3>2 DEF OwnersAfter, FromLeft, FromAbove
  <2>5. CASE FromAbove(markers, p)
    <3>1. <<p[1] - 1, p[2]>> \in D /\ (p[1] - 1) + p[2] <= n + 1
      BY <1>6, <2>5 DEF Places, FromAbove
    <3>2. f[n + 1][<<p[1] - 1, p[2]>>] = f[n][<<p[1] - 1, p[2]>>]
      BY <2>3, <3>1
    <3> QED
      BY <2>2, <2>5, <3>2 DEF OwnersAfter, FromLeft, FromAbove
  <2>6. CASE ~ FromLeft(markers, p) /\ ~ FromAbove(markers, p)
    BY <2>2, <2>6, Zenon DEF OwnersAfter
  <2> QED
    BY <2>4, <2>5, <2>6
<1>9. Nat \subseteq S
  <2> HIDE DEF S
  <2> QED
    BY <1>7, <1>8, Induction
<1>10. N - 1 \in S /\ N - 1 < N /\ (N - 1) + 1 = N /\ N \in 1 .. N
  <2> HIDE DEF S
  <2> QED
    BY <1>1, <1>9
<1>11. \A p \in D : f[N][p] = f[N - 1][p]
  <2>1. Same(N - 1)
    BY <1>10
  <2>2. \A p \in D : f[(N - 1) + 1][p] = f[N - 1][p]
    <3> SUFFICES ASSUME NEW p \in D PROVE f[(N - 1) + 1][p] = f[N - 1][p]
      OBVIOUS
    <3>1. p[1] + p[2] <= (N - 1) + 1
      BY <1>1, <1>6
    <3> QED
      BY <2>1, <3>1
  <2> QED
    BY <1>10, <2>2
<1>12. f[N] = f[N - 1]
  <2>1. N - 1 \in 0 .. N /\ N \in 0 .. N
    BY <1>1
  <2>2. f[N] \in T /\ f[N - 1] \in T
    BY <2>1
  <2> QED
    BY <1>11, <2>2 DEF T
<1> QED
  BY <1>5, <1>10, <1>12 DEF AreOwners, T

\* A function that gives each place its owner: a place that owns itself, no later than those it
\* owns.
Owning(D, o) ==
  /\ o \in [D -> D]
  /\ \A p \in D : o[p][1] <= p[1] /\ o[p][2] <= p[2] /\ o[o[p]] = o[p]

LEMMA OwnersOwn ==
  ASSUME NEW markers, Len(markers) \in Nat, Len(markers[1]) \in Nat
  PROVE  /\ Owning(Places(markers), Owners(markers))
         /\ \A p \in Places(markers) : markers[p[1]][p[2]] = "text" => Owners(markers)[p] = p
<1> DEFINE D == Places(markers)
           o == Owners(markers)
<1>1. AreOwners(markers, o)
  <2>1. Owners(markers) = CHOOSE g : AreOwners(markers, g)
    BY DEF Owners, AreOwners, OwnersAfter, Places, FromLeft, FromAbove
  <2>2. \E g : AreOwners(markers, g)
    BY OwnersExist
  <2> QED
    BY <2>1, <2>2, Zenon
<1> HIDE DEF o
<1>2. /\ DOMAIN o = D
      /\ \A p \in D : o[p] = CASE FromLeft(markers, p) -> o[<<p[1], p[2] - 1>>]
                                [] FromAbove(markers, p) -> o[<<p[1] - 1, p[2]>>]
                                [] OTHER -> p
  BY <1>1, Zenon DEF AreOwners, OwnersAfter
<1>3. \A p \in D : p[1] + p[2] \in Nat /\ p[1] \in Nat /\ p[2] \in Nat
  BY DEF Places
<1> DEFINE Fine(p) == o[p] \in D /\ o[p][1] <= p[1] /\ o[p][2] <= p[2] /\ o[o[p]] = o[p]
           S == {n \in Nat : \A p \in D : p[1] + p[2] <= n => Fine(p)}
<1>4. ASSUME NEW p \in D, ~ FromLeft(markers, p), ~ FromAbove(markers, p) PROVE o[p] = p /\ Fine(p)
  <2>1. o[p] = p
    BY <1>2, <1>4, Zenon
  <2> QED
    BY <1>3, <2>1
<1>5. 0 \in S
  BY DEF Places
<1>6. ASSUME NEW n \in Nat, n \in S PROVE n + 1 \in S
  <2> SUFFICES ASSUME NEW p \in D, p[1] + p[2] <= n + 1 PROVE Fine(p)
    OBVIOUS
  <2>1. CASE FromLeft(markers, p)
    <3> DEFINE q == <<p[1], p[2] - 1>>
    <3>1. q \in D /\ q[1] + q[2] <= n /\ q[1] <= p[1] /\ q[2] <= p[2]
      BY <1>3, <2>1 DEF Places, FromLeft
    <3>2. o[p] = o[q]
      BY <1>2, <2>1 DEF FromLeft, FromAbove
    <3> HIDE DEF q
    <3>3. PICK r \in D : o[q] = r /\ r[1] <= q[1] /\ r[2] <= q[2] /\ o[r] = r
      BY <1>6, <3>1
    <3>4. r[1] <= p[1] /\ r[2] <= p[2]
      <4>1. /\ r[1] \in Nat /\ r[2] \in Nat /\ q[1] \in Nat /\ q[2] \in Nat
            /\ p[1] \in Nat /\ p[2] \in Nat
        <5> HIDE DEF D
        <5> QED
          BY <1>3, <3>1
      <4> QED
        BY <3>1, <3>3, <4>1
    <3> QED
      BY <3>2, <3>3, <3>4, Zenon
  <2>2. CASE FromAbove(markers, p)
    <3> DEFINE q == <<p[1] - 1, p[2]>>
    <3>1. q \in D /\ q[1] + q[2] <= n /\ q[1] <= p[1] /\ q[2] <= p[2]
      BY <1>3, <2>2 DEF Places, FromAbove
    <3>2. o[p] = o[q]
      BY <1>2, <2>2 DEF FromLeft, FromAbove
    <3> HIDE DEF q
    <3>3. PICK r \in D : o[q] = r /\ r[1] <= q[1] /\ r[2] <= q[2] /\ o[r] = r
      BY <1>6, <3>1
    <3>4. r[1] <= p[1] /\ r[2] <= p[2]
      <4>1. /\ r[1] \in Nat /\ r[2] \in Nat /\ q[1] \in Nat /\ q[2] \in Nat
            /\ p[1] \in Nat /\ p[2] \in Nat
        <5> HIDE DEF D
        <5> QED
          BY <1>3, <3>1
      <4> QED
        BY <3>1, <3>3, <4>1
    <3> QED
      BY <3>2, <3>3, <3>4, Zenon
  <2> QED
    BY <1>4, <2>1, <2>2
<1>7. \A p \in D : Fine(p)
  <2>1. Nat \subseteq S
    <3> HIDE DEF S
    <3> QED
      BY <1>5, <1>6, Induction
  <2> QED
    BY <1>3, <2>1
<1>8. o \in [D -> D]
  <2>1. o = [p \in D |-> o[p]]
    BY <1>1, Zenon DEF AreOwners, OwnersAfter
  <2> QED
    BY <1>7, <2>1
<1>9. ASSUME NEW p \in D, markers[p[1]][p[2]] = "text" PROVE o[p] = p
  BY <1>4, <1>9 DEF FromLeft, FromAbove
<1> QED
  BY <1>7, <1>8, <1>9 DEF Owning, o

\* What is shown of a table whose places have these owners.
Covers(s, row, column) ==
  /\ row \in s.cell[1] .. s.cell[1] + s.rowspan - 1
  /\ column \in s.cell[2] .. s.cell[2] + s.colspan - 1

SpanOf(o, q) ==
  [cell    |-> q,
   rowspan |-> Max({p[1] : p \in Rectangle(o, q)}) - q[1] + 1,
   colspan |-> Max({p[2] : p \in Rectangle(o, q)}) - q[2] + 1]

\* A span covers the rectangle of its owner.
LEMMA SpanCovers ==
  ASSUME NEW R \in Nat, NEW C \in Nat, NEW o, Owning((1 .. R) \X (1 .. C), o),
         NEW owned \in (1 .. R) \X (1 .. C)
  PROVE  /\ \A p \in (1 .. R) \X (1 .. C) :
              Covers(SpanOf(o, o[owned]), p[1], p[2]) <=> p \in Rectangle(o, o[owned])
         /\ owned \in Rectangle(o, o[owned])
<1> DEFINE D == (1 .. R) \X (1 .. C)
           q == o[owned]
           cells == {p \in D : o[p] = q}
           rows == {p[1] : p \in cells}
           columns == {p[2] : p \in cells}
<1>1. /\ o \in [D -> D] /\ q \in D /\ o[q] = q
      /\ \A p \in D : o[p][1] <= p[1] /\ o[p][2] <= p[2]
  BY DEF Owning
<1>2. \A p \in D : p[1] \in 0 .. R /\ p[2] \in 0 .. C /\ p = <<p[1], p[2]>> /\ p[1] \in Nat /\ p[2] \in Nat
  OBVIOUS
<1>3. /\ rows \in SUBSET (0 .. R) /\ q[1] \in rows /\ \A x \in rows : q[1] <= x
      /\ columns \in SUBSET (0 .. C) /\ q[2] \in columns /\ \A x \in columns : q[2] <= x
      /\ owned \in cells
  <2> HIDE DEF D, q
  <2>1. q \in cells
    BY <1>1
  <2>2. owned \in cells
    BY DEF D, q
  <2> QED
    BY <1>1, <1>2, <2>1, <2>2
<1>4. Min(rows) = q[1] /\ Min(columns) = q[2]
  <2> HIDE DEF rows, columns, q
  <2> QED
    BY <1>3, MinIs
<1>5. PICK m \in rows : m = Max(rows) /\ \A x \in rows : m >= x
  <2> HIDE DEF rows
  <2> QED
    BY <1>3, MaxOf
<1>6. PICK n \in columns : n = Max(columns) /\ \A x \in columns : n >= x
  <2> HIDE DEF columns
  <2> QED
    BY <1>3, MaxOf
<1>7. Rectangle(o, q) = (q[1] .. m) \X (q[2] .. n)
  <2>1. DOMAIN o = D
    BY <1>1
  <2>2. Rectangle(o, q) = (Min(rows) .. Max(rows)) \X (Min(columns) .. Max(columns))
    BY <2>1, Zenon DEF Rectangle
  <2> QED
    BY <1>4, <1>5, <1>6, <2>2, Zenon
<1>8. /\ m \in Nat /\ n \in Nat /\ q[1] \in Nat /\ q[2] \in Nat /\ q[1] <= m /\ q[2] <= n
      /\ m <= R /\ n <= C
  BY <1>1, <1>2, <1>3, <1>5, <1>6
<1> DEFINE box == Rectangle(o, q)
<1> HIDE DEF D, q, cells, rows, columns
<1>9. {p[1] : p \in box} = q[1] .. m /\ {p[2] : p \in box} = q[2] .. n
  <2>1. q[1] \in q[1] .. m /\ q[2] \in q[2] .. n
    BY <1>8
  <2>2. \A i \in q[1] .. m, j \in q[2] .. n : <<i, j>> \in box
    BY <1>7
  <2>3. \A p \in box : p[1] \in q[1] .. m /\ p[2] \in q[2] .. n
    BY <1>7
  <2> HIDE DEF box
  <2>4. {p[1] : p \in box} = q[1] .. m
    <3>1. \A i \in q[1] .. m : <<i, q[2]>> \in box /\ <<i, q[2]>>[1] = i
      BY <2>1, <2>2
    <3> QED
      BY <2>3, <3>1
  <2>5. {p[2] : p \in box} = q[2] .. n
    <3>1. \A j \in q[2] .. n : <<q[1], j>> \in box /\ <<q[1], j>>[2] = j
      BY <2>1, <2>2
    <3> QED
      BY <2>3, <3>1
  <2> QED
    BY <2>4, <2>5
<1>10. Max(q[1] .. m) = m /\ Max(q[2] .. n) = n
  <2>1. ASSUME NEW i \in Nat, NEW j \in Nat, i <= j PROVE Max(i .. j) = j
    <3>1. i .. j \in SUBSET (0 .. j) /\ j \in i .. j
      BY <2>1
    <3>2. Max(i .. j) \in i .. j /\ \A x \in i .. j : Max(i .. j) >= x
      <4> DEFINE T == i .. j
      <4>1. T \in SUBSET (0 .. j) /\ T # {}
        BY <3>1
      <4> HIDE DEF T
      <4>2. Max(T) \in T /\ \A x \in T : Max(T) >= x
        BY <4>1, MaxOf
      <4> QED
        BY <4>2 DEF T
    <3> QED
      BY <3>1, <3>2
  <2> QED
    BY <1>8, <2>1
<1>11. SpanOf(o, q) = [cell |-> q, rowspan |-> m - q[1] + 1, colspan |-> n - q[2] + 1]
  BY <1>9, <1>10, Zenon DEF SpanOf
<1>12. q[1] + (m - q[1] + 1) - 1 = m /\ q[2] + (n - q[2] + 1) - 1 = n
  BY <1>8
<1>13. ASSUME NEW p \in D PROVE Covers(SpanOf(o, q), p[1], p[2]) <=> p \in box
  <2>1. Covers(SpanOf(o, q), p[1], p[2]) <=> p[1] \in q[1] .. m /\ p[2] \in q[2] .. n
    BY <1>11, <1>12 DEF Covers
  <2>2. p = <<p[1], p[2]>>
    BY <1>2
  <2> QED
    BY <1>7, <2>1, <2>2
<1>14. owned \in box
  <2>1. owned[1] \in rows /\ owned[2] \in columns
    BY <1>3 DEF rows, columns
  <2>2. owned \in D
    BY DEF D
  <2>3. owned[1] \in q[1] .. m /\ owned[2] \in q[2] .. n
    BY <1>2, <1>3, <1>5, <1>6, <1>8, <2>1, <2>2
  <2> QED
    BY <1>2, <1>7, <2>2, <2>3
<1> QED
  BY <1>13, <1>14 DEF D, q

\* If what each place owns fills its rectangle, the spans cover each place once.
Rectangular(o) == \A q \in Range(o) : \A p \in Rectangle(o, q) : o[p] = q

LEMMA SpansTile ==
  ASSUME NEW R \in Nat, NEW C \in Nat, NEW o, Owning((1 .. R) \X (1 .. C), o), Rectangular(o)
  PROVE  /\ \A p \in (1 .. R) \X (1 .. C) :
              Cardinality({s \in Spans(o) : Covers(s, p[1], p[2])}) = 1
         /\ \A p \in (1 .. R) \X (1 .. C) : o[p] = p => \E s \in Spans(o) : s.cell = p
<1> DEFINE D == (1 .. R) \X (1 .. C)
<1>1. o \in [D -> D] /\ Range(o) = {o[p] : p \in D}
  BY DEF Owning, Range
<1>2. Spans(o) = {SpanOf(o, q) : q \in Range(o)}
  BY Zenon DEF Spans, SpanOf
<1>3. ASSUME NEW p \in D PROVE {s \in Spans(o) : Covers(s, p[1], p[2])} = {SpanOf(o, o[p])}
  <2>1. SpanOf(o, o[p]) \in Spans(o) /\ Covers(SpanOf(o, o[p]), p[1], p[2])
    <3>1. o[p] \in Range(o)
      BY <1>1
    <3> QED
      BY <1>2, <3>1, SpanCovers
  <2>2. ASSUME NEW s \in Spans(o), Covers(s, p[1], p[2]) PROVE s = SpanOf(o, o[p])
    <3>1. PICK owned \in D : s = SpanOf(o, o[owned])
      BY <1>1, <1>2
    <3>2. p \in Rectangle(o, o[owned])
      BY <2>2, <3>1, SpanCovers
    <3>3. o[p] = o[owned]
      BY <1>1, <3>2 DEF Rectangular
    <3> QED
      BY <3>1, <3>3
  <2> QED
    BY <2>1, <2>2
<1>4. \A x : Cardinality({x}) = 1
  BY FS_Singleton
<1>5. ASSUME NEW p \in D, o[p] = p PROVE \E s \in Spans(o) : s.cell = p
  <2>1. SpanOf(o, p) \in Spans(o) /\ SpanOf(o, p).cell = p
    <3>1. p \in Range(o)
      BY <1>1, <1>5
    <3> QED
      BY <1>2, <3>1 DEF SpanOf
  <2> QED
    BY <2>1
<1> QED
  BY <1>3, <1>4, <1>5

\* So it is where each place owns itself.
LEMMA AloneTiles ==
  ASSUME NEW R \in Nat, NEW C \in Nat
  PROVE  LET o == [p \in (1 .. R) \X (1 .. C) |-> p]
         IN  Owning((1 .. R) \X (1 .. C), o) /\ Rectangular(o)
<1> DEFINE D == (1 .. R) \X (1 .. C)
           o == [p \in D |-> p]
<1>1. Owning(D, o)
  BY DEF Owning
<1>2. ASSUME NEW q \in Range(o), NEW p \in Rectangle(o, q) PROVE o[p] = q
  <2>1. q \in D /\ q[1] \in Nat /\ q[2] \in Nat /\ q = <<q[1], q[2]>>
    BY DEF Range
  <2>2. {r \in DOMAIN o : o[r] = q} = {q}
    BY <2>1
  <2>3. Rectangle(o, q) = (Min({q[1]}) .. Max({q[1]})) \X (Min({q[2]}) .. Max({q[2]}))
    <3>1. {r[1] : r \in {q}} = {q[1]} /\ {r[2] : r \in {q}} = {q[2]}
      OBVIOUS
    <3> QED
      BY <2>2, <3>1, Zenon DEF Rectangle
  <2>4. ASSUME NEW i \in Nat PROVE Min({i}) = i /\ Max({i}) = i
    <3>1. {i} \in SUBSET (0 .. i) /\ i <= i
      OBVIOUS
    <3>2. Min({i}) = i
      BY <3>1, MinIs
    <3>3. Max({i}) \in {i}
      BY <3>1, MaxOf
    <3> QED
      BY <3>2, <3>3
  <2>5. p \in (q[1] .. q[1]) \X (q[2] .. q[2])
    BY <2>1, <2>3, <2>4
  <2>6. p = q
    BY <2>1, <2>5
  <2> QED
    BY <2>1, <2>6
<1> QED
  BY <1>1, <1>2 DEF Rectangular

TableInv ==
  /\ grid \in Grids \cup {<< >>}
  /\ shown # {} => grid # << >> /\ shown = ShownCells(MarkersRead(grid, prefix))

AllPlain(cells, begins) == \A row \in 1 .. Len(cells) : begins[row] = "none"

\* The markers that are read are as many as there are cells, and without prefixes those of the
\* cells.
LEMMA MarkersReadAre ==
  ASSUME NEW cells, NEW begins, NEW R \in Nat, NEW C \in Nat, R = Len(cells), C = Len(cells[1]),
         R > 0
  PROVE  /\ Len(MarkersRead(cells, begins)) = R /\ Len(MarkersRead(cells, begins)[1]) = C
         /\ AllPlain(cells, begins) =>
              \A r \in 1 .. R, c \in 1 .. C : MarkersRead(cells, begins)[r][c] = cells[r][c]
<1> DEFINE Row(r) ==
      [c \in 1 .. C |->
        CASE begins[r] = "none" -> cells[r][c]
          [] begins[r] # "none" /\ c = 1 -> "text"
          [] begins[r] = "joined" /\ c > 1 -> cells[r][c]
          [] begins[r] = "apart" /\ c > 1 -> cells[r][c - 1]]
<1>1. MarkersRead(cells, begins) = [r \in 1 .. R |-> Row(r)]
  BY DEF MarkersRead
<1>2. ASSUME NEW r \in 1 .. R
      PROVE  /\ MarkersRead(cells, begins)[r] = Row(r) /\ Len(Row(r)) = C
             /\ begins[r] = "none" => \A c \in 1 .. C : Row(r)[c] = cells[r][c]
  <2>1. MarkersRead(cells, begins)[r] = Row(r)
    BY <1>1
  <2>2. Len(Row(r)) = C
    OBVIOUS
  <2>3. ASSUME begins[r] = "none", NEW c \in 1 .. C PROVE Row(r)[c] = cells[r][c]
    BY <2>3
  <2> QED
    BY <2>1, <2>2, <2>3
<1>3. Len(MarkersRead(cells, begins)) = R
  <2> HIDE DEF Row
  <2> QED
    BY <1>1
<1> HIDE DEF Row
<1> QED
  BY <1>2, <1>3 DEF AllPlain

LEMMA TableInvariance == TableSpec => []TableInv
<1>1. TableInit => TableInv
  BY DEF TableInit, TableInv
<1>2. ASSUME TableInv, [TableNext]_tableVars PROVE TableInv'
  <2>1. CASE Format
    BY <1>2, <2>1 DEF TableInv, Format
  <2>2. CASE Undo
    BY <1>2, <2>2 DEF TableInv, Undo
  <2>3. CASE Show
    BY <1>2, <2>3 DEF TableInv, Show
  <2>4. CASE UNCHANGED tableVars
    BY <1>2, <2>4 DEF TableInv, tableVars
  <2> QED
    BY <1>2, <2>1, <2>2, <2>3, <2>4 DEF TableNext
<1> QED
  BY <1>1, <1>2, PTL DEF TableSpec

\* The cells shown, each as wide and as high as its spans, cover the body of a table without a gap
\* or an overlap, and no cell with a text of its own is hidden, but in a block quote
\* (apply_table_body_merges in render_markdown_preview.rs).
THEOREM CellsTile == TableSpec => []MergedCellsTile
<1>1. ASSUME TableInv, shown # {}
      PROVE  /\ \A row \in 1 .. Len(grid), column \in 1 .. Len(grid[1]) :
                   Cardinality({s \in shown : Covers(s, row, column)}) = 1
             /\ AllPlain(grid, prefix) =>
                  \A row \in 1 .. Len(grid), column \in 1 .. Len(grid[1]) :
                    grid[row][column] = "text" => \E s \in shown : s.cell = <<row, column>>
  <2> DEFINE markers == MarkersRead(grid, prefix)
             D == Places(markers)
             owner == Owners(markers)
             alone == [p \in D |-> p]
  <2>1. grid \in Grids /\ grid # << >> /\ shown = ShownCells(markers)
    BY <1>1 DEF TableInv
  <2>2. grid \in Seq(Seq({"text", "left", "up"}))
    BY <2>1, GridsAreTables
  <2>3. PICK R \in Nat, C \in Nat : R = Len(grid) /\ C = Len(grid[1])
    <3>1. Len(grid) \in Nat /\ 1 \in 1 .. Len(grid)
      BY <2>1, <2>2
    <3>2. grid[1] \in Seq({"text", "left", "up"})
      BY <2>2, <3>1, ElementOfSeq
    <3> QED
      BY <3>1, <3>2
  <2>0. R > 0
    BY <2>1, <2>2, <2>3
  <2>12. /\ Len(markers) = R /\ Len(markers[1]) = C
         /\ AllPlain(grid, prefix) =>
              \A r \in 1 .. R, c \in 1 .. C : markers[r][c] = grid[r][c]
    BY <2>0, <2>3, MarkersReadAre
  <2> HIDE DEF markers
  <2>4. D = (1 .. R) \X (1 .. C)
    BY <2>12 DEF Places
  <2>5. Owning(D, owner) /\ \A p \in D : markers[p[1]][p[2]] = "text" => owner[p] = p
    BY <2>12, OwnersOwn
  <2>6. Owning(D, alone) /\ Rectangular(alone)
    BY <2>4, AloneTiles
  <2>7. \A p \in D : alone[p] = p
    OBVIOUS
  <2>8. shown = IF Rectangular(owner) THEN Spans(owner) ELSE Spans(alone)
    <3>1. DOMAIN owner = D
      BY <2>5 DEF Owning
    <3> QED
      BY <2>1, <3>1, Zenon DEF ShownCells, Rectangular
  <2> HIDE DEF D, owner, alone
  <2>9. PICK o : /\ Owning(D, o) /\ Rectangular(o) /\ shown = Spans(o)
                 /\ \A p \in D : markers[p[1]][p[2]] = "text" => o[p] = p
    <3>1. CASE Rectangular(owner)
      BY <2>5, <2>8, <3>1
    <3>2. CASE ~ Rectangular(owner)
      BY <2>6, <2>7, <2>8, <3>2
    <3> QED
      BY <3>1, <3>2
  <2>10. /\ \A p \in D : Cardinality({s \in shown : Covers(s, p[1], p[2])}) = 1
         /\ \A p \in D : o[p] = p => \E s \in shown : s.cell = p
    BY <2>4, <2>9, SpansTile
  <2>11. ASSUME NEW row \in 1 .. Len(grid), NEW column \in 1 .. Len(grid[1])
         PROVE  /\ Cardinality({s \in shown : Covers(s, row, column)}) = 1
                /\ AllPlain(grid, prefix) /\ grid[row][column] = "text" =>
                     \E s \in shown : s.cell = <<row, column>>
    <3> DEFINE p == <<row, column>>
    <3>1. p \in D /\ p[1] = row /\ p[2] = column
      BY <2>3, <2>4
    <3>3. AllPlain(grid, prefix) => markers[row][column] = grid[row][column]
      BY <2>3, <2>12
    <3> HIDE DEF p
    <3>2. /\ Cardinality({s \in shown : Covers(s, row, column)}) = 1
          /\ markers[row][column] = "text" => \E s \in shown : s.cell = p
      BY <2>9, <2>10, <3>1
    <3> QED
      BY <3>2, <3>3 DEF p
  <2> QED
    BY <2>11
<1>2. TableInv => MergedCellsTile
  BY <1>1, Zenon DEF MergedCellsTile, Covers, AllPlain
<1> QED
  BY <1>2, TableInvariance, PTL

-----------------------------------------------------------------------------
(* Settings *)

IsFcn(f) == f = [x \in DOMAIN f |-> f[x]]

LEMMA SameFcn ==
  ASSUME NEW f, NEW g, IsFcn(f), IsFcn(g), DOMAIN f = DOMAIN g, \A x \in DOMAIN f : f[x] = g[x]
  PROVE  f = g
BY DEF IsFcn

\* The part that says last what a field is.
Says(p, n, i, field) ==
  /\ i \in 1 .. n /\ field \in DOMAIN p[i]
  /\ \A j \in 1 .. n : j > i => field \notin DOMAIN p[j]

LEMMA SomeoneSays ==
  ASSUME NEW n \in Nat, NEW p, NEW field, NEW k \in 1 .. n, field \in DOMAIN p[k]
  PROVE  /\ Max({i \in 1 .. n : field \in DOMAIN p[i]}) \in 1 .. n
         /\ Says(p, n, Max({i \in 1 .. n : field \in DOMAIN p[i]}), field)
         /\ \E top \in 1 .. n : Says(p, n, top, field)
<1> DEFINE Sayers == {i \in 1 .. n : field \in DOMAIN p[i]}
<1>1. Sayers \in SUBSET (0 .. n) /\ Sayers # {}
  OBVIOUS
<1>2. Max(Sayers) \in Sayers /\ \A x \in Sayers : Max(Sayers) >= x
  <2> HIDE DEF Sayers
  <2> QED
    BY <1>1, MaxOf
<1>3. PICK top : top = Max(Sayers)
  OBVIOUS
<1>4. top \in 1 .. n /\ field \in DOMAIN p[top] /\ \A x \in 1 .. n : field \in DOMAIN p[x] => top >= x
  BY <1>2, <1>3
<1>5. Says(p, n, top, field)
  <2> HIDE DEF Sayers
  <2> QED
    BY <1>4 DEF Says
<1> QED
  BY <1>3, <1>4, <1>5, Zenon

LEMMA OverlayOf ==
  ASSUME NEW n \in Nat, NEW p, DOMAIN p = 1 .. n
  PROVE  /\ IsFcn(Overlay(p))
         /\ \A field \in DOMAIN Overlay(p) : \E i \in 1 .. n : Says(p, n, i, field)
         /\ \A field : \A i \in 1 .. n :
              Says(p, n, i, field) => /\ field \in DOMAIN Overlay(p)
                                      /\ Overlay(p)[field] = p[i][field]
<1> DEFINE Fields == UNION {DOMAIN p[i] : i \in 1 .. n}
           Sayers(field) == {i \in 1 .. n : field \in DOMAIN p[i]}
<1>1. Overlay(p) = [field \in Fields |-> p[Max(Sayers(field))][field]]
  BY DEF Overlay
<1>2. DOMAIN Overlay(p) = Fields /\ \A field \in Fields : Overlay(p)[field] = p[Max(Sayers(field))][field]
  BY <1>1
<1>3. IsFcn(Overlay(p))
  <2> HIDE DEF Fields, Sayers
  <2> QED
    BY <1>1 DEF IsFcn
<1>4. ASSUME NEW field \in Fields PROVE Says(p, n, Max(Sayers(field)), field)
  <2>1. PICK k \in 1 .. n : field \in DOMAIN p[k]
    OBVIOUS
  <2> QED
    BY <2>1, SomeoneSays, Zenon
<1>5. ASSUME NEW field, NEW i \in 1 .. n, Says(p, n, i, field)
      PROVE  field \in Fields /\ Max(Sayers(field)) = i
  <2>1. field \in Fields
    BY <1>5 DEF Says
  <2>2. PICK m : m = Max(Sayers(field))
    OBVIOUS
  <2>3. Says(p, n, m, field)
    BY <1>4, <2>1, <2>2
  <2> HIDE DEF Sayers, Fields
  <2>4. m = i
    BY <1>5, <2>3 DEF Says
  <2> QED
    BY <2>1, <2>2, <2>4
<1> HIDE DEF Fields, Sayers
<1>6. \A field \in Fields : \E i \in 1 .. n : Says(p, n, i, field)
  BY <1>4 DEF Says
<1>7. \A field : \A i \in 1 .. n :
        Says(p, n, i, field) => field \in Fields /\ Overlay(p)[field] = p[i][field]
  BY <1>2, <1>5, Zenon
<1> QED
  BY <1>2, <1>3, <1>6, <1>7, Zenon

\* A function is what its parts say, if it has the fields they have, as they say it last.
Reads(p, n, g) ==
  /\ IsFcn(g)
  /\ \A field \in DOMAIN g : \E i \in 1 .. n : Says(p, n, i, field)
  /\ \A field : \A i \in 1 .. n : Says(p, n, i, field) => field \in DOMAIN g /\ g[field] = p[i][field]

LEMMA OverlayReads ==
  ASSUME NEW n \in Nat, NEW p, DOMAIN p = 1 .. n
  PROVE  Reads(p, n, Overlay(p))
BY OverlayOf, Zenon DEF Reads

LEMMA OverlayIs ==
  ASSUME NEW n \in Nat, NEW p, DOMAIN p = 1 .. n, NEW g, Reads(p, n, g)
  PROVE  Overlay(p) = g
<1>1. Reads(p, n, Overlay(p))
  BY OverlayReads, Zenon
<1>2. PICK h : h = Overlay(p)
  OBVIOUS
<1>3. DOMAIN h = DOMAIN g /\ \A field \in DOMAIN h : h[field] = g[field]
  BY <1>1, <1>2 DEF Reads
<1>4. h = g
  BY <1>1, <1>2, <1>3, SameFcn DEF Reads
<1> QED
  BY <1>2, <1>4

LEMMA MergeOf ==
  ASSUME NEW a, NEW b
  PROVE  /\ IsFcn(Merge(a, b)) /\ DOMAIN Merge(a, b) = DOMAIN a \cup DOMAIN b
         /\ \A x \in DOMAIN b : Merge(a, b)[x] = b[x]
         /\ \A x \in DOMAIN a : x \notin DOMAIN b => Merge(a, b)[x] = a[x]
BY DEF Merge, IsFcn

\* The parts of two wholes, one after the other.
Follow(m, n, p, q, r) ==
  /\ DOMAIN p = 1 .. m /\ DOMAIN q = 1 .. n /\ DOMAIN r = 1 .. m + n
  /\ \A i \in 1 .. m : r[i] = p[i]
  /\ \A i \in 1 .. n : r[m + i] = q[i]

Overlays(p, q, r) == Overlay(r) = Merge(Overlay(p), Overlay(q))

LEMMA OverlayConcat ==
  ASSUME NEW m \in Nat, NEW n \in Nat, NEW p, NEW q, NEW r, Follow(m, n, p, q, r)
  PROVE  Overlays(p, q, r)
<1>0. /\ DOMAIN p = 1 .. m /\ DOMAIN q = 1 .. n /\ DOMAIN r = 1 .. m + n
      /\ \A i \in 1 .. m : r[i] = p[i]
      /\ \A i \in 1 .. n : r[m + i] = q[i]
  BY DEF Follow
<1> USE <1>0
<1>1. PICK g : g = Overlay(p)
  OBVIOUS
<1>2. PICK h : h = Overlay(q)
  OBVIOUS
<1>3. PICK both : both = Merge(g, h)
  OBVIOUS
<1>4. Reads(p, m, g) /\ Reads(q, n, h)
  BY <1>1, <1>2, OverlayReads, Zenon
<1>5. /\ IsFcn(both) /\ DOMAIN both = DOMAIN g \cup DOMAIN h
      /\ \A x \in DOMAIN h : both[x] = h[x]
      /\ \A x \in DOMAIN g : x \notin DOMAIN h => both[x] = g[x]
  BY <1>3 DEF Merge, IsFcn
<1>6. \A i \in 1 .. m + n : i \in 1 .. m \/ (i - m \in 1 .. n /\ i = m + (i - m))
  OBVIOUS
<1>7. \A i \in 1 .. m : i \in 1 .. m + n
  OBVIOUS
<1>8. \A i \in 1 .. n : m + i \in 1 .. m + n
  OBVIOUS
<1>9. ASSUME NEW field, NEW i \in 1 .. n PROVE Says(r, m + n, m + i, field) <=> Says(q, n, i, field)
  <2>1. ASSUME Says(q, n, i, field) PROVE Says(r, m + n, m + i, field)
    <3>1. field \in DOMAIN r[m + i] /\ m + i \in 1 .. m + n
      BY <1>8, <2>1 DEF Says
    <3>2. ASSUME NEW j \in 1 .. m + n, j > m + i PROVE field \notin DOMAIN r[j]
      <4>1. j - m \in 1 .. n /\ j = m + (j - m) /\ j - m > i
        BY <3>2
      <4>2. field \notin DOMAIN q[j - m] /\ r[m + (j - m)] = q[j - m]
        BY <2>1, <4>1 DEF Says
      <4> QED
        BY <4>1, <4>2
    <3> QED
      BY <3>1, <3>2 DEF Says
  <2>2. ASSUME Says(r, m + n, m + i, field) PROVE Says(q, n, i, field)
    <3>1. field \in DOMAIN q[i]
      BY <2>2 DEF Says
    <3>2. ASSUME NEW j \in 1 .. n, j > i PROVE field \notin DOMAIN q[j]
      <4>1. m + j \in 1 .. m + n /\ m + j > m + i
        BY <3>2
      <4>2. field \notin DOMAIN r[m + j] /\ r[m + j] = q[j]
        BY <2>2, <4>1 DEF Says
      <4> QED
        BY <4>2
    <3> QED
      BY <3>1, <3>2 DEF Says
  <2> QED
    BY <2>1, <2>2
<1>10. ASSUME NEW field, NEW i \in 1 .. m
       PROVE  Says(r, m + n, i, field) <=> Says(p, m, i, field) /\ field \notin DOMAIN h
  <2>1. ASSUME Says(r, m + n, i, field) PROVE Says(p, m, i, field) /\ field \notin DOMAIN h
    <3>1. Says(p, m, i, field)
      BY <1>7, <2>1 DEF Says
    <3>2. ASSUME field \in DOMAIN h PROVE FALSE
      <4>1. PICK j \in 1 .. n : Says(q, n, j, field)
        BY <1>4, <3>2 DEF Reads
      <4>2. field \in DOMAIN r[m + j] /\ m + j \in 1 .. m + n /\ m + j > i
        BY <1>8, <4>1 DEF Says
      <4> QED
        BY <2>1, <4>2 DEF Says
    <3> QED
      BY <3>1, <3>2
  <2>2. ASSUME Says(p, m, i, field), field \notin DOMAIN h PROVE Says(r, m + n, i, field)
    <3>1. field \in DOMAIN r[i] /\ i \in 1 .. m + n
      BY <1>7, <2>2 DEF Says
    <3>2. ASSUME NEW j \in 1 .. m + n, j > i, field \in DOMAIN r[j] PROVE FALSE
      <4>1. j \notin 1 .. m
        BY <2>2, <3>2 DEF Says
      <4>2. j - m \in 1 .. n /\ j = m + (j - m)
        BY <1>6, <4>1
      <4>3. PICK k \in 1 .. n : k = j - m
        BY <4>2
      <4>4. field \in DOMAIN q[k]
        BY <3>2, <4>2, <4>3
      <4>5. PICK top \in 1 .. n : Says(q, n, top, field)
        BY <4>4, SomeoneSays, Zenon
      <4> QED
        BY <1>4, <2>2, <4>5 DEF Reads
    <3> QED
      BY <3>1, <3>2 DEF Says
  <2> QED
    BY <2>1, <2>2
<1>11. ASSUME NEW field \in DOMAIN both PROVE \E i \in 1 .. m + n : Says(r, m + n, i, field)
  <2>1. CASE field \in DOMAIN h
    <3>1. PICK i \in 1 .. n : Says(q, n, i, field)
      BY <1>4, <2>1 DEF Reads
    <3> QED
      BY <1>8, <1>9, <3>1
  <2>2. CASE field \notin DOMAIN h
    <3>1. PICK i \in 1 .. m : Says(p, m, i, field)
      BY <1>4, <1>5, <2>2 DEF Reads
    <3> QED
      BY <1>7, <1>10, <2>2, <3>1
  <2> QED
    BY <2>1, <2>2
<1>12. ASSUME NEW field, NEW i \in 1 .. m + n, Says(r, m + n, i, field)
       PROVE  field \in DOMAIN both /\ both[field] = r[i][field]
  <2>1. CASE i \in 1 .. m
    <3>1. Says(p, m, i, field) /\ field \notin DOMAIN h
      BY <1>10, <1>12, <2>1
    <3>2. field \in DOMAIN g /\ g[field] = p[i][field]
      BY <1>4, <2>1, <3>1 DEF Reads
    <3> QED
      BY <1>5, <2>1, <3>1, <3>2
  <2>2. CASE i \notin 1 .. m
    <3>1. PICK k \in 1 .. n : i = m + k
      BY <1>6, <2>2
    <3>2. Says(q, n, k, field)
      BY <1>9, <1>12, <3>1
    <3>3. field \in DOMAIN h /\ h[field] = q[k][field]
      BY <1>4, <3>2 DEF Reads
    <3> QED
      BY <1>5, <3>1, <3>3
  <2> QED
    BY <2>1, <2>2
<1>13. Reads(r, m + n, both)
  BY <1>5, <1>11, <1>12, Zenon DEF Reads
<1>14. m + n \in Nat
  OBVIOUS
<1> QED
  BY <1>1, <1>2, <1>3, <1>13, <1>14, OverlayIs, Zenon DEF Overlays

\* Parts that say nothing may be left out.
Placed(m, n, at) ==
  /\ at \in [1 .. m -> 1 .. n]
  /\ \A i, j \in 1 .. m : i < j => at[i] < at[j]

Missed(m, at, j) == \A i \in 1 .. m : at[i] # j

Louder(m, n, at, q, r) ==
  /\ DOMAIN q = 1 .. m /\ DOMAIN r = 1 .. n
  /\ \A i \in 1 .. m : r[at[i]] = q[i]
  /\ \A j \in 1 .. n : Missed(m, at, j) => DOMAIN r[j] = {}

SameOverlay(q, r) == Overlay(r) = Overlay(q)

LEMMA OverlayLoud ==
  ASSUME NEW m \in Nat, NEW n \in Nat, NEW at, Placed(m, n, at),
         NEW q, NEW r, Louder(m, n, at, q, r)
  PROVE  SameOverlay(q, r)
<1>0. /\ at \in [1 .. m -> 1 .. n] /\ \A i, j \in 1 .. m : i < j => at[i] < at[j]
      /\ DOMAIN q = 1 .. m /\ DOMAIN r = 1 .. n
      /\ \A i \in 1 .. m : r[at[i]] = q[i]
      /\ \A j \in 1 .. n : (\A i \in 1 .. m : at[i] # j) => DOMAIN r[j] = {}
  BY DEF Placed, Louder, Missed
<1> USE <1>0
<1>1. PICK g : g = Overlay(q)
  OBVIOUS
<1>2. Reads(q, m, g)
  BY <1>1, OverlayReads, Zenon
<1>3. ASSUME NEW field, NEW i \in 1 .. m PROVE Says(r, n, at[i], field) <=> Says(q, m, i, field)
  <2>1. ASSUME Says(q, m, i, field) PROVE Says(r, n, at[i], field)
    <3>1. ASSUME NEW j \in 1 .. n, j > at[i], field \in DOMAIN r[j] PROVE FALSE
      <4>1. PICK k \in 1 .. m : at[k] = j
        BY <3>1
      <4>2. k > i
        <5>1. at[k] > at[i] /\ at[k] \in Nat /\ at[i] \in Nat
          BY <3>1, <4>1
        <5> QED
          BY <5>1
      <4> QED
        BY <2>1, <3>1, <4>1, <4>2 DEF Says
    <3> QED
      BY <2>1, <3>1 DEF Says
  <2>2. ASSUME Says(r, n, at[i], field) PROVE Says(q, m, i, field)
    <3>1. ASSUME NEW j \in 1 .. m, j > i, field \in DOMAIN q[j] PROVE FALSE
      <4>1. at[j] \in 1 .. n /\ at[j] > at[i] /\ field \in DOMAIN r[at[j]]
        BY <3>1
      <4> QED
        BY <2>2, <4>1 DEF Says
    <3> QED
      BY <2>2, <3>1 DEF Says
  <2> QED
    BY <2>1, <2>2
<1>4. ASSUME NEW field, NEW j \in 1 .. n, Says(r, n, j, field)
      PROVE  field \in DOMAIN g /\ g[field] = r[j][field]
  <2>1. field \in DOMAIN r[j]
    BY <1>4 DEF Says
  <2>2. PICK i \in 1 .. m : at[i] = j
    BY <2>1
  <2>3. Says(q, m, i, field)
    BY <1>3, <1>4, <2>2
  <2> QED
    BY <1>2, <2>2, <2>3 DEF Reads
<1>5. ASSUME NEW field \in DOMAIN g PROVE \E j \in 1 .. n : Says(r, n, j, field)
  <2>1. PICK i \in 1 .. m : Says(q, m, i, field)
    BY <1>2 DEF Reads
  <2> QED
    BY <1>3, <2>1
<1>6. Reads(r, n, g)
  BY <1>2, <1>4, <1>5, Zenon DEF Reads
<1> QED
  BY <1>1, <1>6, OverlayIs, Zenon DEF SameOverlay

LEMMA OverlayOne ==
  ASSUME NEW p, DOMAIN p = 1 .. 1, IsFcn(p[1])
  PROVE  Overlay(p) = p[1]
<1>1. \A i : i \in 1 .. 1 <=> i = 1
  OBVIOUS
<1>2. \A field : \A i \in 1 .. 1 : Says(p, 1, i, field) <=> field \in DOMAIN p[1]
  BY <1>1 DEF Says
<1>3. Reads(p, 1, p[1])
  BY <1>1, <1>2 DEF Reads
<1>4. 1 \in Nat
  OBVIOUS
<1> QED
  BY <1>3, <1>4, OverlayIs, Zenon

\* Some of the fields of a function.
Part(f, F) == [x \in DOMAIN f \cap F |-> f[x]]

LEMMA PartOf ==
  ASSUME NEW f, NEW F
  PROVE  /\ IsFcn(Part(f, F)) /\ DOMAIN Part(f, F) = DOMAIN f \cap F
         /\ \A x \in DOMAIN Part(f, F) : Part(f, F)[x] = f[x]
BY DEF Part, IsFcn

LEMMA MergePart ==
  ASSUME NEW a, NEW b, NEW F
  PROVE  Part(Merge(a, b), F) = Merge(Part(a, F), Part(b, F))
BY DEF Part, Merge

PartsOf(n, p, q, F) ==
  DOMAIN p = 1 .. n /\ DOMAIN q = 1 .. n /\ \A i \in 1 .. n : q[i] = Part(p[i], F)

OverlaysPart(p, q, F) == Overlay(q) = Part(Overlay(p), F)

LEMMA OverlayPart ==
  ASSUME NEW n \in Nat, NEW p, NEW q, NEW F, PartsOf(n, p, q, F)
  PROVE  OverlaysPart(p, q, F)
<1>0. DOMAIN p = 1 .. n /\ DOMAIN q = 1 .. n /\ \A i \in 1 .. n : q[i] = Part(p[i], F)
  BY DEF PartsOf
<1> USE <1>0
<1>1. PICK g : g = Overlay(p)
  OBVIOUS
<1>2. Reads(p, n, g)
  BY <1>1, OverlayReads, Zenon
<1>3. PICK h : h = Part(g, F)
  OBVIOUS
<1>4. IsFcn(h) /\ DOMAIN h = DOMAIN g \cap F /\ \A x \in DOMAIN h : h[x] = g[x]
  BY <1>3 DEF Part, IsFcn
<1>5. \A i \in 1 .. n : DOMAIN q[i] = DOMAIN p[i] \cap F /\ \A x \in DOMAIN q[i] : q[i][x] = p[i][x]
  BY DEF Part
<1>6. \A field \in F : \A i \in 1 .. n : Says(q, n, i, field) <=> Says(p, n, i, field)
  BY <1>5 DEF Says
<1>7. \A field : \A i \in 1 .. n : Says(q, n, i, field) => field \in F /\ field \in DOMAIN q[i]
  BY <1>5 DEF Says
<1>8. Reads(q, n, h)
  BY <1>2, <1>4, <1>5, <1>6, <1>7 DEF Reads
<1> QED
  BY <1>1, <1>3, <1>8, OverlayIs, Zenon DEF OverlaysPart

LEMMA BundleConcat ==
  ASSUME NEW S, NEW p \in Seq(S), NEW q \in Seq(S)
  PROVE  Bundle(p \o q) = Merge(Bundle(p), Bundle(q))
<1> DEFINE Parts(s) == [i \in 1 .. Len(s) |-> Setting(s[i])]
<1>1. PICK r \in Seq(S) : r = p \o q
  BY ConcatProperties
<1>2. PICK m \in Nat : m = Len(p)
  OBVIOUS
<1>3. PICK n \in Nat : n = Len(q)
  OBVIOUS
<1>4. Len(r) = m + n /\ (\A i \in 1 .. m : r[i] = p[i]) /\ (\A i \in 1 .. n : r[m + i] = q[i])
  BY <1>1, <1>2, <1>3
<1>5. /\ DOMAIN Parts(p) = 1 .. m /\ DOMAIN Parts(q) = 1 .. n /\ DOMAIN Parts(r) = 1 .. m + n
      /\ \A i \in 1 .. m : Parts(r)[i] = Parts(p)[i]
      /\ \A i \in 1 .. n : Parts(r)[m + i] = Parts(q)[i]
  <2>1. DOMAIN Parts(p) = 1 .. m /\ DOMAIN Parts(q) = 1 .. n /\ DOMAIN Parts(r) = 1 .. m + n
    BY <1>2, <1>3, <1>4
  <2>2. \A i \in 1 .. m : i \in 1 .. m + n
    OBVIOUS
  <2>3. \A i \in 1 .. n : m + i \in 1 .. m + n
    OBVIOUS
  <2>4. \A i \in 1 .. m : Parts(r)[i] = Parts(p)[i]
    BY <1>2, <1>4, <2>2
  <2>5. \A i \in 1 .. n : Parts(r)[m + i] = Parts(q)[i]
    BY <1>3, <1>4, <2>3
  <2> QED
    BY <2>1, <2>4, <2>5
<1>6. Bundle(p) = Overlay(Parts(p)) /\ Bundle(q) = Overlay(Parts(q)) /\ Bundle(r) = Overlay(Parts(r))
  BY Zenon DEF Bundle
<1> HIDE DEF Parts
<1>7. Overlay(Parts(r)) = Merge(Overlay(Parts(p)), Overlay(Parts(q)))
  <2>1. PICK a, b, c : a = Parts(p) /\ b = Parts(q) /\ c = Parts(r)
    OBVIOUS
  <2>2. Follow(m, n, a, b, c)
    BY <1>5, <2>1 DEF Follow
  <2>3. Overlays(a, b, c)
    BY <2>2, OverlayConcat, Zenon
  <2> QED
    BY <2>1, <2>3 DEF Overlays
<1> QED
  BY <1>1, <1>6, <1>7, Zenon

LEMMA BundleIsFcn == ASSUME NEW S, NEW p \in Seq(S) PROVE IsFcn(Bundle(p))
<1>1. PICK n \in Nat : n = Len(p)
  OBVIOUS
<1>2. PICK parts : parts = [i \in 1 .. Len(p) |-> Setting(p[i])]
  OBVIOUS
<1>3. DOMAIN parts = 1 .. n
  BY <1>1, <1>2
<1>4. Reads(parts, n, Overlay(parts))
  BY <1>3, OverlayReads, Zenon
<1> QED
  BY <1>2, <1>4, Zenon DEF Bundle, Reads

\* Texts read at once are read one after the other.
LEMMA BundleFlat ==
  ASSUME NEW S, NEW q \in Seq(Seq(S))
  PROVE  Bundle(FlattenSeq(q)) = Overlay([i \in 1 .. Len(q) |-> Bundle(q[i])])
<1> DEFINE Parts(s) == [i \in 1 .. Len(s) |-> Bundle(s[i])]
           G == {s \in Seq(Seq(S)) : Bundle(FlattenSeq(s)) = Overlay(Parts(s))}
<1>1. << >> \in G
  <2>1. FlattenSeq(<< >>) = << >>
    BY EmptySeq DEF FlattenSeq
  <2>2. [i \in 1 .. Len(<< >>) |-> Setting(<< >>[i])] = [i \in 1 .. Len(<< >>) |-> Bundle(<< >>[i])]
    <3>1. \A i \in 1 .. Len(<< >>) : FALSE
      BY EmptySeq
    <3> QED
      BY <3>1
  <2>3. Bundle(<< >>) = Overlay(Parts(<< >>))
    BY <2>2, Zenon DEF Bundle
  <2> QED
    BY <2>1, <2>3
<1>2. ASSUME NEW s \in Seq(Seq(S)), NEW c \in Seq(S), s \in G PROVE s \o <<c>> \in G
  <2>13. 1 \in Nat
    OBVIOUS
  <2>1. PICK one \in Seq(Seq(S)) : one = <<c>>
    <3> DEFINE U == Seq(S)
    <3>1. c \in U
      OBVIOUS
    <3> HIDE DEF U
    <3>2. <<c>> \in Seq(U)
      BY <3>1
    <3> QED
      BY <3>2 DEF U
  <2>2. Len(one) = 1 /\ one[1] = c
    BY <2>1
  <2>3. PICK r \in Seq(Seq(S)) : r = s \o one
    BY ConcatProperties
  <2>4. PICK m \in Nat : m = Len(s)
    OBVIOUS
  <2>5. Len(r) = m + 1 /\ (\A i \in 1 .. m : r[i] = s[i]) /\ (\A i \in 1 .. 1 : r[m + i] = one[i])
    <3> DEFINE U == Seq(S)
    <3>1. s \in Seq(U) /\ one \in Seq(U)
      OBVIOUS
    <3> HIDE DEF U
    <3>2. /\ Len(r) = Len(s) + Len(one)
          /\ (\A i \in 1 .. Len(s) : r[i] = s[i]) /\ (\A i \in 1 .. Len(one) : r[Len(s) + i] = one[i])
      BY <2>3, <3>1
    <3> QED
      BY <2>2, <2>4, <3>2
  <2>6. /\ DOMAIN Parts(s) = 1 .. m /\ DOMAIN Parts(one) = 1 .. 1 /\ DOMAIN Parts(r) = 1 .. m + 1
        /\ \A i \in 1 .. m : Parts(r)[i] = Parts(s)[i]
        /\ \A i \in 1 .. 1 : Parts(r)[m + i] = Parts(one)[i]
        /\ Parts(one)[1] = Bundle(c)
    BY <2>2, <2>4, <2>5
  <2>7. FlattenSeq(r) = FlattenSeq(s) \o FlattenSeq(one) /\ FlattenSeq(one) = c /\ FlattenSeq(s) \in Seq(S)
    BY <2>1, <2>3, FlattenConcat, FlattenFew, FlattenOf, Zenon
  <2>8. Bundle(FlattenSeq(r)) = Merge(Bundle(FlattenSeq(s)), Bundle(c))
    BY <2>7, BundleConcat, Zenon
  <2>9. Bundle(FlattenSeq(s)) = Overlay(Parts(s))
    BY <1>2
  <2> HIDE DEF Parts
  <2>10. Overlay(Parts(r)) = Merge(Overlay(Parts(s)), Overlay(Parts(one)))
    <3>1. PICK a, b, d : a = Parts(s) /\ b = Parts(one) /\ d = Parts(r)
      OBVIOUS
    <3>2. Follow(m, 1, a, b, d)
      BY <2>6, <3>1 DEF Follow
    <3>3. Overlays(a, b, d)
      BY <2>13, <3>2, OverlayConcat, Zenon
    <3> QED
      BY <3>1, <3>3 DEF Overlays
  <2>11. Overlay(Parts(one)) = Bundle(c)
    <3>1. IsFcn(Bundle(c))
      BY BundleIsFcn, Zenon
    <3> QED
      BY <2>6, <3>1, OverlayOne
  <2>12. Bundle(FlattenSeq(r)) = Overlay(Parts(r))
    BY <2>8, <2>9, <2>10, <2>11, Zenon
  <2> QED
    BY <2>1, <2>3, <2>12
<1>3. Seq(Seq(S)) \subseteq G
  <2> HIDE DEF G
  <2> QED
    BY <1>1, <1>2, AppendInduction
<1> QED
  BY <1>3

\* None is a value of its own, not a function like what is told from it.
NoneIsNoFunction == ~IsFcn(None)

Pairs == UNION {Range(pairs) : pairs \in Comments}
TextsOfSettings == [preset : Seq(Pairs), direct : Seq(Pairs)]

\* What a text of settings is read as.
LayerFrom(text) ==
  [preset |-> Params(Bundle(text.preset)), direct |-> Params(Bundle(text.direct))]
Layers == {LayerFrom(text) : text \in TextsOfSettings}

BlockFields == ParamFields \ {"ruby"}

\* A layer stands for its text; a text without a setting of blocks has none.
Silent(pairs) == DOMAIN Part(Bundle(pairs), BlockFields) = {}
Stands(layer, text) ==
  layer = LayerFrom(text) \/ (layer = None /\ Silent(text.preset) /\ Silent(text.direct))

LEMMA OfBlockOf ==
  ASSUME NEW f
  PROVE  /\ DOMAIN f \subseteq ParamFields => OfBlock(f) = Part(f, BlockFields)
         /\ OfBlock(Params(f)) = Part(f, BlockFields)
         /\ Part(Params(f), BlockFields) = Part(f, BlockFields)
         /\ DOMAIN Params(f) \subseteq ParamFields
<1>1. DOMAIN f \subseteq ParamFields => OfBlock(f) = Part(f, BlockFields)
  <2> SUFFICES ASSUME DOMAIN f \subseteq ParamFields PROVE OfBlock(f) = Part(f, BlockFields)
    OBVIOUS
  <2>1. DOMAIN f \ {"ruby"} = DOMAIN f \cap BlockFields
    BY DEF BlockFields
  <2> QED
    BY <2>1 DEF OfBlock, Part
<1>2. DOMAIN Params(f) \subseteq ParamFields
  BY DEF Params
<1>3. Part(Params(f), BlockFields) = Part(f, BlockFields)
  <2>1. DOMAIN Params(f) \cap BlockFields = DOMAIN f \cap BlockFields
    BY DEF Params, BlockFields
  <2>2. \A x \in DOMAIN f \cap BlockFields : Params(f)[x] = f[x]
    BY DEF Params, BlockFields
  <2> QED
    BY <2>1, <2>2 DEF Part
<1>4. OfBlock(Params(f)) = Part(f, BlockFields)
  <2>1. DOMAIN Params(f) \ {"ruby"} = DOMAIN f \cap BlockFields
    BY DEF Params, BlockFields
  <2>2. \A x \in DOMAIN f \cap BlockFields : Params(f)[x] = f[x]
    BY DEF Params, BlockFields
  <2> QED
    BY <2>1, <2>2 DEF OfBlock, Part
<1> QED
  BY <1>1, <1>2, <1>3, <1>4

LEMMA EmptyBundle == DOMAIN Bundle(<< >>) = {} /\ Silent(<< >>)
<1>1. PICK parts : parts = [i \in 1 .. Len(<< >>) |-> Setting(<< >>[i])]
  OBVIOUS
<1>2. DOMAIN parts = {}
  BY <1>1, EmptySeq
<1>3. DOMAIN Overlay(parts) = {}
  BY <1>2 DEF Overlay
<1>4. DOMAIN Bundle(<< >>) = {}
  BY <1>1, <1>3, Zenon DEF Bundle
<1> QED
  BY <1>4 DEF Silent, Part

\* The fields of some parts, and of texts that say the same or nothing.
Corresponds(m, n, at, parts, texts) ==
  /\ DOMAIN parts = 1 .. m /\ Len(texts) = n
  /\ \A i \in 1 .. m : Part(parts[i], BlockFields) = Part(Bundle(texts[at[i]]), BlockFields)
  /\ \A j \in 1 .. n : Missed(m, at, j) => texts[j] = << >>

SameFields(parts, texts) ==
  Part(Overlay(parts), BlockFields) = Part(Bundle(FlattenSeq(texts)), BlockFields)

LEMMA CorrespondingFields ==
  ASSUME NEW S, NEW m \in Nat, NEW n \in Nat, NEW at, Placed(m, n, at),
         NEW parts, NEW texts \in Seq(Seq(S)), Corresponds(m, n, at, parts, texts)
  PROVE  SameFields(parts, texts)
<1>1. /\ DOMAIN parts = 1 .. m /\ Len(texts) = n
      /\ \A i \in 1 .. m : Part(parts[i], BlockFields) = Part(Bundle(texts[at[i]]), BlockFields)
      /\ \A j \in 1 .. n : Missed(m, at, j) => texts[j] = << >>
      /\ at \in [1 .. m -> 1 .. n] /\ \A i, j \in 1 .. m : i < j => at[i] < at[j]
  BY DEF Corresponds, Placed
<1>2. PICK q : q = [i \in 1 .. m |-> Part(parts[i], BlockFields)]
  OBVIOUS
<1>3. PICK read : read = [j \in 1 .. n |-> Bundle(texts[j])]
  OBVIOUS
<1>4. PICK r : r = [j \in 1 .. n |-> Part(Bundle(texts[j]), BlockFields)]
  OBVIOUS
<1>5. /\ DOMAIN q = 1 .. m /\ \A i \in 1 .. m : q[i] = Part(parts[i], BlockFields)
      /\ DOMAIN read = 1 .. n /\ DOMAIN r = 1 .. n /\ \A j \in 1 .. n : r[j] = Part(read[j], BlockFields)
  BY <1>2, <1>3, <1>4
<1>6. Overlay(q) = Part(Overlay(parts), BlockFields) /\ Overlay(r) = Part(Overlay(read), BlockFields)
  <2>1. PartsOf(m, parts, q, BlockFields) /\ PartsOf(n, read, r, BlockFields)
    BY <1>1, <1>5, Zenon DEF PartsOf
  <2>2. OverlaysPart(parts, q, BlockFields) /\ OverlaysPart(read, r, BlockFields)
    BY <2>1, OverlayPart, Zenon
  <2> QED
    BY <2>2 DEF OverlaysPart
<1>7. Bundle(FlattenSeq(texts)) = Overlay(read)
  BY <1>1, <1>3, BundleFlat, Zenon
<1>8. \A i \in 1 .. m : r[at[i]] = q[i]
  BY <1>1, <1>2, <1>4
<1>9. ASSUME NEW j \in 1 .. n, Missed(m, at, j) PROVE DOMAIN r[j] = {}
  <2>1. texts[j] = << >>
    BY <1>1, <1>9
  <2>2. r[j] = Part(Bundle(<< >>), BlockFields)
    BY <1>4, <2>1
  <2> QED
    BY <2>2, EmptyBundle DEF Silent
<1>10. Overlay(r) = Overlay(q)
  <2>1. Louder(m, n, at, q, r)
    BY <1>5, <1>8, <1>9, Zenon DEF Louder
  <2>2. SameOverlay(q, r)
    BY <2>1, OverlayLoud, Zenon
  <2> QED
    BY <2>2 DEF SameOverlay
<1> QED
  BY <1>6, <1>7, <1>10 DEF SameFields

LEMMA RecordsAreFcns ==
  /\ \A text \in TextsOfSettings : IsFcn(text)
  /\ \A layer \in Layers : IsFcn(layer)
<1>1. ASSUME NEW text \in TextsOfSettings PROVE IsFcn(text)
  BY DEF TextsOfSettings, IsFcn
<1>2. ASSUME NEW layer \in Layers PROVE IsFcn(layer)
  BY DEF Layers, LayerFrom, IsFcn
<1> QED
  BY <1>1, <1>2

LEMMA Apart ==
  ASSUME NoneIsNoFunction
  PROVE  None \notin TextsOfSettings /\ None \notin Layers /\ None \notin Seq(Pairs)
<1>1. \A s \in Seq(Pairs) : IsFcn(s)
  BY DEF IsFcn
<1> QED
  BY <1>1, RecordsAreFcns, Zenon DEF NoneIsNoFunction

\* Layers and the texts they stand for, among texts that say nothing.
Stood(m, n, at, layers, texts) ==
  /\ Len(layers) = m /\ Len(texts) = n
  /\ \A i \in 1 .. m : texts[at[i]] \in TextsOfSettings /\ Stands(layers[i], texts[at[i]])
  /\ \A j \in 1 .. n : Missed(m, at, j) => texts[j] = None

SameAnswer(layers, texts) == OfBlock(Resolve(layers)) = OfBlock(Asked(texts))

LEMMA SameAnswers ==
  ASSUME NoneIsNoFunction, NEW m \in Nat, NEW n \in Nat, NEW at, Placed(m, n, at),
         NEW layers, NEW texts \in Seq(TextsOfSettings \cup {None}), Stood(m, n, at, layers, texts)
  PROVE  SameAnswer(layers, texts)
<1> DEFINE Known(layer) == IF layer = None THEN NoLayer ELSE layer
           Said(text) == IF text = None THEN NoText ELSE text
<1>1. PICK lp : lp = [i \in 1 .. Len(layers) |-> Known(layers[i]).preset]
  OBVIOUS
<1>2. PICK ld : ld = [i \in 1 .. Len(layers) |-> Known(layers[i]).direct]
  OBVIOUS
<1>3. PICK tp : tp = [j \in 1 .. Len(texts) |-> Said(texts[j]).preset]
  OBVIOUS
<1>4. PICK td : td = [j \in 1 .. Len(texts) |-> Said(texts[j]).direct]
  OBVIOUS
<1>5. /\ Len(layers) = m /\ Len(texts) = n
      /\ \A i \in 1 .. m : at[i] \in 1 .. n
      /\ \A i \in 1 .. m : texts[at[i]] \in TextsOfSettings /\ Stands(layers[i], texts[at[i]])
      /\ \A j \in 1 .. n : Missed(m, at, j) => texts[j] = None
      /\ None \notin TextsOfSettings /\ None \notin Layers
  BY Apart, Zenon DEF Stood, Placed
<1>6. \A j \in 1 .. n : Said(texts[j]) \in TextsOfSettings
  <2>1. NoText \in TextsOfSettings
    BY DEF NoText, TextsOfSettings
  <2>2. \A j \in 1 .. n : texts[j] \in TextsOfSettings \cup {None}
    BY <1>5
  <2> QED
    BY <2>1, <2>2
<1>7. tp \in Seq(Seq(Pairs)) /\ td \in Seq(Seq(Pairs)) /\ Len(tp) = n /\ Len(td) = n
  <2>1. \A j \in 1 .. n : Said(texts[j]).preset \in Seq(Pairs) /\ Said(texts[j]).direct \in Seq(Pairs)
    <3> HIDE DEF Said
    <3> QED
      BY <1>6 DEF TextsOfSettings
  <2> DEFINE U == Seq(Pairs)
  <2>2. \A j \in 1 .. n : Said(texts[j]).preset \in U /\ Said(texts[j]).direct \in U
    BY <2>1
  <2> HIDE DEF U, Said
  <2>3. tp \in Seq(U) /\ td \in Seq(U) /\ Len(tp) = n /\ Len(td) = n
    BY <1>3, <1>4, <1>5, <2>2
  <2> QED
    BY <2>3 DEF U
<1>8. ASSUME NEW i \in 1 .. m
      PROVE  /\ Part(lp[i], BlockFields) = Part(Bundle(tp[at[i]]), BlockFields)
             /\ Part(ld[i], BlockFields) = Part(Bundle(td[at[i]]), BlockFields)
             /\ DOMAIN lp[i] \subseteq ParamFields /\ DOMAIN ld[i] \subseteq ParamFields
  <2>1. PICK text \in TextsOfSettings : text = texts[at[i]] /\ Stands(layers[i], text)
    BY <1>5
  <2>2. tp[at[i]] = text.preset /\ td[at[i]] = text.direct
    BY <1>3, <1>4, <1>5, <2>1
  <2>3. CASE layers[i] = LayerFrom(text)
    <3>1. layers[i] # None
      BY <1>5, <2>3 DEF Layers
    <3>2. lp[i] = Params(Bundle(text.preset)) /\ ld[i] = Params(Bundle(text.direct))
      BY <1>1, <1>2, <1>5, <2>3, <3>1 DEF LayerFrom
    <3> QED
      BY <2>2, <3>2, OfBlockOf
  <2>4. CASE layers[i] = None /\ Silent(text.preset) /\ Silent(text.direct)
    <3>1. lp[i] = Nothing /\ ld[i] = Nothing
      BY <1>1, <1>2, <1>5, <2>4 DEF NoLayer
    <3>2. DOMAIN Nothing = {}
      BY EmptySeq DEF Nothing
    <3>3. DOMAIN Part(Nothing, BlockFields) = {} /\ IsFcn(Part(Nothing, BlockFields))
      BY <3>2, PartOf
    <3>4. /\ DOMAIN Part(Bundle(text.preset), BlockFields) = {} /\ IsFcn(Part(Bundle(text.preset), BlockFields))
          /\ DOMAIN Part(Bundle(text.direct), BlockFields) = {} /\ IsFcn(Part(Bundle(text.direct), BlockFields))
      BY <2>4, PartOf DEF Silent
    <3>5. /\ Part(Nothing, BlockFields) = Part(Bundle(text.preset), BlockFields)
          /\ Part(Nothing, BlockFields) = Part(Bundle(text.direct), BlockFields)
      BY <3>3, <3>4, SameFcn
    <3> QED
      BY <2>2, <3>1, <3>2, <3>5
  <2> QED
    BY <2>1, <2>3, <2>4 DEF Stands
<1>9. ASSUME NEW j \in 1 .. n, Missed(m, at, j) PROVE tp[j] = << >> /\ td[j] = << >>
  BY <1>3, <1>4, <1>5, <1>9 DEF NoText
<1>10. /\ DOMAIN lp = 1 .. m /\ DOMAIN ld = 1 .. m
  BY <1>1, <1>2, <1>5
<1>11. SameFields(lp, tp) /\ SameFields(ld, td)
  <2>1. Corresponds(m, n, at, lp, tp) /\ Corresponds(m, n, at, ld, td)
    BY <1>7, <1>8, <1>9, <1>10, Zenon DEF Corresponds
  <2> QED
    BY <1>7, <2>1, CorrespondingFields, Zenon
<1>12. /\ Resolve(layers) = Merge(Overlay(lp), Overlay(ld))
       /\ Asked(texts) = Params(Bundle(FlattenSeq(tp) \o FlattenSeq(td)))
  BY <1>1, <1>2, <1>3, <1>4, Zenon DEF Resolve, Asked
<1>13. DOMAIN Resolve(layers) \subseteq ParamFields
  <2>1. DOMAIN Overlay(lp) \subseteq ParamFields /\ DOMAIN Overlay(ld) \subseteq ParamFields
    BY <1>8, <1>10 DEF Overlay
  <2>2. PICK a : a = Overlay(lp)
    OBVIOUS
  <2>3. PICK b : b = Overlay(ld)
    OBVIOUS
  <2>4. DOMAIN Merge(a, b) \subseteq ParamFields
    BY <2>1, <2>2, <2>3, MergeOf
  <2> QED
    BY <1>12, <2>2, <2>3, <2>4
<1>14. OfBlock(Resolve(layers)) = Merge(Part(Overlay(lp), BlockFields), Part(Overlay(ld), BlockFields))
  <2>1. OfBlock(Resolve(layers)) = Part(Resolve(layers), BlockFields)
    BY <1>13, OfBlockOf, Zenon
  <2>2. PICK a : a = Overlay(lp)
    OBVIOUS
  <2>3. PICK b : b = Overlay(ld)
    OBVIOUS
  <2>4. Part(Merge(a, b), BlockFields) = Merge(Part(a, BlockFields), Part(b, BlockFields))
    BY DEF Part, Merge
  <2> QED
    BY <1>12, <2>1, <2>2, <2>3, <2>4
<1>15. OfBlock(Asked(texts)) = Merge(Part(Bundle(FlattenSeq(tp)), BlockFields), Part(Bundle(FlattenSeq(td)), BlockFields))
  <2>1. PICK p \in Seq(Pairs) : p = FlattenSeq(tp)
    BY <1>7, FlattenOf, Zenon
  <2>2. PICK d \in Seq(Pairs) : d = FlattenSeq(td)
    BY <1>7, FlattenOf, Zenon
  <2>3. Bundle(p \o d) = Merge(Bundle(p), Bundle(d))
    BY BundleConcat, Zenon
  <2>4. PICK a : a = Bundle(p)
    OBVIOUS
  <2>5. PICK b : b = Bundle(d)
    OBVIOUS
  <2>6. Part(Merge(a, b), BlockFields) = Merge(Part(a, BlockFields), Part(b, BlockFields))
    BY DEF Part, Merge
  <2>7. OfBlock(Params(Merge(a, b))) = Part(Merge(a, b), BlockFields)
    BY OfBlockOf, Zenon
  <2> QED
    BY <1>12, <2>1, <2>2, <2>3, <2>4, <2>5, <2>6, <2>7
<1> QED
  BY <1>11, <1>14, <1>15 DEF SameFields, SameAnswer

\* The scopes that are open, and the texts they came from.
ScopesStand(layers, texts) ==
  /\ layers \in Seq(Layers \cup {None}) /\ texts \in Seq(TextsOfSettings)
  /\ Len(layers) = Len(texts)
  /\ \A i \in 1 .. Len(texts) : Stands(layers[i], texts[i])

\* The only block with a text of its own.
Alone(blocks, k) ==
  /\ k \in 1 .. Len(blocks) /\ blocks[k] \in TextsOfSettings
  /\ \A j \in 1 .. Len(blocks) : j # k => blocks[j] = None

LEMMA ScopesAnswer ==
  ASSUME NoneIsNoFunction, NEW layers, NEW texts, ScopesStand(layers, texts),
         NEW blocks \in Seq(TextsOfSettings \cup {None}), \A j \in 1 .. Len(blocks) : blocks[j] = None
  PROVE  SameAnswer(layers, texts \o blocks)
<1>0. /\ layers \in Seq(Layers \cup {None}) /\ texts \in Seq(TextsOfSettings) /\ Len(layers) = Len(texts)
      /\ \A i \in 1 .. Len(texts) : Stands(layers[i], texts[i])
  BY DEF ScopesStand
<1>1. PICK m \in Nat : m = Len(texts)
  BY <1>0, LenProperties
<1>2. PICK n \in Nat : n = Len(blocks)
  BY LenProperties
<1>3. texts \in Seq(TextsOfSettings \cup {None})
  BY <1>0
<1>4. PICK all \in Seq(TextsOfSettings \cup {None}) : all = texts \o blocks
  BY <1>3, ConcatProperties
<1>5. Len(all) = m + n /\ (\A i \in 1 .. m : all[i] = texts[i]) /\ (\A j \in 1 .. n : all[m + j] = blocks[j])
  BY <1>0, <1>1, <1>2, <1>4
<1>6. PICK at : at = [i \in 1 .. m |-> i]
  OBVIOUS
<1>7. PICK k \in Nat : k = m + n
  OBVIOUS
<1>8. Placed(m, k, at)
  BY <1>6, <1>7 DEF Placed
<1>9. Stood(m, k, at, layers, all)
  <2>1. ASSUME NEW i \in 1 .. m PROVE all[at[i]] \in TextsOfSettings /\ Stands(layers[i], all[at[i]])
    <3>1. all[at[i]] = texts[i] /\ texts[i] \in TextsOfSettings
      BY <1>0, <1>1, <1>5, <1>6
    <3> QED
      BY <1>0, <1>1, <3>1
  <2>2. ASSUME NEW j \in 1 .. k, Missed(m, at, j) PROVE all[j] = None
    <3>1. j \notin 1 .. m
      BY <1>6, <2>2 DEF Missed
    <3>2. j - m \in 1 .. n /\ m + (j - m) = j
      BY <1>7, <3>1
    <3>3. all[m + (j - m)] = blocks[j - m] /\ blocks[j - m] = None
      BY <1>2, <1>5, <3>2
    <3> QED
      BY <3>2, <3>3
  <2>3. Len(layers) = m /\ Len(all) = k
    BY <1>0, <1>1, <1>5, <1>7
  <2> QED
    BY <2>1, <2>2, <2>3, Zenon DEF Stood
<1>10. SameAnswer(layers, all)
  BY <1>8, <1>9, SameAnswers, Zenon
<1> QED
  BY <1>4, <1>10

LEMMA BlockAnswers ==
  ASSUME NoneIsNoFunction, NEW layers, NEW texts, ScopesStand(layers, texts),
         NEW blocks \in Seq(TextsOfSettings \cup {None}), NEW k, Alone(blocks, k)
  PROVE  SameAnswer(Append(layers, LayerFrom(blocks[k])), texts \o blocks)
<1>0. /\ layers \in Seq(Layers \cup {None}) /\ texts \in Seq(TextsOfSettings) /\ Len(layers) = Len(texts)
      /\ \A i \in 1 .. Len(texts) : Stands(layers[i], texts[i])
      /\ k \in 1 .. Len(blocks) /\ blocks[k] \in TextsOfSettings
      /\ \A j \in 1 .. Len(blocks) : j # k => blocks[j] = None
  BY DEF ScopesStand, Alone
<1>1. PICK m \in Nat : m = Len(texts)
  BY <1>0, LenProperties
<1>2. PICK n \in Nat : n = Len(blocks)
  BY LenProperties
<1>3. texts \in Seq(TextsOfSettings \cup {None})
  BY <1>0
<1>4. PICK all \in Seq(TextsOfSettings \cup {None}) : all = texts \o blocks
  BY <1>3, ConcatProperties
<1>5. Len(all) = m + n /\ (\A i \in 1 .. m : all[i] = texts[i]) /\ (\A j \in 1 .. n : all[m + j] = blocks[j])
  BY <1>0, <1>1, <1>2, <1>4
<1>6. PICK at : at = [i \in 1 .. m + 1 |-> IF i <= m THEN i ELSE m + k]
  OBVIOUS
<1>7. PICK c \in Nat : c = m + n
  OBVIOUS
<1>8. PICK layer \in Layers : layer = LayerFrom(blocks[k])
  BY <1>0 DEF Layers
<1>9. PICK longer : longer = Append(layers, layer)
  OBVIOUS
<1>10. Len(longer) = m + 1 /\ longer[m + 1] = layer /\ \A i \in 1 .. m : longer[i] = layers[i]
  <2>1. layer \in Layers \cup {None}
    OBVIOUS
  <2> QED
    BY <1>0, <1>1, <1>9, <2>1, AppendProperties
<1>11. PICK e \in Nat : e = m + 1
  OBVIOUS
<1>12. at \in [1 .. e -> 1 .. c] /\ at[e] = m + k /\ \A i \in 1 .. m : at[i] = i
  BY <1>0, <1>2, <1>6, <1>7, <1>11
<1>13. Placed(e, c, at)
  <2>1. ASSUME NEW i \in 1 .. e, NEW j \in 1 .. e, i < j PROVE at[i] < at[j]
    <3>1. i \in 1 .. m /\ at[i] = i
      BY <1>11, <1>12, <2>1
    <3>2. j = e \/ j \in 1 .. m
      BY <1>11
    <3> QED
      BY <1>0, <1>2, <1>12, <2>1, <3>1, <3>2
  <2> QED
    BY <1>12, <2>1 DEF Placed
<1>14. Stood(e, c, at, longer, all)
  <2>1. ASSUME NEW i \in 1 .. e PROVE all[at[i]] \in TextsOfSettings /\ Stands(longer[i], all[at[i]])
    <3>1. CASE i \in 1 .. m
      <4>1. all[at[i]] = texts[i] /\ texts[i] \in TextsOfSettings /\ longer[i] = layers[i]
        BY <1>0, <1>1, <1>5, <1>10, <1>12, <3>1
      <4> QED
        BY <1>0, <1>1, <3>1, <4>1
    <3>2. CASE i = e
      <4>1. all[at[i]] = blocks[k] /\ longer[i] = layer
        BY <1>0, <1>2, <1>5, <1>10, <1>11, <1>12, <3>2
      <4> QED
        BY <1>0, <1>8, <4>1 DEF Stands
    <3> QED
      BY <1>11, <3>1, <3>2
  <2>2. ASSUME NEW j \in 1 .. c, Missed(e, at, j) PROVE all[j] = None
    <3>1. j \notin 1 .. m /\ j # m + k
      <4>1. \A i \in 1 .. e : at[i] # j
        BY <2>2 DEF Missed
      <4>2. e \in 1 .. e /\ \A i \in 1 .. m : i \in 1 .. e
        BY <1>11
      <4> QED
        BY <1>12, <4>1, <4>2
    <3>2. j - m \in 1 .. n /\ m + (j - m) = j /\ j - m # k
      BY <1>0, <1>2, <1>7, <3>1
    <3>3. all[m + (j - m)] = blocks[j - m] /\ blocks[j - m] = None
      BY <1>0, <1>2, <1>5, <3>2
    <3> QED
      BY <3>2, <3>3
  <2>3. Len(longer) = e /\ Len(all) = c
    BY <1>5, <1>7, <1>10, <1>11
  <2> QED
    BY <2>1, <2>2, <2>3, Zenon DEF Stood
<1>15. SameAnswer(longer, all)
  BY <1>13, <1>14, SameAnswers, Zenon
<1> QED
  BY <1>4, <1>8, <1>9, <1>15

BundleFrom(ahead) == IF ahead = None THEN None ELSE Bundle(ahead)

\* What waits is what was written right before.
Waits(bundle, ahead) == ahead \in Seq(Pairs) \cup {None} /\ bundle = BundleFrom(ahead)

LEMMA WaitingIs ==
  ASSUME NoneIsNoFunction, NEW bundle, NEW ahead, Waits(bundle, ahead)
  PROVE  /\ bundle = None <=> ahead = None
         /\ ahead # None => ahead \in Seq(Pairs) /\ bundle = Bundle(ahead)
<1>1. ASSUME ahead # None PROVE Bundle(ahead) # None
  <2>1. ahead \in Seq(Pairs)
    BY <1>1 DEF Waits
  <2>2. IsFcn(Bundle(ahead))
    BY <2>1, BundleIsFcn, Zenon
  <2> QED
    BY <2>2, Zenon DEF NoneIsNoFunction
<1> QED
  BY <1>1 DEF Waits, BundleFrom

LEMMA KeptWaits ==
  ASSUME NoneIsNoFunction, Waits(pending, written.ahead), NEW near
  PROVE  /\ Waits(Kept(near), AheadText(near))
         /\ Waits(Flushed(Kept(near)), FlushedText(AheadText(near)))
<1>1. Waits(Kept(near), AheadText(near))
  <2>1. CASE written.ahead = None
    <3>1. pending = None
      BY <2>1, WaitingIs, Zenon
    <3>2. Kept(near) = None /\ AheadText(near) = None
      BY <2>1, <3>1 DEF Kept, AheadText
    <3> QED
      BY <3>2 DEF Waits, BundleFrom
  <2>2. CASE written.ahead # None
    <3>1. pending # None /\ pending = Bundle(written.ahead) /\ written.ahead \in Seq(Pairs)
      BY <2>2, WaitingIs
    <3>2. CASE near \/ AsksForToc(pending)
      <4>1. Kept(near) = pending /\ AheadText(near) = written.ahead
        BY <2>2, <3>1, <3>2, Zenon DEF Kept, AheadText
      <4> QED
        BY <4>1
    <3>3. CASE ~(near \/ AsksForToc(pending))
      <4>1. Kept(near) = None /\ AheadText(near) = None
        BY <3>1, <3>3, Zenon DEF Kept, AheadText
      <4> QED
        BY <4>1 DEF Waits, BundleFrom
    <3> QED
      BY <3>2, <3>3
  <2> QED
    BY <2>1, <2>2
<1>2. ASSUME NEW bundle, NEW ahead, Waits(bundle, ahead)
      PROVE  Waits(Flushed(bundle), FlushedText(ahead))
  <2>1. CASE ahead = None
    <3>1. bundle = None
      BY <1>2, <2>1, WaitingIs, Zenon
    <3>2. Flushed(bundle) = None /\ FlushedText(ahead) = None
      BY <2>1, <3>1 DEF Flushed, FlushedText
    <3> QED
      BY <3>2 DEF Waits, BundleFrom
  <2>2. CASE ahead # None
    <3>1. bundle # None /\ bundle = Bundle(ahead)
      BY <1>2, <2>2, WaitingIs
    <3>2. CASE AsksForToc(bundle)
      <4>1. Flushed(bundle) = None /\ FlushedText(ahead) = None
        BY <2>2, <3>1, <3>2, Zenon DEF Flushed, FlushedText
      <4> QED
        BY <4>1 DEF Waits, BundleFrom
    <3>3. CASE ~AsksForToc(bundle)
      <4>1. Flushed(bundle) = bundle /\ FlushedText(ahead) = ahead
        BY <3>1, <3>3, Zenon DEF Flushed, FlushedText
      <4> QED
        BY <1>2, <4>1
    <3> QED
      BY <3>2, <3>3
  <2> QED
    BY <2>1, <2>2
<1> QED
  BY <1>1, <1>2, Zenon

LEMMA MergedWaits ==
  ASSUME NoneIsNoFunction, NEW bundle, NEW ahead, Waits(bundle, ahead), NEW pairs \in Seq(Pairs)
  PROVE  /\ JoinedWith(ahead, pairs) \in Seq(Pairs)
         /\ MergedWith(bundle, pairs) = Bundle(JoinedWith(ahead, pairs))
<1>1. CASE ahead = None
  <2>1. bundle = None
    BY <1>1, WaitingIs, Zenon
  <2>2. PICK read : read = Bundle(pairs)
    OBVIOUS
  <2>3. IsFcn(read)
    BY <2>2, BundleIsFcn, Zenon
  <2>4. Merge(Nothing, read) = read
    <3>1. DOMAIN Nothing = {}
      BY EmptySeq DEF Nothing
    <3> QED
      BY <2>3, <3>1 DEF Merge, IsFcn
  <2>5. JoinedWith(ahead, pairs) = pairs /\ MergedWith(bundle, pairs) = Merge(Nothing, Bundle(pairs))
    BY <1>1, <2>1 DEF JoinedWith, MergedWith
  <2> QED
    BY <2>2, <2>4, <2>5
<1>2. CASE ahead # None
  <2>1. bundle # None /\ bundle = Bundle(ahead) /\ ahead \in Seq(Pairs)
    BY <1>2, WaitingIs
  <2>2. JoinedWith(ahead, pairs) = ahead \o pairs /\ MergedWith(bundle, pairs) = Merge(Bundle(ahead), Bundle(pairs))
    BY <1>2, <2>1, Zenon DEF JoinedWith, MergedWith
  <2>3. Bundle(ahead \o pairs) = Merge(Bundle(ahead), Bundle(pairs))
    BY <2>1, BundleConcat, Zenon
  <2>4. ahead \o pairs \in Seq(Pairs)
    BY <2>1, ConcatProperties, Zenon
  <2> QED
    BY <2>2, <2>3, <2>4
<1> QED
  BY <1>1, <1>2

\* The presets that are known, and the texts that defined them.
PresetsStand ==
  /\ DOMAIN presets = DOMAIN written.presets
  /\ \A name \in DOMAIN presets :
       /\ written.presets[name] \in Seq(Pairs)
       /\ presets[name] = Params(Bundle(written.presets[name]))

LEMMA LayerStands ==
  ASSUME PresetsStand, NEW pairs \in Seq(Pairs)
  PROVE  TextOf(pairs) \in TextsOfSettings /\ LayerOf(Bundle(pairs)) = LayerFrom(TextOf(pairs))
<1>1. PICK read : read = Bundle(pairs)
  OBVIOUS
<1>2. CASE "use" \in DOMAIN read /\ read["use"].text \in DOMAIN presets
  <2>1. PICK name \in DOMAIN presets : name = read["use"].text
    BY <1>2
  <2>2. TextOf(pairs) = [preset |-> written.presets[name], direct |-> pairs]
    BY <1>1, <1>2, <2>1 DEF TextOf, PresetsStand
  <2>3. LayerOf(read) = [preset |-> presets[name], direct |-> Params(read)]
    BY <1>2, <2>1 DEF LayerOf
  <2>4. written.presets[name] \in Seq(Pairs) /\ presets[name] = Params(Bundle(written.presets[name]))
    BY DEF PresetsStand
  <2>5. TextOf(pairs) \in TextsOfSettings
    BY <2>2, <2>4 DEF TextsOfSettings
  <2>6. LayerFrom(TextOf(pairs)) = [preset |-> Params(Bundle(written.presets[name])), direct |-> Params(Bundle(pairs))]
    BY <2>2 DEF LayerFrom
  <2> QED
    BY <1>1, <2>3, <2>4, <2>5, <2>6
<1>3. CASE ~("use" \in DOMAIN read /\ read["use"].text \in DOMAIN presets)
  <2>1. TextOf(pairs) = [preset |-> << >>, direct |-> pairs]
    BY <1>1, <1>3 DEF TextOf, PresetsStand
  <2>2. LayerOf(read) = [preset |-> Nothing, direct |-> Params(read)]
    BY <1>3 DEF LayerOf
  <2>3. TextOf(pairs) \in TextsOfSettings
    BY <2>1 DEF TextsOfSettings
  <2>4. LayerFrom(TextOf(pairs)) = [preset |-> Params(Bundle(<< >>)), direct |-> Params(Bundle(pairs))]
    BY <2>1 DEF LayerFrom
  <2>5. Params(Bundle(<< >>)) = Nothing
    <3>1. DOMAIN Bundle(<< >>) = {} /\ DOMAIN Nothing = {}
      BY EmptyBundle, EmptySeq DEF Nothing
    <3>2. DOMAIN Params(Bundle(<< >>)) = {} /\ IsFcn(Params(Bundle(<< >>))) /\ IsFcn(Nothing)
      BY <3>1 DEF Params, IsFcn, Nothing
    <3> QED
      BY <3>1, <3>2, SameFcn
  <2> QED
    BY <1>1, <2>2, <2>3, <2>4, <2>5
<1> QED
  BY <1>2, <1>3

-----------------------------------------------------------------------------

\* The blocks of the same kind within a block.
Within(kinds, k) == {j \in k + 1 .. Len(kinds) : kinds[j] = kinds[k]}

\* The block whose settings hold, and the text they came from.
SingleOf(kinds, blocks, k) ==
  [layer |-> LayerFrom(blocks[k]), end |-> kinds[k], nested |-> Cardinality(Within(kinds, k))]

ActiveStands(single, kinds, blocks) ==
  IF single = None THEN \A j \in 1 .. Len(blocks) : blocks[j] = None
  ELSE \E k \in 1 .. Len(blocks) : Alone(blocks, k) /\ single = SingleOf(kinds, blocks, k)

LEMMA WithinCount ==
  ASSUME NEW K, NEW kinds \in Seq(K), NEW e \in K
  PROVE  /\ \A k \in 1 .. Len(kinds) :
              /\ Cardinality(Within(kinds, k)) \in Nat
              /\ kinds[k] = e => Cardinality(Within(Append(kinds, e), k)) = Cardinality(Within(kinds, k)) + 1
              /\ kinds[k] # e => Cardinality(Within(Append(kinds, e), k)) = Cardinality(Within(kinds, k))
         /\ Cardinality(Within(Append(kinds, e), Len(kinds) + 1)) = 0
<1>1. PICK n \in Nat : n = Len(kinds)
  BY LenProperties
<1>2. PICK more \in Seq(K) : more = Append(kinds, e)
  BY AppendProperties
<1>3. Len(more) = n + 1 /\ more[n + 1] = e /\ \A i \in 1 .. n : more[i] = kinds[i]
  BY <1>1, <1>2, AppendProperties
<1>4. ASSUME NEW k \in 1 .. n
      PROVE  /\ Cardinality(Within(kinds, k)) \in Nat
             /\ kinds[k] = e => Cardinality(Within(more, k)) = Cardinality(Within(kinds, k)) + 1
             /\ kinds[k] # e => Cardinality(Within(more, k)) = Cardinality(Within(kinds, k))
  <2>1. Within(kinds, k) = {j \in k + 1 .. n : kinds[j] = kinds[k]}
    BY <1>1 DEF Within
  <2>2. Within(more, k) = {j \in k + 1 .. n + 1 : more[j] = kinds[k]}
    BY <1>3 DEF Within
  <2>3. IsFiniteSet(Within(kinds, k))
    <3>1. IsFiniteSet(k + 1 .. n)
      BY FS_Interval
    <3>2. Within(kinds, k) \subseteq k + 1 .. n
      BY <2>1
    <3> QED
      BY <3>1, <3>2, FS_Subset
  <2>4. Cardinality(Within(kinds, k)) \in Nat
    BY <2>3, FS_CardinalityType
  <2>5. CASE kinds[k] = e
    <3>1. Within(more, k) = Within(kinds, k) \cup {n + 1} /\ n + 1 \notin Within(kinds, k)
      <4>1. \A j : j \in k + 1 .. n + 1 <=> j \in k + 1 .. n \/ j = n + 1
        OBVIOUS
      <4>2. \A j \in k + 1 .. n : more[j] = kinds[j]
        BY <1>3
      <4> QED
        BY <1>3, <2>1, <2>2, <2>5, <4>1, <4>2
    <3> QED
      BY <2>3, <2>4, <2>5, <3>1, FS_AddElement
  <2>6. CASE kinds[k] # e
    <3>1. Within(more, k) = Within(kinds, k)
      <4>1. \A j : j \in k + 1 .. n + 1 <=> j \in k + 1 .. n \/ j = n + 1
        OBVIOUS
      <4>2. \A j \in k + 1 .. n : more[j] = kinds[j]
        BY <1>3
      <4> QED
        BY <1>3, <2>1, <2>2, <2>6, <4>1, <4>2
    <3> QED
      BY <2>4, <2>6, <3>1
  <2> QED
    BY <2>4, <2>5, <2>6
<1>5. Cardinality(Within(more, n + 1)) = 0
  <2>1. Within(more, n + 1) = {}
    BY <1>3 DEF Within
  <2> QED
    BY <2>1, FS_EmptySet
<1> QED
  BY <1>1, <1>2, <1>4, <1>5

LEMMA FrontLast ==
  ASSUME NEW S, NEW s \in Seq(S), NEW c \in S
  PROVE  Front(Append(s, c)) = s /\ Last(Append(s, c)) = c
<1>1. PICK n \in Nat : n = Len(s)
  BY LenProperties
<1>2. PICK more \in Seq(S) : more = Append(s, c)
  BY AppendProperties
<1>3. Len(more) = n + 1 /\ more[n + 1] = c /\ \A i \in 1 .. n : more[i] = s[i]
  BY <1>1, <1>2, AppendProperties
<1>4. n <= Len(more) /\ Len(more) - 1 = n
  BY <1>3
<1>5. PICK front \in Seq(S) : front = SubSeq(more, 1, n)
  BY <1>4, FirstPiece
<1>6. Len(front) = n /\ \A i \in 1 .. n : front[i] = more[i]
  BY <1>4, <1>5, FirstPiece
<1>7. front = s
  BY <1>1, <1>3, <1>6, SeqEqual
<1> QED
  BY <1>2, <1>3, <1>4, <1>5, <1>7 DEF Front, Last

LEMMA EndsInAppend ==
  ASSUME NEW S, NEW s \in Seq(S), s # << >>
  PROVE  \E front \in Seq(S), last \in S : s = Append(front, last) /\ Front(s) = front /\ Last(s) = last
<1>1. PICK front \in Seq(S), last \in S : s = Append(front, last)
  BY SequenceEmptyOrAppend
<1> QED
  BY <1>1, FrontLast

\* A block ends: the settings of a block around it still hold, its own do not.
LEMMA EndActive ==
  ASSUME NoneIsNoFunction, NEW K, NEW kinds \in Seq(K), NEW e \in K,
         NEW blocks \in Seq(TextsOfSettings \cup {None}), NEW text \in TextsOfSettings \cup {None},
         Len(kinds) = Len(blocks), NEW single,
         ActiveStands(single, Append(kinds, e), Append(blocks, text))
  PROVE  ActiveStands(ActiveAfter(single, e), kinds, blocks)
<1>1. PICK n \in Nat : n = Len(kinds) /\ n = Len(blocks)
  BY LenProperties
<1>2. PICK ks \in Seq(K) : ks = Append(kinds, e)
  BY AppendProperties
<1>3. Len(ks) = n + 1 /\ ks[n + 1] = e /\ \A i \in 1 .. n : ks[i] = kinds[i]
  BY <1>1, <1>2, AppendProperties
<1>4. PICK bs \in Seq(TextsOfSettings \cup {None}) : bs = Append(blocks, text)
  BY AppendProperties
<1>5. Len(bs) = n + 1 /\ bs[n + 1] = text /\ \A i \in 1 .. n : bs[i] = blocks[i]
  BY <1>1, <1>4, AppendProperties
<1>6. \A j \in 1 .. n : j \in 1 .. n + 1
  OBVIOUS
<1>7. CASE single = None
  <2>1. \A j \in 1 .. n + 1 : bs[j] = None
    BY <1>2, <1>4, <1>5, <1>7 DEF ActiveStands
  <2>2. \A j \in 1 .. n : blocks[j] = None
    BY <1>5, <1>6, <2>1
  <2>3. ActiveAfter(single, e) = None
    BY <1>7 DEF ActiveAfter
  <2> QED
    BY <1>1, <2>2, <2>3 DEF ActiveStands
<1>8. CASE single # None
  <2>1. PICK k \in 1 .. n + 1 : Alone(bs, k) /\ single = SingleOf(ks, bs, k)
    BY <1>2, <1>4, <1>5, <1>8 DEF ActiveStands
  <2>2. /\ single = [layer |-> LayerFrom(bs[k]), end |-> ks[k], nested |-> Cardinality(Within(ks, k))]
        /\ bs[k] \in TextsOfSettings /\ \A j \in 1 .. n + 1 : j # k => bs[j] = None
    BY <1>5, <2>1 DEF Alone, SingleOf
  <2>3. /\ \A i \in 1 .. n :
             /\ Cardinality(Within(kinds, i)) \in Nat
             /\ kinds[i] = e => Cardinality(Within(ks, i)) = Cardinality(Within(kinds, i)) + 1
             /\ kinds[i] # e => Cardinality(Within(ks, i)) = Cardinality(Within(kinds, i))
        /\ Cardinality(Within(ks, n + 1)) = 0
    BY <1>1, <1>2, WithinCount
  <2>4. CASE k = n + 1
    <3>1. single.end = e /\ single.nested = 0
      BY <1>3, <2>2, <2>3, <2>4
    <3>2. ActiveAfter(single, e) = None
      BY <3>1 DEF ActiveAfter
    <3>3. \A j \in 1 .. n : blocks[j] = None
      BY <1>5, <1>6, <2>2, <2>4
    <3> QED
      BY <1>1, <3>2, <3>3 DEF ActiveStands
  <2>5. CASE k \in 1 .. n
    <3>1. /\ kinds[k] = ks[k] /\ blocks[k] = bs[k] /\ blocks[k] \in TextsOfSettings
          /\ \A j \in 1 .. n : j # k => blocks[j] = None
      BY <1>3, <1>5, <1>6, <2>2, <2>5
    <3>2. Alone(blocks, k)
      BY <1>1, <2>5, <3>1 DEF Alone
    <3>3. ActiveAfter(single, e) = SingleOf(kinds, blocks, k)
      <4>1. CASE kinds[k] = e
        <5>1. single.end = e /\ single.nested = Cardinality(Within(kinds, k)) + 1 /\ Cardinality(Within(kinds, k)) \in Nat
          BY <2>2, <2>3, <2>5, <3>1, <4>1
        <5>2. ActiveAfter(single, e) = [single EXCEPT !.nested = @ - 1]
          BY <1>8, <5>1 DEF ActiveAfter
        <5> QED
          BY <2>2, <3>1, <4>1, <5>1, <5>2 DEF SingleOf
      <4>2. CASE kinds[k] # e
        <5>1. single.end # e /\ Cardinality(Within(ks, k)) = Cardinality(Within(kinds, k))
          BY <2>2, <2>3, <2>5, <3>1, <4>2
        <5>2. ActiveAfter(single, e) = single
          BY <5>1 DEF ActiveAfter
        <5> QED
          BY <2>2, <3>1, <5>1, <5>2 DEF SingleOf
      <4> QED
        BY <4>1, <4>2
    <3>4. SingleOf(kinds, blocks, k) # None
      <4>1. IsFcn(SingleOf(kinds, blocks, k))
        BY DEF SingleOf, IsFcn
      <4> QED
        BY <4>1, Zenon DEF NoneIsNoFunction
    <3> QED
      BY <1>1, <2>5, <3>2, <3>3, <3>4 DEF ActiveStands
  <2> QED
    BY <2>4, <2>5
<1> QED
  BY <1>7, <1>8

\* A block starts: its settings hold unless those of a block around it do.
LEMMA StartActive ==
  ASSUME NoneIsNoFunction, NEW K, NEW kinds \in Seq(K), NEW e \in K,
         written.blocks \in Seq(TextsOfSettings \cup {None}), Len(kinds) = Len(written.blocks),
         ActiveStands(active, kinds, written.blocks),
         PresetsStand, NEW waiting, NEW ahead, Waits(waiting, ahead)
  PROVE  /\ BlockText(ahead) \in TextsOfSettings \cup {None}
         /\ ActiveStands(ActiveAt(e, waiting), Append(kinds, e), Append(written.blocks, BlockText(ahead)))
<1>1. PICK blocks \in Seq(TextsOfSettings \cup {None}) : blocks = written.blocks
  OBVIOUS
<1>2. PICK n \in Nat : n = Len(kinds) /\ n = Len(blocks)
  BY <1>1, LenProperties
<1>3. PICK ks \in Seq(K) : ks = Append(kinds, e)
  BY AppendProperties
<1>4. Len(ks) = n + 1 /\ ks[n + 1] = e /\ \A i \in 1 .. n : ks[i] = kinds[i]
  BY <1>2, <1>3, AppendProperties
<1>5. PICK text : text = BlockText(ahead)
  OBVIOUS
<1>6. None \notin TextsOfSettings
  BY Apart
<1>7. text \in TextsOfSettings \cup {None}
  <2>1. CASE ahead = None
    BY <1>5, <2>1 DEF BlockText
  <2>2. CASE ahead # None
    <3>1. TextOf(ahead) \in TextsOfSettings
      BY <2>2, WaitingIs, LayerStands
    <3> QED
      BY <1>5, <3>1 DEF BlockText
  <2> QED
    BY <2>1, <2>2
<1>8. PICK bs \in Seq(TextsOfSettings \cup {None}) : bs = Append(blocks, text)
  BY <1>7, AppendProperties
<1>9. Len(bs) = n + 1 /\ bs[n + 1] = text /\ \A i \in 1 .. n : bs[i] = blocks[i]
  BY <1>2, <1>7, <1>8, AppendProperties
<1>10. \A j \in 1 .. n + 1 : j \in 1 .. n \/ j = n + 1
  OBVIOUS
<1>11. /\ \A i \in 1 .. n :
            /\ Cardinality(Within(kinds, i)) \in Nat
            /\ kinds[i] = e => Cardinality(Within(ks, i)) = Cardinality(Within(kinds, i)) + 1
            /\ kinds[i] # e => Cardinality(Within(ks, i)) = Cardinality(Within(kinds, i))
       /\ Cardinality(Within(ks, n + 1)) = 0
  BY <1>2, <1>3, WithinCount
<1>12. ASSUME NEW k \in 1 .. n + 1 PROVE SingleOf(ks, bs, k) # None
  <2>1. IsFcn(SingleOf(ks, bs, k))
    BY DEF SingleOf, IsFcn
  <2> QED
    BY <2>1, Zenon DEF NoneIsNoFunction
<1>13. PICK single : single = ActiveAt(e, waiting)
  OBVIOUS
<1>14. ActiveStands(single, ks, bs)
  <2>1. CASE active = None
    <3>1. \A j \in 1 .. n : blocks[j] = None
      BY <1>1, <1>2, <2>1 DEF ActiveStands
    <3>2. CASE ahead = None
      <4>1. waiting = None
        BY <3>2, WaitingIs
      <4>2. single = None /\ text = None
        BY <1>5, <1>13, <2>1, <3>2, <4>1 DEF ActiveAt, BlockText
      <4>3. \A j \in 1 .. n + 1 : bs[j] = None
        BY <1>9, <1>10, <3>1, <4>2
      <4> QED
        BY <1>9, <4>2, <4>3 DEF ActiveStands
    <3>3. CASE ahead # None
      <4>1. waiting # None /\ waiting = Bundle(ahead) /\ ahead \in Seq(Pairs)
        BY <3>3, WaitingIs
      <4>2. text = TextOf(ahead)
        BY <1>1, <1>2, <1>5, <3>1, <3>3 DEF BlockText
      <4>3. single = [layer |-> LayerOf(waiting), end |-> e, nested |-> 0]
        BY <1>13, <2>1, <4>1 DEF ActiveAt
      <4>4. LayerOf(waiting) = LayerFrom(text) /\ text \in TextsOfSettings
        BY <4>1, <4>2, LayerStands
      <4>5. single = SingleOf(ks, bs, n + 1)
        BY <1>4, <1>9, <1>11, <4>3, <4>4 DEF SingleOf
      <4>6. Alone(bs, n + 1)
        BY <1>9, <1>10, <3>1, <4>4 DEF Alone
      <4>7. n + 1 \in 1 .. n + 1
        OBVIOUS
      <4> QED
        BY <1>9, <1>12, <4>5, <4>6, <4>7 DEF ActiveStands
    <3> QED
      BY <3>2, <3>3
  <2>2. CASE active # None
    <3>1. PICK k \in 1 .. n : Alone(blocks, k) /\ active = SingleOf(kinds, blocks, k)
      BY <1>1, <1>2, <2>2 DEF ActiveStands
    <3>2. /\ active = [layer |-> LayerFrom(blocks[k]), end |-> kinds[k], nested |-> Cardinality(Within(kinds, k))]
          /\ blocks[k] \in TextsOfSettings /\ \A j \in 1 .. n : j # k => blocks[j] = None
      BY <1>2, <3>1 DEF Alone, SingleOf
    <3>3. text = None
      BY <1>1, <1>2, <1>5, <1>6, <3>2 DEF BlockText
    <3>4. k \in 1 .. n + 1 /\ bs[k] = blocks[k] /\ ks[k] = kinds[k]
      BY <1>4, <1>9
    <3>5. Alone(bs, k)
      BY <1>9, <1>10, <3>2, <3>3, <3>4 DEF Alone
    <3>6. single = SingleOf(ks, bs, k)
      <4>1. CASE kinds[k] = e
        <5>1. single = [active EXCEPT !.nested = @ + 1]
          BY <1>13, <2>2, <3>2, <4>1 DEF ActiveAt
        <5>2. Cardinality(Within(ks, k)) = Cardinality(Within(kinds, k)) + 1
          BY <1>11, <4>1
        <5> QED
          BY <3>2, <3>4, <5>1, <5>2 DEF SingleOf
      <4>2. CASE kinds[k] # e
        <5>1. single = active
          BY <1>13, <2>2, <3>2, <4>2 DEF ActiveAt
        <5>2. Cardinality(Within(ks, k)) = Cardinality(Within(kinds, k))
          BY <1>11, <4>2
        <5> QED
          BY <3>2, <3>4, <5>1, <5>2 DEF SingleOf
      <4> QED
        BY <4>1, <4>2
    <3> QED
      BY <1>9, <1>12, <3>4, <3>5, <3>6 DEF ActiveStands
  <2> QED
    BY <2>1, <2>2
<1> QED
  BY <1>1, <1>3, <1>5, <1>7, <1>8, <1>13, <1>14

GhostFields == {"ahead", "scopes", "blocks", "presets"}

BlocksStand ==
  /\ open \in Seq({"quote", "list"})
  /\ written.blocks \in Seq(TextsOfSettings \cup {None}) /\ Len(open) = Len(written.blocks)
  /\ ActiveStands(active, open, written.blocks)

\* What the emitter has in force stands for the text that is in force.
SettingsInv ==
  /\ DOMAIN written = GhostFields
  /\ Waits(pending, written.ahead)
  /\ PresetsStand
  /\ ScopesStand(scopes, written.scopes)
  /\ BlocksStand
  /\ SettingsAreLexical

LEMMA NothingWaits == Waits(None, None)
BY DEF Waits, BundleFrom

LEMMA CommentPairs == ASSUME NEW pairs \in Comments PROVE pairs \in Seq(Pairs)
<1>1. pairs \in Seq(Range(pairs))
  BY CommentsAreSequences
<1>2. Range(pairs) \subseteq Pairs
  BY DEF Pairs
<1> QED
  BY <1>1, <1>2, SeqMonotonic, Zenon

LEMMA InitSettings == SettingsInit => SettingsInv
<1> SUFFICES ASSUME SettingsInit PROVE SettingsInv
  OBVIOUS
<1>1. /\ pending = None /\ scopes = << >> /\ presets = Nothing /\ active = None /\ open = << >> /\ rendered = None
      /\ written = [ahead |-> None, scopes |-> << >>, blocks |-> << >>, presets |-> Nothing]
  BY DEF SettingsInit
<1>2. DOMAIN written = GhostFields
  BY <1>1 DEF GhostFields
<1>3. /\ written.ahead = None /\ written.scopes = << >> /\ written.blocks = << >> /\ written.presets = Nothing
  BY <1>1
<1>4. Waits(pending, written.ahead)
  BY <1>1, <1>3, NothingWaits
<1>5. PresetsStand
  <2>1. DOMAIN presets = {}
    BY <1>1, EmptySeq DEF Nothing
  <2> QED
    BY <1>1, <1>3, <2>1 DEF PresetsStand
<1>6. ScopesStand(scopes, written.scopes)
  BY <1>1, <1>3, EmptySeq DEF ScopesStand
<1>7. BlocksStand
  BY <1>1, <1>3, EmptySeq DEF BlocksStand, ActiveStands
<1> QED
  BY <1>1, <1>2, <1>4, <1>5, <1>6, <1>7 DEF SettingsInv, SettingsAreLexical

\* The bundle a comment is read as, and the text it was.
LEMMA CommentRead ==
  ASSUME NoneIsNoFunction, Waits(pending, written.ahead), NEW pairs \in Seq(Pairs), NEW near
  PROVE  /\ JoinedWith(FlushedText(AheadText(near)), pairs) \in Seq(Pairs)
         /\ MergedWith(Flushed(Kept(near)), pairs) = Bundle(JoinedWith(FlushedText(AheadText(near)), pairs))
         /\ JoinedWith(AheadText(near), pairs) \in Seq(Pairs)
         /\ MergedWith(Kept(near), pairs) = Bundle(JoinedWith(AheadText(near), pairs))
BY KeptWaits, MergedWaits

LEMMA SettingsRead ==
  ASSUME NoneIsNoFunction, SettingsInv, NEW pairs \in Comments, NEW near, ReadParams(pairs, near)
  PROVE  SettingsInv'
<1>1. PICK text \in Seq(Pairs) :
        text = JoinedWith(AheadText(near), pairs) /\ MergedWith(Kept(near), pairs) = Bundle(text)
  BY CommentPairs, CommentRead DEF SettingsInv
<1>2. /\ pending' = Bundle(text) /\ written' = [written EXCEPT !.ahead = text] /\ rendered' = None
      /\ presets' = presets /\ scopes' = scopes /\ active' = active /\ open' = open
  BY <1>1 DEF ReadParams, Comment
<1>3. /\ DOMAIN written' = GhostFields /\ written'.ahead = text /\ written'.scopes = written.scopes
      /\ written'.blocks = written.blocks /\ written'.presets = written.presets
  BY <1>2 DEF SettingsInv, GhostFields
<1>4. Waits(pending', written'.ahead)
  <2>1. text # None
    BY Apart
  <2> QED
    BY <1>2, <1>3, <2>1 DEF Waits, BundleFrom
<1> QED
  BY <1>2, <1>3, <1>4
  DEF SettingsInv, PresetsStand, ScopesStand, BlocksStand, SettingsAreLexical

LEMMA ParamsConcat ==
  ASSUME NEW text \in TextsOfSettings
  PROVE  /\ text.preset \o text.direct \in Seq(Pairs)
         /\ Resolved(LayerFrom(text)) = Params(Bundle(text.preset \o text.direct))
<1>1. text.preset \in Seq(Pairs) /\ text.direct \in Seq(Pairs)
  BY DEF TextsOfSettings
<1>2. PICK a : a = Bundle(text.preset)
  OBVIOUS
<1>3. PICK b : b = Bundle(text.direct)
  OBVIOUS
<1>4. Bundle(text.preset \o text.direct) = Merge(Bundle(text.preset), Bundle(text.direct))
  BY <1>1, BundleConcat, Zenon
<1>5. Params(Merge(a, b)) = Merge(Params(a), Params(b))
  BY DEF Params, Merge
<1>6. Resolved(LayerFrom(text)) = Merge(Params(Bundle(text.preset)), Params(Bundle(text.direct)))
  BY DEF Resolved, LayerFrom
<1>7. text.preset \o text.direct \in Seq(Pairs)
  BY <1>1, ConcatProperties, Zenon
<1> QED
  BY <1>2, <1>3, <1>4, <1>5, <1>6, <1>7

LEMMA SettingsDefined ==
  ASSUME NoneIsNoFunction, SettingsInv, NEW pairs \in Comments, NEW near, NEW name,
         ReadDefine(name, pairs, near)
  PROVE  SettingsInv'
<1>1. PICK said \in Seq(Pairs) :
        said = JoinedWith(FlushedText(AheadText(near)), pairs) /\ MergedWith(Flushed(Kept(near)), pairs) = Bundle(said)
  BY CommentPairs, CommentRead DEF SettingsInv
<1>2. PICK text \in TextsOfSettings : text = TextOf(said) /\ LayerOf(Bundle(said)) = LayerFrom(text)
  BY LayerStands DEF SettingsInv
<1>3. PICK whole \in Seq(Pairs) :
        whole = text.preset \o text.direct /\ Resolved(LayerFrom(text)) = Params(Bundle(whole))
  BY ParamsConcat
<1>4. /\ presets' = WithPreset(presets, name, Params(Bundle(whole)))
      /\ written' = [written EXCEPT !.ahead = None, !.presets = WithPreset(@, name, whole)]
      /\ pending' = None /\ rendered' = None
      /\ scopes' = scopes /\ active' = active /\ open' = open
  BY <1>1, <1>2, <1>3 DEF ReadDefine, Comment
<1>5. /\ DOMAIN written' = GhostFields /\ written'.ahead = None /\ written'.scopes = written.scopes
      /\ written'.blocks = written.blocks /\ written'.presets = WithPreset(written.presets, name, whole)
  BY <1>4 DEF SettingsInv, GhostFields
<1>6. Waits(pending', written'.ahead)
  BY <1>4, <1>5, NothingWaits
<1>7. PresetsStand'
  <2>1. DOMAIN presets = DOMAIN written.presets
    BY DEF SettingsInv, PresetsStand
  <2>2. ASSUME NEW f, NEW v
        PROVE  /\ DOMAIN WithPreset(f, name, v) = DOMAIN f \cup {name} /\ WithPreset(f, name, v)[name] = v
               /\ \A other \in DOMAIN f : other # name => WithPreset(f, name, v)[other] = f[other]
    BY DEF WithPreset, Merge
  <2>3. /\ DOMAIN presets' = DOMAIN presets \cup {name} /\ presets'[name] = Params(Bundle(whole))
        /\ \A other \in DOMAIN presets : other # name => presets'[other] = presets[other]
    BY <1>4, <2>2
  <2>4. /\ DOMAIN written'.presets = DOMAIN presets \cup {name} /\ written'.presets[name] = whole
        /\ \A other \in DOMAIN presets : other # name => written'.presets[other] = written.presets[other]
    <3>1. PICK f : f = written.presets
      OBVIOUS
    <3>2. PICK g : g = WithPreset(f, name, whole)
      OBVIOUS
    <3>3. /\ DOMAIN g = DOMAIN f \cup {name} /\ g[name] = whole
          /\ \A other \in DOMAIN f : other # name => g[other] = f[other]
      BY <2>2, <3>2
    <3>4. written'.presets = g
      BY <1>5, <3>1, <3>2
    <3> QED
      BY <2>1, <3>1, <3>3, <3>4
  <2>5. ASSUME NEW other \in DOMAIN presets'
        PROVE  /\ written'.presets[other] \in Seq(Pairs)
               /\ presets'[other] = Params(Bundle(written'.presets[other]))
    <3>1. CASE other = name
      BY <2>3, <2>4, <3>1
    <3>2. CASE other # name
      <4>1. other \in DOMAIN presets
        BY <2>3, <3>2
      <4>2. written.presets[other] \in Seq(Pairs) /\ presets[other] = Params(Bundle(written.presets[other]))
        BY <4>1 DEF SettingsInv, PresetsStand
      <4> QED
        BY <2>3, <2>4, <3>2, <4>1, <4>2
    <3> QED
      BY <3>1, <3>2
  <2> QED
    BY <2>3, <2>4, <2>5 DEF PresetsStand
<1> QED
  BY <1>4, <1>5, <1>6, <1>7
  DEF SettingsInv, ScopesStand, BlocksStand, SettingsAreLexical

LEMMA AppendStands ==
  ASSUME NEW layers, NEW texts, ScopesStand(layers, texts), NEW text \in TextsOfSettings,
         NEW layer \in Layers \cup {None}, Stands(layer, text)
  PROVE  ScopesStand(Append(layers, layer), Append(texts, text))
<1>1. /\ layers \in Seq(Layers \cup {None}) /\ texts \in Seq(TextsOfSettings) /\ Len(layers) = Len(texts)
      /\ \A i \in 1 .. Len(texts) : Stands(layers[i], texts[i])
  BY DEF ScopesStand
<1>2. PICK n \in Nat : n = Len(texts)
  BY <1>1, LenProperties
<1>3. PICK ls \in Seq(Layers \cup {None}) : ls = Append(layers, layer)
  BY <1>1, AppendProperties
<1>4. PICK ts \in Seq(TextsOfSettings) : ts = Append(texts, text)
  BY <1>1, AppendProperties
<1>5. /\ Len(ls) = n + 1 /\ ls[n + 1] = layer /\ \A i \in 1 .. n : ls[i] = layers[i]
      /\ Len(ts) = n + 1 /\ ts[n + 1] = text /\ \A i \in 1 .. n : ts[i] = texts[i]
  BY <1>1, <1>2, <1>3, <1>4, AppendProperties
<1>6. \A i \in 1 .. n + 1 : i \in 1 .. n \/ i = n + 1
  OBVIOUS
<1>7. \A i \in 1 .. n + 1 : Stands(ls[i], ts[i])
  BY <1>1, <1>2, <1>5, <1>6
<1> QED
  BY <1>3, <1>4, <1>5, <1>7 DEF ScopesStand

LEMMA SettingsScoped ==
  ASSUME NoneIsNoFunction, SettingsInv, NEW pairs \in Comments, NEW near, ReadScopeStart(pairs, near)
  PROVE  SettingsInv'
<1>1. PICK said \in Seq(Pairs) :
        said = JoinedWith(FlushedText(AheadText(near)), pairs) /\ MergedWith(Flushed(Kept(near)), pairs) = Bundle(said)
  BY CommentPairs, CommentRead DEF SettingsInv
<1>2. PICK text \in TextsOfSettings : text = TextOf(said) /\ LayerOf(Bundle(said)) = LayerFrom(text)
  BY LayerStands DEF SettingsInv
<1>3. PICK layer \in Layers \cup {None} :
        layer = IF HasDirectives(Resolved(LayerFrom(text))) THEN LayerFrom(text) ELSE None
  BY DEF Layers
<1>4. /\ scopes' = Append(scopes, layer)
      /\ written' = [written EXCEPT !.ahead = None, !.scopes = Append(@, text)]
      /\ pending' = None /\ rendered' = None
      /\ presets' = presets /\ active' = active /\ open' = open
  BY <1>1, <1>2, <1>3 DEF ReadScopeStart, Comment
<1>5. /\ DOMAIN written' = GhostFields /\ written'.ahead = None /\ written'.scopes = Append(written.scopes, text)
      /\ written'.blocks = written.blocks /\ written'.presets = written.presets
  BY <1>4 DEF SettingsInv, GhostFields
<1>6. Waits(pending', written'.ahead)
  BY <1>4, <1>5, NothingWaits
<1>7. Stands(layer, text)
  <2>1. CASE HasDirectives(Resolved(LayerFrom(text)))
    BY <1>3, <2>1 DEF Stands
  <2>2. CASE ~HasDirectives(Resolved(LayerFrom(text)))
    <3>1. PICK a : a = Bundle(text.preset)
      OBVIOUS
    <3>2. PICK b : b = Bundle(text.direct)
      OBVIOUS
    <3>3. Resolved(LayerFrom(text)) = Merge(Params(a), Params(b))
      BY <3>1, <3>2 DEF Resolved, LayerFrom
    <3>4. DOMAIN Merge(Params(a), Params(b)) = (DOMAIN a \cap ParamFields) \cup (DOMAIN b \cap ParamFields)
      BY DEF Merge, Params
    <3>5. ((DOMAIN a \cap ParamFields) \cup (DOMAIN b \cap ParamFields)) \cap (ParamFields \ {"ruby"}) = {}
      BY <2>2, <3>3, <3>4 DEF HasDirectives, Has
    <3>6. DOMAIN a \cap BlockFields = {} /\ DOMAIN b \cap BlockFields = {}
      BY <3>5 DEF BlockFields
    <3>7. Silent(text.preset) /\ Silent(text.direct)
      BY <3>1, <3>2, <3>6, PartOf DEF Silent
    <3> QED
      BY <1>3, <2>2, <3>7 DEF Stands
  <2> QED
    BY <2>1, <2>2
<1>8. ScopesStand(scopes', written'.scopes)
  BY <1>4, <1>5, <1>7, AppendStands DEF SettingsInv
<1> QED
  BY <1>4, <1>5, <1>6, <1>8
  DEF SettingsInv, PresetsStand, BlocksStand, SettingsAreLexical

LEMMA FrontStands ==
  ASSUME NEW layers, NEW texts, ScopesStand(layers, texts)
  PROVE  /\ layers = << >> <=> texts = << >>
         /\ layers # << >> => ScopesStand(Front(layers), Front(texts))
<1>1. /\ layers \in Seq(Layers \cup {None}) /\ texts \in Seq(TextsOfSettings) /\ Len(layers) = Len(texts)
      /\ \A i \in 1 .. Len(texts) : Stands(layers[i], texts[i])
  BY DEF ScopesStand
<1>2. layers = << >> <=> texts = << >>
  BY <1>1, EmptySeq
<1>3. ASSUME layers # << >> PROVE ScopesStand(Front(layers), Front(texts))
  <2>1. PICK n \in Nat : n = Len(texts) - 1 /\ n <= Len(texts)
    <3>1. Len(texts) # 0 /\ Len(texts) \in Nat
      BY <1>1, <1>2, <1>3, EmptySeq
    <3> QED
      BY <3>1
  <2>2. PICK ls \in Seq(Layers \cup {None}) : ls = SubSeq(layers, 1, n)
    BY <1>1, <2>1, FirstPiece
  <2>3. PICK ts \in Seq(TextsOfSettings) : ts = SubSeq(texts, 1, n)
    BY <1>1, <2>1, FirstPiece
  <2>4. Len(ls) = n /\ \A i \in 1 .. n : ls[i] = layers[i]
    BY <1>1, <2>1, <2>2, FirstPiece
  <2>5. Len(ts) = n /\ \A i \in 1 .. n : ts[i] = texts[i]
    BY <1>1, <2>1, <2>3, FirstPiece
  <2>6. \A i \in 1 .. n : Stands(ls[i], ts[i])
    BY <1>1, <2>1, <2>4, <2>5
  <2>7. ScopesStand(ls, ts)
    BY <2>4, <2>5, <2>6 DEF ScopesStand
  <2>8. Front(layers) = ls /\ Front(texts) = ts
    BY <1>1, <2>1, <2>2, <2>3 DEF Front
  <2> QED
    BY <2>7, <2>8
<1> QED
  BY <1>2, <1>3

LEMMA SettingsUnscoped ==
  ASSUME NoneIsNoFunction, SettingsInv, ReadScopeEnd
  PROVE  SettingsInv'
<1>1. /\ scopes' = IF scopes = << >> THEN scopes ELSE Front(scopes)
      /\ written' = [written EXCEPT !.ahead = None, !.scopes = IF @ = << >> THEN @ ELSE Front(@)]
      /\ pending' = None /\ rendered' = None
      /\ presets' = presets /\ active' = active /\ open' = open
  BY DEF ReadScopeEnd
<1>2. /\ DOMAIN written' = GhostFields /\ written'.ahead = None
      /\ written'.scopes = IF written.scopes = << >> THEN written.scopes ELSE Front(written.scopes)
      /\ written'.blocks = written.blocks /\ written'.presets = written.presets
  BY <1>1 DEF SettingsInv, GhostFields
<1>3. Waits(pending', written'.ahead)
  BY <1>1, <1>2, NothingWaits
<1>4. ScopesStand(scopes', written'.scopes)
  <2>1. /\ ScopesStand(scopes, written.scopes)
        /\ scopes = << >> <=> written.scopes = << >>
        /\ scopes # << >> => ScopesStand(Front(scopes), Front(written.scopes))
    BY FrontStands DEF SettingsInv
  <2> QED
    BY <1>1, <1>2, <2>1
<1> QED
  BY <1>1, <1>2, <1>3, <1>4
  DEF SettingsInv, PresetsStand, BlocksStand, SettingsAreLexical

\* Whichever layer holds, the block is written with what its texts ask for.
LEMMA BlockAnswer ==
  ASSUME NoneIsNoFunction, ScopesStand(scopes, written.scopes), NEW single, NEW kinds,
         NEW blocks \in Seq(TextsOfSettings \cup {None}), ActiveStands(single, kinds, blocks)
  PROVE  SameAnswer(IF single = None THEN scopes ELSE Append(scopes, single.layer), written.scopes \o blocks)
<1>1. CASE single = None
  <2>1. \A j \in 1 .. Len(blocks) : blocks[j] = None
    BY <1>1 DEF ActiveStands
  <2>2. SameAnswer(scopes, written.scopes \o blocks)
    BY <2>1, ScopesAnswer, Zenon
  <2> QED
    BY <1>1, <2>2
<1>2. CASE single # None
  <2>1. PICK k \in 1 .. Len(blocks) : Alone(blocks, k) /\ single = SingleOf(kinds, blocks, k)
    BY <1>2 DEF ActiveStands
  <2>2. single.layer = LayerFrom(blocks[k])
    BY <2>1 DEF SingleOf
  <2>3. SameAnswer(Append(scopes, LayerFrom(blocks[k])), written.scopes \o blocks)
    BY <2>1, BlockAnswers, Zenon
  <2> QED
    BY <1>2, <2>2, <2>3
<1> QED
  BY <1>1, <1>2

LEMMA SettingsStarted ==
  ASSUME NoneIsNoFunction, SettingsInv, NEW kind, NEW near, Start(kind, near),
         kind \in Leaves \/ kind \in {"quote", "list"}
  PROVE  SettingsInv'
<1> DEFINE K == {"quote", "list", BlockEnd(kind)}
<1>1. PICK e \in K : e = BlockEnd(kind)
  OBVIOUS
<1>2. PICK waiting : waiting = Flushed(Kept(near))
  OBVIOUS
<1>3. PICK ahead : ahead = FlushedText(AheadText(near))
  OBVIOUS
<1>4. PICK single : single = ActiveAt(e, waiting)
  OBVIOUS
<1>5. PICK text : text = BlockText(ahead)
  OBVIOUS
<1>6. PICK layers : layers = IF single = None THEN scopes ELSE Append(scopes, single.layer)
  OBVIOUS
<1>7. PICK blocks : blocks = Append(written.blocks, text)
  OBVIOUS
<1>8. PICK texts : texts = written.scopes \o blocks
  OBVIOUS
<1>9. /\ rendered' = Written(kind, Resolve(layers), texts)
      /\ kind \in Leaves => /\ active' = ActiveAfter(single, e)
                            /\ written' = [written EXCEPT !.ahead = None]
                            /\ open' = open
      /\ kind \notin Leaves => /\ active' = single /\ open' = Append(open, kind)
                               /\ written' = [written EXCEPT !.ahead = None, !.blocks = Append(@, text)]
      /\ pending' = None /\ presets' = presets /\ scopes' = scopes
  BY <1>1, <1>2, <1>3, <1>4, <1>5, <1>6, <1>7, <1>8 DEF Start
<1>10. /\ open \in Seq(K) /\ open \in Seq({"quote", "list"})
       /\ written.blocks \in Seq(TextsOfSettings \cup {None}) /\ Len(open) = Len(written.blocks)
       /\ ActiveStands(active, open, written.blocks) /\ PresetsStand
       /\ ScopesStand(scopes, written.scopes) /\ DOMAIN written = GhostFields
  <2>1. Seq({"quote", "list"}) \subseteq Seq(K)
    <3>1. {"quote", "list"} \subseteq K
      OBVIOUS
    <3> HIDE DEF K
    <3> QED
      BY <3>1, SeqMonotonic
  <2> HIDE DEF K
  <2> QED
    BY <2>1 DEF SettingsInv, BlocksStand
<1> HIDE DEF K
<1>11. Waits(waiting, ahead)
  BY <1>2, <1>3, KeptWaits DEF SettingsInv
<1>12. text \in TextsOfSettings \cup {None} /\ ActiveStands(single, Append(open, e), blocks)
  BY <1>4, <1>5, <1>7, <1>10, <1>11, StartActive
<1>13. blocks \in Seq(TextsOfSettings \cup {None}) /\ Len(blocks) = Len(written.blocks) + 1
  BY <1>7, <1>10, <1>12, AppendProperties
<1>14. SameAnswer(layers, texts)
  BY <1>6, <1>8, <1>10, <1>12, <1>13, BlockAnswer
<1>15. SettingsAreLexical'
  <2>1. rendered'.params = Resolve(layers) /\ rendered'.asked = Asked(texts)
    BY <1>9 DEF Written
  <2> QED
    BY <1>14, <2>1 DEF SettingsAreLexical, SameAnswer
<1>16. CASE kind \in Leaves
  <2>1. /\ DOMAIN written' = GhostFields /\ written'.ahead = None /\ written'.scopes = written.scopes
        /\ written'.blocks = written.blocks /\ written'.presets = written.presets
    BY <1>9, <1>10, <1>16 DEF GhostFields
  <2>2. Waits(pending', written'.ahead)
    BY <1>9, <2>1, NothingWaits
  <2>3. ActiveStands(active', open', written'.blocks)
    <3>1. ActiveStands(ActiveAfter(single, e), open, written.blocks)
      BY <1>7, <1>10, <1>12, EndActive
    <3> QED
      BY <1>9, <1>16, <2>1, <3>1
  <2> QED
    BY <1>9, <1>10, <1>15, <1>16, <2>1, <2>2, <2>3
    DEF SettingsInv, PresetsStand, ScopesStand, BlocksStand
<1>17. CASE kind \notin Leaves
  <2>1. /\ DOMAIN written' = GhostFields /\ written'.ahead = None /\ written'.scopes = written.scopes
        /\ written'.blocks = blocks /\ written'.presets = written.presets
    BY <1>7, <1>9, <1>10, <1>17 DEF GhostFields
  <2>2. Waits(pending', written'.ahead)
    BY <1>9, <2>1, NothingWaits
  <2>3. e = kind /\ kind \in {"quote", "list"}
    BY <1>1, <1>17 DEF BlockEnd
  <2>4. open' \in Seq({"quote", "list"}) /\ Len(open') = Len(open) + 1 /\ open' = Append(open, e)
    BY <1>9, <1>10, <1>17, <2>3, AppendProperties
  <2>5. ActiveStands(active', open', written'.blocks)
    BY <1>9, <1>12, <1>17, <2>1, <2>4
  <2>6. BlocksStand'
    BY <1>10, <1>13, <2>1, <2>4, <2>5 DEF BlocksStand
  <2> QED
    BY <1>9, <1>10, <1>15, <2>1, <2>2, <2>6 DEF SettingsInv, PresetsStand, ScopesStand
<1> QED
  BY <1>16, <1>17

LEMMA SettingsEnded ==
  ASSUME NoneIsNoFunction, SettingsInv, End
  PROVE  SettingsInv'
<1> DEFINE K == {"quote", "list"}
           U == TextsOfSettings \cup {None}
<1>1. /\ open \in Seq(K) /\ written.blocks \in Seq(U) /\ Len(open) = Len(written.blocks)
      /\ ActiveStands(active, open, written.blocks)
  BY DEF SettingsInv, BlocksStand
<1> HIDE DEF K, U
<1>2. /\ open # << >> /\ pending' = None /\ active' = ActiveAfter(active, Last(open))
      /\ open' = Front(open) /\ written' = [written EXCEPT !.ahead = None, !.blocks = Front(@)]
      /\ rendered' = None /\ presets' = presets /\ scopes' = scopes
  BY DEF End
<1>3. /\ DOMAIN written' = GhostFields /\ written'.ahead = None /\ written'.scopes = written.scopes
      /\ written'.blocks = Front(written.blocks) /\ written'.presets = written.presets
  BY <1>2 DEF SettingsInv, GhostFields
<1>4. Waits(pending', written'.ahead)
  BY <1>2, <1>3, NothingWaits
<1>5. written.blocks # << >>
  BY <1>1, <1>2, EmptySeq
<1>6. PICK kinds \in Seq(K), e \in K : open = Append(kinds, e) /\ Front(open) = kinds /\ Last(open) = e
  BY <1>1, <1>2, EndsInAppend
<1>7. PICK blocks \in Seq(U), text \in U :
        written.blocks = Append(blocks, text) /\ Front(written.blocks) = blocks
  BY <1>1, <1>5, EndsInAppend
<1>8. Len(kinds) = Len(blocks)
  BY <1>1, <1>6, <1>7, AppendProperties, LenProperties
<1>9. ActiveStands(ActiveAfter(active, e), kinds, blocks)
  <2>1. ActiveStands(active, Append(kinds, e), Append(blocks, text))
    BY <1>1, <1>6, <1>7
  <2> QED
    BY <1>8, <2>1, EndActive DEF U
<1>10. BlocksStand'
  BY <1>2, <1>3, <1>6, <1>7, <1>8, <1>9 DEF BlocksStand, K, U
<1> QED
  BY <1>2, <1>3, <1>4, <1>10 DEF SettingsInv, PresetsStand, ScopesStand, SettingsAreLexical

LEMMA NextSettings ==
  ASSUME NoneIsNoFunction PROVE SettingsInv /\ [SettingsNext]_settingsVars => SettingsInv'
<1> SUFFICES ASSUME SettingsInv, [SettingsNext]_settingsVars PROVE SettingsInv'
  OBVIOUS
<1>1. ASSUME NEW pairs \in Comments, NEW near \in BOOLEAN, ReadParams(pairs, near) PROVE SettingsInv'
  BY <1>1, SettingsRead
<1>2. ASSUME NEW pairs \in Comments, NEW near \in BOOLEAN, ReadDefine("preset", pairs, near) PROVE SettingsInv'
  BY <1>2, SettingsDefined
<1>3. ASSUME NEW pairs \in Comments, NEW near \in BOOLEAN, ReadScopeStart(pairs, near) PROVE SettingsInv'
  BY <1>3, SettingsScoped
<1>4. CASE ReadScopeEnd
  BY <1>4, SettingsUnscoped
<1>5. ASSUME NEW kind \in Leaves, NEW near \in BOOLEAN, StartLeaf(kind, near) PROVE SettingsInv'
  BY <1>5, SettingsStarted DEF StartLeaf
<1>6. ASSUME NEW kind \in {"quote", "list"}, NEW near \in BOOLEAN, StartContainer(kind, near) PROVE SettingsInv'
  BY <1>6, SettingsStarted DEF StartContainer
<1>7. CASE End
  BY <1>7, SettingsEnded
<1>8. CASE UNCHANGED settingsVars
  BY <1>8 DEF settingsVars, SettingsInv, PresetsStand, ScopesStand, BlocksStand, SettingsAreLexical
<1> QED
  BY <1>1, <1>2, <1>3, <1>4, <1>5, <1>6, <1>7, <1>8, Zenon DEF SettingsNext

\* A block is written with the settings of what encloses it and of what is right before it,
\* read at once: nothing that was closed or cut off is left, however the settings are split
\* over comments (apply_kmark_comment, start_pending_kmark_single_block and
\* resolve_params_with_layers in render_markdown_preview.rs).
THEOREM SettingsFollowText ==
  ASSUME NoneIsNoFunction PROVE SettingsSpec => []SettingsAreLexical
<1>1. SettingsInv => SettingsAreLexical
  BY DEF SettingsInv
<1> QED
  BY <1>1, InitSettings, NextSettings, PTL DEF SettingsSpec
=============================================================================
