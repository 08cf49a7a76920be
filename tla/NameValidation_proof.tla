------------------------ MODULE NameValidation_proof ------------------------
(***************************************************************************)
(* What name validation makes of every text, of any length: the name that  *)
(* is accepted and the key under which it is reserved are given by the     *)
(* words of the text alone.                                                *)
(*                                                                         *)
(* The argument follows a text as it is typed.  A character of a word adds *)
(* itself to the normalised name, and a space before it if white space     *)
(* came before; white space adds nothing (NormWhite, NormInk).  The words  *)
(* grow in the same way (WordsWhite, WordsInk), so by induction over texts *)
(* name and words agree.                                                   *)
(***************************************************************************)
EXTENDS NameValidation, FiniteSetTheorems, TLAPS

Text == Seq(Char)

-----------------------------------------------------------------------------
(***************************************************************************)
(* Induction, over numbers and over texts.                                 *)
(***************************************************************************)

\* A set of numbers that has 0 and every successor has all.
LEMMA Induction ==
    ASSUME NEW S, 0 \in S, \A n \in Nat : n \in S => n + 1 \in S
    PROVE  Nat \subseteq S
<1> DEFINE R == {ss \in Nat \X Nat : ss[1] < ss[2]}
           T == Nat \ S
<1> SUFFICES ASSUME T # {} PROVE FALSE
  OBVIOUS
<1>1. IsWellFoundedOn(R, Nat)
  BY NatLessThanWellFounded DEF OpToRel
<1>2. PICK n \in T : \A m \in T : <<m, n>> \notin R
  <2> HIDE DEF R
  <2> QED
    BY <1>1, WFMin
<1>3. n \in Nat /\ n # 0 /\ n - 1 \in Nat /\ <<n - 1, n>> \in R
  OBVIOUS
<1>4. n - 1 \in S
  BY <1>2, <1>3
<1> QED
  BY <1>3, <1>4

\* A set of texts that has the empty text and every extension has all.
LEMMA TextInduction ==
    ASSUME NEW S, <<>> \in S, \A s \in Text, c \in Char : s \in S => Append(s, c) \in S
    PROVE  Text \subseteq S
<1> DEFINE L == {n \in Nat : \A s \in Text : Len(s) = n => s \in S}
<1>1. 0 \in L
  BY DEF Text
<1>2. ASSUME NEW n \in Nat, n \in L PROVE n + 1 \in L
  <2> SUFFICES ASSUME NEW s \in Text, Len(s) = n + 1 PROVE s \in S
    OBVIOUS
  <2> DEFINE t == SubSeq(s, 1, n)
  <2>1. t \in Text /\ Len(t) = n /\ s[n + 1] \in Char
    BY DEF Text
  <2>2. s = Append(t, s[n + 1])
    BY DEF Text
  <2>3. t \in S
    BY <1>2, <2>1
  <2> QED
    BY <2>1, <2>2, <2>3
<1> HIDE DEF L
<1>3. Nat \subseteq L
  BY <1>1, <1>2, Induction
<1> QED
  BY <1>3 DEF L, Text

-----------------------------------------------------------------------------
(***************************************************************************)
(* Collapsing, one character at a time.                                    *)
(***************************************************************************)
Run(f, s) ==
    f = [n \in 0 .. Len(s) |-> IF n = 0 THEN <<>> ELSE Squeeze(f[n - 1], s[n])]

LEMMA SqueezeType ==
    ASSUME NEW s \in Text, NEW c \in Char
    PROVE  Squeeze(s, c) \in Text
<1>1. Space \in Char
  BY DEF Char, White
<1> QED
  BY <1>1 DEF Squeeze, Text

\* A text has one run.
LEMMA OneRun ==
    ASSUME NEW s \in Text, NEW f, NEW g, Run(f, s), Run(g, s)
    PROVE  f = g
<1> DEFINE S == {n \in Nat : n <= Len(s) => f[n] = g[n]}
<1>0. Len(s) \in Nat
  BY DEF Text
<1>1. 0 \in S
  BY <1>0 DEF Run
<1>2. ASSUME NEW n \in Nat, n \in S PROVE n + 1 \in S
  <2> SUFFICES ASSUME n + 1 <= Len(s) PROVE f[n + 1] = g[n + 1]
    OBVIOUS
  <2>1. f[n] = g[n] /\ n + 1 \in 0 .. Len(s) /\ n + 1 # 0 /\ (n + 1) - 1 = n
    BY <1>0, <1>2
  <2>2. f[n + 1] = Squeeze(f[n], s[n + 1])
    BY <2>1 DEF Run
  <2>3. g[n + 1] = Squeeze(g[n], s[n + 1])
    BY <2>1 DEF Run
  <2> QED
    BY <2>1, <2>2, <2>3
<1>3. Nat \subseteq S
  <2> HIDE DEF S
  <2> QED
    BY <1>1, <1>2, Induction
<1>4. \A n \in 0 .. Len(s) : f[n] = g[n]
  BY <1>0, <1>3
<1> QED
  BY <1>4 DEF Run

\* The run of a longer text goes on where the shorter one's ends.
LEMMA LongerRun ==
    ASSUME NEW s \in Text, NEW c \in Char, NEW f, Run(f, s)
    PROVE  \E g : Run(g, Append(s, c)) /\ g[Len(s) + 1] = Squeeze(f[Len(s)], c)
<1> DEFINE t == Append(s, c)
           g == [n \in 0 .. Len(t) |-> IF n <= Len(s) THEN f[n] ELSE Squeeze(f[Len(s)], c)]
<1>0. /\ Len(s) \in Nat /\ Len(t) = Len(s) + 1 /\ t[Len(s) + 1] = c
      /\ \A n \in 1 .. Len(s) : t[n] = s[n]
  BY DEF Text
<1> HIDE DEF t
<1>1. \A n \in 0 .. Len(s) : g[n] = f[n]
  BY <1>0
<1>2. g[Len(s) + 1] = Squeeze(f[Len(s)], c)
  BY <1>0
<1>3. ASSUME NEW n \in 0 .. Len(t)
      PROVE  g[n] = IF n = 0 THEN <<>> ELSE Squeeze(g[n - 1], t[n])
  <2>1. CASE n = 0
    BY <1>0, <1>1, <2>1 DEF Run
  <2>2. CASE n \in 1 .. Len(s)
    <3>1. f[n] = Squeeze(f[n - 1], s[n])
      BY <1>0, <2>2 DEF Run
    <3>2. g[n] = f[n] /\ g[n - 1] = f[n - 1] /\ t[n] = s[n] /\ n # 0
      BY <1>0, <1>1, <2>2
    <3> QED
      BY <3>1, <3>2
  <2>3. CASE n = Len(s) + 1
    BY <1>0, <1>1, <1>2, <2>3
  <2> QED
    BY <1>0, <2>1, <2>2, <2>3
<1>4. Run(g, t)
  <2>1. g = [n \in 0 .. Len(t) |-> g[n]]
    OBVIOUS
  <2> HIDE DEF g
  <2> QED
    BY <1>3, <2>1 DEF Run
<1> HIDE DEF g
<1> QED
  BY <1>2, <1>4 DEF t

LEMMA RunExists ==
    ASSUME NEW s \in Text
    PROVE  \E f : Run(f, s)
<1> DEFINE S == {t \in Text : \E f : Run(f, t)}
<1>1. <<>> \in S
  <2> DEFINE f == [n \in 0 .. 0 |-> <<>>]
  <2>1. <<>> \in Text /\ Len(<<>>) = 0
    BY DEF Text
  <2>2. Run(f, <<>>)
    BY <2>1 DEF Run
  <2> QED
    BY <2>1, <2>2
<1>2. ASSUME NEW t \in Text, NEW c \in Char, t \in S PROVE Append(t, c) \in S
  BY <1>2, LongerRun DEF Text
<1> HIDE DEF S
<1>3. s \in S
  BY <1>1, <1>2, TextInduction
<1> QED
  BY <1>3 DEF S

LEMMA CollapseIsRun ==
    ASSUME NEW s \in Text, NEW f, Run(f, s)
    PROVE  Collapse(s) = f[Len(s)]
<1> DEFINE g == CHOOSE g : Run(g, s)
<1>1. Run(g, s)
  BY RunExists
<1>2. Collapse(s) = g[Len(s)]
  BY DEF Collapse, Run
<1> HIDE DEF g
<1> QED
  BY <1>1, <1>2, OneRun

LEMMA CollapseNothing ==
    Collapse(<<>>) = <<>>
<1>1. <<>> \in Text /\ Len(<<>>) = 0
  BY DEF Text
<1>2. PICK f : Run(f, <<>>)
  BY <1>1, RunExists
<1>3. f[0] = <<>>
  BY <1>1, <1>2 DEF Run
<1> QED
  BY <1>1, <1>2, <1>3, CollapseIsRun

LEMMA CollapseAppend ==
    ASSUME NEW s \in Text, NEW c \in Char
    PROVE  Collapse(Append(s, c)) = Squeeze(Collapse(s), c)
<1>1. PICK f : Run(f, s)
  BY RunExists
<1>2. PICK g : Run(g, Append(s, c)) /\ g[Len(s) + 1] = Squeeze(f[Len(s)], c)
  BY <1>1, LongerRun
<1>3. Append(s, c) \in Text /\ Len(Append(s, c)) = Len(s) + 1
  BY DEF Text
<1> QED
  BY <1>1, <1>2, <1>3, CollapseIsRun

LEMMA CollapseType ==
    ASSUME NEW s \in Text
    PROVE  Collapse(s) \in Text
<1> DEFINE S == {t \in Text : Collapse(t) \in Text}
<1>0. <<>> \in Text
  BY DEF Text
<1>1. <<>> \in S
  BY <1>0, CollapseNothing
<1>2. ASSUME NEW t \in Text, NEW c \in Char, t \in S PROVE Append(t, c) \in S
  BY <1>2, CollapseAppend, SqueezeType DEF Text
<1> HIDE DEF S
<1>3. s \in S
  BY <1>1, <1>2, TextInduction
<1> QED
  BY <1>3 DEF S

-----------------------------------------------------------------------------
(***************************************************************************)
(* Places: the j-th of a set of numbers.                                   *)
(***************************************************************************)
Upto(S, i) == {k \in S : k <= i}

LEMMA BoundedIsFinite ==
    ASSUME NEW n \in Nat, NEW S \in SUBSET (1 .. n)
    PROVE  /\ IsFiniteSet(S) /\ Cardinality(S) \in Nat
           /\ \A i : Upto(S, i) \in SUBSET (1 .. n) /\ IsFiniteSet(Upto(S, i))
           /\ \A i : Cardinality(Upto(S, i)) \in Nat
<1>1. IsFiniteSet(1 .. n)
  BY FS_Interval
<1>2. \A T \in SUBSET (1 .. n) : IsFiniteSet(T) /\ Cardinality(T) \in Nat
  BY <1>1, FS_Subset, FS_CardinalityType
<1>3. \A i : Upto(S, i) \in SUBSET (1 .. n)
  BY DEF Upto
<1> QED
  BY <1>2, <1>3

\* No two elements are at one place.
LEMMA PlacesDiffer ==
    ASSUME NEW n \in Nat, NEW S \in SUBSET (1 .. n), NEW i \in S, NEW j \in S, i < j
    PROVE  Cardinality(Upto(S, i)) < Cardinality(Upto(S, j))
<1>0. i \in Nat /\ j \in Nat /\ \A k \in S : k \in Nat
  OBVIOUS
<1>1. Upto(S, i) \subseteq Upto(S, j) /\ j \in Upto(S, j) /\ j \notin Upto(S, i)
  <2>1. (\A k \in S : k <= i => k <= j) /\ j <= j /\ ~(j <= i)
    BY <1>0
  <2> QED
    BY <2>1, Zenon DEF Upto
<1>2. IsFiniteSet(Upto(S, j)) /\ Cardinality(Upto(S, j)) \in Nat /\ Cardinality(Upto(S, i)) \in Nat
  BY BoundedIsFinite
<1>3. /\ Cardinality(Upto(S, i)) <= Cardinality(Upto(S, j))
      /\ Cardinality(Upto(S, j)) = Cardinality(Upto(S, i)) => Upto(S, j) = Upto(S, i)
  BY <1>1, <1>2, FS_Subset
<1> QED
  BY <1>1, <1>2, <1>3

\* There is an element at every place.
LEMMA PlacesAreTaken ==
    ASSUME NEW n \in Nat, NEW S \in SUBSET (1 .. n), NEW j \in 1 .. Cardinality(S)
    PROVE  \E i \in S : Cardinality(Upto(S, i)) = j
<1> DEFINE P(T) == \A k \in 1 .. Cardinality(T) : \E i \in T : Cardinality(Upto(T, i)) = k
           M == {m \in Nat : \A T \in SUBSET (1 .. m) : P(T)}
<1>1. 0 \in M
  <2> SUFFICES ASSUME NEW T \in SUBSET (1 .. 0) PROVE P(T)
    OBVIOUS
  <2>1. T = {}
    OBVIOUS
  <2>2. Cardinality(T) = 0
    BY <2>1, FS_EmptySet
  <2> QED
    BY <2>2
<1>2. ASSUME NEW m \in Nat, m \in M PROVE m + 1 \in M
  <2> SUFFICES ASSUME NEW T \in SUBSET (1 .. m + 1), NEW k \in 1 .. Cardinality(T)
               PROVE  \E i \in T : Cardinality(Upto(T, i)) = k
    OBVIOUS
  <2> DEFINE R == T \ {m + 1}
  <2>1. R \in SUBSET (1 .. m) /\ IsFiniteSet(R) /\ Cardinality(R) \in Nat
    <3>1. R \in SUBSET (1 .. m)
      OBVIOUS
    <3> HIDE DEF R
    <3> QED
      BY <3>1, BoundedIsFinite
  <2>2. ASSUME k <= Cardinality(R) PROVE \E i \in T : Cardinality(Upto(T, i)) = k
    <3>1. PICK i \in R : Cardinality(Upto(R, i)) = k
      <4>1. P(R)
        BY <1>2, <2>1
      <4> QED
        BY <2>1, <2>2, <4>1
    <3>2. Upto(T, i) = Upto(R, i)
      BY <2>1 DEF Upto
    <3> QED
      BY <3>1, <3>2
  <2>3. ASSUME ~(k <= Cardinality(R)) PROVE \E i \in T : Cardinality(Upto(T, i)) = k
    <3>1. m + 1 \in T
      <4>1. CASE m + 1 \notin T
        <5>1. R = T
          BY <4>1
        <5> QED
          BY <2>1, <2>3, <5>1
      <4> QED
        BY <4>1
    <3>2. T = R \cup {m + 1} /\ m + 1 \notin R
      BY <3>1
    <3>3. Cardinality(T) = Cardinality(R) + 1
      <4> HIDE DEF R
      <4> QED
        BY <2>1, <3>2, FS_AddElement
    <3>4. Upto(T, m + 1) = T
      <4>1. \A i \in T : i <= m + 1
        OBVIOUS
      <4> QED
        BY <4>1 DEF Upto
    <3> QED
      BY <2>1, <2>3, <3>1, <3>3, <3>4
  <2> QED
    BY <2>2, <2>3
<1>3. n \in M
  <2> HIDE DEF M
  <2> QED
    BY <1>1, <1>2, Induction
<1> QED
  BY <1>3

-----------------------------------------------------------------------------
(***************************************************************************)
(* The characters that are not white space.                                *)
(***************************************************************************)
Count(s) == Cardinality(Ink(s))

LEMMA InkType ==
    ASSUME NEW s \in Text
    PROVE  /\ Len(s) \in Nat /\ DOMAIN s = 1 .. Len(s) /\ Ink(s) \in SUBSET (1 .. Len(s))
           /\ IsFiniteSet(Ink(s)) /\ Count(s) \in Nat /\ (Count(s) = 0 <=> Ink(s) = {})
<1>1. Len(s) \in Nat /\ DOMAIN s = 1 .. Len(s) /\ Ink(s) \in SUBSET (1 .. Len(s))
  BY DEF Text, Ink
<1>2. IsFiniteSet(Ink(s)) /\ Count(s) \in Nat
  BY <1>1, BoundedIsFinite DEF Count
<1> QED
  BY <1>1, <1>2, FS_EmptySet DEF Count

LEMMA PlaceType ==
    ASSUME NEW s \in Text, NEW j \in 1 .. Count(s)
    PROVE  /\ Place(s, j) \in Ink(s) /\ Place(s, j) \in 1 .. Len(s)
           /\ Cardinality(Upto(Ink(s), Place(s, j))) = j
<1>0. Len(s) \in Nat /\ Ink(s) \in SUBSET (1 .. Len(s)) /\ j \in 1 .. Cardinality(Ink(s))
  BY InkType DEF Count
<1>1. PICK i \in Ink(s) : Cardinality(Upto(Ink(s), i)) = j
  BY <1>0, PlacesAreTaken
<1>2. Place(s, j) \in Ink(s) /\ Cardinality(Upto(Ink(s), Place(s, j))) = j
  BY <1>1 DEF Place, Upto
<1> QED
  BY <1>2, InkType

LEMMA PlaceIs ==
    ASSUME NEW s \in Text, NEW j \in 1 .. Count(s),
           NEW i \in Ink(s), Cardinality(Upto(Ink(s), i)) = j
    PROVE  Place(s, j) = i
<1>1. Place(s, j) \in Ink(s) /\ Cardinality(Upto(Ink(s), Place(s, j))) = j
  BY PlaceType
<1>2. i \in Nat /\ Place(s, j) \in Nat /\ j \in Nat
  BY <1>1, InkType
<1>3. Len(s) \in Nat /\ Ink(s) \in SUBSET (1 .. Len(s))
  BY InkType
<1>4. ~(i < Place(s, j))
  <2> SUFFICES ASSUME i < Place(s, j) PROVE FALSE
    OBVIOUS
  <2>1. Cardinality(Upto(Ink(s), i)) < Cardinality(Upto(Ink(s), Place(s, j)))
    BY <1>1, <1>3, PlacesDiffer
  <2> QED
    BY <1>1, <1>2, <2>1
<1>5. ~(Place(s, j) < i)
  <2> SUFFICES ASSUME Place(s, j) < i PROVE FALSE
    OBVIOUS
  <2>1. Cardinality(Upto(Ink(s), Place(s, j))) < Cardinality(Upto(Ink(s), i))
    BY <1>1, <1>3, PlacesDiffer
  <2> QED
    BY <1>1, <1>2, <2>1
<1> QED
  BY <1>2, <1>4, <1>5

LEMMA InkAppend ==
    ASSUME NEW s \in Text, NEW c \in Char
    PROVE  /\ Append(s, c) \in Text /\ Len(Append(s, c)) = Len(s) + 1
           /\ Append(s, c)[Len(s) + 1] = c
           /\ \A i \in 1 .. Len(s) : Append(s, c)[i] = s[i]
           /\ Ink(Append(s, c)) = IF c \in White THEN Ink(s) ELSE Ink(s) \cup {Len(s) + 1}
<1>1. /\ Append(s, c) \in Text /\ Len(Append(s, c)) = Len(s) + 1
      /\ Append(s, c)[Len(s) + 1] = c
      /\ \A i \in 1 .. Len(s) : Append(s, c)[i] = s[i]
  BY DEF Text
<1>2. /\ Len(s) \in Nat /\ DOMAIN s = 1 .. Len(s)
      /\ DOMAIN Append(s, c) = (1 .. Len(s)) \cup {Len(s) + 1}
  BY InkType, <1>1 DEF Text
<1>3. \A i : i \in Ink(Append(s, c)) <=> i \in Ink(s) \/ (c \notin White /\ i = Len(s) + 1)
  BY <1>1, <1>2 DEF Ink
<1> QED
  BY <1>1, <1>3

\* White space typed behind a text changes no word.
LEMMA WordsWhite ==
    ASSUME NEW s \in Text, NEW c \in Char, c \in White
    PROVE  /\ Count(Append(s, c)) = Count(s)
           /\ \A j : Place(Append(s, c), j) = Place(s, j)
           /\ \A j : Gap(Append(s, c), j) = Gap(s, j)
           /\ Letters(Append(s, c)) = Letters(s)
<1>1. Ink(Append(s, c)) = Ink(s)
  BY InkAppend
<1>2. Count(Append(s, c)) = Count(s) /\ \A j : Place(Append(s, c), j) = Place(s, j)
  BY <1>1 DEF Count, Place
<1>3. \A j \in 1 .. Count(s) : Append(s, c)[Place(s, j)] = s[Place(s, j)]
  BY PlaceType, InkAppend
<1> QED
  BY <1>2, <1>3 DEF Gap, Letters, Count

\* Any other character comes behind the others; it begins a word exactly if
\* white space precedes it.
LEMMA WordsInk ==
    ASSUME NEW s \in Text, NEW c \in Char, c \notin White
    PROVE  /\ Count(Append(s, c)) = Count(s) + 1
           /\ Letters(Append(s, c)) = Append(Letters(s), c)
           /\ \A j \in 1 .. Count(s) - 1 : Gap(Append(s, c), j) = Gap(s, j)
           /\ Count(s) # 0 => Gap(Append(s, c), Count(s)) = (s[Len(s)] \in White)
<1> DEFINE t == Append(s, c)
<1>1. /\ t \in Text /\ Len(t) = Len(s) + 1 /\ t[Len(s) + 1] = c
      /\ \A i \in 1 .. Len(s) : t[i] = s[i]
      /\ Ink(t) = Ink(s) \cup {Len(s) + 1}
  BY InkAppend
<1>2. /\ Len(s) \in Nat /\ Ink(s) \in SUBSET (1 .. Len(s)) /\ IsFiniteSet(Ink(s))
      /\ Count(s) \in Nat
  BY InkType
<1> HIDE DEF t
<1>3. /\ Len(s) + 1 \notin Ink(s) /\ Len(s) + 1 \in Ink(t)
      /\ \A i \in Ink(s) : i \in Ink(t) /\ i \in Nat /\ i <= Len(s)
  BY <1>1, <1>2
<1>4. Count(t) = Count(s) + 1
  BY <1>1, <1>2, <1>3, FS_AddElement DEF Count
<1>5. ASSUME NEW j \in 1 .. Count(s)
      PROVE  Place(t, j) = Place(s, j) /\ Place(s, j) \in 1 .. Len(s)
  <2>1. /\ Place(s, j) \in Ink(s) /\ Place(s, j) \in 1 .. Len(s)
        /\ Cardinality(Upto(Ink(s), Place(s, j))) = j
    BY PlaceType
  <2>2. Upto(Ink(t), Place(s, j)) = Upto(Ink(s), Place(s, j))
    <3>1. ~(Len(s) + 1 <= Place(s, j))
      BY <1>2, <2>1
    <3> QED
      BY <1>1, <3>1, Zenon DEF Upto
  <2>3. j \in 1 .. Count(t)
    BY <1>2, <1>4
  <2> QED
    BY <1>1, <1>3, <2>1, <2>2, <2>3, PlaceIs
<1>6. Place(t, Count(s) + 1) = Len(s) + 1
  <2>1. Upto(Ink(t), Len(s) + 1) = Ink(t)
    <3>1. \A i \in Ink(t) : i <= Len(s) + 1
      BY <1>1, <1>2, <1>3
    <3> QED
      BY <3>1, Zenon DEF Upto
  <2>2. Count(s) + 1 \in 1 .. Count(t) /\ Cardinality(Ink(t)) = Count(s) + 1
    BY <1>2, <1>4 DEF Count
  <2> QED
    BY <1>1, <1>3, <2>1, <2>2, PlaceIs
<1>7. Letters(t) = Append(Letters(s), c)
  <2>1. /\ Letters(s) = [j \in 1 .. Count(s) |-> s[Place(s, j)]]
        /\ Letters(t) = [j \in 1 .. Count(s) + 1 |-> t[Place(t, j)]]
    BY <1>4 DEF Letters, Count
  <2>2. \A j \in 1 .. Count(s) : t[Place(t, j)] = s[Place(s, j)]
    BY <1>1, <1>5
  <2>3. t[Place(t, Count(s) + 1)] = c
    BY <1>1, <1>6
  <2> QED
    BY <1>2, <2>1, <2>2, <2>3
<1>8. \A j \in 1 .. Count(s) - 1 : Gap(t, j) = Gap(s, j)
  <2> SUFFICES ASSUME NEW j \in 1 .. Count(s) - 1 PROVE Gap(t, j) = Gap(s, j)
    OBVIOUS
  <2>1. j \in 1 .. Count(s) /\ j + 1 \in 1 .. Count(s)
    BY <1>2
  <2> QED
    BY <1>5, <2>1 DEF Gap
<1>9. ASSUME Count(s) # 0 PROVE Gap(t, Count(s)) = (s[Len(s)] \in White)
  <2>1. Count(s) \in 1 .. Count(s)
    BY <1>2, <1>9
  <2>2. Gap(t, Count(s)) = (Place(s, Count(s)) # Len(s))
    <3>1. Gap(t, Count(s)) = (Len(s) + 1 # Place(s, Count(s)) + 1)
      BY <1>5, <1>6, <2>1 DEF Gap
    <3> QED
      BY <1>2, <1>5, <2>1, <3>1
  <2>3. CASE s[Len(s)] \in White
    <3>1. Len(s) \notin Ink(s)
      BY <2>3 DEF Ink
    <3>2. Place(s, Count(s)) \in Ink(s)
      BY <2>1, PlaceType
    <3> QED
      BY <2>2, <2>3, <3>1, <3>2
  <2>4. CASE s[Len(s)] \notin White
    <3>1. Len(s) \in Ink(s)
      <4>1. Len(s) # 0
        BY <1>2, <1>9, <2>1, PlaceType
      <4>2. Len(s) \in DOMAIN s
        BY <1>2, <4>1, InkType
      <4> QED
        BY <2>4, <4>2 DEF Ink
    <3>2. Upto(Ink(s), Len(s)) = Ink(s)
      BY <1>3, Zenon DEF Upto
    <3>3. Place(s, Count(s)) = Len(s)
      BY <2>1, <3>1, <3>2, PlaceIs DEF Count
    <3> QED
      BY <2>2, <2>4, <3>3
  <2> QED
    BY <2>3, <2>4
<1> QED
  BY <1>4, <1>7, <1>8, <1>9 DEF t

-----------------------------------------------------------------------------
(***************************************************************************)
(* The normalised name of a text that is being typed.                      *)
(***************************************************************************)
LEMMA Ends ==
    ASSUME NEW s \in Text, Ink(s) # {}
    PROVE  /\ Min(Ink(s)) \in Ink(s) /\ Max(Ink(s)) \in Ink(s)
           /\ \A k \in Ink(s) : Min(Ink(s)) <= k /\ k <= Max(Ink(s))
<1>1. /\ Len(s) \in Nat /\ Ink(s) \in SUBSET (1 .. Len(s)) /\ IsFiniteSet(Ink(s))
      /\ Count(s) \in Nat \ {0} /\ \A k \in Ink(s) : k \in Nat
  BY InkType
<1>2. 1 \in 1 .. Count(s) /\ Count(s) \in 1 .. Count(s)
  BY <1>1
<1>3. /\ Place(s, 1) \in Ink(s) /\ Cardinality(Upto(Ink(s), Place(s, 1))) = 1
      /\ Place(s, Count(s)) \in Ink(s) /\ Cardinality(Upto(Ink(s), Place(s, Count(s)))) = Count(s)
  BY <1>2, PlaceType
<1>4. ASSUME NEW k \in Ink(s)
      PROVE  1 <= Cardinality(Upto(Ink(s), k)) /\ Cardinality(Upto(Ink(s), k)) <= Count(s)
  <2>1. k \in Upto(Ink(s), k) /\ Upto(Ink(s), k) \in SUBSET Ink(s)
    <3>1. k <= k
      BY <1>1
    <3> QED
      BY <3>1, Zenon DEF Upto
  <2>2. IsFiniteSet(Upto(Ink(s), k)) /\ Cardinality(Upto(Ink(s), k)) \in Nat
    BY <1>1, BoundedIsFinite
  <2>3. Cardinality(Upto(Ink(s), k)) # 0
    BY <2>1, <2>2, FS_EmptySet
  <2>4. Cardinality(Upto(Ink(s), k)) <= Count(s)
    BY <1>1, <2>1, FS_Subset DEF Count
  <2> QED
    BY <2>2, <2>3, <2>4
<1>5. ASSUME NEW k \in Ink(s) PROVE Place(s, 1) <= k /\ k <= Place(s, Count(s))
  <2>1. ~(k < Place(s, 1))
    <3> SUFFICES ASSUME k < Place(s, 1) PROVE FALSE
      OBVIOUS
    <3>1. Cardinality(Upto(Ink(s), k)) < Cardinality(Upto(Ink(s), Place(s, 1)))
      BY <1>1, <1>3, PlacesDiffer
    <3>2. Cardinality(Upto(Ink(s), k)) \in Nat
      BY <1>1, BoundedIsFinite
    <3> QED
      BY <1>3, <1>4, <3>1, <3>2
  <2>2. ~(Place(s, Count(s)) < k)
    <3> SUFFICES ASSUME Place(s, Count(s)) < k PROVE FALSE
      OBVIOUS
    <3>1. Cardinality(Upto(Ink(s), Place(s, Count(s)))) < Cardinality(Upto(Ink(s), k))
      BY <1>1, <1>3, PlacesDiffer
    <3>2. Cardinality(Upto(Ink(s), k)) \in Nat
      BY <1>1, BoundedIsFinite
    <3> QED
      BY <1>1, <1>3, <1>4, <3>1, <3>2
  <2> QED
    BY <1>1, <1>3, <2>1, <2>2
<1>6. Min(Ink(s)) \in Ink(s) /\ \A k \in Ink(s) : Min(Ink(s)) <= k
  BY <1>3, <1>5 DEF Min
<1>7. Max(Ink(s)) \in Ink(s) /\ \A k \in Ink(s) : Max(Ink(s)) >= k
  <2>1. \A k \in Ink(s) : Place(s, Count(s)) >= k
    BY <1>1, <1>3, <1>5
  <2> QED
    BY <1>3, <2>1 DEF Max
<1> QED
  BY <1>1, <1>6, <1>7

LEMMA EndsAppend ==
    ASSUME NEW s \in Text, NEW c \in Char, c \notin White
    PROVE  /\ Ink(s) # {} => Min(Ink(Append(s, c))) = Min(Ink(s))
           /\ Ink(s) = {} => Min(Ink(Append(s, c))) = Len(s) + 1
           /\ Max(Ink(Append(s, c))) = Len(s) + 1
<1> DEFINE t == Append(s, c)
<1>1. t \in Text /\ Ink(t) = Ink(s) \cup {Len(s) + 1}
  BY InkAppend
<1>2. Len(s) \in Nat /\ \A k \in Ink(s) : k \in Nat /\ k <= Len(s)
  BY InkType
<1> HIDE DEF t
<1>3. /\ Min(Ink(t)) \in Ink(t) /\ Max(Ink(t)) \in Ink(t)
      /\ \A k \in Ink(t) : Min(Ink(t)) <= k /\ k <= Max(Ink(t))
  BY <1>1, Ends
<1>4. Len(s) + 1 \in Ink(t) /\ \A k \in Ink(t) : k \in Nat /\ k <= Len(s) + 1
  BY <1>1, <1>2
<1>5. Max(Ink(t)) = Len(s) + 1
  <2>1. Len(s) + 1 <= Max(Ink(t)) /\ Max(Ink(t)) <= Len(s) + 1 /\ Max(Ink(t)) \in Nat
    BY <1>3, <1>4
  <2> QED
    BY <1>2, <2>1
<1>6. ASSUME Ink(s) # {} PROVE Min(Ink(t)) = Min(Ink(s))
  <2>1. /\ Min(Ink(s)) \in Ink(s) /\ Min(Ink(s)) \in Nat /\ Min(Ink(s)) <= Len(s)
        /\ \A k \in Ink(s) : Min(Ink(s)) <= k
    BY <1>2, <1>6, Ends
  <2>2. Min(Ink(t)) \in Nat /\ Min(Ink(t)) <= Min(Ink(s))
    BY <1>1, <1>3, <1>4, <2>1
  <2>3. Min(Ink(s)) <= Min(Ink(t))
    BY <1>1, <1>2, <1>3, <2>1
  <2> QED
    BY <2>1, <2>2, <2>3
<1>7. ASSUME Ink(s) = {} PROVE Min(Ink(t)) = Len(s) + 1
  BY <1>1, <1>3, <1>7
<1> QED
  BY <1>5, <1>6, <1>7 DEF t

\* A text without the white space before its first word.
Body(s) == SubSeq(s, Min(Ink(s)), Len(s))

LEMMA BodyAppend ==
    ASSUME NEW s \in Text, NEW c \in Char, Ink(s) # {}
    PROVE  Body(s) \in Text /\ Body(Append(s, c)) = Append(Body(s), c)
<1> DEFINE t == Append(s, c)
<1>1. t \in Text /\ Len(t) = Len(s) + 1 /\ t[Len(s) + 1] = c /\ \A i \in 1 .. Len(s) : t[i] = s[i]
  BY InkAppend
<1>2. Min(Ink(t)) = Min(Ink(s))
  BY InkAppend, EndsAppend
<1>3. Len(s) \in Nat /\ Min(Ink(s)) \in 1 .. Len(s)
  BY InkType, Ends
<1> HIDE DEF t
<1> DEFINE m == Min(Ink(s))
<1> HIDE DEF m
<1>4. SubSeq(t, m, Len(s) + 1) = Append(SubSeq(s, m, Len(s)), c)
  <2>1. m \in 1 .. Len(s)
    BY <1>3 DEF m
  <2>2. SubSeq(s, m, Len(s)) \in Text /\ Len(SubSeq(s, m, Len(s))) = Len(s) - m + 1
    BY <1>3, <2>1 DEF Text
  <2> QED
    BY <1>1, <1>3, <2>1, <2>2 DEF Text
<1>5. SubSeq(s, m, Len(s)) \in Text
  BY <1>3 DEF Text, m
<1> QED
  BY <1>1, <1>2, <1>4, <1>5 DEF Body, t, m

LEMMA StripInk ==
    ASSUME NEW s \in Text, NEW c \in Char, c \notin White
    PROVE  /\ Strip(Append(s, c)) = Body(Append(s, c))
           /\ Ink(s) = {} => Strip(Append(s, c)) = <<c>>
<1> DEFINE t == Append(s, c)
<1>1. /\ t \in Text /\ Len(t) = Len(s) + 1 /\ t[Len(s) + 1] = c
      /\ Ink(t) = Ink(s) \cup {Len(s) + 1}
  BY InkAppend
<1>2. Len(s) \in Nat
  BY InkType
<1>3. Max(Ink(t)) = Len(s) + 1 /\ (Ink(s) = {} => Min(Ink(t)) = Len(s) + 1)
  BY EndsAppend
<1> HIDE DEF t
<1>4. Strip(t) = Body(t)
  BY <1>1, <1>3 DEF Strip, Body
<1>5. SubSeq(t, Len(s) + 1, Len(s) + 1) = <<c>>
  <2> DEFINE u == SubSeq(t, Len(s) + 1, Len(s) + 1)
  <2>1. u \in Seq(Char) /\ Len(u) = 1 /\ u[1] = c
    BY <1>1, <1>2 DEF Text
  <2> HIDE DEF u
  <2>2. u = <<c>>
    BY <2>1
  <2> QED
    BY <2>2 DEF u
<1> QED
  BY <1>1, <1>3, <1>4, <1>5 DEF Body, t

LEMMA NormWhite ==
    ASSUME NEW s \in Text, NEW c \in Char, c \in White
    PROVE  normalise_name(Append(s, c)) = normalise_name(s)
<1> DEFINE t == Append(s, c)
<1>1. t \in Text /\ Len(t) = Len(s) + 1 /\ Ink(t) = Ink(s) /\ \A i \in 1 .. Len(s) : t[i] = s[i]
  BY InkAppend
<1> HIDE DEF t
<1>2. ASSUME Ink(s) # {}
      PROVE  SubSeq(t, Min(Ink(s)), Max(Ink(s))) = SubSeq(s, Min(Ink(s)), Max(Ink(s)))
  <2> DEFINE m == Min(Ink(s))
             n == Max(Ink(s))
  <2>1. Len(s) \in Nat /\ m \in 1 .. Len(s) /\ n \in 1 .. Len(s)
    BY <1>2, InkType, Ends
  <2> HIDE DEF m, n
  <2>2. SubSeq(t, m, n) = SubSeq(s, m, n)
    BY <1>1, <2>1 DEF Text
  <2> QED
    BY <2>2 DEF m, n
<1>3. Strip(t) = Strip(s)
  BY <1>1, <1>2 DEF Strip
<1> QED
  BY <1>3 DEF normalise_name, t

LEMMA NormNothing ==
    ASSUME NEW s \in Text, Ink(s) = {}
    PROVE  normalise_name(s) = <<>>
BY CollapseNothing DEF normalise_name, Strip

\* What is collapsed so far, if a word has begun: the name, and a space if
\* white space came last.
SoFar(s) ==
    Ink(s) # {} =>
        /\ normalise_name(s) \in Text /\ normalise_name(s) # <<>>
        /\ Last(normalise_name(s)) \notin White
        /\ Collapse(Body(s)) = IF s[Len(s)] \in White THEN Append(normalise_name(s), Space)
                               ELSE normalise_name(s)

\* The name of a text with one more character of a word.
Extended(s, c) ==
    IF Ink(s) = {} THEN <<c>>
    ELSE IF s[Len(s)] \in White THEN Append(Append(normalise_name(s), Space), c)
    ELSE Append(normalise_name(s), c)

LEMMA NormExtends ==
    ASSUME NEW s \in Text, NEW c \in Char, c \notin White, SoFar(s)
    PROVE  normalise_name(Append(s, c)) = Extended(s, c)
<1>1. normalise_name(Append(s, c)) = Collapse(Strip(Append(s, c)))
  BY DEF normalise_name
<1>2. CASE Ink(s) = {}
  <2>1. Strip(Append(s, c)) = Append(<<>>, c) /\ <<>> \in Text
    BY <1>2, StripInk DEF Text
  <2>2. Collapse(Append(<<>>, c)) = Append(<<>>, c)
    BY <2>1, CollapseAppend, CollapseNothing DEF Squeeze
  <2> QED
    BY <1>1, <1>2, <2>1, <2>2 DEF Extended
<1>3. CASE Ink(s) # {}
  <2>1. Body(s) \in Text /\ Strip(Append(s, c)) = Append(Body(s), c)
    BY <1>3, StripInk, BodyAppend
  <2>2. Collapse(Append(Body(s), c)) = Append(Collapse(Body(s)), c)
    BY <2>1, CollapseAppend DEF Squeeze
  <2> QED
    BY <1>1, <1>3, <2>1, <2>2 DEF Extended, SoFar
<1> QED
  BY <1>2, <1>3

LEMMA SpaceType ==
    Space \in Char /\ Space \in White
BY DEF Char, White

LEMMA NameSoFar ==
    ASSUME NEW s \in Text
    PROVE  SoFar(s)
<1> DEFINE S == {t \in Text : SoFar(t)}
<1>1. <<>> \in S
  <2>1. <<>> \in Text /\ Ink(<<>>) = {}
    BY DEF Text, Ink
  <2> QED
    BY <2>1 DEF SoFar
<1>2. ASSUME NEW t \in Text, NEW c \in Char, t \in S PROVE Append(t, c) \in S
  <2> DEFINE u == Append(t, c)
  <2>1. /\ u \in Text /\ Len(u) = Len(t) + 1 /\ u[Len(t) + 1] = c
        /\ Ink(u) = IF c \in White THEN Ink(t) ELSE Ink(t) \cup {Len(t) + 1}
    BY InkAppend
  <2> SUFFICES SoFar(u)
    BY <2>1
  <2>2. SoFar(t)
    BY <1>2
  <2>3. CASE c \notin White
    <3>1. normalise_name(u) = Extended(t, c)
      BY <2>2, <2>3, NormExtends
    <3>2. /\ Extended(t, c) \in Text /\ Extended(t, c) # <<>>
          /\ Extended(t, c)[Len(Extended(t, c))] = c
      BY <2>2, SpaceType DEF SoFar, Extended, Text
    <3>3. Collapse(Body(u)) = normalise_name(u)
      BY <2>3, StripInk DEF normalise_name
    <3> HIDE DEF u
    <3>4. u[Len(u)] = c
      BY <2>1
    <3>5. Last(Extended(t, c)) = c
      BY <3>2 DEF Last
    <3> QED
      BY <2>3, <3>1, <3>2, <3>3, <3>4, <3>5 DEF SoFar
  <2>4. CASE c \in White /\ Ink(t) # {}
    <3>1. normalise_name(u) = normalise_name(t) /\ Ink(u) = Ink(t)
      BY <2>1, <2>4, NormWhite
    <3>2. Body(t) \in Text /\ Body(u) = Append(Body(t), c)
      BY <2>4, BodyAppend
    <3>3. Collapse(Body(u)) = Squeeze(Collapse(Body(t)), c)
      BY <3>2, CollapseAppend
    <3> HIDE DEF u
    <3> DEFINE N == normalise_name(t)
    <3>4. /\ N \in Text /\ N # <<>> /\ Last(N) \notin White
          /\ Collapse(Body(t)) = IF t[Len(t)] \in White THEN Append(N, Space) ELSE N
      BY <2>2, <2>4 DEF SoFar
    <3> HIDE DEF N
    <3>5. Squeeze(Collapse(Body(t)), c) = Append(N, Space)
      <4>1. CASE t[Len(t)] \in White
        <5> DEFINE M == Append(N, Space)
        <5>1. M \in Seq(Char) /\ Len(M) # 0 /\ M[Len(M)] = Space
          BY <3>4, SpaceType DEF Text
        <5> HIDE DEF M
        <5>2. M # <<>> /\ Last(M) = Space
          BY <5>1 DEF Last
        <5> QED
          BY <2>4, <3>4, <4>1, <5>2 DEF Squeeze, M
      <4>2. CASE t[Len(t)] \notin White
        <5>1. Last(N) # Space
          BY <3>4, SpaceType
        <5> QED
          BY <2>4, <3>4, <4>2, <5>1 DEF Squeeze
      <4> QED
        BY <4>1, <4>2
    <3>6. u[Len(u)] \in White
      BY <2>1, <2>4
    <3> QED
      BY <2>4, <3>1, <3>3, <3>4, <3>5, <3>6 DEF SoFar, N
  <2>5. CASE c \in White /\ Ink(t) = {}
    BY <2>1, <2>5 DEF SoFar
  <2> QED
    BY <2>3, <2>4, <2>5
<1> HIDE DEF S
<1>3. s \in S
  BY <1>1, <1>2, TextInduction
<1> QED
  BY <1>3 DEF S

LEMMA NormInk ==
    ASSUME NEW s \in Text, NEW c \in Char, c \notin White
    PROVE  normalise_name(Append(s, c)) = Extended(s, c)
BY NameSoFar, NormExtends

LEMMA NormType ==
    ASSUME NEW s \in Text
    PROVE  /\ normalise_name(s) \in Text
           /\ Ink(s) # {} => normalise_name(s) # <<>> /\ Last(normalise_name(s)) \notin White
<1>1. <<>> \in Text
  BY DEF Text
<1> QED
  BY <1>1, NameSoFar, NormNothing DEF SoFar

-----------------------------------------------------------------------------
(***************************************************************************)
(* Name and text have the same words.                                      *)
(***************************************************************************)
LEMMA LettersType ==
    ASSUME NEW s \in Text
    PROVE  /\ Letters(s) \in Text /\ Len(Letters(s)) = Count(s)
           /\ \A j \in 1 .. Count(s) : Letters(s)[j] = s[Place(s, j)] /\ Letters(s)[j] \notin White
<1>1. Count(s) \in Nat /\ Len(s) \in Nat
  BY InkType
<1>2. Letters(s) = [j \in 1 .. Count(s) |-> s[Place(s, j)]]
  BY DEF Letters, Count
<1>3. \A j \in 1 .. Count(s) : s[Place(s, j)] \in Char /\ s[Place(s, j)] \notin White
  <2> SUFFICES ASSUME NEW j \in 1 .. Count(s)
               PROVE  s[Place(s, j)] \in Char /\ s[Place(s, j)] \notin White
    OBVIOUS
  <2>1. Place(s, j) \in Ink(s) /\ Place(s, j) \in 1 .. Len(s)
    BY PlaceType
  <2> QED
    BY <2>1 DEF Ink, Text
<1> QED
  BY <1>1, <1>2, <1>3 DEF Text

LEMMA SameWordsWhite ==
    ASSUME NEW s \in Text, NEW t \in Text, NEW c \in Char, c \in White, SameWords(s, t)
    PROVE  SameWords(Append(s, c), t) /\ SameWords(s, Append(t, c))
BY WordsWhite DEF SameWords

LEMMA SameWordsInk ==
    ASSUME NEW s \in Text, NEW t \in Text, NEW c \in Char, c \notin White, SameWords(s, t),
           Count(s) # 0 => (s[Len(s)] \in White <=> t[Len(t)] \in White)
    PROVE  SameWords(Append(s, c), Append(t, c))
<1> DEFINE n == Count(s)
           u == Append(s, c)
           v == Append(t, c)
<1>1. /\ n \in Nat /\ Count(t) = n
      /\ Len(Letters(s)) = n /\ Letters(s) = Letters(t) /\ Letters(s) \in Text
      /\ \A j \in 1 .. n - 1 : Gap(s, j) = Gap(t, j)
  BY InkType, LettersType DEF SameWords
<1>2. /\ Letters(u) = Append(Letters(s), c)
      /\ \A j \in 1 .. n - 1 : Gap(u, j) = Gap(s, j)
      /\ n # 0 => Gap(u, n) = (s[Len(s)] \in White)
  BY WordsInk
<1>3. /\ Letters(v) = Append(Letters(t), c)
      /\ \A j \in 1 .. n - 1 : Gap(v, j) = Gap(t, j)
      /\ n # 0 => Gap(v, n) = (t[Len(t)] \in White)
  BY <1>1, WordsInk
<1>4. n # 0 => Gap(u, n) = Gap(v, n)
  BY <1>2, <1>3
<1> HIDE DEF n, u, v
<1>5. Len(Letters(u)) = n + 1 /\ Letters(u) = Letters(v)
  BY <1>1, <1>2, <1>3 DEF Text
<1>6. \A j \in 1 .. n : Gap(u, j) = Gap(v, j)
  <2> SUFFICES ASSUME NEW j \in 1 .. n PROVE Gap(u, j) = Gap(v, j)
    OBVIOUS
  <2>1. (j = n /\ n # 0) \/ j \in 1 .. n - 1
    BY <1>1
  <2> QED
    BY <1>1, <1>2, <1>3, <1>4, <2>1
<1>7. Len(Letters(u)) - 1 = n
  BY <1>1, <1>5
<1> QED
  BY <1>5, <1>6, <1>7 DEF SameWords, u, v

\* The ends of the words but the last.
GapsOf(s) == {j \in 1 .. Count(s) - 1 : Gap(s, j)}

LEMMA GapsType ==
    ASSUME NEW s \in Text
    PROVE  /\ GapsOf(s) \in SUBSET (1 .. Count(s)) /\ Count(s) \notin GapsOf(s)
           /\ IsFiniteSet(GapsOf(s)) /\ Cardinality(GapsOf(s)) \in Nat
<1>1. Count(s) \in Nat
  BY InkType
<1>2. GapsOf(s) \in SUBSET (1 .. Count(s)) /\ Count(s) \notin GapsOf(s)
  BY <1>1 DEF GapsOf
<1> QED
  BY <1>1, <1>2, BoundedIsFinite

LEMMA GapsAppend ==
    ASSUME NEW s \in Text, NEW c \in Char
    PROVE  /\ c \in White => GapsOf(Append(s, c)) = GapsOf(s)
           /\ c \notin White /\ (Count(s) = 0 \/ s[Len(s)] \notin White)
                => GapsOf(Append(s, c)) = GapsOf(s)
           /\ c \notin White /\ Count(s) # 0 /\ s[Len(s)] \in White
                => GapsOf(Append(s, c)) = GapsOf(s) \cup {Count(s)}
<1> DEFINE t == Append(s, c)
           n == Count(s)
<1>1. n \in Nat
  BY InkType
<1>2. ASSUME c \in White PROVE GapsOf(t) = GapsOf(s)
  BY <1>2, WordsWhite DEF GapsOf
<1>3. ASSUME c \notin White
      PROVE  /\ Count(t) - 1 = n /\ \A j \in 1 .. n - 1 : Gap(t, j) = Gap(s, j)
             /\ n # 0 => Gap(t, n) = (s[Len(s)] \in White)
  BY <1>1, <1>3, WordsInk
<1> HIDE DEF t, n
<1>4. \A j : j \in 1 .. n <=> j \in 1 .. n - 1 \/ (n # 0 /\ j = n)
  BY <1>1
<1>5. ASSUME c \notin White, n = 0 \/ s[Len(s)] \notin White
      PROVE  GapsOf(t) = GapsOf(s)
  <2>1. \A j : j \in GapsOf(t) <=> j \in 1 .. n /\ Gap(t, j)
    BY <1>3, <1>5 DEF GapsOf
  <2>2. \A j : j \in GapsOf(s) <=> j \in 1 .. n - 1 /\ Gap(s, j)
    BY DEF GapsOf, n
  <2>3. \A j : j \in GapsOf(t) <=> j \in GapsOf(s)
    BY <1>3, <1>4, <1>5, <2>1, <2>2
  <2> QED
    BY <2>3
<1>6. ASSUME c \notin White, n # 0, s[Len(s)] \in White
      PROVE  GapsOf(t) = GapsOf(s) \cup {n}
  <2>1. \A j : j \in GapsOf(t) <=> j \in 1 .. n /\ Gap(t, j)
    BY <1>3, <1>6 DEF GapsOf
  <2>2. \A j : j \in GapsOf(s) <=> j \in 1 .. n - 1 /\ Gap(s, j)
    BY DEF GapsOf, n
  <2>3. \A j : j \in GapsOf(t) <=> j \in GapsOf(s) \/ j = n
    BY <1>3, <1>4, <1>6, <2>1, <2>2
  <2> QED
    BY <2>3
<1> QED
  BY <1>2, <1>5, <1>6 DEF t, n

LEMMA ApartAppend ==
    ASSUME NEW s \in Text, NEW c \in Char, c \notin White, OneSpaceApart(s)
    PROVE  /\ OneSpaceApart(Append(s, c))
           /\ s # <<>> => OneSpaceApart(Append(Append(s, Space), c))
<1> DEFINE m == Append(s, Space)
           t == Append(s, c)
           u == Append(m, c)
<1>1. Len(s) \in Nat /\ DOMAIN s = 1 .. Len(s) /\ c # Space
  BY InkType, SpaceType
<1>2. /\ t \in Text /\ Len(t) = Len(s) + 1 /\ t[Len(s) + 1] = c
      /\ \A i \in 1 .. Len(s) : t[i] = s[i]
  BY InkAppend
<1>3. /\ m \in Text /\ Len(m) = Len(s) + 1 /\ m[Len(s) + 1] = Space
      /\ \A i \in 1 .. Len(s) : m[i] = s[i]
  BY InkAppend, SpaceType
<1> HIDE DEF m
<1>4. /\ u \in Text /\ Len(u) = Len(m) + 1 /\ u[Len(m) + 1] = c
      /\ \A i \in 1 .. Len(m) : u[i] = m[i]
  BY <1>3, InkAppend
<1>5. \A x \in Text : DOMAIN x = 1 .. Len(x)
  BY InkType
<1> HIDE DEF t, u
<1>6. OneSpaceApart(t)
  <2> SUFFICES ASSUME NEW i \in 1 .. Len(s) + 1
               PROVE  /\ t[i] \in White => t[i] = Space
                      /\ t[i] = Space => i \notin {1, Len(s) + 1} /\ t[i + 1] # Space
    BY <1>2, <1>5 DEF OneSpaceApart
  <2>1. CASE i \in 1 .. Len(s)
    <3>1. /\ s[i] \in White => s[i] = Space
          /\ s[i] = Space => i # 1 /\ i # Len(s) /\ s[i + 1] # Space
      BY <1>1, <2>1 DEF OneSpaceApart
    <3>2. s[i] = Space => i + 1 \in 1 .. Len(s)
      <4>1. Len(s) \in Nat
        BY <1>1
      <4>2. i # Len(s) => i + 1 \in 1 .. Len(s)
        BY <2>1, <4>1
      <4> QED
        BY <3>1, <4>2
    <3> QED
      BY <1>1, <1>2, <2>1, <3>1, <3>2
  <2>2. CASE i = Len(s) + 1
    BY <1>1, <1>2, <2>2
  <2> QED
    BY <1>1, <2>1, <2>2
<1>7. ASSUME s # <<>> PROVE OneSpaceApart(u)
  <2>0. Len(s) # 0
    BY <1>7 DEF Text
  <2> SUFFICES ASSUME NEW i \in 1 .. Len(s) + 2
               PROVE  /\ u[i] \in White => u[i] = Space
                      /\ u[i] = Space => i \notin {1, Len(s) + 2} /\ u[i + 1] # Space
    BY <1>1, <1>3, <1>4, <1>5 DEF OneSpaceApart
  <2>1. CASE i \in 1 .. Len(s)
    <3>1. /\ s[i] \in White => s[i] = Space
          /\ s[i] = Space => i # 1 /\ i # Len(s) /\ s[i + 1] # Space
      BY <1>1, <2>1 DEF OneSpaceApart
    <3>2. s[i] = Space => i + 1 \in 1 .. Len(s)
      <4>1. Len(s) \in Nat
        BY <1>1
      <4>2. i # Len(s) => i + 1 \in 1 .. Len(s)
        BY <2>1, <4>1
      <4> QED
        BY <3>1, <4>2
    <3>3. u[i] = s[i] /\ (i + 1 \in 1 .. Len(s) => u[i + 1] = s[i + 1])
      BY <1>1, <1>3, <1>4, <2>1
    <3>4. i # Len(s) + 2
      BY <1>1, <2>1
    <3> QED
      BY <2>1, <3>1, <3>2, <3>3, <3>4
  <2>2. CASE i = Len(s) + 1
    BY <1>1, <1>3, <1>4, <2>0, <2>2
  <2>3. CASE i = Len(s) + 2
    BY <1>1, <1>3, <1>4, <2>3
  <2> QED
    BY <1>1, <2>1, <2>2, <2>3
<1> QED
  BY <1>6, <1>7 DEF t, u, m

\* What the normalised name keeps of a text, its length, and that normalising
\* it again changes nothing.
Kept(s) ==
    /\ SameWords(normalise_name(s), s)
    /\ OneSpaceApart(normalise_name(s))
    /\ normalise_name(normalise_name(s)) = normalise_name(s)
    /\ Len(normalise_name(s)) = Count(s) + Cardinality(GapsOf(s))

LEMMA NothingKept ==
    Kept(<<>>)
<1>1. <<>> \in Text /\ Len(<<>>) = 0 /\ Ink(<<>>) = {}
  BY DEF Text, Ink
<1>2. normalise_name(<<>>) = <<>> /\ Count(<<>>) = 0
  BY <1>1, NormNothing, FS_EmptySet DEF Count
<1>3. GapsOf(<<>>) = {} /\ Cardinality(GapsOf(<<>>)) = 0
  BY <1>2, FS_EmptySet DEF GapsOf
<1>4. SameWords(<<>>, <<>>) /\ OneSpaceApart(<<>>)
  BY <1>1 DEF SameWords, OneSpaceApart
<1> QED
  BY <1>1, <1>2, <1>3, <1>4 DEF Kept

LEMMA KeptWhite ==
    ASSUME NEW s \in Text, NEW c \in Char, c \in White, Kept(s)
    PROVE  Kept(Append(s, c))
<1>1. normalise_name(Append(s, c)) = normalise_name(s) /\ normalise_name(s) \in Text
  BY NormWhite, NormType
<1>2. SameWords(normalise_name(s), Append(s, c))
  BY <1>1, SameWordsWhite DEF Kept
<1>3. Count(Append(s, c)) = Count(s) /\ GapsOf(Append(s, c)) = GapsOf(s)
  BY WordsWhite, GapsAppend
<1> QED
  BY <1>1, <1>2, <1>3 DEF Kept

LEMMA KeptInk ==
    ASSUME NEW s \in Text, NEW c \in Char, c \notin White, Kept(s)
    PROVE  Kept(Append(s, c))
<1> DEFINE N == normalise_name(s)
           M == Append(N, Space)
           t == Append(s, c)
<1>1. /\ N \in Text /\ SameWords(N, s) /\ OneSpaceApart(N) /\ normalise_name(N) = N
      /\ Len(N) = Count(s) + Cardinality(GapsOf(s))
      /\ (Ink(s) # {} => N # <<>> /\ N[Len(N)] \notin White) /\ (Ink(s) = {} => N = <<>>)
  BY NormType, NormNothing DEF Kept, Last
<1>2. normalise_name(t) = Extended(s, c)
  BY NormInk
<1>3. /\ Count(s) \in Nat /\ (Count(s) = 0 <=> Ink(s) = {}) /\ Count(t) = Count(s) + 1
      /\ Cardinality(GapsOf(s)) \in Nat
  BY InkType, WordsInk, GapsType
<1>4. Count(N) = Count(s) /\ (Count(N) = 0 <=> Ink(N) = {})
  BY <1>1, InkType, LettersType DEF SameWords
<1>5. CASE Ink(s) = {} \/ s[Len(s)] \notin White
  <2>1. normalise_name(t) = Append(N, c)
    BY <1>1, <1>2, <1>5 DEF Extended
  <2>2. SameWords(Append(N, c), t)
    <3>1. Count(N) # 0 => (N[Len(N)] \in White <=> s[Len(s)] \in White)
      BY <1>1, <1>3, <1>4, <1>5
    <3> HIDE DEF N
    <3> QED
      BY <1>1, <3>1, SameWordsInk
  <2>3. OneSpaceApart(Append(N, c))
    BY <1>1, ApartAppend
  <2>4. normalise_name(Append(N, c)) = Append(N, c)
    <3>1. normalise_name(Append(N, c)) = Extended(N, c)
      BY <1>1, NormInk
    <3> HIDE DEF N
    <3>2. Extended(N, c) = Append(N, c)
      BY <1>1, <1>3, <1>4 DEF Extended
    <3> QED
      BY <3>1, <3>2
  <2>5. GapsOf(t) = GapsOf(s)
    BY <1>3, <1>5, GapsAppend
  <2>6. Len(Append(N, c)) = Len(N) + 1
    BY <1>1, InkAppend
  <2>7. Len(Append(N, c)) = Count(t) + Cardinality(GapsOf(t))
    BY <1>1, <1>3, <2>5, <2>6
  <2> HIDE DEF N, t
  <2> QED
    BY <2>1, <2>2, <2>3, <2>4, <2>7 DEF Kept, t
<1>6. CASE Ink(s) # {} /\ s[Len(s)] \in White
  <2>1. normalise_name(t) = Append(M, c)
    BY <1>1, <1>2, <1>6 DEF Extended
  <2>2. /\ M \in Text /\ Len(M) = Len(N) + 1 /\ M[Len(M)] \in White /\ Ink(M) = Ink(N)
        /\ Count(M) = Count(N) /\ SameWords(M, s) /\ normalise_name(M) = N
    <3>1. M \in Text /\ Len(M) = Len(N) + 1 /\ M[Len(N) + 1] = Space /\ Ink(M) = Ink(N)
      BY <1>1, SpaceType, InkAppend
    <3>2. SameWords(M, s) /\ normalise_name(M) = N /\ Count(M) = Count(N)
      BY <1>1, SpaceType, SameWordsWhite, NormWhite, WordsWhite
    <3> QED
      BY <3>1, <3>2, SpaceType
  <2>3. OneSpaceApart(Append(M, c))
    BY <1>1, <1>6, ApartAppend
  <2> HIDE DEF M
  <2>4. SameWords(Append(M, c), t)
    BY <1>6, <2>2, SameWordsInk
  <2>5. normalise_name(Append(M, c)) = Append(M, c)
    <3>1. normalise_name(Append(M, c)) = Extended(M, c)
      BY <2>2, NormInk
    <3>2. Ink(M) # {}
      BY <1>3, <1>4, <1>6, <2>2
    <3> HIDE DEF N
    <3>3. Extended(M, c) = Append(Append(N, Space), c)
      BY <2>2, <3>2 DEF Extended
    <3> QED
      BY <3>1, <3>3 DEF M
  <2>6. Cardinality(GapsOf(t)) = Cardinality(GapsOf(s)) + 1
    <3>1. GapsOf(t) = GapsOf(s) \cup {Count(s)}
      BY <1>3, <1>6, GapsAppend
    <3> QED
      BY <3>1, GapsType, FS_AddElement
  <2>7. Len(Append(M, c)) = Len(M) + 1
    BY <2>2, InkAppend
  <2>8. Len(Append(M, c)) = Count(t) + Cardinality(GapsOf(t))
    BY <1>1, <1>3, <2>2, <2>6, <2>7
  <2> HIDE DEF N, t
  <2> QED
    BY <2>1, <2>3, <2>4, <2>5, <2>8 DEF Kept, t
<1> QED
  BY <1>5, <1>6

LEMMA TextsKept ==
    ASSUME NEW s \in Text
    PROVE  Kept(s)
<1> DEFINE S == {t \in Text : Kept(t)}
<1>1. <<>> \in S
  BY NothingKept DEF Text
<1>2. ASSUME NEW t \in Text, NEW c \in Char, t \in S PROVE Append(t, c) \in S
  BY <1>2, KeptWhite, KeptInk, InkAppend
<1> HIDE DEF S
<1>3. s \in S
  BY <1>1, <1>2, TextInduction
<1> QED
  BY <1>3 DEF S

-----------------------------------------------------------------------------
(***************************************************************************)
(* What is accepted.                                                       *)
(***************************************************************************)

\* A name consists of its letters and spaces between them.
LEMMA NameAndLetters ==
    ASSUME NEW s \in Text, OneSpaceApart(s), s # <<>>
    PROVE  /\ Count(s) \in Nat \ {0}
           /\ Letters(s)[1] = s[1] /\ Letters(s)[Count(s)] = s[Len(s)]
           /\ \A i \in 1 .. Len(s) : s[i] = Space \/ \E j \in 1 .. Count(s) : Letters(s)[j] = s[i]
<1>1. /\ Len(s) \in Nat \ {0} /\ DOMAIN s = 1 .. Len(s) /\ Ink(s) \in SUBSET (1 .. Len(s))
      /\ Count(s) \in Nat /\ (Count(s) = 0 <=> Ink(s) = {}) /\ IsFiniteSet(Ink(s))
  BY InkType DEF Text
<1>2. ASSUME NEW i \in Ink(s)
      PROVE  /\ Cardinality(Upto(Ink(s), i)) \in 1 .. Count(s)
             /\ Letters(s)[Cardinality(Upto(Ink(s), i))] = s[i]
  <2> DEFINE j == Cardinality(Upto(Ink(s), i))
  <2>1. i \in Upto(Ink(s), i) /\ Upto(Ink(s), i) \in SUBSET Ink(s)
    <3>1. i <= i
      BY <1>1
    <3> QED
      BY <3>1, Zenon DEF Upto
  <2>2. IsFiniteSet(Upto(Ink(s), i)) /\ j \in Nat
    BY <1>1, BoundedIsFinite
  <2>3. j # 0
    BY <2>1, <2>2, FS_EmptySet
  <2>4. j <= Count(s)
    BY <1>1, <2>1, FS_Subset DEF Count
  <2>5. j \in 1 .. Count(s)
    BY <1>1, <2>2, <2>3, <2>4
  <2>6. Place(s, j) = i
    BY <2>5, PlaceIs
  <2> QED
    BY <2>5, <2>6, LettersType
<1>3. 1 \in Ink(s) /\ Len(s) \in Ink(s)
  <2>1. 1 \in DOMAIN s /\ Len(s) \in DOMAIN s
    BY <1>1
  <2>2. s[1] \notin White /\ s[Len(s)] \notin White
    BY <2>1 DEF OneSpaceApart
  <2> QED
    BY <2>1, <2>2 DEF Ink
<1>4. Upto(Ink(s), 1) = {1} /\ Upto(Ink(s), Len(s)) = Ink(s)
  <2>1. \A i \in Ink(s) : i <= Len(s) /\ (i <= 1 <=> i = 1)
    BY <1>1
  <2>2. Upto(Ink(s), Len(s)) = Ink(s)
    BY <2>1, Zenon DEF Upto
  <2>3. Upto(Ink(s), 1) = {1}
    BY <1>3, <2>1 DEF Upto
  <2> QED
    BY <2>2, <2>3
<1>5. Letters(s)[1] = s[1] /\ Letters(s)[Count(s)] = s[Len(s)]
  <2>1. Cardinality({1}) = 1
    BY FS_Singleton
  <2>2. Letters(s)[Cardinality(Upto(Ink(s), 1))] = s[1]
    BY <1>2, <1>3
  <2>3. Letters(s)[Cardinality(Upto(Ink(s), Len(s)))] = s[Len(s)]
    BY <1>2, <1>3
  <2> QED
    BY <1>4, <2>1, <2>2, <2>3 DEF Count
<1>6. ASSUME NEW i \in 1 .. Len(s), s[i] # Space
      PROVE  \E j \in 1 .. Count(s) : Letters(s)[j] = s[i]
  <2>1. i \in Ink(s)
    BY <1>1, <1>6 DEF OneSpaceApart, Ink
  <2> QED
    BY <1>2, <2>1
<1> QED
  BY <1>1, <1>3, <1>5, <1>6

LEMMA AcceptedMeans ==
    ASSUME NEW s \in Text
    PROVE  Accepted(s) <=> /\ Len(normalise_name(s)) \in MinLength .. MaxLength
                           /\ MatchesPattern(normalise_name(s))
<1> DEFINE n == Len(normalise_name(s))
<1>1. n \in Nat /\ MinLength \in Nat /\ MaxLength \in Nat /\ MinLength <= MaxLength
  BY NormType, InkType, LengthsType
<1>2. CASE n < MinLength
  <2>1. name_error(s) = "tooShort"
    BY <1>1, <1>2 DEF name_error
  <2> QED
    BY <1>1, <1>2, <2>1 DEF Accepted
<1>3. CASE n > MaxLength
  <2>1. name_error(s) = "tooLong"
    BY <1>1, <1>3 DEF name_error
  <2> QED
    BY <1>1, <1>3, <2>1 DEF Accepted
<1>4. CASE n \in MinLength .. MaxLength
  <2>1. name_error(s) = IF MatchesPattern(normalise_name(s)) THEN "none" ELSE "badCharacters"
    BY <1>1, <1>4 DEF name_error
  <2> QED
    BY <1>4, <2>1 DEF Accepted
<1> QED
  BY <1>1, <1>2, <1>3, <1>4

\* NameIsCanonical, of any text.
CanonicalName(s) ==
    /\ Accepted(s) <=>
          /\ Count(s) + Cardinality(GapsOf(s)) \in MinLength .. MaxLength
          /\ ToSet(Letters(s)) \subseteq Alphanumeric \cup Inner
          /\ Letters(s)[1] \in Alphanumeric /\ Last(Letters(s)) \in Alphanumeric
    /\ SameWords(normalise_name(s), s)
    /\ OneSpaceApart(normalise_name(s))

LEMMA NamesCanonical ==
    ASSUME NEW s \in Text
    PROVE  CanonicalName(s)
<1> DEFINE N == normalise_name(s)
<1>1. /\ N \in Text /\ SameWords(N, s) /\ OneSpaceApart(N)
      /\ Len(N) = Count(s) + Cardinality(GapsOf(s))
  BY NormType, TextsKept DEF Kept
<1>2. /\ Letters(N) = Letters(s) /\ Count(N) = Count(s) /\ Len(Letters(s)) = Count(s)
      /\ Letters(s) \in Text
  BY <1>1, LettersType DEF SameWords
<1>3. Accepted(s) <=> Len(N) \in MinLength .. MaxLength /\ MatchesPattern(N)
  BY AcceptedMeans
<1> HIDE DEF N
<1>4. ASSUME Len(N) \in MinLength .. MaxLength
      PROVE  MatchesPattern(N) <=>
                /\ ToSet(Letters(s)) \subseteq Alphanumeric \cup Inner
                /\ Letters(s)[1] \in Alphanumeric /\ Last(Letters(s)) \in Alphanumeric
  <2>1. N # <<>>
    BY <1>4, LengthsType
  <2>2. /\ Letters(s)[1] = N[1] /\ Last(Letters(s)) = Last(N)
        /\ \A i \in 1 .. Len(N) : N[i] = Space \/ \E j \in 1 .. Count(s) : Letters(s)[j] = N[i]
    BY <1>1, <1>2, <2>1, NameAndLetters DEF Last
  <2>3. \A j \in 1 .. Count(s) : Place(N, j) \in 1 .. Len(N) /\ Letters(s)[j] = N[Place(N, j)]
    BY <1>1, <1>2, PlaceType, LettersType
  <2>4. DOMAIN N = 1 .. Len(N) /\ DOMAIN Letters(s) = 1 .. Count(s)
    BY <1>1, <1>2, InkType
  <2>5. Space \in Inner
    BY DEF Inner
  <2>6. ToSet(Letters(s)) \subseteq Alphanumeric \cup Inner
          <=> \A i \in DOMAIN N : N[i] \in Alphanumeric \cup Inner
    BY <2>2, <2>3, <2>4, <2>5 DEF ToSet
  <2> QED
    BY <2>1, <2>2, <2>6 DEF MatchesPattern
<1> QED
  BY <1>1, <1>3, <1>4 DEF CanonicalName, N

-----------------------------------------------------------------------------
(***************************************************************************)
(* The key.                                                                *)
(***************************************************************************)
LEMMA LoweredWords ==
    ASSUME NEW s \in Text
    PROVE  /\ Lowered(s) \in Text /\ Len(Lowered(s)) = Len(s) /\ Ink(Lowered(s)) = Ink(s)
           /\ Letters(Lowered(s)) = Lowered(Letters(s))
           /\ \A j : Gap(Lowered(s), j) = Gap(s, j)
           /\ OneSpaceApart(s) => OneSpaceApart(Lowered(s))
<1>1. Len(s) \in Nat /\ DOMAIN s = 1 .. Len(s) /\ \A i \in 1 .. Len(s) : s[i] \in Char
  BY InkType DEF Text
<1>2. "a" \in Char /\ "a" \notin White /\ "A" \notin White /\ "a" # Space /\ "A" # Space
  BY DEF Char, Alphanumeric, Lower, White, Space
<1>3. Lowered(s) = [i \in 1 .. Len(s) |-> IF s[i] \in Upper THEN "a" ELSE s[i]]
  BY <1>1 DEF Lowered
<1>4. Lowered(s) \in Text /\ Len(Lowered(s)) = Len(s) /\ DOMAIN Lowered(s) = 1 .. Len(s)
  BY <1>1, <1>2, <1>3 DEF Text
<1>5. \A i \in 1 .. Len(s) : /\ Lowered(s)[i] \in White <=> s[i] \in White
                             /\ Lowered(s)[i] = Space <=> s[i] = Space
                             /\ s[i] \in White => Lowered(s)[i] = s[i]
  BY <1>2, <1>3 DEF Upper
<1>6. Ink(Lowered(s)) = Ink(s)
  BY <1>1, <1>4, <1>5 DEF Ink
<1>7. \A j : Place(Lowered(s), j) = Place(s, j)
  BY <1>6 DEF Place
<1>8. \A j : Gap(Lowered(s), j) = Gap(s, j)
  BY <1>7 DEF Gap
<1>9. Letters(Lowered(s)) = Lowered(Letters(s))
  <2>1. /\ Letters(s) = [j \in 1 .. Count(s) |-> s[Place(s, j)]]
        /\ Letters(Lowered(s)) = [j \in 1 .. Count(s) |-> Lowered(s)[Place(s, j)]]
    BY <1>6, <1>7 DEF Letters, Count
  <2>2. \A j \in 1 .. Count(s) : Place(s, j) \in 1 .. Len(s)
    BY PlaceType
  <2> QED
    BY <1>3, <2>1, <2>2 DEF Lowered
<1>10. ASSUME OneSpaceApart(s) PROVE OneSpaceApart(Lowered(s))
  <2> SUFFICES ASSUME NEW i \in 1 .. Len(s)
               PROVE  /\ Lowered(s)[i] \in White => Lowered(s)[i] = Space
                      /\ Lowered(s)[i] = Space => i \notin {1, Len(s)} /\ Lowered(s)[i + 1] # Space
    BY <1>4 DEF OneSpaceApart
  <2>1. /\ s[i] \in White => s[i] = Space
        /\ s[i] = Space => i # 1 /\ i # Len(s) /\ s[i + 1] # Space
    BY <1>1, <1>10 DEF OneSpaceApart
  <2>2. i # Len(s) => i + 1 \in 1 .. Len(s)
    <3>1. Len(s) \in Nat
      BY <1>1
    <3> QED
      BY <3>1
  <2> QED
    BY <1>5, <2>1, <2>2
<1> QED
  BY <1>4, <1>6, <1>8, <1>9, <1>10

\* KeyIsWordsInLowerCase, of any text.
KeyOfWords(s) ==
    /\ name_key(normalise_name(s)) = name_key(s)
    /\ SameWords(name_key(s), Lowered(s))
    /\ OneSpaceApart(name_key(s))

LEMMA KeysOfWords ==
    ASSUME NEW s \in Text
    PROVE  KeyOfWords(s)
<1> DEFINE N == normalise_name(s)
<1>1. N \in Text /\ SameWords(N, s) /\ OneSpaceApart(N) /\ normalise_name(N) = N
  BY NormType, TextsKept DEF Kept
<1>2. name_key(s) = Lowered(N) /\ name_key(N) = Lowered(N)
  BY <1>1 DEF name_key
<1> HIDE DEF N
<1>3. OneSpaceApart(Lowered(N))
  BY <1>1, LoweredWords
<1>4. SameWords(Lowered(N), Lowered(s))
  <2>1. Letters(N) = Letters(s) /\ \A j \in 1 .. Len(Letters(N)) - 1 : Gap(N, j) = Gap(s, j)
    BY <1>1 DEF SameWords
  <2>2. /\ Letters(Lowered(N)) = Lowered(Letters(N)) /\ Letters(Lowered(s)) = Lowered(Letters(N))
        /\ \A j : Gap(Lowered(N), j) = Gap(N, j) /\ Gap(Lowered(s), j) = Gap(s, j)
    BY <1>1, <2>1, LoweredWords
  <2>3. Len(Lowered(Letters(N))) = Len(Letters(N))
    BY <1>1, LettersType, LoweredWords
  <2> QED
    BY <2>1, <2>2, <2>3 DEF SameWords
<1> QED
  BY <1>2, <1>3, <1>4 DEF KeyOfWords, N

-----------------------------------------------------------------------------
\* What is typed is a text.
TypeInv == raw \in Text

LEMMA TextsAreTyped ==
    Spec => []TypeInv
<1>1. Init => TypeInv
  BY DEF Init, TypeInv, Text
<1>2. TypeInv /\ [Next]_raw => TypeInv'
  BY DEF TypeInv, Next, Type, Text
<1> QED
  BY <1>1, <1>2, PTL DEF Spec

\* validate_name accepts a text, of any length and for any limits, exactly for
\* the characters and the total length of its words, one space apart, and that
\* is the name it returns.
THEOREM NamesAreCanonical ==
    Spec => []NameIsCanonical
<1>1. TypeInv => NameIsCanonical
  <2> SUFFICES ASSUME TypeInv PROVE NameIsCanonical
    OBVIOUS
  <2>1. raw \in Text
    BY DEF TypeInv
  <2>2. CanonicalName(raw) /\ Len(Letters(raw)) = Count(raw)
    BY <2>1, NamesCanonical, LettersType
  <2> QED
    BY <2>2 DEF CanonicalName, NameIsCanonical, GapsOf
<1> QED
  BY <1>1, TextsAreTyped, PTL

\* name_key gives every text its words in lower case, one space apart; applied
\* to the name that was stored it gives the key that was reserved.
THEOREM KeysAreTheWords ==
    Spec => []KeyIsWordsInLowerCase
<1>1. TypeInv => KeyIsWordsInLowerCase
  <2> SUFFICES ASSUME TypeInv PROVE KeyIsWordsInLowerCase
    OBVIOUS
  <2>1. raw \in Text
    BY DEF TypeInv
  <2>2. KeyOfWords(raw)
    BY <2>1, KeysOfWords
  <2> QED
    BY <2>2 DEF KeyOfWords, KeyIsWordsInLowerCase, Lowered
<1> QED
  BY <1>1, TextsAreTyped, PTL

=============================================================================
