------------------------- MODULE MarkupProofs -------------------------
(* MDToHTML loses nothing of a page, and one mark among all that is put    *)
(* into a page without italics does not spoil it, for texts of any length. *)
(*                                                                         *)
(* A pass joins the pieces that the places of its text give.  What the     *)
(* first n pieces stand for is shown by an induction over n, written with  *)
(* the set of the numbers for which it holds.                              *)
EXTENDS Markup, Integers, TLAPS, FiniteSetTheorems, SequenceTheorems,
        WellFoundedInduction

(* The numbers in order, for an induction over a set of them. *)
Below == OpToRel(<, Nat)

(* A smaller number is below. *)
LEMMA BelowIsLess == \A x, y \in Nat : y < x => <<y, x>> \in Below
BY DEF Below, OpToRel

(* A set that contains 0, and with a number the next, contains them all. *)
LEMMA SetInduction ==
  ASSUME NEW S, 0 \in S, \A n \in Nat : n \in S => n + 1 \in S
  PROVE  Nat \subseteq S
<1>1. IsWellFoundedOn(Below, Nat)
  BY NatLessThanWellFounded DEF Below
<1> SUFFICES ASSUME Nat \ S # {} PROVE FALSE
  OBVIOUS
<1>2. PICK x \in Nat \ S : \A y \in Nat \ S : ~ (<<y, x>> \in Below)
  BY <1>1, WFMin, Nat \ S \subseteq Nat
<1>3. x - 1 \in Nat /\ x - 1 \notin S
  OBVIOUS
<1>4. <<x - 1, x>> \in Below
  BY <1>3, BelowIsLess
<1> QED BY <1>2, <1>3, <1>4

(* The recursive function of FlattenSeq. *)
Flattens(f, seqs, n) ==
  f = [i \in 1..n |-> IF i = 1 THEN seqs[i] ELSE f[i - 1] \o seqs[i]]

(* It exists, since it does for the first n pieces, for every n. *)
LEMMA FlattenExists ==
  ASSUME NEW T, NEW seqs \in Seq(Seq(T)), Len(seqs) # 0
  PROVE  \E f : Flattens(f, seqs, Len(seqs))
<1> DEFINE S == {n \in Nat : \E f : Flattens(f, seqs, n)}
<1>1. 0 \in S
  <2>1. Flattens([i \in 1..0 |-> seqs[i]], seqs, 0)
    BY DEF Flattens
  <2> QED BY <2>1
<1>2. ASSUME NEW n \in Nat, n \in S PROVE n + 1 \in S
  <2>1. PICK f : Flattens(f, seqs, n)
    BY <1>2
  <2> DEFINE g == [i \in 1..(n + 1) |->
                     IF i = 1 THEN seqs[i] ELSE f[i - 1] \o seqs[i]]
  <2>2. ASSUME NEW i \in 1..(n + 1)
        PROVE g[i] = IF i = 1 THEN seqs[i] ELSE g[i - 1] \o seqs[i]
    <3>1. CASE i = 1
      BY <3>1
    <3>2. CASE i # 1
      <4>1. i - 1 \in 1..n /\ i - 1 \in 1..(n + 1)
        BY <3>2
      <4>2. g[i - 1] = f[i - 1]
        BY <4>1, <2>1 DEF Flattens
      <4> QED BY <4>2, <3>2
    <3> QED BY <3>1, <3>2
  <2>3. Flattens(g, seqs, n + 1)
    <3>1. g = [i \in 1..(n + 1) |-> g[i]]
      OBVIOUS
    <3> HIDE DEF g
    <3> QED BY <2>2, <3>1 DEF Flattens
  <2> QED BY <2>3
<1>3. Nat \subseteq S
  <2> HIDE DEF S
  <2> QED BY <1>1, <1>2, SetInduction
<1>4. Len(seqs) \in Nat
  BY LenProperties
<1>5. PICK f : Flattens(f, seqs, Len(seqs))
  BY <1>3, <1>4
<1> QED BY <1>5

(* FlattenSeq joins the first pieces, and then the next. *)
Joins(f, seqs, T) ==
  /\ f \in [0..Len(seqs) -> Seq(T)]
  /\ f[0] = <<>>
  /\ \A i \in 1..Len(seqs) : f[i] = f[i - 1] \o seqs[i]

(* What FlattenSeq yields for any pieces, none included. *)
LEMMA Flattened ==
  ASSUME NEW T, NEW seqs \in Seq(Seq(T))
  PROVE  \E f : Joins(f, seqs, T) /\ FlattenSeq(seqs) = f[Len(seqs)]
<1>0. Len(seqs) \in Nat /\ \A i \in 1..Len(seqs) : seqs[i] \in Seq(T)
  BY LenProperties, ElementOfSeq
<1>1. CASE Len(seqs) = 0
  <2>1. FlattenSeq(seqs) = <<>>
    BY <1>1, EmptySeq DEF FlattenSeq
  <2>2. Joins([i \in 0..Len(seqs) |-> <<>>], seqs, T)
    BY <1>1, EmptySeq DEF Joins
  <2> QED BY <2>1, <2>2, <1>1
<1>2. CASE Len(seqs) # 0
  <2> DEFINE h == CHOOSE f : Flattens(f, seqs, Len(seqs))
             g == [i \in 0..Len(seqs) |-> IF i = 0 THEN <<>> ELSE h[i]]
             S == {n \in Nat : n \in 0..Len(seqs) => g[n] \in Seq(T)}
  <2>1. Flattens(h, seqs, Len(seqs))
    BY <1>2, FlattenExists
  <2>2. FlattenSeq(seqs) = h[Len(seqs)]
    BY <1>2 DEF FlattenSeq, Flattens
  <2>3. ASSUME NEW i \in 1..Len(seqs)
        PROVE  h[i] = IF i = 1 THEN seqs[i] ELSE h[i - 1] \o seqs[i]
    BY <2>1 DEF Flattens
  <2> HIDE DEF h
  <2>4. ASSUME NEW i \in 1..Len(seqs)
        PROVE  g[i] = g[i - 1] \o seqs[i]
    <3>1. seqs[i] \in Seq(T) /\ <<>> \o seqs[i] = seqs[i]
      BY <1>0, ConcatEmptySeq
    <3>2. i \in 0..Len(seqs) /\ i - 1 \in 0..Len(seqs)
      BY <1>0
    <3>3. g[i] = h[i]
      BY <3>2, <1>0
    <3>4. g[i - 1] = IF i = 1 THEN <<>> ELSE h[i - 1]
      <4>1. i - 1 = 0 <=> i = 1
        BY <1>0
      <4> QED BY <3>2, <4>1
    <3> HIDE DEF g
    <3>5. CASE i = 1
      BY <3>1, <3>3, <3>4, <3>5, <2>3
    <3>6. CASE i # 1
      BY <3>3, <3>4, <3>6, <2>3
    <3> QED BY <3>5, <3>6
  <2>5. g[0] = <<>>
    BY <1>0
  <2> HIDE DEF g
  <2>6. 0 \in S
    BY <2>5, EmptySeq
  <2>7. ASSUME NEW n \in Nat, n \in S PROVE n + 1 \in S
    <3> SUFFICES ASSUME n + 1 \in 0..Len(seqs) PROVE g[n + 1] \in Seq(T)
      OBVIOUS
    <3>1. n \in 0..Len(seqs) /\ n + 1 \in 1..Len(seqs) /\ (n + 1) - 1 = n
      BY <1>0
    <3>2. g[n] \in Seq(T) /\ seqs[n + 1] \in Seq(T)
      BY <3>1, <2>7, <1>0
    <3>3. g[n + 1] = g[n] \o seqs[n + 1]
      BY <3>1, <2>4
    <3> QED BY <3>2, <3>3, ConcatProperties
  <2>8. Nat \subseteq S
    <3> HIDE DEF S
    <3> QED BY <2>6, <2>7, SetInduction
  <2>9. g = [i \in 0..Len(seqs) |-> g[i]]
    BY DEF g
  <2>10. g \in [0..Len(seqs) -> Seq(T)]
    BY <2>8, <2>9, <1>0
  <2>11. g[Len(seqs)] = h[Len(seqs)]
    BY <1>0, <1>2 DEF g
  <2> QED BY <2>2, <2>4, <2>5, <2>10, <2>11 DEF Joins
<1> QED BY <1>1, <1>2

(* What has been joined depends on what there was to join. *)
LEMMA JoinsAgree ==
  ASSUME NEW T, NEW s1 \in Seq(Seq(T)), NEW s2 \in Seq(Seq(T)), NEW f, NEW g,
         Joins(f, s1, T), Joins(g, s2, T), NEW k \in Nat,
         k <= Len(s1), k <= Len(s2), \A i \in 1..k : s1[i] = s2[i]
  PROVE  f[k] = g[k]
<1> DEFINE S == {n \in Nat : n <= k => f[n] = g[n]}
<1>0. Len(s1) \in Nat /\ Len(s2) \in Nat
  BY LenProperties
<1>1. 0 \in S
  BY DEF Joins
<1>2. ASSUME NEW n \in Nat, n \in S PROVE n + 1 \in S
  <2> SUFFICES ASSUME n + 1 <= k PROVE f[n + 1] = g[n + 1]
    OBVIOUS
  <2>1. n + 1 \in 1..k /\ n + 1 \in 1..Len(s1) /\ n + 1 \in 1..Len(s2) /\ (n + 1) - 1 = n
    BY <1>0
  <2>2. f[n + 1] = f[n] \o s1[n + 1] /\ g[n + 1] = g[n] \o s2[n + 1]
    BY <2>1 DEF Joins
  <2>3. f[n] = g[n]
    BY <1>2, <2>1
  <2>4. s1[n + 1] = s2[n + 1]
    BY <2>1
  <2> QED BY <2>2, <2>3, <2>4
<1>3. Nat \subseteq S
  <2> HIDE DEF S
  <2> QED BY <1>1, <1>2, SetInduction
<1> QED BY <1>3

(* A piece more is joined at the end. *)
LEMMA FlattenAppend ==
  ASSUME NEW T, NEW seqs \in Seq(Seq(T)), NEW p \in Seq(T)
  PROVE  FlattenSeq(Append(seqs, p)) = FlattenSeq(seqs) \o p
<1> DEFINE more == Append(seqs, p)
           n == Len(seqs)
<1>1. /\ n \in Nat /\ more \in Seq(Seq(T)) /\ Len(more) = n + 1
      /\ \A i \in 1..n : more[i] = seqs[i]
      /\ more[n + 1] = p
  BY AppendProperties, LenProperties
<1> HIDE DEF more
<1>2. PICK f : Joins(f, seqs, T) /\ FlattenSeq(seqs) = f[n]
  BY Flattened
<1>3. PICK g : Joins(g, more, T) /\ FlattenSeq(more) = g[n + 1]
  BY <1>1, Flattened
<1>4. g[n + 1] = g[n] \o p
  <2>1. n + 1 \in 1..Len(more) /\ (n + 1) - 1 = n
    BY <1>1
  <2> QED BY <2>1, <1>1, <1>3 DEF Joins
<1>5. g[n] = f[n]
  <2>1. n <= Len(more) /\ n <= Len(seqs)
    BY <1>1
  <2>2. Joins(g, more, T) /\ Joins(f, seqs, T)
    BY <1>2, <1>3
  <2>3. n \in Nat /\ more \in Seq(Seq(T)) /\ \A i \in 1..n : more[i] = seqs[i]
    BY <1>1
  <2> HIDE DEF n
  <2> QED BY <2>1, <2>2, <2>3, JoinsAgree
<1> QED BY <1>2, <1>3, <1>4, <1>5 DEF more
---------------------------------------------------------------------------
(* What a page is made of, and what it becomes. *)
Chars == Marks \cup {"x"}
Tags == {"<pre>", "</pre>", "<code>", "</code>", "<b>", "</b>", "<i>", "</i>"}
Symbols == Chars \cup Tags

(* The text that a symbol stands for. *)
Meaning(c) ==
  IF c \in {"<pre>", "</pre>"} THEN <<"tick", "tick", "tick">>
  ELSE IF \E m \in Marks : c \in {Open[m], Close[m]}
  THEN <<CHOOSE m \in Marks : c \in {Open[m], Close[m]}>>
  ELSE <<c>>

(* The tags, by name. *)
LEMMA TagsOfMarks ==
  /\ Open["tick"] = "<code>" /\ Close["tick"] = "</code>"
  /\ Open["star"] = "<b>" /\ Close["star"] = "</b>"
  /\ Open["line"] = "<i>" /\ Close["line"] = "</i>"
  /\ Open[Fence] = "<pre>" /\ Close[Fence] = "</pre>"
BY DEF Open, Close, Marks, Fence

(* A mark and its two tags stand for the mark. *)
LEMMA MarkMeans ==
  ASSUME NEW m \in Marks
  PROVE  /\ Meaning(m) = <<m>>
         /\ Meaning(Open[m]) = <<m>>
         /\ Meaning(Close[m]) = <<m>>
         /\ m \in Symbols /\ Open[m] \in Symbols /\ Close[m] \in Symbols
<1>1. \A n \in Marks : Open[n] \in {"<code>", "<b>", "<i>"} /\ Close[n] \in {"</code>", "</b>", "</i>"}
  BY TagsOfMarks DEF Marks
<1>2. \A n \in Marks : m \notin {Open[n], Close[n]}
  BY <1>1 DEF Marks
<1>3. \A n \in Marks : Open[m] \in {Open[n], Close[n]} <=> n = m
  BY TagsOfMarks DEF Marks
<1>4. \A n \in Marks : Close[m] \in {Open[n], Close[n]} <=> n = m
  BY TagsOfMarks DEF Marks
<1>5. Meaning(m) = <<m>>
  BY <1>2 DEF Meaning, Marks
<1>6. Meaning(Open[m]) = <<m>>
  <2>1. (CHOOSE n \in Marks : Open[m] \in {Open[n], Close[n]}) = m
    BY <1>3
  <2>2. Open[m] \notin {"<pre>", "</pre>"}
    BY <1>1
  <2> QED BY <1>3, <2>1, <2>2 DEF Meaning
<1>7. Meaning(Close[m]) = <<m>>
  <2>1. (CHOOSE n \in Marks : Close[m] \in {Open[n], Close[n]}) = m
    BY <1>4
  <2>2. Close[m] \notin {"<pre>", "</pre>"}
    BY <1>1
  <2> QED BY <1>4, <2>1, <2>2 DEF Meaning
<1> QED BY <1>1, <1>5, <1>6, <1>7 DEF Symbols, Chars, Tags

(* Text stands for itself, and a tag of a fence for three ticks. *)
LEMMA OthersMean ==
  /\ Meaning("x") = <<"x">>
  /\ Meaning("<pre>") = <<"tick", "tick", "tick">>
  /\ Meaning("</pre>") = <<"tick", "tick", "tick">>
<1>1. \A n \in Marks : Open[n] \in {"<code>", "<b>", "<i>"} /\ Close[n] \in {"</code>", "</b>", "</i>"}
  BY TagsOfMarks DEF Marks
<1> QED BY <1>1 DEF Meaning

(* Short sequences. *)
LEMMA OneIsText ==
  ASSUME NEW S, NEW a \in S
  PROVE  <<a>> \in Seq(S) /\ <<a, a, a>> \in Seq(S)
OBVIOUS

(* No symbol stands for a tag. *)
LEMMA MeaningIsText ==
  ASSUME NEW c \in Symbols
  PROVE  Meaning(c) \in Seq(Chars)
<1>1. CASE c \in Marks
  BY <1>1, MarkMeans, OneIsText DEF Chars
<1>2. CASE c = "x"
  BY <1>2, OthersMean, OneIsText DEF Chars
<1>3. CASE c \in {"<pre>", "</pre>"}
  <2>1. "tick" \in Chars
    BY DEF Chars, Marks
  <2> QED BY <1>3, <2>1, OthersMean, OneIsText
<1>4. CASE c \in Tags \ {"<pre>", "</pre>"}
  <2>1. PICK m \in Marks : c \in {Open[m], Close[m]}
    BY <1>4, TagsOfMarks DEF Tags, Marks
  <2> QED BY <2>1, MarkMeans, OneIsText DEF Chars
<1> QED BY <1>1, <1>2, <1>3, <1>4 DEF Symbols, Chars

(* One symbol more stands for its meaning more. *)
LEMMA UnmarkedAppend ==
  ASSUME NEW h \in Seq(Symbols), NEW c \in Symbols
  PROVE  Unmarked(Append(h, c)) = Unmarked(h) \o Meaning(c)
<1> DEFINE P(s) == [i \in DOMAIN s |-> Meaning(s[i])]
           more == Append(h, c)
<1>1. \A s : Unmarked(s) = FlattenSeq(P(s))
  BY DEF Unmarked, Meaning
<1>2. /\ Len(h) \in Nat /\ DOMAIN h = 1..Len(h)
      /\ more \in Seq(Symbols) /\ Len(more) = Len(h) + 1 /\ DOMAIN more = 1..(Len(h) + 1)
      /\ \A i \in 1..Len(h) : more[i] = h[i]
      /\ more[Len(h) + 1] = c
  BY AppendProperties, LenProperties
<1>3. \A i \in 1..Len(h) : Meaning(h[i]) \in Seq(Chars)
  BY MeaningIsText, ElementOfSeq
<1>4. P(h) \in Seq(Seq(Chars)) /\ Len(P(h)) = Len(h)
  BY <1>2, <1>3
<1>5. Meaning(c) \in Seq(Chars)
  BY MeaningIsText
<1>6. P(more) = Append(P(h), Meaning(c))
  <2>1. /\ Append(P(h), Meaning(c)) \in Seq(Seq(Chars))
        /\ Len(Append(P(h), Meaning(c))) = Len(h) + 1
        /\ \A i \in 1..Len(h) : Append(P(h), Meaning(c))[i] = P(h)[i]
        /\ Append(P(h), Meaning(c))[Len(h) + 1] = Meaning(c)
    BY <1>4, <1>5, AppendProperties
  <2>2. \A i \in 1..(Len(h) + 1) : P(more)[i] = Meaning(more[i])
    BY <1>2
  <2>3. \A i \in 1..Len(h) : P(h)[i] = Meaning(h[i])
    BY <1>2
  <2>4. \A i \in 1..(Len(h) + 1) : Meaning(more[i]) \in Seq(Chars)
    BY <1>2, MeaningIsText, ElementOfSeq
  <2>5. P(more) \in Seq(Seq(Chars)) /\ Len(P(more)) = Len(h) + 1
    BY <1>2, <2>4
  <2> HIDE DEF P, more
  <2>6. \A i \in 1..(Len(h) + 1) : P(more)[i] = Append(P(h), Meaning(c))[i]
    <3> TAKE i \in 1..(Len(h) + 1)
    <3>1. CASE i = Len(h) + 1
      BY <3>1, <2>1, <2>2, <1>2
    <3>2. CASE i # Len(h) + 1
      <4>1. i \in 1..Len(h)
        BY <3>2, <1>2
      <4> QED BY <4>1, <2>1, <2>2, <2>3, <1>2
    <3> QED BY <3>1, <3>2
  <2> QED BY <2>1, <2>5, <2>6, SeqEqual
<1> HIDE DEF P
<1>7. FlattenSeq(P(more)) = FlattenSeq(P(h)) \o Meaning(c)
  BY <1>4, <1>5, <1>6, FlattenAppend
<1> QED BY <1>1, <1>7

(* Nothing stands for nothing. *)
LEMMA UnmarkedEmpty == Unmarked(<<>>) = <<>>
<1>1. [i \in DOMAIN <<>> |-> Meaning(<<>>[i])] = <<>>
  OBVIOUS
<1> QED BY <1>1 DEF Unmarked, FlattenSeq
---------------------------------------------------------------------------
(* What the first n places of s stand for. *)
Upto(s, n) == SubSeq(s, 1, n)

(* One place more. *)
LEMMA UptoMore ==
  ASSUME NEW T, NEW s \in Seq(T), NEW n \in 0..(Len(s) - 1)
  PROVE  /\ Upto(s, n) \in Seq(T)
         /\ n + 1 \in 1..Len(s) /\ s[n + 1] \in T
         /\ Upto(s, n + 1) = Append(Upto(s, n), s[n + 1])
<1>1. Len(s) \in Nat /\ n \in Int /\ n + 1 \in 1..Len(s)
  BY LenProperties
<1>2. \A i \in 1..Len(s) : s[i] \in T
  BY ElementOfSeq
<1>3. Upto(s, n) \in Seq(T)
  BY <1>1, <1>2, SubSeqProperties DEF Upto
<1>4. Upto(s, n + 1) = Upto(s, n) \o <<s[n + 1]>>
  <2>1. 1 \in 1..Len(s) /\ n + 1 \in 1..Len(s) /\ (n + 1) - 1 = n
    BY <1>1
  <2> QED BY <2>1, SubSeqRecursiveSecond DEF Upto
<1> QED BY <1>1, <1>2, <1>3, <1>4, AppendIsConcat

(* None of the places, and all. *)
LEMMA UptoEnds ==
  ASSUME NEW T, NEW s \in Seq(T)
  PROVE  Upto(s, 0) = <<>> /\ Upto(s, Len(s)) = s
BY SubSeqEmpty, SubSeqFull DEF Upto

(* Pieces of one symbol each. *)
LEMMA FlattenSingles ==
  ASSUME NEW T, NEW p \in Seq(T)
  PROVE  FlattenSeq([i \in DOMAIN p |-> <<p[i]>>]) = p
<1> DEFINE P == [i \in DOMAIN p |-> <<p[i]>>]
<1>1. DOMAIN p = 1..Len(p) /\ Len(p) \in Nat
  BY LenProperties
<1>2. P \in Seq(Seq(T)) /\ Len(P) = Len(p) /\ \A i \in 1..Len(p) : P[i] = <<p[i]>>
  <2>1. \A i \in 1..Len(p) : <<p[i]>> \in Seq(T)
    BY ElementOfSeq, OneIsText
  <2> QED BY <2>1, <1>1
<1> HIDE DEF P
<1>3. PICK f : Joins(f, P, T) /\ FlattenSeq(P) = f[Len(P)]
  BY <1>2, Flattened
<1> DEFINE S == {n \in Nat : n <= Len(p) => f[n] = Upto(p, n)}
<1>4. 0 \in S
  BY <1>3, UptoEnds DEF Joins
<1>5. ASSUME NEW n \in Nat, n \in S PROVE n + 1 \in S
  <2> SUFFICES ASSUME n + 1 <= Len(p) PROVE f[n + 1] = Upto(p, n + 1)
    OBVIOUS
  <2>1. n \in 0..(Len(p) - 1) /\ n + 1 \in 1..Len(p) /\ (n + 1) - 1 = n
    BY <1>1
  <2>2. f[n] = Upto(p, n)
    BY <1>5, <2>1
  <2>3. f[n + 1] = f[n] \o <<p[n + 1]>>
    BY <2>1, <1>2, <1>3 DEF Joins
  <2>4. /\ Upto(p, n) \in Seq(T) /\ p[n + 1] \in T
        /\ Upto(p, n + 1) = Append(Upto(p, n), p[n + 1])
    BY <2>1, UptoMore
  <2> QED BY <2>2, <2>3, <2>4, AppendIsConcat
<1>6. Nat \subseteq S
  <2> HIDE DEF S
  <2> QED BY <1>4, <1>5, SetInduction
<1>7. f[Len(p)] = p
  BY <1>1, <1>6, UptoEnds
<1> QED BY <1>2, <1>3, <1>7 DEF P

(* The places of the marks that have a partner. *)
Kept(s, mark) ==
  {i \in Found(s, mark) :
     Rank(Found(s, mark), i) < (Cardinality(Found(s, mark)) \div 2) * 2}

(* What a pass over a mark puts at a place. *)
Put(s, mark, i) ==
  IF i \in Kept(s, mark)
  THEN IF Rank(Kept(s, mark), i) % 2 = 0 THEN Open[mark] ELSE Close[mark]
  ELSE s[i]

(* What is put stands for the symbol that was there. *)
LEMMA PutMeans ==
  ASSUME NEW s \in Seq(Symbols), NEW mark \in Marks, NEW i \in 1..Len(s)
  PROVE  Put(s, mark, i) \in Symbols /\ Meaning(Put(s, mark, i)) = Meaning(s[i])
<1>1. CASE i \in Kept(s, mark)
  <2>1. s[i] = mark
    BY <1>1 DEF Kept, Found, Marks, Fence
  <2>2. Put(s, mark, i) \in {Open[mark], Close[mark]}
    BY <1>1 DEF Put
  <2> QED BY <2>1, <2>2, MarkMeans
<1>2. CASE i \notin Kept(s, mark)
  BY <1>2, ElementOfSeq DEF Put
<1> QED BY <1>1, <1>2

(* A pass over a mark changes every place on its own, *)
LEMMA PassIsPointwise ==
  ASSUME NEW s \in Seq(Symbols), NEW mark \in Marks
  PROVE  /\ Alternate(s, mark) = [i \in 1..Len(s) |-> Put(s, mark, i)]
         /\ Alternate(s, mark) \in Seq(Symbols)
         /\ Len(Alternate(s, mark)) = Len(s)
<1> DEFINE p == [i \in 1..Len(s) |-> Put(s, mark, i)]
           D == Kept(s, mark)
<1>1. DOMAIN s = 1..Len(s) /\ Len(s) \in Nat
  BY LenProperties
<1>2. p \in Seq(Symbols) /\ Len(p) = Len(s) /\ DOMAIN p = 1..Len(s)
  BY <1>1, PutMeans
<1>3. Alternate(s, mark) = Tagged(s, mark, D)
  BY DEF Alternate, Kept
<1>4. Tagged(s, mark, D) = FlattenSeq([i \in DOMAIN p |-> <<p[i]>>])
  <2>1. mark # Fence
    BY DEF Marks, Fence
  <2>2. \A i \in DOMAIN s :
          (IF i \in D
           THEN <<IF Rank(D, i) % 2 = 0 THEN Open[mark] ELSE Close[mark]>>
           ELSE IF mark = Fence /\ (i - 1 \in D \/ i - 2 \in D) THEN <<>>
           ELSE <<s[i]>>) = <<p[i]>>
    BY <1>1, <2>1 DEF Put
  <2> HIDE DEF D, p
  <2> QED BY <1>1, <1>2, <2>2 DEF Tagged
<1> HIDE DEF p
<1>5. Alternate(s, mark) = p
  BY <1>2, <1>3, <1>4, FlattenSingles
<1> QED BY <1>2, <1>5 DEF p

(* and keeps the text. *)
LEMMA PassKeeps ==
  ASSUME NEW s \in Seq(Symbols), NEW mark \in Marks
  PROVE  /\ Alternate(s, mark) \in Seq(Symbols)
         /\ Unmarked(Alternate(s, mark)) = Unmarked(s)
<1> DEFINE p == Alternate(s, mark)
<1>1. /\ p \in Seq(Symbols) /\ DOMAIN p = 1..Len(s) /\ DOMAIN s = 1..Len(s)
      /\ \A i \in 1..Len(s) : p[i] = Put(s, mark, i)
  BY PassIsPointwise, LenProperties
<1> HIDE DEF p
<1>2. \A i \in 1..Len(s) : Meaning(p[i]) = Meaning(s[i])
  BY <1>1, PutMeans
<1>3. \A t : Unmarked(t) = FlattenSeq([i \in DOMAIN t |-> Meaning(t[i])])
  BY DEF Unmarked, Meaning
<1>4. [i \in DOMAIN p |-> Meaning(p[i])] = [i \in DOMAIN s |-> Meaning(s[i])]
  BY <1>1, <1>2
<1>5. Unmarked(p) = Unmarked(s)
  BY <1>3, <1>4
<1> QED BY <1>1, <1>5 DEF p
---------------------------------------------------------------------------
(* Fences do not overlap: one in three ticks of a row begins one. *)
LEMMA RowGrows ==
  ASSUME NEW s, NEW i \in Nat \ {0}, s[i] = "tick"
  PROVE  RowBefore(s, i) \in Nat /\ RowBefore(s, i + 1) = RowBefore(s, i) + 1
<1> DEFINE R == {j \in 1..(i - 1) : \A k \in j..(i - 1) : s[k] = "tick"}
           Q == {j \in 1..((i + 1) - 1) : \A k \in j..((i + 1) - 1) : s[k] = "tick"}
<1>1. IsFiniteSet(R)
  BY FS_Interval, FS_Subset, 1 \in Int, i - 1 \in Int, R \subseteq 1..(i - 1)
<1>2. i \notin R
  OBVIOUS
<1>3. Q = R \cup {i}
  <2>1. ASSUME NEW j, j \in Q, j # i PROVE j \in R
    <3>1. j \in 1..(i - 1) /\ \A k \in j..i : s[k] = "tick"
      BY <2>1
    <3> QED BY <3>1
  <2>2. ASSUME NEW j, j \in R PROVE j \in Q
    <3>1. j \in 1..(i - 1) /\ \A k \in j..(i - 1) : s[k] = "tick"
      BY <2>2
    <3>2. \A k \in j..i : k \in j..(i - 1) \/ k = i
      BY <3>1
    <3> QED BY <3>1, <3>2
  <2>3. i \in Q
    OBVIOUS
  <2> HIDE DEF Q, R
  <2> QED BY <2>1, <2>2, <2>3
<1>4. Cardinality(R) \in Nat /\ Cardinality(R \cup {i}) = Cardinality(R) + 1
  <2> HIDE DEF R
  <2> QED BY <1>1, <1>2, FS_CardinalityType, FS_AddElement
<1> QED BY <1>3, <1>4 DEF RowBefore

(* Two numbers after a multiple of three are none. *)
LEMMA ThirdTick ==
  ASSUME NEW r \in Nat, r % 3 = 0
  PROVE  (r + 1) % 3 # 0 /\ (r + 2) % 3 # 0
OBVIOUS

(* A fence is three ticks, of which the last two begin none. *)
LEMMA FenceHere ==
  ASSUME NEW s \in Seq(Chars), NEW i \in Found(s, Fence)
  PROVE  /\ i \in 1..Len(s) /\ i + 1 \in 1..Len(s) /\ i + 2 \in 1..Len(s)
         /\ s[i] = "tick" /\ s[i + 1] = "tick" /\ s[i + 2] = "tick"
         /\ i + 1 \notin Found(s, Fence) /\ i + 2 \notin Found(s, Fence)
<1>1. Len(s) \in Nat
  BY LenProperties
<1>2. /\ i \in 1..(Len(s) - 2) /\ \A k \in i..(i + 2) : s[k] = "tick"
      /\ RowBefore(s, i) % 3 = 0
  BY DEF Found
<1>3. i \in Nat \ {0} /\ i + 1 \in Nat \ {0} /\ (i + 1) + 1 = i + 2
  BY <1>1, <1>2
<1>4. s[i] = "tick" /\ s[i + 1] = "tick" /\ s[i + 2] = "tick"
  BY <1>2, <1>3
<1>5. /\ RowBefore(s, i) \in Nat /\ RowBefore(s, i + 1) = RowBefore(s, i) + 1
      /\ RowBefore(s, i + 2) = RowBefore(s, i) + 2
  <2>1. RowBefore(s, i) \in Nat /\ RowBefore(s, i + 1) = RowBefore(s, i) + 1
    BY <1>3, <1>4, RowGrows
  <2>2. RowBefore(s, (i + 1) + 1) = RowBefore(s, i + 1) + 1
    BY <1>3, <1>4, RowGrows
  <2> QED BY <2>1, <2>2, <1>3
<1>6. RowBefore(s, i + 1) % 3 # 0 /\ RowBefore(s, i + 2) % 3 # 0
  BY <1>2, <1>5, ThirdTick
<1> QED BY <1>1, <1>2, <1>4, <1>6 DEF Found

(* What a page is made of stands for itself. *)
LEMMA CharMeans ==
  ASSUME NEW c \in Chars
  PROVE  c \in Symbols /\ Meaning(c) = <<c>>
BY MarkMeans, OthersMean DEF Chars, Symbols

(* Three places more. *)
LEMMA ThreeMore ==
  ASSUME NEW s \in Seq(Chars), NEW n \in Nat, n + 3 <= Len(s),
         s[n + 1] = "tick", s[n + 2] = "tick", s[n + 3] = "tick"
  PROVE  Upto(s, n) \o <<"tick", "tick", "tick">> = Upto(s, n + 3)
<1> DEFINE u == Upto(s, n)
           v == Upto(s, n + 3)
           t == <<"tick", "tick", "tick">>
<1>0. Len(s) \in Nat /\ \A i \in 1..Len(s) : s[i] \in Chars
  BY LenProperties, ElementOfSeq
<1>1. u \in Seq(Chars) /\ Len(u) = n /\ \A i \in 1..n : u[i] = s[i]
  BY <1>0, SubSeqProperties, 1 \in Int, n \in Int DEF Upto
<1>2. v \in Seq(Chars) /\ Len(v) = n + 3 /\ \A i \in 1..(n + 3) : v[i] = s[i]
  BY <1>0, SubSeqProperties, 1 \in Int, n + 3 \in Int DEF Upto
<1>3. t \in Seq(Chars) /\ Len(t) = 3 /\ t[1] = "tick" /\ t[2] = "tick" /\ t[3] = "tick"
  <2>1. "tick" \in Chars
    BY DEF Chars, Marks
  <2> QED BY <2>1, OneIsText
<1> HIDE DEF t, u, v
<1>4. /\ u \o t \in Seq(Chars) /\ Len(u \o t) = n + 3
      /\ \A i \in 1..(n + 3) : (u \o t)[i] = IF i <= n THEN u[i] ELSE t[i - n]
  <2>1. /\ u \o t \in Seq(Chars) /\ Len(u \o t) = Len(u) + Len(t)
        /\ \A i \in 1..(Len(u) + Len(t)) :
             (u \o t)[i] = IF i <= Len(u) THEN u[i] ELSE t[i - Len(u)]
    <3>1. u \in Seq(Chars) /\ t \in Seq(Chars)
      BY <1>1, <1>3
    <3> QED BY <3>1, ConcatProperties
  <2>2. Len(u) = n /\ Len(u) + Len(t) = n + 3
    BY <1>1, <1>3
  <2> QED BY <2>1, <2>2
<1>5. \A i \in 1..(n + 3) : (u \o t)[i] = v[i]
  <2> TAKE i \in 1..(n + 3)
  <2>0. i \in Int /\ (u \o t)[i] = (IF i <= n THEN u[i] ELSE t[i - n]) /\ v[i] = s[i]
    BY <1>2, <1>4
  <2>1. CASE i <= n
    <3>1. i \in 1..n
      BY <2>1
    <3> QED BY <2>0, <2>1, <3>1, <1>1
  <2>2. CASE i = n + 1
    <3>1. i - n = 1 /\ ~ (i <= n)
      BY <2>2
    <3> QED BY <2>0, <2>2, <3>1, <1>3
  <2>3. CASE i = n + 2
    <3>1. i - n = 2 /\ ~ (i <= n)
      BY <2>3
    <3> QED BY <2>0, <2>3, <3>1, <1>3
  <2>4. CASE i = n + 3
    <3>1. i - n = 3 /\ ~ (i <= n)
      BY <2>4
    <3> QED BY <2>0, <2>4, <3>1, <1>3
  <2>5. i <= n \/ i = n + 1 \/ i = n + 2 \/ i = n + 3
    OBVIOUS
  <2> QED BY <2>1, <2>2, <2>3, <2>4, <2>5
<1>6. u \o t = v
  BY <1>2, <1>4, <1>5, SeqEqual
<1> QED BY <1>6 DEF u, v, t

(* Where the text of the first n pieces ends: a tag stands for its fence.  *)
EndOf(D, n) == IF n \in D THEN n + 2 ELSE IF n - 1 \in D THEN n + 1 ELSE n

(* The piece of a place when the fences of D become tags. *)
FencePiece(s, D, i) ==
  IF i \in D THEN <<IF Rank(D, i) % 2 = 0 THEN Open[Fence] ELSE Close[Fence]>>
  ELSE IF i - 1 \in D \/ i - 2 \in D THEN <<>>
  ELSE <<s[i]>>

(* Every piece of a pass over fences is made of symbols. *)
LEMMA FencePieceIsText ==
  ASSUME NEW s \in Seq(Chars), NEW D, NEW i \in 1..Len(s)
  PROVE  FencePiece(s, D, i) \in Seq(Symbols)
<1>1. Open[Fence] \in Symbols /\ Close[Fence] \in Symbols /\ s[i] \in Symbols
  BY TagsOfMarks, ElementOfSeq, CharMeans DEF Symbols, Tags
<1> QED BY <1>1, OneIsText, EmptySeq DEF FencePiece

(* One more piece is its text. *)
LEMMA FenceStep ==
  ASSUME NEW s \in Seq(Chars), NEW D, D \subseteq Found(s, Fence),
         NEW n \in Nat, n + 1 <= Len(s), NEW g \in Seq(Symbols),
         Unmarked(g) = Upto(s, EndOf(D, n))
  PROVE  Unmarked(g \o FencePiece(s, D, n + 1)) = Upto(s, EndOf(D, n + 1))
<1> DEFINE i == n + 1
<1>0. Len(s) \in Nat /\ i \in 1..Len(s) /\ i - 1 = n /\ i - 2 = n - 1 /\ (n - 1) + 1 = n
      /\ (n - 1) + 2 = i
  BY LenProperties
<1>1. CASE i \in D
  <2>1. n \notin D /\ n - 1 \notin D
    BY <1>0, <1>1, FenceHere
  <2>2. EndOf(D, n) = n /\ EndOf(D, i) = n + 3
    BY <2>1, <1>1 DEF EndOf
  <2>3. n + 3 <= Len(s) /\ s[n + 1] = "tick" /\ s[n + 2] = "tick" /\ s[n + 3] = "tick"
    <3>1. i + 1 = n + 2 /\ i + 2 = n + 3
      OBVIOUS
    <3>2. /\ i + 2 \in 1..Len(s)
          /\ s[i] = "tick" /\ s[i + 1] = "tick" /\ s[i + 2] = "tick"
      BY <1>1, FenceHere
    <3> QED BY <3>1, <3>2, <1>0
  <2>4. PICK c : /\ FencePiece(s, D, i) = <<c>> /\ c \in Symbols
                 /\ Meaning(c) = <<"tick", "tick", "tick">>
    <3>1. PICK c : FencePiece(s, D, i) = <<c>> /\ c \in {"<pre>", "</pre>"}
      BY <1>1, TagsOfMarks DEF FencePiece
    <3> QED BY <3>1, OthersMean DEF Symbols, Tags
  <2>5. Unmarked(g \o <<c>>) = Upto(s, n) \o <<"tick", "tick", "tick">>
    BY <2>2, <2>4, AppendIsConcat, UnmarkedAppend
  <2> QED BY <2>2, <2>3, <2>4, <2>5, ThreeMore
<1>2. CASE i \notin D /\ (i - 1 \in D \/ i - 2 \in D)
  <2>1. FencePiece(s, D, i) = <<>>
    BY <1>2 DEF FencePiece
  <2>2. g \o FencePiece(s, D, i) = g
    BY <2>1, ConcatEmptySeq
  <2>3. CASE n \in D
    <3>1. EndOf(D, n) = n + 2 /\ EndOf(D, i) = i + 1 /\ i + 1 = n + 2
      BY <2>3, <1>0, <1>2 DEF EndOf
    <3> QED BY <3>1, <2>2
  <2>4. CASE n \notin D
    <3>1. EndOf(D, n) = n + 1 /\ EndOf(D, i) = i
      BY <2>4, <1>0, <1>2 DEF EndOf
    <3> QED BY <3>1, <2>2
  <2> QED BY <2>3, <2>4
<1>3. CASE i \notin D /\ i - 1 \notin D /\ i - 2 \notin D
  <2>1. FencePiece(s, D, i) = <<s[i]>>
    BY <1>3 DEF FencePiece
  <2>2. EndOf(D, n) = n /\ EndOf(D, i) = i
    BY <1>0, <1>3 DEF EndOf
  <2>3. s[i] \in Symbols /\ s[i] \in Chars /\ Meaning(s[i]) = <<s[i]>>
    BY <1>0, ElementOfSeq, CharMeans
  <2>4. Unmarked(g \o <<s[i]>>) = Upto(s, n) \o <<s[i]>>
    BY <2>2, <2>3, AppendIsConcat, UnmarkedAppend
  <2>5. n \in 0..(Len(s) - 1)
    BY <1>0
  <2>6. Upto(s, n + 1) = Upto(s, n) \o <<s[i]>>
    BY <2>3, <2>5, UptoMore, AppendIsConcat
  <2> QED BY <2>1, <2>2, <2>4, <2>6
<1> QED BY <1>1, <1>2, <1>3

(* A pass over fences keeps the text, *)
LEMMA FencesKeep ==
  ASSUME NEW s \in Seq(Chars)
  PROVE  /\ Alternate(s, Fence) \in Seq(Symbols)
         /\ Unmarked(Alternate(s, Fence)) = s
<1> DEFINE D == {i \in Found(s, Fence) :
                   Rank(Found(s, Fence), i) < (Cardinality(Found(s, Fence)) \div 2) * 2}
           P == [i \in DOMAIN s |-> FencePiece(s, D, i)]
<1>1. Alternate(s, Fence) = FlattenSeq(P)
  <2>1. Tagged(s, Fence, D) = FlattenSeq(P)
    <3> HIDE DEF D
    <3> QED BY DEF Tagged, FencePiece
  <2> QED BY <2>1 DEF Alternate
<1>2. D \subseteq Found(s, Fence)
  OBVIOUS
<1> HIDE DEF D
<1>3. DOMAIN s = 1..Len(s) /\ Len(s) \in Nat
  BY LenProperties
<1>4. P \in Seq(Seq(Symbols)) /\ Len(P) = Len(s) /\ \A i \in 1..Len(s) : P[i] = FencePiece(s, D, i)
  BY <1>3, FencePieceIsText
<1> HIDE DEF P
<1>5. PICK f : Joins(f, P, Symbols) /\ FlattenSeq(P) = f[Len(P)]
  BY <1>4, Flattened
<1> DEFINE S == {n \in Nat : n <= Len(s) => Unmarked(f[n]) = Upto(s, EndOf(D, n))}
<1>6. 0 \in S
  <2>1. \A i \in D : i >= 1
    BY <1>2 DEF Found
  <2>2. EndOf(D, 0) = 0
    BY <2>1 DEF EndOf
  <2> QED BY <2>2, <1>5, UptoEnds, UnmarkedEmpty DEF Joins
<1>7. ASSUME NEW n \in Nat, n \in S PROVE n + 1 \in S
  <2> SUFFICES ASSUME n + 1 <= Len(s)
               PROVE  Unmarked(f[n + 1]) = Upto(s, EndOf(D, n + 1))
    OBVIOUS
  <2>1. n \in 0..Len(s) /\ n + 1 \in 1..Len(s) /\ (n + 1) - 1 = n
    BY <1>3
  <2>2. Unmarked(f[n]) = Upto(s, EndOf(D, n))
    BY <1>7, <2>1
  <2>3. f[n] \in Seq(Symbols) /\ f[n + 1] = f[n] \o FencePiece(s, D, n + 1)
    BY <2>1, <1>4, <1>5 DEF Joins
  <2> QED BY <2>2, <2>3, <1>2, FenceStep
<1>8. Nat \subseteq S
  <2> HIDE DEF S
  <2> QED BY <1>6, <1>7, SetInduction
<1>9. f[Len(s)] \in Seq(Symbols)
  BY <1>3, <1>4, <1>5 DEF Joins
<1>10. EndOf(D, Len(s)) = Len(s)
  <2>1. \A i \in D : i \in 1..(Len(s) - 2)
    BY <1>2 DEF Found
  <2>2. Len(s) \notin D /\ Len(s) - 1 \notin D
    BY <2>1, <1>3
  <2> QED BY <2>2 DEF EndOf
<1>11. Unmarked(f[Len(s)]) = s
  BY <1>3, <1>8, <1>10, UptoEnds
<1> QED BY <1>1, <1>4, <1>5, <1>9, <1>11

(* and so does the whole conversion, for a text without tags. *)
LEMMA ConversionKeeps ==
  ASSUME NEW s \in Seq(Chars)
  PROVE  Unmarked(MDToHTML(s)) = s
<1> DEFINE a == Alternate(s, Fence)
           b == Alternate(a, "tick")
           c == Alternate(b, "star")
           d == Alternate(c, "line")
<1>0. "tick" \in Marks /\ "star" \in Marks /\ "line" \in Marks
  BY DEF Marks
<1>1. a \in Seq(Symbols) /\ Unmarked(a) = s
  BY FencesKeep
<1> HIDE DEF a
<1>2. b \in Seq(Symbols) /\ Unmarked(b) = Unmarked(a)
  BY <1>0, <1>1, PassKeeps
<1> HIDE DEF b
<1>3. c \in Seq(Symbols) /\ Unmarked(c) = Unmarked(b)
  BY <1>0, <1>2, PassKeeps
<1> HIDE DEF c
<1>4. Unmarked(d) = Unmarked(c)
  BY <1>0, <1>3, PassKeeps
<1>5. MDToHTML(s) = d
  BY DEF MDToHTML, a, b, c, d
<1> HIDE DEF d
<1> QED BY <1>1, <1>2, <1>3, <1>4, <1>5
---------------------------------------------------------------------------
(* Pages contain marks and text, but no tags.  Two texts side by side. *)
LEMMA Joined ==
  ASSUME NEW a \in Seq(Chars), NEW b \in Seq(Chars)
  PROVE  a \o b \in Seq(Chars)
BY ConcatProperties

(* Short sequences. *)
LEMMA FourIsText ==
  ASSUME NEW a \in Chars, NEW b \in Chars
  PROVE  <<a, a, a, b>> \in Seq(Chars) /\ <<b, a, a, a>> \in Seq(Chars)
OBVIOUS

(* Every form of the pages keeps it so. *)
LEMMA Wrapped ==
  ASSUME NEW t \in Seq(Chars)
  PROVE  /\ Text \in Seq(Chars)
         /\ Bold(t) \in Seq(Chars)
         /\ Italic(t) \in Seq(Chars)
         /\ Code(t) \in Seq(Chars)
         /\ Fenced(t) \in Seq(Chars)
         /\ Titled(t) \in Seq(Chars)
<1>1. {"tick", "star", "line", "x"} \subseteq Chars
  BY DEF Chars, Marks
<1>2. /\ <<"tick">> \in Seq(Chars) /\ <<"star">> \in Seq(Chars)
      /\ <<"line">> \in Seq(Chars) /\ Text \in Seq(Chars)
  BY <1>1, OneIsText DEF Text
<1>3. /\ <<"tick", "tick", "tick", "x">> \in Seq(Chars)
      /\ <<"x", "tick", "tick", "tick">> \in Seq(Chars)
  BY <1>1, FourIsText
<1>4. \A u \in Seq(Chars) : Bold(u) \in Seq(Chars)
  BY <1>2, Joined DEF Bold
<1>5. Italic(t) \in Seq(Chars)
  BY <1>2, Joined DEF Italic
<1>6. Code(t) \in Seq(Chars)
  BY <1>2, Joined DEF Code
<1>7. Fenced(t) \in Seq(Chars)
  BY <1>3, Joined DEF Fenced
<1>8. Titled(t) \in Seq(Chars)
  BY <1>2, <1>4, Joined DEF Titled
<1> QED BY <1>2, <1>4, <1>5, <1>6, <1>7, <1>8

(* What is put into them. *)
LEMMA TextsAreText == \A t \in Texts \X Texts : t[1] \in Seq(Chars) /\ t[2] \in Seq(Chars)
<1>1. Texts \subseteq Seq(Chars)
  BY MaxLenAssumption DEF Texts, SeqOf, Chars
<1> QED BY <1>1

(* Every page, with any two texts. *)
LEMMA PageIsText ==
  ASSUME NEW p \in Pages, NEW t \in Texts \X Texts
  PROVE  Compose(p, t) \in Seq(Chars)
<1> DEFINE a == t[1]
           b == t[2]
<1>1. a \in Seq(Chars) /\ b \in Seq(Chars)
  BY TextsAreText
<1> HIDE DEF a, b
<1>2. Status(a, b) \in Seq(Chars)
  BY <1>1, Wrapped, Joined DEF Status
<1>3. BootPing(a, b) \in Seq(Chars)
  BY <1>2, Wrapped, Joined DEF BootPing
<1>4. WiFi(a, b) \in Seq(Chars)
  BY <1>1, Wrapped, Joined DEF WiFi
<1>5. WiFiNote(a, b) \in Seq(Chars)
  BY <1>4, Wrapped, Joined DEF WiFiNote
<1>6. ErrorPage(a, b) \in Seq(Chars)
  BY <1>1, Wrapped, Joined DEF ErrorPage
<1>7. Dump(a, b) \in Seq(Chars)
  BY <1>1, Wrapped, Joined DEF Dump
<1>8. DiskPage(a, b) \in Seq(Chars)
  BY <1>1, Wrapped, Joined DEF DiskPage
<1>9. UnknownDisk(a, b) \in Seq(Chars)
  BY <1>1, Wrapped, Joined DEF UnknownDisk
<1>10. CPUPage(a, b) \in Seq(Chars)
  BY <1>1, Wrapped, Joined DEF CPUPage
<1>11. p \in {"status", "boot ping", "wifi", "wifi note", "error", "dump",
              "disk", "unknown disk", "cpu"}
  BY PagesAssumption
<1> QED BY <1>2, <1>3, <1>4, <1>5, <1>6, <1>7, <1>8, <1>9, <1>10, <1>11 DEF Compose, a, b
---------------------------------------------------------------------------
(* Where a text has three ticks in a row, and where it has a symbol.       *)
Rows(s) ==
  {i \in 1..(Len(s) - 2) : s[i] = "tick" /\ s[i + 1] = "tick" /\ s[i + 2] = "tick"}

(* The places of a symbol. *)
At(s, c) == {i \in 1..Len(s) : s[i] = c}

(* At most one. *)
Single(S) == \A i, j \in S : i = j

(* A part of a page without fences, stars and lines. *)
Plain(s) == s \in Seq(Chars) /\ Rows(s) = {} /\ At(s, "star") = {} /\ At(s, "line") = {}

(* A part that has each of them at most once. *)
Calm(s) ==
  s \in Seq(Chars) /\ Single(Rows(s)) /\ Single(At(s, "star")) /\ Single(At(s, "line"))

(* The marks of a text that is put into a page. *)
MarkAt(t) == {i \in 1..Len(t) : t[i] \in Marks}

(* Text is one character that is no mark. *)
LEMMA TextIsText == Text \in Seq(Chars) /\ Len(Text) = 1 /\ Text[1] = "x"
<1>1. "x" \in Chars
  BY DEF Chars
<1> QED BY <1>1, OneIsText DEF Text

(* Sequences side by side. *)
LEMMA Cat ==
  ASSUME NEW C, NEW a \in Seq(C), NEW b \in Seq(C)
  PROVE  /\ a \o b \in Seq(C)
         /\ Len(a \o b) = Len(a) + Len(b)
         /\ \A i \in 1..Len(a) : (a \o b)[i] = a[i]
         /\ \A i \in 1..Len(b) : (a \o b)[Len(a) + i] = b[i]
BY ConcatProperties

(* Two parts with text between them. *)
LEMMA Beside ==
  ASSUME NEW u \in Seq(Chars), NEW v \in Seq(Chars)
  PROVE  /\ (u \o Text) \o v \in Seq(Chars)
         /\ Len((u \o Text) \o v) = Len(u) + 1 + Len(v)
         /\ \A i \in 1..Len(u) : ((u \o Text) \o v)[i] = u[i]
         /\ ((u \o Text) \o v)[Len(u) + 1] = "x"
         /\ \A i \in 1..Len(v) : ((u \o Text) \o v)[Len(u) + 1 + i] = v[i]
<1> DEFINE w == u \o Text
<1>0. Len(u) \in Nat /\ Len(v) \in Nat
  BY LenProperties
<1>1. /\ w \in Seq(Chars) /\ Len(w) = Len(u) + Len(Text)
      /\ \A i \in 1..Len(u) : w[i] = u[i]
      /\ \A i \in 1..Len(Text) : w[Len(u) + i] = Text[i]
  <2>1. Text \in Seq(Chars)
    BY TextIsText
  <2> QED BY <2>1, Cat
<1>2. Len(w) = Len(u) + 1 /\ w[Len(u) + 1] = "x"
  BY <1>0, <1>1, TextIsText
<1> HIDE DEF w
<1>3. /\ w \o v \in Seq(Chars) /\ Len(w \o v) = Len(w) + Len(v)
      /\ \A i \in 1..Len(w) : (w \o v)[i] = w[i]
      /\ \A i \in 1..Len(v) : (w \o v)[Len(w) + i] = v[i]
  <2>1. w \in Seq(Chars)
    BY <1>1
  <2> QED BY <2>1, Cat
<1>4. Len(u) + 1 \in 1..Len(w) /\ \A i \in 1..Len(u) : i \in 1..Len(w)
  BY <1>0, <1>2
<1> QED BY <1>1, <1>2, <1>3, <1>4 DEF w

(* Text keeps what is before it apart from what follows. *)
LEMMA BesideHas ==
  ASSUME NEW u \in Seq(Chars), NEW v \in Seq(Chars),
         NEW w, w = (u \o Text) \o v
  PROVE  /\ \A i \in Rows(w) : i \in Rows(u) \/ i - (Len(u) + 1) \in Rows(v)
         /\ \A c \in Marks : \A i \in At(w, c) : i \in At(u, c) \/ i - (Len(u) + 1) \in At(v, c)
<1> DEFINE n == Len(u)
           m == Len(v)
<1>1. n \in Nat /\ m \in Nat
  BY LenProperties
<1>2. /\ Len(w) = n + 1 + m
      /\ \A i \in 1..n : w[i] = u[i]
      /\ w[n + 1] = "x"
      /\ \A i \in 1..m : w[n + 1 + i] = v[i]
  BY Beside
<1> HIDE DEF n, m
<1>3. ASSUME NEW i \in (n + 2)..(n + 1 + m)
      PROVE  i - (n + 1) \in 1..m /\ w[i] = v[i - (n + 1)]
  <2>1. i - (n + 1) \in 1..m /\ n + 1 + (i - (n + 1)) = i
    BY <1>1
  <2> QED BY <2>1, <1>2
<1>4. ASSUME NEW i \in Rows(w) PROVE i \in Rows(u) \/ i - (n + 1) \in Rows(v)
  <2>1. /\ i \in 1..(n + 1 + m - 2)
        /\ w[i] = "tick" /\ w[i + 1] = "tick" /\ w[i + 2] = "tick"
    <3>1. /\ i \in 1..(Len(w) - 2)
          /\ w[i] = "tick" /\ w[i + 1] = "tick" /\ w[i + 2] = "tick"
      BY DEF Rows
    <3>2. Len(w) = n + 1 + m
      BY <1>2
    <3> QED BY <3>1, <3>2, <1>1
  <2>2. i # n + 1 /\ i + 1 # n + 1 /\ i + 2 # n + 1
    BY <2>1, <1>2
  <2>3. CASE i + 2 <= n
    <3>1. i \in 1..n /\ i + 1 \in 1..n /\ i + 2 \in 1..n /\ i \in 1..(n - 2)
      BY <2>1, <2>3, <1>1
    <3>2. u[i] = "tick" /\ u[i + 1] = "tick" /\ u[i + 2] = "tick"
      BY <2>1, <3>1, <1>2
    <3> QED BY <3>1, <3>2 DEF Rows, n
  <2>4. CASE i > n + 1
    <3> DEFINE j == i - (n + 1)
    <3>1. /\ i \in (n + 2)..(n + 1 + m) /\ i + 1 \in (n + 2)..(n + 1 + m)
          /\ i + 2 \in (n + 2)..(n + 1 + m)
          /\ (i + 1) - (n + 1) = j + 1 /\ (i + 2) - (n + 1) = j + 2
          /\ j \in 1..(m - 2)
      BY <2>1, <2>4, <1>1
    <3>2. v[j] = "tick" /\ v[j + 1] = "tick" /\ v[j + 2] = "tick"
      <4>1. w[i] = v[i - (n + 1)] /\ w[i + 1] = v[(i + 1) - (n + 1)]
            /\ w[i + 2] = v[(i + 2) - (n + 1)]
        BY <3>1, <1>3
      <4> QED BY <4>1, <2>1, <3>1
    <3> QED BY <3>1, <3>2 DEF Rows, m
  <2> QED BY <2>1, <2>2, <2>3, <2>4, <1>1
<1>5. ASSUME NEW c \in Marks, NEW i \in At(w, c)
      PROVE  i \in At(u, c) \/ i - (n + 1) \in At(v, c)
  <2>1. i \in 1..(n + 1 + m) /\ w[i] = c
    BY <1>2 DEF At
  <2>2. c # "x"
    BY DEF Marks
  <2>3. i # n + 1
    BY <2>1, <2>2, <1>2
  <2>4. CASE i <= n
    <3>1. i \in 1..n
      BY <2>1, <2>4, <1>1
    <3> QED BY <3>1, <2>1, <1>2 DEF At, n
  <2>5. CASE i > n + 1
    <3>1. i \in (n + 2)..(n + 1 + m)
      BY <2>1, <2>5, <1>1
    <3> QED BY <3>1, <2>1, <1>3 DEF At, m
  <2> QED BY <2>1, <2>3, <2>4, <2>5, <1>1
<1> QED BY <1>4, <1>5 DEF n

(* What is found in two parts: nothing, or at most one in one of them. *)
LEMMA SetsApart ==
  ASSUME NEW A, NEW B, NEW W, NEW n \in Int, W \subseteq Int,
         \A i \in W : i \in A \/ i - n \in B
  PROVE  /\ A = {} /\ B = {} => W = {}
         /\ Single(A) /\ B = {} => Single(W)
         /\ A = {} /\ Single(B) => Single(W)
BY DEF Single

(* Plain parts make a plain whole, and one calm part makes a calm one. *)
LEMMA PlainBeside ==
  ASSUME NEW u, NEW v
  PROVE  /\ Plain(u) /\ Plain(v) => Plain((u \o Text) \o v)
         /\ Calm(u) /\ Plain(v) => Calm((u \o Text) \o v)
         /\ Plain(u) /\ Calm(v) => Calm((u \o Text) \o v)
<1> SUFFICES ASSUME u \in Seq(Chars), v \in Seq(Chars)
             PROVE  /\ Plain(u) /\ Plain(v) => Plain((u \o Text) \o v)
                    /\ Calm(u) /\ Plain(v) => Calm((u \o Text) \o v)
                    /\ Plain(u) /\ Calm(v) => Calm((u \o Text) \o v)
  BY DEF Plain, Calm
<1> DEFINE w == (u \o Text) \o v
           n == Len(u) + 1
<1>1. w \in Seq(Chars) /\ n \in Int
  BY Beside, LenProperties
<1>2. /\ \A i \in Rows(w) : i \in Rows(u) \/ i - n \in Rows(v)
      /\ \A c \in Marks : \A i \in At(w, c) : i \in At(u, c) \/ i - n \in At(v, c)
  BY BesideHas
<1>3. Rows(w) \subseteq Int /\ \A c : At(w, c) \subseteq Int
  BY DEF Rows, At
<1> HIDE DEF w, n
<1>4. /\ Rows(u) = {} /\ Rows(v) = {} => Rows(w) = {}
      /\ Single(Rows(u)) /\ Rows(v) = {} => Single(Rows(w))
      /\ Rows(u) = {} /\ Single(Rows(v)) => Single(Rows(w))
  BY <1>1, <1>2, <1>3, SetsApart
<1>5. ASSUME NEW c \in Marks
      PROVE  /\ At(u, c) = {} /\ At(v, c) = {} => At(w, c) = {}
             /\ Single(At(u, c)) /\ At(v, c) = {} => Single(At(w, c))
             /\ At(u, c) = {} /\ Single(At(v, c)) => Single(At(w, c))
  <2>1. \A i \in At(w, c) : i \in At(u, c) \/ i - n \in At(v, c)
    BY <1>2
  <2> QED BY <2>1, <1>1, <1>3, SetsApart
<1>6. "star" \in Marks /\ "line" \in Marks
  BY DEF Marks
<1>7. /\ Plain(u) /\ Plain(v) => Plain(w)
      /\ Calm(u) /\ Plain(v) => Calm(w)
      /\ Plain(u) /\ Calm(v) => Calm(w)
  BY <1>1, <1>4, <1>5, <1>6 DEF Plain, Calm
<1> QED BY <1>7 DEF w

(* Code keeps it at one. *)
LEMMA CodeIs ==
  ASSUME NEW t \in Seq(Chars)
  PROVE  /\ Code(t) \in Seq(Chars) /\ Len(Code(t)) = Len(t) + 2
         /\ Code(t)[1] = "tick" /\ Code(t)[Len(t) + 2] = "tick"
         /\ \A i \in 1..Len(t) : Code(t)[i + 1] = t[i]
<1> DEFINE k == <<"tick">>
           q == k \o t
<1>0. Len(t) \in Nat
  BY LenProperties
<1>1. k \in Seq(Chars) /\ Len(k) = 1 /\ k[1] = "tick"
  <2>1. "tick" \in Chars
    BY DEF Chars, Marks
  <2> QED BY <2>1, OneIsText
<1> HIDE DEF k
<1>2. /\ q \in Seq(Chars) /\ Len(q) = Len(k) + Len(t)
      /\ \A i \in 1..Len(k) : q[i] = k[i]
      /\ \A i \in 1..Len(t) : q[Len(k) + i] = t[i]
  <2>1. k \in Seq(Chars)
    BY <1>1
  <2> QED BY <2>1, Cat
<1>3. Len(q) = Len(t) + 1 /\ q[1] = "tick" /\ \A i \in 1..Len(t) : q[i + 1] = t[i]
  <2>1. 1 \in 1..Len(k) /\ \A i \in 1..Len(t) : Len(k) + i = i + 1
    BY <1>1
  <2> QED BY <2>1, <1>0, <1>1, <1>2
<1> HIDE DEF q
<1>4. /\ q \o k \in Seq(Chars) /\ Len(q \o k) = Len(q) + Len(k)
      /\ \A i \in 1..Len(q) : (q \o k)[i] = q[i]
      /\ \A i \in 1..Len(k) : (q \o k)[Len(q) + i] = k[i]
  <2>1. k \in Seq(Chars) /\ q \in Seq(Chars)
    BY <1>1, <1>2
  <2> QED BY <2>1, Cat
<1>5. /\ Len(q) + Len(k) = Len(t) + 2 /\ Len(q) + 1 = Len(t) + 2
      /\ 1 \in 1..Len(k) /\ 1 \in 1..Len(q)
      /\ \A i \in 1..Len(t) : i + 1 \in 1..Len(q)
  BY <1>0, <1>1, <1>3
<1>6. (q \o k)[Len(t) + 2] = "tick"
  BY <1>1, <1>4, <1>5
<1>7. Code(t) = q \o k
  BY DEF Code, q, k
<1> QED BY <1>3, <1>4, <1>5, <1>6, <1>7

(* The marks of code other than its ticks are those of its text, and it    *)
(* has three ticks in a row only around a mark of its text.                *)
LEMMA CodeHas ==
  ASSUME NEW t \in Seq(Chars)
  PROVE  /\ \A c \in Marks \ {"tick"} : \A i \in At(Code(t), c) : i - 1 \in MarkAt(t)
         /\ MarkAt(t) = {} => Rows(Code(t)) = {}
         /\ Single(MarkAt(t)) => Single(Rows(Code(t)))
<1> DEFINE w == Code(t)
           n == Len(t)
<1>1. n \in Nat
  BY LenProperties
<1>2. /\ Len(w) = n + 2 /\ w[1] = "tick" /\ w[n + 2] = "tick"
      /\ \A i \in 1..n : w[i + 1] = t[i]
  BY CodeIs
<1> HIDE DEF w
<1>3. ASSUME NEW i \in 2..(n + 1) PROVE i - 1 \in 1..n /\ w[i] = t[i - 1]
  <2>1. i - 1 \in 1..n /\ (i - 1) + 1 = i
    BY <1>1
  <2> QED BY <2>1, <1>2
<1>4. ASSUME NEW c \in Marks \ {"tick"}, NEW i \in At(w, c) PROVE i - 1 \in MarkAt(t)
  <2>1. i \in 1..(n + 2) /\ w[i] = c /\ c \in Marks /\ c # "tick"
    BY <1>2 DEF At
  <2>2. i # 1 /\ i # n + 2
    BY <2>1, <1>2
  <2>3. i \in 2..(n + 1)
    BY <2>1, <2>2, <1>1
  <2> QED BY <2>1, <2>3, <1>3 DEF MarkAt
<1>5. ASSUME NEW i \in Rows(w)
      PROVE  /\ i \in MarkAt(t)
             /\ i # 1 => i - 1 \in MarkAt(t)
  <2>1. i \in 1..n /\ w[i] = "tick" /\ w[i + 1] = "tick" /\ w[i + 2] = "tick"
    BY <1>1, <1>2 DEF Rows
  <2>2. "tick" \in Marks
    BY DEF Marks
  <2>3. t[i] = "tick"
    BY <2>1, <1>2
  <2>4. i # 1 => i - 1 \in 1..n /\ t[i - 1] = "tick"
    <3> SUFFICES ASSUME i # 1 PROVE i - 1 \in 1..n /\ t[i - 1] = "tick"
      OBVIOUS
    <3>1. i \in 2..(n + 1)
      BY <2>1, <1>1
    <3> QED BY <3>1, <2>1, <1>3
  <2> QED BY <2>1, <2>2, <2>3, <2>4 DEF MarkAt
<1>6. MarkAt(t) = {} => Rows(w) = {}
  BY <1>5
<1>7. Single(MarkAt(t)) => Single(Rows(w))
  <2> SUFFICES ASSUME Single(MarkAt(t)) PROVE \A i \in Rows(w) : i = 1
    BY DEF Single
  <2> TAKE i \in Rows(w)
  <2>1. i \in Int
    BY DEF Rows
  <2>2. i # 1 => i - 1 = i
    BY <1>5 DEF Single
  <2> QED BY <2>1, <2>2
<1> QED BY <1>4, <1>6, <1>7 DEF w

(* Code of a text without marks is plain, and of a text with one is calm. *)
LEMMA CodeIsCalm ==
  ASSUME NEW t \in Seq(Chars)
  PROVE  /\ MarkAt(t) = {} => Plain(Code(t))
         /\ Single(MarkAt(t)) => Calm(Code(t))
<1>1. Code(t) \in Seq(Chars)
  BY CodeIs
<1>2. \A c \in Marks \ {"tick"} : \A i \in At(Code(t), c) : i - 1 \in MarkAt(t)
  BY CodeHas
<1>3. {"star", "line"} \subseteq Marks \ {"tick"}
  BY DEF Marks
<1>4. \A c : At(Code(t), c) \subseteq Int
  BY DEF At
<1>5. MarkAt(t) = {} => At(Code(t), "star") = {} /\ At(Code(t), "line") = {}
  BY <1>2, <1>3
<1>6. Single(MarkAt(t)) => Single(At(Code(t), "star")) /\ Single(At(Code(t), "line"))
  <2>1. ASSUME NEW c \in Marks \ {"tick"}, Single(MarkAt(t))
        PROVE  Single(At(Code(t), c))
    <3> SUFFICES ASSUME NEW i \in At(Code(t), c), NEW j \in At(Code(t), c)
                 PROVE  i = j
      BY DEF Single
    <3>1. i - 1 = j - 1
      BY <1>2, <2>1 DEF Single
    <3> QED BY <3>1, <1>4
  <2> QED BY <2>1, <1>3
<1> QED BY <1>1, <1>5, <1>6, CodeHas DEF Plain, Calm
---------------------------------------------------------------------------
(* The places of a set, counted in order. *)
LEMMA RankGrows ==
  ASSUME NEW D, NEW n \in Nat, D \subseteq 1..n, NEW i \in Nat
  PROVE  /\ Rank(D, i) \in Nat
         /\ Rank(D, i + 1) = IF i \in D THEN Rank(D, i) + 1 ELSE Rank(D, i)
<1> DEFINE B == {j \in D : j < i}
           A == {j \in D : j < i + 1}
<1>1. IsFiniteSet(B)
  BY FS_Interval, FS_Subset, 1 \in Int, n \in Int, B \subseteq 1..n
<1>2. i \notin B
  OBVIOUS
<1>3. ASSUME NEW j \in D PROVE j < i + 1 <=> j < i \/ j = i
  OBVIOUS
<1>4. i \in D => A = B \cup {i}
  <2> SUFFICES ASSUME i \in D PROVE \A j : j \in A <=> j \in B \/ j = i
    BY Zenon
  <2> QED BY <1>3
<1>5. i \notin D => A = B
  <2> SUFFICES ASSUME i \notin D PROVE \A j : j \in A <=> j \in B
    BY Zenon
  <2> QED BY <1>3
<1>6. Cardinality(B) \in Nat /\ Cardinality(B \cup {i}) = Cardinality(B) + 1
  <2> HIDE DEF B
  <2> QED BY <1>1, <1>2, FS_CardinalityType, FS_AddElement
<1> HIDE DEF A, B
<1>7. CASE i \in D
  BY <1>7, <1>4, <1>6 DEF Rank, A, B
<1>8. CASE i \notin D
  BY <1>8, <1>5, <1>6 DEF Rank, A, B
<1> QED BY <1>7, <1>8

(* The rank of what follows all of a set is its size, of its first one 0. *)
LEMMA RankEnds ==
  ASSUME NEW D, NEW n \in Nat, D \subseteq 1..n
  PROVE  /\ Cardinality(D) \in Nat
         /\ Rank(D, n + 1) = Cardinality(D)
         /\ \A i \in Nat : (\A j \in D : ~(j < i)) => Rank(D, i) = 0
<1>1. {j \in D : j < n + 1} = D
  <2>1. \A j \in D : j < n + 1
    OBVIOUS
  <2> QED BY <2>1
<1>2. IsFiniteSet(D)
  BY FS_Interval, FS_Subset, 1 \in Int, n \in Int
<1>3. ASSUME NEW i \in Nat, \A j \in D : ~(j < i) PROVE Rank(D, i) = 0
  <2>1. {j \in D : j < i} = {}
    BY <1>3
  <2> QED BY <2>1, FS_EmptySet DEF Rank
<1> QED BY <1>1, <1>2, <1>3, FS_CardinalityType DEF Rank

(* Found and kept are places of the text. *)
LEMMA KeptIsFound ==
  ASSUME NEW s \in Seq(Symbols), NEW mark \in Marks
  PROVE  /\ Found(s, mark) = At(s, mark)
         /\ Found(s, mark) \subseteq 1..Len(s)
         /\ Kept(s, mark) \subseteq Found(s, mark)
         /\ Kept(s, mark) \subseteq 1..Len(s)
<1>1. DOMAIN s = 1..Len(s)
  BY LenProperties
<1>2. mark # Fence
  BY DEF Marks, Fence
<1> QED BY <1>1, <1>2 DEF Found, Kept, At

(* The marks kept are the first ones, an even number of them. *)
LEMMA KeptIsEven ==
  ASSUME NEW s \in Seq(Symbols), NEW mark \in Marks
  PROVE  Rank(Kept(s, mark), Len(s) + 1) % 2 = 0
<1> DEFINE D == Found(s, mark)
           K == Kept(s, mark)
           u == (Cardinality(D) \div 2) * 2
<1>1. Len(s) \in Nat /\ D \subseteq 1..Len(s) /\ K \subseteq 1..Len(s)
  BY KeptIsFound, LenProperties
<1>2. \A i : i \in K <=> i \in D /\ Rank(D, i) < u
  BY DEF Kept
<1>3. Cardinality(D) \in Nat /\ Rank(D, Len(s) + 1) = Cardinality(D)
  BY <1>1, RankEnds
<1> HIDE DEF D, K
<1>4. u \in Nat /\ u <= Cardinality(D) /\ u % 2 = 0
  BY <1>3
<1> HIDE DEF u
<1> DEFINE S == {n \in Nat : Rank(K, n) = IF Rank(D, n) <= u THEN Rank(D, n) ELSE u}
<1>5. 0 \in S
  <2>1. (\A j \in D : ~(j < 0)) /\ (\A j \in K : ~(j < 0))
    BY <1>1
  <2>2. Rank(D, 0) = 0 /\ Rank(K, 0) = 0
    BY <2>1, <1>1, RankEnds
  <2> QED BY <2>2, <1>4
<1>6. ASSUME NEW n \in Nat, n \in S PROVE n + 1 \in S
  <2>1. /\ Rank(D, n) \in Nat /\ Rank(K, n) \in Nat
        /\ Rank(D, n + 1) = IF n \in D THEN Rank(D, n) + 1 ELSE Rank(D, n)
        /\ Rank(K, n + 1) = IF n \in K THEN Rank(K, n) + 1 ELSE Rank(K, n)
    BY <1>1, RankGrows
  <2>2. Rank(K, n) = IF Rank(D, n) <= u THEN Rank(D, n) ELSE u
    BY <1>6
  <2>3. n \in K <=> n \in D /\ Rank(D, n) < u
    BY <1>2
  <2>4. Rank(K, n + 1) = IF Rank(D, n + 1) <= u THEN Rank(D, n + 1) ELSE u
    BY <2>1, <2>2, <2>3, <1>4
  <2> QED BY <2>4
<1>7. Nat \subseteq S
  <2> HIDE DEF S
  <2> QED BY <1>5, <1>6, SetInduction
<1>8. Rank(K, Len(s) + 1) = u
  <2>1. Len(s) + 1 \in S
    BY <1>1, <1>7
  <2> QED BY <2>1, <1>3, <1>4
<1> QED BY <1>4, <1>8 DEF K

(* A mark or a fence on its own is left as it is. *)
LEMMA SingleIsOdd ==
  ASSUME NEW S, Single(S)
  PROVE  (Cardinality(S) \div 2) * 2 = 0
<1>1. CASE S = {}
  BY <1>1, FS_EmptySet
<1>2. CASE S # {}
  <2>1. PICK e : S = {e}
    BY <1>2 DEF Single
  <2>2. Cardinality(S) = 1
    BY <2>1, FS_Singleton
  <2>3. (1 \div 2) * 2 = 0
    OBVIOUS
  <2> QED BY <2>2, <2>3
<1> QED BY <1>1, <1>2

(* A pass over a mark that is there once changes nothing. *)
LEMMA LoneMark ==
  ASSUME NEW s \in Seq(Symbols), NEW mark \in Marks, Single(At(s, mark))
  PROVE  Alternate(s, mark) = s
<1>1. Kept(s, mark) = {}
  <2>1. (Cardinality(Found(s, mark)) \div 2) * 2 = 0
    BY KeptIsFound, SingleIsOdd
  <2>2. \A i \in Found(s, mark) : Rank(Found(s, mark), i) \in Nat
    <3>1. Len(s) \in Nat /\ Found(s, mark) \subseteq 1..Len(s)
      BY KeptIsFound, LenProperties
    <3>2. \A i \in Found(s, mark) : i \in Nat
      BY <3>1
    <3> QED BY <3>1, <3>2, RankGrows
  <2>3. \A i \in Found(s, mark) : ~(Rank(Found(s, mark), i) < 0)
    BY <2>2
  <2> QED BY <2>1, <2>3 DEF Kept
<1>2. \A i \in 1..Len(s) : Put(s, mark, i) = s[i]
  BY <1>1 DEF Put
<1>3. s = [i \in 1..Len(s) |-> s[i]]
  BY LenProperties
<1> QED BY <1>2, <1>3, PassIsPointwise

(* Nor does the pass over fences, when there are three ticks once. *)
LEMMA LoneRow ==
  ASSUME NEW s \in Seq(Chars), Single(Rows(s))
  PROVE  Alternate(s, Fence) = s
<1> DEFINE F == Found(s, Fence)
<1>1. F \subseteq Rows(s) /\ F \subseteq 1..Len(s) /\ Len(s) \in Nat
  <2>1. Len(s) \in Nat
    BY LenProperties
  <2>2. ASSUME NEW i \in F PROVE i \in Rows(s) /\ i \in 1..Len(s)
    <3>1. i \in 1..(Len(s) - 2) /\ \A k \in i..(i + 2) : s[k] = "tick"
      BY DEF Found
    <3>2. i \in i..(i + 2) /\ i + 1 \in i..(i + 2) /\ i + 2 \in i..(i + 2)
      BY <3>1, <2>1
    <3> QED BY <3>1, <3>2, <2>1 DEF Rows
  <2> QED BY <2>1, <2>2
<1>2. (Cardinality(F) \div 2) * 2 = 0
  <2>1. Single(F)
    BY <1>1 DEF Single
  <2> QED BY <2>1, SingleIsOdd
<1> HIDE DEF F
<1>3. {i \in F : Rank(F, i) < (Cardinality(F) \div 2) * 2} = {}
  <2>1. \A i \in F : Rank(F, i) \in Nat
    <3>1. \A i \in F : i \in Nat
      BY <1>1
    <3> QED BY <3>1, <1>1, RankGrows
  <2>2. \A i \in F : ~(Rank(F, i) < 0)
    BY <2>1
  <2> QED BY <2>2, <1>2
<1>4. Alternate(s, Fence) = Tagged(s, Fence, {})
  BY <1>3 DEF Alternate, F
<1>5. Tagged(s, Fence, {}) = FlattenSeq([i \in DOMAIN s |-> <<s[i]>>])
  BY DEF Tagged
<1> QED BY <1>4, <1>5, FlattenSingles
---------------------------------------------------------------------------
(* The stack of open tags is any function that follows it. *)
Reads(f, h) ==
  f = [i \in 0..Len(h) |-> IF i = 0 THEN <<>> ELSE Read(f[i - 1], h[i])]

(* A page nests when some reading of it, step by step, ends with no tag    *)
(* open: it is the reading of Nests.                                       *)
LEMMA Follows ==
  ASSUME NEW h, Len(h) \in Nat, NEW f, f[0] = <<>>, f[Len(h)] = <<>>,
         \A i \in 1..Len(h) : f[i] = Read(f[i - 1], h[i])
  PROVE  Nests(h)
<1> DEFINE g == [i \in 0..Len(h) |-> f[i]]
           c == CHOOSE d : Reads(d, h)
           S == {n \in Nat : n <= Len(h) => c[n] = f[n]}
<1>1. Reads(g, h)
  <2>1. ASSUME NEW i \in 0..Len(h)
        PROVE  f[i] = IF i = 0 THEN <<>> ELSE Read(g[i - 1], h[i])
    <3>1. CASE i = 0
      BY <3>1
    <3>2. CASE i # 0
      <4>1. i \in 1..Len(h) /\ i - 1 \in 0..Len(h)
        BY <3>2
      <4>2. g[i - 1] = f[i - 1]
        BY <4>1
      <4> HIDE DEF g
      <4> QED BY <3>2, <4>1, <4>2
    <3> QED BY <3>1, <3>2
  <2> QED BY <2>1 DEF Reads
<1>2. Reads(c, h)
  BY <1>1
<1>3. Nests(h) <=> c[Len(h)] = <<>>
  BY DEF Nests, Reads
<1> HIDE DEF c, g
<1>4. 0 \in S
  <2>1. c[0] = <<>>
    BY <1>2 DEF Reads
  <2> QED BY <2>1
<1>5. ASSUME NEW n \in Nat, n \in S PROVE n + 1 \in S
  <2> SUFFICES ASSUME n + 1 <= Len(h) PROVE c[n + 1] = f[n + 1]
    OBVIOUS
  <2>1. n + 1 \in 0..Len(h) /\ n + 1 \in 1..Len(h) /\ n + 1 # 0 /\ (n + 1) - 1 = n /\ n <= Len(h)
    OBVIOUS
  <2>2. c[n] = f[n]
    BY <1>5, <2>1
  <2>3. c[n + 1] = Read(c[(n + 1) - 1], h[n + 1])
    BY <2>1, <1>2 DEF Reads
  <2>4. f[n + 1] = Read(f[(n + 1) - 1], h[n + 1])
    BY <2>1
  <2> QED BY <2>1, <2>2, <2>3, <2>4
<1>6. Nat \subseteq S
  <2> HIDE DEF S
  <2> QED BY <1>4, <1>5, SetInduction
<1> QED BY <1>3, <1>6

(* What it makes of text, and of a tag and the one that closes it. *)
LEMMA MarksAndFence ==
  /\ DOMAIN Open = {"tick", "star", "line", "fence"}
  /\ DOMAIN Close = {"tick", "star", "line", "fence"}
  /\ \A m \in DOMAIN Open : Open[m] \in {"<pre>", "<code>", "<b>", "<i>"}
  /\ \A m \in DOMAIN Close : Close[m] \in {"</pre>", "</code>", "</b>", "</i>"}
<1>1. /\ DOMAIN Open = {"tick", "star", "line", "fence"}
      /\ DOMAIN Close = {"tick", "star", "line", "fence"}
  BY DEF Open, Close, Marks, Fence
<1> QED BY <1>1, TagsOfMarks DEF Fence

(* Text leaves the open tags as they are. *)
LEMMA ReadText ==
  ASSUME NEW st, NEW c \in Chars
  PROVE  Read(st, c) = st
<1>1. c \notin {"<pre>", "<code>", "<b>", "<i>"} /\ c \notin {"</pre>", "</code>", "</b>", "</i>"}
  BY DEF Chars, Marks
<1>2. ~(\E m \in DOMAIN Open : c = Open[m]) /\ ~(\E m \in DOMAIN Close : c = Close[m])
  BY <1>1, MarksAndFence
<1> QED BY <1>2 DEF Read

(* A tag opens, and its partner closes it. *)
LEMMA ReadTags ==
  ASSUME NEW m \in DOMAIN Open
  PROVE  /\ Read(<<>>, Open[m]) = <<Open[m]>>
         /\ Read(<<Open[m]>>, Close[m]) = <<>>
<1> DEFINE o == Open[m]
           k == Close[m]
<1>0. m \in DOMAIN Close
  BY MarksAndFence
<1>1. Read(<<>>, o) = Append(<<>>, o)
  <2>1. (\E n \in DOMAIN Open : o = Open[n]) /\ ~(\E n \in DOMAIN Close : o = Close[n])
    BY MarksAndFence
  <2> HIDE DEF o
  <2> QED BY <2>1 DEF Read
<1>2. Append(<<>>, o) = <<o>>
  <2> HIDE DEF o
  <2> QED OBVIOUS
<1>3. ~(\E n \in DOMAIN Open : k = Open[n])
  BY <1>0, MarksAndFence
<1>4. <<o>> # <<>> /\ Last(<<o>>) = o /\ Front(<<o>>) = <<>>
  <2> HIDE DEF o
  <2> QED BY DEF Last, Front
<1>5. Read(<<o>>, k) = Front(<<o>>)
  BY <1>0, <1>3, <1>4 DEF Read
<1> QED BY <1>1, <1>2, <1>4, <1>5

(* The stars of a title, and at most one behind. *)
TitleStars(s) ==
  /\ Len(s) >= 3
  /\ s[1] = "star" /\ s[2] = "x" /\ s[3] = "star"
  /\ Single({i \in At(s, "star") : i > 3})

(* The two stars of the title are then the ones that become tags. *)
LEMMA StarsKept ==
  ASSUME NEW s \in Seq(Symbols), TitleStars(s)
  PROVE  /\ Kept(s, "star") = {1, 3}
         /\ Rank(Kept(s, "star"), 1) = 0
         /\ Rank(Kept(s, "star"), 3) = 1
<1> DEFINE F == Found(s, "star")
           E == {i \in At(s, "star") : i > 3}
<1>0. Len(s) \in Nat /\ "star" \in Marks
  BY LenProperties DEF Marks
<1>1. F = At(s, "star") /\ F \subseteq 1..Len(s)
  BY <1>0, KeptIsFound
<1>2. F = {1, 3} \cup E
  <2>1. 1 \in At(s, "star") /\ 3 \in At(s, "star") /\ 2 \notin At(s, "star")
    BY <1>0 DEF TitleStars, At
  <2>2. \A i \in At(s, "star") : i = 1 \/ i = 2 \/ i = 3 \/ i > 3
    BY <1>0 DEF At
  <2> QED BY <2>1, <2>2, <1>1
<1>3. E = {} \/ \E e : E = {e}
  BY DEF Single, TitleStars
<1>4. \A e \in E : e \in Nat /\ e > 3
  BY <1>0 DEF At
<1> HIDE DEF E, F
<1>5. IsFiniteSet({1, 3}) /\ Cardinality({1, 3}) = 2
  <2>1. IsFiniteSet({1}) /\ Cardinality({1}) = 1
    BY FS_Singleton
  <2>2. IsFiniteSet({1} \cup {3}) /\ Cardinality({1} \cup {3}) = 1 + 1
    BY <2>1, FS_AddElement, 3 \notin {1}
  <2>3. {1} \cup {3} = {1, 3} /\ 1 + 1 = 2
    OBVIOUS
  <2> QED BY <2>2, <2>3, Zenon
<1>6. (Cardinality(F) \div 2) * 2 = 2
  <2>1. CASE E = {}
    <3>1. F = {1, 3}
      BY <2>1, <1>2
    <3>2. (2 \div 2) * 2 = 2
      OBVIOUS
    <3> QED BY <3>1, <3>2, <1>5
  <2>2. CASE E # {}
    <3>1. PICK e : E = {e}
      BY <2>2, <1>3
    <3>2. e \notin {1, 3} /\ F = {1, 3} \cup {e}
      BY <3>1, <1>2, <1>4
    <3>3. Cardinality(F) = 2 + 1
      BY <3>2, <1>5, FS_AddElement
    <3>4. ((2 + 1) \div 2) * 2 = 2
      OBVIOUS
    <3> QED BY <3>3, <3>4
  <2> QED BY <2>1, <2>2
<1>7. Rank(F, 1) = 0 /\ Rank(F, 3) = 1
  <2>1. \A j \in F : ~(j < 1)
    BY <1>1
  <2>2. Rank(F, 1) = 0
    BY <2>1, <1>0, <1>1, RankEnds, 1 \in Nat
  <2>3. 1 \in F /\ 2 \notin F
    BY <1>2, <1>4
  <2>4. Rank(F, 1 + 1) = Rank(F, 1) + 1
    BY <2>3, <1>0, <1>1, RankGrows, 1 \in Nat
  <2>5. Rank(F, 2 + 1) = Rank(F, 2)
    BY <2>3, <1>0, <1>1, RankGrows, 2 \in Nat
  <2> QED BY <2>2, <2>4, <2>5
<1>8. \A e \in E : Rank(F, e) = 2
  <2> SUFFICES ASSUME NEW e \in E PROVE Rank(F, e) = 2
    OBVIOUS
  <2>1. E = {e}
    BY <1>3
  <2>2. {j \in F : j < e} = {1, 3}
    <3>1. e \in Nat /\ e > 3
      BY <1>4
    <3>2. F = {1, 3} \cup {e}
      BY <2>1, <1>2
    <3>3. \A j \in F : j < e <=> j \in {1, 3}
      BY <3>1, <3>2
    <3>4. {1, 3} \subseteq F
      BY <3>2
    <3> QED BY <3>3, <3>4
  <2> QED BY <2>2, <1>5 DEF Rank
<1>9. Kept(s, "star") = {1, 3}
  <2>1. Kept(s, "star") = {i \in F : Rank(F, i) < 2}
    BY <1>6 DEF Kept, F
  <2>2. \A i \in F : Rank(F, i) < 2 <=> i \in {1, 3}
    <3> TAKE i \in F
    <3>1. CASE i \in {1, 3}
      BY <3>1, <1>7
    <3>2. CASE i \in E
      BY <3>2, <1>8, <1>4
    <3> QED BY <3>1, <3>2, <1>2
  <2>3. {1, 3} \subseteq F
    BY <1>2
  <2> QED BY <2>1, <2>2, <2>3
<1> DEFINE K == {1, 3}
<1>10. K \subseteq 1..Len(s)
  BY <1>1, <1>2
<1>11. Rank(K, 1) = 0 /\ Rank(K, 3) = 1
  <2>1. \A j \in K : ~(j < 1)
    OBVIOUS
  <2>2. Rank(K, 1) = 0
    BY <2>1, <1>0, <1>10, RankEnds, 1 \in Nat
  <2>3. 1 \in K /\ 2 \notin K
    OBVIOUS
  <2> HIDE DEF K
  <2>4. Rank(K, 1 + 1) = Rank(K, 1) + 1
    BY <2>3, <1>0, <1>10, RankGrows, 1 \in Nat
  <2>5. Rank(K, 2 + 1) = Rank(K, 2)
    BY <2>3, <1>0, <1>10, RankGrows, 2 \in Nat
  <2> QED BY <2>2, <2>4, <2>5
<1> QED BY <1>9, <1>11

(* The last two passes make the title bold, and nothing else. *)
LEMMA TitleNests ==
  ASSUME NEW s \in Seq(Symbols), TitleStars(s), Single(At(s, "line")),
         NEW f, f[3] = <<>>, f[Len(s)] = <<>>,
         \A i \in 4..Len(s) : f[i] = Read(f[i - 1], s[i])
  PROVE  Nests(Alternate(Alternate(s, "star"), "line"))
<1> DEFINE p == Alternate(s, "star")
           g == [i \in 0..Len(s) |-> IF i = 0 THEN <<>> ELSE IF i < 3 THEN <<"<b>">> ELSE f[i]]
<1>0. Len(s) \in Nat /\ Len(s) >= 3 /\ "star" \in Marks /\ "line" \in Marks
  BY LenProperties DEF Marks, TitleStars
<1>1. /\ p \in Seq(Symbols) /\ Len(p) = Len(s)
      /\ \A i \in 1..Len(s) : p[i] = Put(s, "star", i)
  BY <1>0, PassIsPointwise
<1> HIDE DEF p
<1>2. p[1] = "<b>" /\ p[2] = "x" /\ p[3] = "</b>" /\ \A i \in 4..Len(s) : p[i] = s[i]
  <2>1. Kept(s, "star") = {1, 3} /\ Rank(Kept(s, "star"), 1) = 0 /\ Rank(Kept(s, "star"), 3) = 1
    BY StarsKept
  <2>2. 0 % 2 = 0 /\ 1 % 2 # 0
    OBVIOUS
  <2>3. Put(s, "star", 1) = "<b>" /\ Put(s, "star", 3) = "</b>"
    BY <2>1, <2>2, TagsOfMarks DEF Put
  <2>4. \A i \in 1..Len(s) : i # 1 /\ i # 3 => Put(s, "star", i) = s[i]
    BY <2>1 DEF Put
  <2>5. 1 \in 1..Len(s) /\ 2 \in 1..Len(s) /\ 3 \in 1..Len(s) /\ s[2] = "x"
    BY <1>0 DEF TitleStars
  <2>6. \A i \in 4..Len(s) : i \in 1..Len(s) /\ i # 1 /\ i # 3
    BY <1>0
  <2> QED BY <2>3, <2>4, <2>5, <2>6, <1>1
<1>3. Alternate(p, "line") = p
  <2>1. At(p, "line") \subseteq At(s, "line")
    <3> SUFFICES ASSUME NEW i \in 1..Len(s), p[i] = "line" PROVE s[i] = "line"
      BY <1>1 DEF At
    <3>1. i # 1 /\ i # 2 /\ i # 3
      BY <1>2
    <3>2. i \in 4..Len(s)
      BY <3>1, <1>0
    <3> QED BY <3>2, <1>2
  <2>2. Single(At(p, "line"))
    BY <2>1 DEF Single
  <2> QED BY <2>2, <1>0, <1>1, LoneMark
<1>4. /\ g[0] = <<>> /\ g[1] = <<"<b>">> /\ g[2] = <<"<b>">>
      /\ \A i \in 3..Len(s) : g[i] = f[i]
  BY <1>0
<1> HIDE DEF g
<1>5. /\ Read(<<>>, "<b>") = <<"<b>">> /\ Read(<<"<b>">>, "</b>") = <<>>
      /\ Read(<<"<b>">>, "x") = <<"<b>">>
  <2>1. "star" \in DOMAIN Open
    BY MarksAndFence
  <2>2. "x" \in Chars
    BY DEF Chars
  <2> QED BY <2>1, <2>2, ReadTags, ReadText, TagsOfMarks
<1>6. ASSUME NEW i \in 1..Len(p) PROVE g[i] = Read(g[i - 1], p[i])
  <2>1. CASE i = 1
    BY <2>1, <1>2, <1>4, <1>5
  <2>2. CASE i = 2
    BY <2>2, <1>2, <1>4, <1>5
  <2>3. CASE i = 3
    <3>1. 3 \in 3..Len(s) /\ i - 1 = 2
      BY <2>3, <1>0
    <3> QED BY <2>3, <3>1, <1>2, <1>4, <1>5
  <2>4. CASE i > 3
    <3>1. i \in 4..Len(s) /\ i \in 3..Len(s) /\ i - 1 \in 3..Len(s)
      BY <2>4, <1>0, <1>1
    <3> QED BY <3>1, <1>2, <1>4
  <2>5. i = 1 \/ i = 2 \/ i = 3 \/ i > 3
    BY <1>0, <1>1
  <2> QED BY <2>1, <2>2, <2>3, <2>4, <2>5
<1>7. g[Len(p)] = <<>>
  <2>1. Len(s) \in 3..Len(s)
    BY <1>0
  <2> QED BY <2>1, <1>1, <1>4
<1>8. Nests(p)
  BY <1>0, <1>1, <1>4, <1>6, <1>7, Follows
<1> QED BY <1>3, <1>8 DEF p
---------------------------------------------------------------------------
(* A title, and what follows it. *)
LEMMA TitleIs ==
  /\ Bold(Text) \in Seq(Chars) /\ Len(Bold(Text)) = 3
  /\ Bold(Text)[1] = "star" /\ Bold(Text)[2] = "x" /\ Bold(Text)[3] = "star"
<1> DEFINE k == <<"star">>
           q == k \o Text
<1>1. k \in Seq(Chars) /\ Len(k) = 1 /\ k[1] = "star"
  <2>1. "star" \in Chars
    BY DEF Chars, Marks
  <2> QED BY <2>1, OneIsText
<1>2. Text \in Seq(Chars) /\ Len(Text) = 1 /\ Text[1] = "x"
  BY TextIsText
<1> HIDE DEF k
<1>3. /\ q \in Seq(Chars) /\ Len(q) = Len(k) + Len(Text)
      /\ \A i \in 1..Len(k) : q[i] = k[i]
      /\ \A i \in 1..Len(Text) : q[Len(k) + i] = Text[i]
  <2>1. k \in Seq(Chars) /\ Text \in Seq(Chars)
    BY <1>1, <1>2
  <2> QED BY <2>1, Cat
<1> HIDE DEF q
<1>4. /\ q \o k \in Seq(Chars) /\ Len(q \o k) = Len(q) + Len(k)
      /\ \A i \in 1..Len(q) : (q \o k)[i] = q[i]
      /\ \A i \in 1..Len(k) : (q \o k)[Len(q) + i] = k[i]
  <2>1. k \in Seq(Chars) /\ q \in Seq(Chars)
    BY <1>1, <1>3
  <2> QED BY <2>1, Cat
<1>5. Len(q) = 2 /\ q[1] = "star" /\ q[2] = "x"
  <2>1. 1 \in 1..1 /\ 1 + 1 = 2
    OBVIOUS
  <2> QED BY <2>1, <1>1, <1>2, <1>3
<1>6. 1 \in 1..2 /\ 2 \in 1..2 /\ 1 \in 1..1 /\ 2 + 1 = 3
  OBVIOUS
<1>7. Bold(Text) = q \o k
  BY DEF Bold, q, k
<1> QED BY <1>1, <1>4, <1>5, <1>6, <1>7

(* What a page with a title is, place by place. *)
LEMMA TitledIs ==
  ASSUME NEW b \in Seq(Chars)
  PROVE  /\ Titled(b) \in Seq(Chars) /\ Len(Titled(b)) = Len(b) + 4 /\ Len(b) \in Nat
         /\ Titled(b)[1] = "star" /\ Titled(b)[2] = "x" /\ Titled(b)[3] = "star"
         /\ Titled(b)[4] = "x"
         /\ \A i \in 1..Len(b) : Titled(b)[i + 4] = b[i]
<1> DEFINE w == (Bold(Text) \o Text) \o b
           t == Bold(Text)
<1>1. /\ w \in Seq(Chars) /\ Len(w) = Len(t) + 1 + Len(b)
      /\ \A i \in 1..Len(t) : w[i] = t[i]
      /\ w[Len(t) + 1] = "x"
      /\ \A i \in 1..Len(b) : w[Len(t) + 1 + i] = b[i]
  BY TitleIs, Beside
<1>2. Titled(b) = w
  BY DEF Titled
<1>3. Len(t) = 3 /\ t[1] = "star" /\ t[2] = "x" /\ t[3] = "star"
  BY TitleIs
<1> HIDE DEF w, t
<1>4. Len(b) \in Nat
  BY LenProperties
<1>5. /\ 1 \in 1..3 /\ 2 \in 1..3 /\ 3 \in 1..3 /\ 3 + 1 = 4
      /\ 3 + 1 + Len(b) = Len(b) + 4
      /\ \A i \in 1..Len(b) : 3 + 1 + i = i + 4
  BY <1>4
<1>6. w[1] = "star" /\ w[2] = "x" /\ w[3] = "star" /\ w[4] = "x"
  BY <1>1, <1>3, <1>5
<1>7. Len(w) = Len(b) + 4
  BY <1>1, <1>3, <1>5
<1>8. \A i \in 1..Len(b) : w[i + 4] = b[i]
  BY <1>1, <1>3, <1>5
<1> QED BY <1>1, <1>2, <1>4, <1>6, <1>7, <1>8

(* What is behind a title keeps its marks. *)
LEMMA TitledHas ==
  ASSUME NEW b \in Seq(Chars), NEW i \in 1..Len(Titled(b)), i > 4
  PROVE  i - 4 \in 1..Len(b) /\ Titled(b)[i] = b[i - 4]
<1>1. Len(Titled(b)) = Len(b) + 4 /\ Len(b) \in Nat
  BY TitledIs
<1>2. i - 4 \in 1..Len(b) /\ (i - 4) + 4 = i
  BY <1>1
<1> QED BY <1>2, TitledIs

(* A calm part keeps the page under its title calm. *)
LEMMA CalmTitled ==
  ASSUME NEW b, Calm(b)
  PROVE  /\ Titled(b) \in Seq(Chars)
         /\ TitleStars(Titled(b))
         /\ Single(Rows(Titled(b))) /\ Single(At(Titled(b), "line"))
         /\ \A i \in At(Titled(b), "tick") : i > 4
<1> DEFINE s == Titled(b)
<1>0. b \in Seq(Chars) /\ Single(Rows(b)) /\ Single(At(b, "star")) /\ Single(At(b, "line"))
  BY DEF Calm
<1>1. /\ s \in Seq(Chars) /\ Len(s) = Len(b) + 4 /\ Len(b) \in Nat
      /\ s[1] = "star" /\ s[2] = "x" /\ s[3] = "star" /\ s[4] = "x"
  BY <1>0, TitledIs
<1>2. \A i \in 1..Len(s) : i > 4 => i - 4 \in 1..Len(b) /\ s[i] = b[i - 4]
  BY <1>0, TitledHas
<1> HIDE DEF s
<1>3. \A i \in 1..Len(s) : i = 1 \/ i = 2 \/ i = 3 \/ i = 4 \/ i > 4
  BY <1>1
<1>4. \A i \in 1..Len(s) : i \in Int
  OBVIOUS
<1>5. \A i \in At(s, "tick") : i > 4
  BY <1>1, <1>3 DEF At
<1>6. ASSUME NEW i \in At(s, "star"), i > 3 PROVE i \in Int /\ i - 4 \in At(b, "star")
  <2>1. i \in 1..Len(s) /\ s[i] = "star"
    BY DEF At
  <2>2. i > 4
    BY <1>1, <1>3, <1>6, <2>1
  <2> QED BY <2>1, <2>2, <1>2 DEF At
<1>7. ASSUME NEW i \in At(s, "line") PROVE i \in Int /\ i - 4 \in At(b, "line")
  <2>1. i \in 1..Len(s) /\ s[i] = "line"
    BY DEF At
  <2>2. i > 4
    BY <1>1, <1>3, <2>1
  <2> QED BY <2>1, <2>2, <1>2 DEF At
<1>8. ASSUME NEW i \in Rows(s) PROVE i \in Int /\ i - 4 \in Rows(b)
  <2>1. /\ i \in 1..(Len(s) - 2) /\ s[i] = "tick" /\ s[i + 1] = "tick" /\ s[i + 2] = "tick"
    BY DEF Rows
  <2>2. i \in 1..Len(s) /\ i + 1 \in 1..Len(s) /\ i + 2 \in 1..Len(s)
    BY <2>1, <1>1
  <2>3. i > 4
    BY <2>1, <2>2, <1>1, <1>3
  <2>4. /\ s[i] = b[i - 4] /\ s[i + 1] = b[(i + 1) - 4] /\ s[i + 2] = b[(i + 2) - 4]
        /\ (i + 1) - 4 = (i - 4) + 1 /\ (i + 2) - 4 = (i - 4) + 2
        /\ i - 4 \in 1..(Len(b) - 2)
    BY <2>1, <2>2, <2>3, <1>1, <1>2
  <2> QED BY <2>1, <2>4 DEF Rows
<1>9. Single({i \in At(s, "star") : i > 3})
  <2> SUFFICES ASSUME NEW i \in At(s, "star"), NEW j \in At(s, "star"), i > 3, j > 3
               PROVE  i = j
    BY DEF Single
  <2>1. i - 4 = j - 4 /\ i \in Int /\ j \in Int
    BY <1>0, <1>6 DEF Single
  <2> QED BY <2>1
<1>10. Single(At(s, "line"))
  <2> SUFFICES ASSUME NEW i \in At(s, "line"), NEW j \in At(s, "line")
               PROVE  i = j
    BY DEF Single
  <2>1. i - 4 = j - 4 /\ i \in Int /\ j \in Int
    BY <1>0, <1>7 DEF Single
  <2> QED BY <2>1
<1>11. Single(Rows(s))
  <2> SUFFICES ASSUME NEW i \in Rows(s), NEW j \in Rows(s)
               PROVE  i = j
    BY DEF Single
  <2>1. i - 4 = j - 4 /\ i \in Int /\ j \in Int
    BY <1>0, <1>8 DEF Single
  <2> QED BY <2>1
<1>12. Len(s) >= 3
  BY <1>1
<1> QED BY <1>1, <1>5, <1>9, <1>10, <1>11, <1>12 DEF TitleStars, s

(* What is composed is made of symbols. *)
LEMMA CharsAreSymbols ==
  ASSUME NEW s \in Seq(Chars)
  PROVE  s \in Seq(Symbols)
BY SeqMonotonic DEF Symbols

(* A page of a title and code nests: its code comes after the title, and   *)
(* the tags of code alternate.                                             *)
LEMMA CalmNests ==
  ASSUME NEW b, Calm(b)
  PROVE  Nests(MDToHTML(Titled(b)))
<1> DEFINE s == Titled(b)
           K == Kept(s, "tick")
           r == Alternate(s, "tick")
           f == [i \in Nat |-> IF Rank(K, i + 1) % 2 = 0 THEN <<>> ELSE <<"<code>">>]
<1>1. /\ s \in Seq(Chars) /\ TitleStars(s)
      /\ Single(Rows(s)) /\ Single(At(s, "line"))
      /\ \A i \in At(s, "tick") : i > 4
  BY CalmTitled
<1>2. s \in Seq(Symbols) /\ Len(s) \in Nat /\ Len(s) >= 3 /\ "tick" \in Marks
  BY <1>1, CharsAreSymbols, LenProperties DEF TitleStars, Marks
<1> HIDE DEF s
<1>3. MDToHTML(s) = Alternate(Alternate(r, "star"), "line")
  BY <1>1, LoneRow DEF MDToHTML
<1>4. K \subseteq At(s, "tick") /\ K \subseteq 1..Len(s)
  BY <1>2, KeptIsFound
<1>5. /\ r \in Seq(Symbols) /\ Len(r) = Len(s)
      /\ \A i \in 1..Len(s) : r[i] = Put(s, "tick", i)
  BY <1>2, PassIsPointwise
<1>6. ASSUME NEW i \in 1..Len(s)
      PROVE  r[i] = IF i \in K
                    THEN IF Rank(K, i) % 2 = 0 THEN "<code>" ELSE "</code>"
                    ELSE s[i]
  BY <1>5, TagsOfMarks DEF Put
<1>7. Rank(K, Len(s) + 1) % 2 = 0
  BY <1>2, KeptIsEven
<1> HIDE DEF K, r
<1>8. \A i \in 1..Len(s) : ~(i > 4) => r[i] = s[i]
  BY <1>1, <1>4, <1>6
<1>9. \A c \in {"star", "line"} : \A i \in At(r, c) : i \in At(s, c)
  BY <1>5, <1>6 DEF At
<1>10. TitleStars(r)
  <2>1. \A i \in {1, 2, 3} : i \in 1..Len(s) /\ ~(i > 4)
    BY <1>2
  <2>2. Single({i \in At(r, "star") : i > 3})
    BY <1>1, <1>9 DEF TitleStars, Single
  <2> QED BY <2>1, <2>2, <1>1, <1>2, <1>5, <1>8 DEF TitleStars
<1>11. Single(At(r, "line"))
  BY <1>1, <1>9 DEF Single
<1>12. f[3] = <<>>
  <2>1. \A j \in K : ~(j < 3 + 1)
    <3> SUFFICES ASSUME NEW j \in K PROVE ~(j < 3 + 1)
      OBVIOUS
    <3>1. j > 4 /\ j \in Int
      BY <1>1, <1>4
    <3> QED BY <3>1
  <2>2. Rank(K, 3 + 1) = 0
    BY <2>1, <1>2, <1>4, RankEnds, 3 + 1 \in Nat
  <2>3. 0 % 2 = 0
    OBVIOUS
  <2> QED BY <2>2, <2>3
<1>13. f[Len(r)] = <<>>
  BY <1>2, <1>5, <1>7
<1>14. /\ Read(<<>>, "<code>") = <<"<code>">>
       /\ Read(<<"<code>">>, "</code>") = <<>>
  <2>1. "tick" \in DOMAIN Open
    BY MarksAndFence
  <2> QED BY <2>1, ReadTags, TagsOfMarks
<1>15. ASSUME NEW i \in 4..Len(r) PROVE f[i] = Read(f[i - 1], r[i])
  <2>1. i \in 1..Len(s) /\ i \in Nat /\ i - 1 \in Nat /\ (i - 1) + 1 = i
    BY <1>2, <1>5
  <2>2. /\ f[i] = IF Rank(K, i + 1) % 2 = 0 THEN <<>> ELSE <<"<code>">>
        /\ f[i - 1] = IF Rank(K, i) % 2 = 0 THEN <<>> ELSE <<"<code>">>
    BY <2>1
  <2> HIDE DEF f
  <2>3. /\ Rank(K, i) \in Nat
        /\ Rank(K, i + 1) = IF i \in K THEN Rank(K, i) + 1 ELSE Rank(K, i)
    BY <2>1, <1>2, <1>4, RankGrows
  <2>4. CASE i \in K
    <3>1. Rank(K, i) % 2 = 0 <=> (Rank(K, i) + 1) % 2 # 0
      BY <2>3
    <3>2. CASE Rank(K, i) % 2 = 0
      BY <2>1, <2>2, <2>3, <2>4, <3>1, <3>2, <1>6, <1>14
    <3>3. CASE Rank(K, i) % 2 # 0
      BY <2>1, <2>2, <2>3, <2>4, <3>1, <3>3, <1>6, <1>14
    <3> QED BY <3>2, <3>3
  <2>5. CASE i \notin K
    <3>1. f[i] = f[i - 1]
      BY <2>2, <2>3, <2>5
    <3>2. r[i] = s[i] /\ s[i] \in Chars
      BY <2>1, <2>5, <1>1, <1>6, ElementOfSeq
    <3> QED BY <3>1, <3>2, ReadText
  <2> QED BY <2>4, <2>5
<1> HIDE DEF f
<1>16. Nests(Alternate(Alternate(r, "star"), "line"))
  BY <1>5, <1>10, <1>11, <1>12, <1>13, <1>15, TitleNests
<1> QED BY <1>3, <1>16 DEF s
---------------------------------------------------------------------------
(* A dump: after the title a fence at place 5, the text in lines of its    *)
(* own, and a fence at its end.                                            *)
DumpIs(s, m) ==
  /\ s \in Seq(Chars) /\ Len(s) = Len(m) + 12
  /\ s[1] = "star" /\ s[2] = "x" /\ s[3] = "star" /\ s[4] = "x"
  /\ s[5] = "tick" /\ s[6] = "tick" /\ s[7] = "tick" /\ s[8] = "x"
  /\ \A i \in 1..Len(m) : s[i + 8] = m[i]
  /\ s[Len(m) + 9] = "x"
  /\ s[Len(m) + 10] = "tick" /\ s[Len(m) + 11] = "tick" /\ s[Len(m) + 12] = "tick"

(* A dump under its title is made so. *)
LEMMA FencedIs ==
  ASSUME NEW m \in Seq(Chars)
  PROVE  DumpIs(Titled(Fenced(m)), m)
<1> DEFINE o == <<"tick", "tick", "tick", "x">>
           k == <<"x", "tick", "tick", "tick">>
           q == o \o m
           b == q \o k
           n == Len(m)
<1>1. /\ o \in Seq(Chars) /\ Len(o) = 4
      /\ o[1] = "tick" /\ o[2] = "tick" /\ o[3] = "tick" /\ o[4] = "x"
  <2>1. "tick" \in Chars /\ "x" \in Chars
    BY DEF Chars, Marks
  <2> QED BY <2>1, FourIsText
<1>2. /\ k \in Seq(Chars) /\ Len(k) = 4
      /\ k[1] = "x" /\ k[2] = "tick" /\ k[3] = "tick" /\ k[4] = "tick"
  <2>1. "tick" \in Chars /\ "x" \in Chars
    BY DEF Chars, Marks
  <2> QED BY <2>1, FourIsText
<1> HIDE DEF o, k
<1>3. /\ q \in Seq(Chars) /\ Len(q) = Len(o) + Len(m)
      /\ \A i \in 1..Len(o) : q[i] = o[i]
      /\ \A i \in 1..Len(m) : q[Len(o) + i] = m[i]
  <2>1. o \in Seq(Chars)
    BY <1>1
  <2> QED BY <2>1, Cat
<1> HIDE DEF q
<1>4. /\ b \in Seq(Chars) /\ Len(b) = Len(q) + Len(k)
      /\ \A i \in 1..Len(q) : b[i] = q[i]
      /\ \A i \in 1..Len(k) : b[Len(q) + i] = k[i]
  <2>1. q \in Seq(Chars) /\ k \in Seq(Chars)
    BY <1>2, <1>3
  <2> QED BY <2>1, Cat
<1>5. Fenced(m) = b
  BY DEF Fenced, b, q, o, k
<1> HIDE DEF b
<1>6. n \in Nat
  BY LenProperties
<1>7. Len(q) = n + 4 /\ Len(b) = n + 8
  BY <1>1, <1>2, <1>3, <1>4, <1>6
<1>8. /\ b[1] = "tick" /\ b[2] = "tick" /\ b[3] = "tick" /\ b[4] = "x"
  <2>1. \A i \in {1, 2, 3, 4} : i \in 1..4 /\ i \in 1..(n + 4)
    BY <1>6
  <2>2. \A i \in {1, 2, 3, 4} : b[i] = o[i]
    BY <2>1, <1>1, <1>3, <1>4, <1>7
  <2> QED BY <2>2, <1>1
<1>9. \A i \in 1..n : b[i + 4] = m[i]
  <2> TAKE i \in 1..n
  <2>1. i + 4 \in 1..(n + 4) /\ 4 + i = i + 4
    BY <1>6
  <2>2. q[4 + i] = m[i]
    BY <1>1, <1>3
  <2> QED BY <2>1, <2>2, <1>4, <1>7
<1>10. b[n + 5] = "x" /\ b[n + 6] = "tick" /\ b[n + 7] = "tick" /\ b[n + 8] = "tick"
  <2>1. \A i \in {1, 2, 3, 4} : i \in 1..4
    OBVIOUS
  <2>2. \A i \in {1, 2, 3, 4} : b[(n + 4) + i] = k[i]
    BY <2>1, <1>2, <1>4, <1>7
  <2>3. /\ b[(n + 4) + 1] = k[1] /\ b[(n + 4) + 2] = k[2]
        /\ b[(n + 4) + 3] = k[3] /\ b[(n + 4) + 4] = k[4]
    BY <2>2
  <2>4. (n + 4) + 1 = n + 5 /\ (n + 4) + 2 = n + 6 /\ (n + 4) + 3 = n + 7 /\ (n + 4) + 4 = n + 8
    BY <1>6
  <2> QED BY <2>3, <2>4, <1>2
<1> DEFINE s == Titled(b)
<1>11. /\ s \in Seq(Chars) /\ Len(s) = n + 8 + 4
       /\ s[1] = "star" /\ s[2] = "x" /\ s[3] = "star" /\ s[4] = "x"
       /\ \A i \in 1..(n + 8) : s[i + 4] = b[i]
  BY <1>4, <1>7, TitledIs
<1> HIDE DEF s
<1>12. /\ s[5] = "tick" /\ s[6] = "tick" /\ s[7] = "tick" /\ s[8] = "x"
  <2>1. /\ 1 \in 1..(n + 8) /\ 2 \in 1..(n + 8) /\ 3 \in 1..(n + 8) /\ 4 \in 1..(n + 8)
        /\ 1 + 4 = 5 /\ 2 + 4 = 6 /\ 3 + 4 = 7 /\ 4 + 4 = 8
    BY <1>6
  <2> QED BY <2>1, <1>8, <1>11
<1>13. \A i \in 1..n : s[i + 8] = m[i]
  <2> TAKE i \in 1..n
  <2>1. i + 4 \in 1..(n + 8) /\ (i + 4) + 4 = i + 8
    BY <1>6
  <2> QED BY <2>1, <1>9, <1>11
<1>14. s[n + 9] = "x" /\ s[n + 10] = "tick" /\ s[n + 11] = "tick" /\ s[n + 12] = "tick"
  <2>1. /\ n + 5 \in 1..(n + 8) /\ n + 6 \in 1..(n + 8) /\ n + 7 \in 1..(n + 8) /\ n + 8 \in 1..(n + 8)
        /\ (n + 5) + 4 = n + 9 /\ (n + 6) + 4 = n + 10 /\ (n + 7) + 4 = n + 11 /\ (n + 8) + 4 = n + 12
    BY <1>6
  <2> QED BY <2>1, <1>10, <1>11
<1>15. Len(s) = n + 12
  BY <1>6, <1>11
<1> QED BY <1>5, <1>11, <1>12, <1>13, <1>14, <1>15 DEF DumpIs, s

(* With one mark at most in its text, a dump has the two fences and no     *)
(* other.                                                                  *)
LEMMA DumpFences ==
  ASSUME NEW s, NEW m \in Seq(Chars), DumpIs(s, m), Single(MarkAt(m))
  PROVE  Found(s, Fence) = {5, Len(m) + 10}
<1> DEFINE n == Len(m)
<1>0. n \in Nat
  BY LenProperties
<1>1. /\ Len(s) = n + 12 /\ s[4] = "x" /\ s[2] = "x" /\ s[8] = "x" /\ s[n + 9] = "x"
      /\ s[1] = "star" /\ s[3] = "star"
      /\ s[5] = "tick" /\ s[6] = "tick" /\ s[7] = "tick"
      /\ s[n + 10] = "tick" /\ s[n + 11] = "tick" /\ s[n + 12] = "tick"
      /\ \A i \in 1..n : s[i + 8] = m[i]
  BY DEF DumpIs
<1> HIDE DEF n
<1>2. ASSUME NEW i \in 9..(n + 8) PROVE i - 8 \in 1..n /\ s[i] = m[i - 8]
  <2>1. i - 8 \in 1..n /\ (i - 8) + 8 = i
    BY <1>0
  <2> QED BY <2>1, <1>1
<1>3. ASSUME NEW i \in Nat \ {0}, s[i - 1] = "x" PROVE RowBefore(s, i) = 0
  <2>1. {j \in 1..(i - 1) : \A k \in j..(i - 1) : s[k] = "tick"} = {}
    <3> SUFFICES ASSUME NEW j \in 1..(i - 1), \A k \in j..(i - 1) : s[k] = "tick"
                 PROVE  FALSE
      OBVIOUS
    <3>1. i - 1 \in j..(i - 1)
      OBVIOUS
    <3> QED BY <3>1, <1>3
  <2> QED BY <2>1, FS_EmptySet DEF RowBefore
<1>4. 5 \in Found(s, Fence)
  <2>1. 5 \in 1..(Len(s) - 2)
    BY <1>0, <1>1
  <2>2. \A k \in 5..(5 + 2) : s[k] = "tick"
    <3>1. \A k \in 5..(5 + 2) : k = 5 \/ k = 6 \/ k = 7
      OBVIOUS
    <3> QED BY <3>1, <1>1
  <2>3. RowBefore(s, 5) = 0
    <3>1. 5 \in Nat \ {0} /\ 5 - 1 = 4
      OBVIOUS
    <3> QED BY <3>1, <1>1, <1>3
  <2>4. 0 % 3 = 0
    OBVIOUS
  <2> QED BY <2>1, <2>2, <2>3, <2>4 DEF Found
<1>5. n + 10 \in Found(s, Fence)
  <2>1. n + 10 \in 1..(Len(s) - 2)
    BY <1>0, <1>1
  <2>2. \A k \in (n + 10)..((n + 10) + 2) : s[k] = "tick"
    <3>1. \A k \in (n + 10)..((n + 10) + 2) : k = n + 10 \/ k = n + 11 \/ k = n + 12
      BY <1>0
    <3> QED BY <3>1, <1>1
  <2>3. RowBefore(s, n + 10) = 0
    <3>1. n + 10 \in Nat \ {0} /\ (n + 10) - 1 = n + 9
      BY <1>0
    <3> QED BY <3>1, <1>1, <1>3
  <2>4. 0 % 3 = 0
    OBVIOUS
  <2> QED BY <2>1, <2>2, <2>3, <2>4 DEF Found
<1>6. ASSUME NEW i \in Found(s, Fence), i # 5, i # n + 10 PROVE FALSE
  <2>1. i \in 1..(n + 10) /\ \A k \in i..(i + 2) : s[k] = "tick"
    <3>1. i \in 1..(Len(s) - 2) /\ \A k \in i..(i + 2) : s[k] = "tick"
      BY DEF Found
    <3> QED BY <3>1, <1>0, <1>1
  <2>2. i \in Int /\ s[i] = "tick" /\ s[i + 1] = "tick" /\ s[i + 2] = "tick"
    <3>1. i \in i..(i + 2) /\ i + 1 \in i..(i + 2) /\ i + 2 \in i..(i + 2)
      BY <2>1
    <3> QED BY <2>1, <3>1
  <2>3. i # 1 /\ i # 2 /\ i # 3 /\ i # 4 /\ i # 8 /\ i # n + 9
    BY <2>2, <1>1
  <2>4. i + 2 # 8 /\ i + 1 # 8 /\ i + 1 # n + 9
    BY <2>2, <1>1
  <2>5. i \in 9..(n + 8) /\ i + 1 \in 9..(n + 8)
    BY <2>1, <2>3, <2>4, <1>6, <1>0
  <2>6. /\ i - 8 \in 1..n /\ m[i - 8] = "tick"
        /\ (i + 1) - 8 \in 1..n /\ m[(i + 1) - 8] = "tick"
    BY <2>2, <2>5, <1>2
  <2>7. i - 8 \in MarkAt(m) /\ (i + 1) - 8 \in MarkAt(m)
    BY <2>6 DEF MarkAt, Marks, n
  <2>8. i - 8 = (i + 1) - 8
    BY <2>7 DEF Single
  <2> QED BY <2>2, <2>8
<1> QED BY <1>4, <1>5, <1>6 DEF n

(* What the pass over fences makes of it. *)
Preformatted(s, m) ==
  [i \in 1..(Len(m) + 8) |->
     IF i = 5 THEN "<pre>" ELSE IF i = Len(m) + 8 THEN "</pre>"
     ELSE IF i < 5 THEN s[i] ELSE s[i + 2]]

(* How much of it the first k pieces make. *)
PreUpto(n, k) ==
  IF k <= 5 THEN k ELSE IF k <= 7 THEN 5 ELSE IF k <= n + 10 THEN k - 2 ELSE n + 8

(* The pass over fences makes its two fences tags and leaves the rest. *)
LEMMA DumpFenced ==
  ASSUME NEW s, NEW m \in Seq(Chars), DumpIs(s, m), Single(MarkAt(m))
  PROVE  /\ Alternate(s, Fence) = Preformatted(s, m)
         /\ Preformatted(s, m) \in Seq(Symbols)
<1> DEFINE n == Len(m)
           D == {5, n + 10}
           r == Preformatted(s, m)
           P == [i \in DOMAIN s |-> FencePiece(s, D, i)]
<1>0. n \in Nat /\ s \in Seq(Chars) /\ Len(s) = n + 12 /\ DOMAIN s = 1..(n + 12)
  BY LenProperties DEF DumpIs
<1>1. Found(s, Fence) = D
  BY DumpFences
<1>2. D \subseteq 1..(n + 12) /\ n + 12 \in Nat /\ 5 \in D /\ n + 10 \in D
  BY <1>0
<1>3. Rank(D, 5) = 0 /\ Rank(D, n + 10) = 1 /\ Cardinality(D) = 2
  <2>1. Rank(D, 5) = 0
    <3>1. \A j \in D : ~(j < 5)
      BY <1>0
    <3> QED BY <3>1, <1>2, RankEnds, 5 \in Nat
  <2>2. IsFiniteSet({5}) /\ Cardinality({5}) = 1
    BY FS_Singleton
  <2>3. {j \in D : j < n + 10} = {5}
    BY <1>0
  <2>4. Rank(D, n + 10) = 1
    BY <2>2, <2>3 DEF Rank
  <2>5. Cardinality({5} \cup {n + 10}) = 1 + 1
    <3>1. n + 10 \notin {5}
      BY <1>0
    <3> QED BY <3>1, <2>2, FS_AddElement
  <2>6. {5} \cup {n + 10} = D /\ 1 + 1 = 2
    OBVIOUS
  <2>7. Cardinality(D) = 2
    BY <2>5, <2>6, Zenon
  <2> QED BY <2>1, <2>4, <2>7
<1>4. \A i : i \in D <=> i = 5 \/ i = n + 10
  OBVIOUS
<1> HIDE DEF D
<1>5. Alternate(s, Fence) = Tagged(s, Fence, D)
  <2>1. (2 \div 2) * 2 = 2
    OBVIOUS
  <2>2. (Cardinality(D) \div 2) * 2 = 2
    BY <2>1, <1>3
  <2>3. {i \in D : Rank(D, i) < (Cardinality(D) \div 2) * 2} = D
    BY <2>2, <1>3, <1>4
  <2> QED BY <2>3, <1>1 DEF Alternate
<1>6. Tagged(s, Fence, D) = FlattenSeq(P)
  BY DEF Tagged, FencePiece
<1>7. P \in Seq(Seq(Symbols)) /\ Len(P) = n + 12 /\ \A i \in 1..(n + 12) : P[i] = FencePiece(s, D, i)
  <2>1. \A i \in 1..(n + 12) : FencePiece(s, D, i) \in Seq(Symbols)
    BY <1>0, FencePieceIsText
  <2> QED BY <2>1, <1>0
<1> HIDE DEF P
<1>8. /\ \A i \in 1..(n + 12) : s[i] \in Symbols
      /\ "<pre>" \in Symbols /\ "</pre>" \in Symbols
  BY <1>0, ElementOfSeq, CharMeans DEF Symbols, Tags
<1>9. ASSUME NEW i \in 1..(n + 8)
      PROVE  /\ r[i] = IF i = 5 THEN "<pre>" ELSE IF i = n + 8 THEN "</pre>"
                       ELSE IF i < 5 THEN s[i] ELSE s[i + 2]
             /\ r[i] \in Symbols
  <2>1. i \in 1..(n + 12) /\ (i < 5 \/ i + 2 \in 1..(n + 12))
    BY <1>0
  <2>2. r[i] = IF i = 5 THEN "<pre>" ELSE IF i = n + 8 THEN "</pre>"
               ELSE IF i < 5 THEN s[i] ELSE s[i + 2]
    BY DEF Preformatted
  <2> HIDE DEF r
  <2> QED BY <2>1, <2>2, <1>8
<1>10. r \in Seq(Symbols) /\ Len(r) = n + 8
  <2>1. r = [i \in 1..(n + 8) |-> r[i]]
    BY DEF Preformatted
  <2> HIDE DEF r
  <2> QED BY <2>1, <1>0, <1>9
<1> HIDE DEF r
<1>11. PICK f : Joins(f, P, Symbols) /\ FlattenSeq(P) = f[n + 12]
  BY <1>7, Flattened
<1> DEFINE S == {k \in Nat : k <= n + 12 => f[k] = Upto(r, PreUpto(n, k))}
<1>12. 0 \in S
  <2>1. PreUpto(n, 0) = 0
    BY DEF PreUpto
  <2> QED BY <2>1, <1>10, <1>11, UptoEnds DEF Joins
<1>13. ASSUME NEW k \in 0..(n + 11)
       PROVE  \/ /\ FencePiece(s, D, k + 1) = <<>>
                 /\ PreUpto(n, k + 1) = PreUpto(n, k)
              \/ /\ PreUpto(n, k) \in 0..(n + 7)
                 /\ PreUpto(n, k + 1) = PreUpto(n, k) + 1
                 /\ FencePiece(s, D, k + 1) = <<r[PreUpto(n, k) + 1]>>
  <2>1. 0 % 2 = 0 /\ 1 % 2 # 0
    OBVIOUS
  <2>2. CASE k <= 3
    <3>1. k + 1 \notin D /\ (k + 1) - 1 \notin D /\ (k + 1) - 2 \notin D
      BY <2>2, <1>0, <1>4
    <3>2. FencePiece(s, D, k + 1) = <<s[k + 1]>>
      BY <3>1 DEF FencePiece
    <3>3. PreUpto(n, k) = k /\ PreUpto(n, k + 1) = k + 1
      BY <2>2 DEF PreUpto
    <3>4. k + 1 \in 1..(n + 8) /\ k + 1 < 5 /\ k + 1 # n + 8 /\ k \in 0..(n + 7)
      BY <2>2, <1>0
    <3>5. r[k + 1] = s[k + 1]
      BY <3>4, <1>9
    <3> QED BY <3>2, <3>3, <3>4, <3>5
  <2>3. CASE k = 4
    <3>1. FencePiece(s, D, 5) = <<"<pre>">>
      BY <2>1, <1>2, <1>3, TagsOfMarks DEF FencePiece
    <3>2. PreUpto(n, 4) = 4 /\ PreUpto(n, 5) = 5
      BY DEF PreUpto
    <3>3. 5 \in 1..(n + 8) /\ 4 \in 0..(n + 7) /\ 4 + 1 = 5
      BY <1>0
    <3>4. r[5] = "<pre>"
      BY <3>3, <1>9
    <3> QED BY <2>3, <3>1, <3>2, <3>3, <3>4
  <2>4. CASE k = 5 \/ k = 6
    <3>1. k + 1 \notin D /\ ((k + 1) - 1 \in D \/ (k + 1) - 2 \in D)
      BY <2>4, <1>0, <1>4
    <3>2. FencePiece(s, D, k + 1) = <<>>
      BY <3>1 DEF FencePiece
    <3>3. PreUpto(n, k) = 5 /\ PreUpto(n, k + 1) = 5
      BY <2>4 DEF PreUpto
    <3> QED BY <3>2, <3>3
  <2>5. CASE 7 <= k /\ k <= n + 8
    <3>1. k + 1 \notin D /\ (k + 1) - 1 \notin D /\ (k + 1) - 2 \notin D
      BY <2>5, <1>0, <1>4
    <3>2. FencePiece(s, D, k + 1) = <<s[k + 1]>>
      BY <3>1 DEF FencePiece
    <3>3. PreUpto(n, k) = k - 2 /\ PreUpto(n, k + 1) = k - 1
      BY <2>5, <1>0 DEF PreUpto
    <3>4. k - 1 \in 1..(n + 8) /\ ~(k - 1 < 5) /\ k - 1 # 5 /\ k - 1 # n + 8 /\ k - 2 \in 0..(n + 7)
          /\ (k - 1) + 2 = k + 1 /\ (k - 2) + 1 = k - 1
      BY <2>5, <1>0
    <3>5. r[k - 1] = s[k + 1]
      BY <3>4, <1>9
    <3> QED BY <3>2, <3>3, <3>4, <3>5
  <2>6. CASE k = n + 9
    <3>1. FencePiece(s, D, n + 10) = <<"</pre>">>
      BY <2>1, <1>2, <1>3, TagsOfMarks DEF FencePiece
    <3>2. PreUpto(n, n + 9) = n + 7 /\ PreUpto(n, n + 10) = n + 8
      BY <1>0 DEF PreUpto
    <3>3. n + 8 \in 1..(n + 8) /\ n + 7 \in 0..(n + 7) /\ (n + 7) + 1 = n + 8 /\ n + 8 # 5
          /\ (n + 9) + 1 = n + 10
      BY <1>0
    <3>4. r[n + 8] = "</pre>"
      BY <3>3, <1>9
    <3> QED BY <2>6, <3>1, <3>2, <3>3, <3>4
  <2>7. CASE k = n + 10 \/ k = n + 11
    <3>1. k + 1 \notin D /\ ((k + 1) - 1 \in D \/ (k + 1) - 2 \in D)
      BY <2>7, <1>0, <1>4
    <3>2. FencePiece(s, D, k + 1) = <<>>
      BY <3>1 DEF FencePiece
    <3>3. PreUpto(n, k) = n + 8 /\ PreUpto(n, k + 1) = n + 8
      BY <2>7, <1>0 DEF PreUpto
    <3> QED BY <3>2, <3>3
  <2>8. k <= 3 \/ k = 4 \/ k = 5 \/ k = 6 \/ (7 <= k /\ k <= n + 8) \/ k = n + 9 \/ k = n + 10 \/ k = n + 11
    BY <1>0
  <2> QED BY <2>2, <2>3, <2>4, <2>5, <2>6, <2>7, <2>8
<1>14. ASSUME NEW k \in Nat, k \in S PROVE k + 1 \in S
  <2> SUFFICES ASSUME k + 1 <= n + 12 PROVE f[k + 1] = Upto(r, PreUpto(n, k + 1))
    OBVIOUS
  <2>1. k \in 0..(n + 11) /\ k + 1 \in 1..(n + 12) /\ (k + 1) - 1 = k
    BY <1>0
  <2>2. f[k] = Upto(r, PreUpto(n, k))
    BY <1>14, <2>1
  <2>3. f[k + 1] = f[k] \o FencePiece(s, D, k + 1) /\ f[k] \in Seq(Symbols)
    <3>1. k + 1 \in 1..Len(P) /\ k \in 0..Len(P)
      BY <2>1, <1>0, <1>7
    <3>2. f[k + 1] = f[(k + 1) - 1] \o P[k + 1] /\ f[k] \in Seq(Symbols)
      BY <3>1, <1>11 DEF Joins
    <3> QED BY <3>2, <2>1, <1>7
  <2>4. CASE FencePiece(s, D, k + 1) = <<>> /\ PreUpto(n, k + 1) = PreUpto(n, k)
    BY <2>2, <2>3, <2>4, ConcatEmptySeq
  <2>5. CASE /\ PreUpto(n, k) \in 0..(n + 7)
             /\ PreUpto(n, k + 1) = PreUpto(n, k) + 1
             /\ FencePiece(s, D, k + 1) = <<r[PreUpto(n, k) + 1]>>
    <3> DEFINE l == PreUpto(n, k)
    <3>1. l \in 0..(Len(r) - 1)
      BY <2>5, <1>0, <1>10
    <3>2. r[l + 1] \in Symbols /\ Upto(r, l + 1) = Append(Upto(r, l), r[l + 1])
      <4> HIDE DEF l
      <4> QED BY <3>1, <1>10, UptoMore
    <3>3. Append(f[k], r[l + 1]) = f[k] \o <<r[l + 1]>>
      BY <3>2, <2>3, AppendIsConcat
    <3> QED BY <3>2, <3>3, <2>2, <2>3, <2>5
  <2> QED BY <2>1, <2>4, <2>5, <1>13
<1>15. Nat \subseteq S
  <2> HIDE DEF S
  <2> QED BY <1>12, <1>14, SetInduction
<1>16. f[n + 12] = r
  <2>1. PreUpto(n, n + 12) = n + 8
    BY <1>0 DEF PreUpto
  <2>2. f[n + 12] = Upto(r, PreUpto(n, n + 12))
    BY <1>0, <1>15
  <2> QED BY <2>1, <2>2, <1>10, UptoEnds
<1> QED BY <1>5, <1>6, <1>10, <1>11, <1>16 DEF r

(* A dump nests: nothing but its text is left for the other passes. *)
LEMMA DumpNests ==
  ASSUME NEW m \in Seq(Chars), Single(MarkAt(m))
  PROVE  Nests(MDToHTML(Titled(Fenced(m))))
<1> DEFINE s == Titled(Fenced(m))
           r == Preformatted(s, m)
           n == Len(m)
           f == [i \in Nat |-> IF 5 <= i /\ i < n + 8 THEN <<"<pre>">> ELSE <<>>]
<1>1. DumpIs(s, m)
  BY FencedIs
<1> HIDE DEF s
<1>0. n \in Nat
  BY LenProperties
<1>2. Alternate(s, Fence) = r /\ r \in Seq(Symbols)
  BY <1>1, DumpFenced
<1>3. /\ Len(r) = n + 8
      /\ \A i \in 1..(n + 8) :
           r[i] = IF i = 5 THEN "<pre>" ELSE IF i = n + 8 THEN "</pre>"
                  ELSE IF i < 5 THEN s[i] ELSE s[i + 2]
  BY <1>0, <1>2, LenProperties DEF Preformatted
<1> HIDE DEF r
<1>4. /\ s \in Seq(Chars) /\ Len(s) = n + 12
      /\ s[1] = "star" /\ s[2] = "x" /\ s[3] = "star" /\ s[4] = "x" /\ s[8] = "x"
      /\ s[n + 9] = "x" /\ \A i \in 1..n : s[i + 8] = m[i]
  BY <1>1 DEF DumpIs
<1>5. /\ r[1] = "star" /\ r[2] = "x" /\ r[3] = "star" /\ r[4] = "x" /\ r[5] = "<pre>"
      /\ r[6] = "x" /\ r[n + 7] = "x" /\ r[n + 8] = "</pre>"
  <2>1. \A i \in {1, 2, 3, 4} : i \in 1..(n + 8) /\ i < 5 /\ i # 5 /\ i # n + 8
    BY <1>0
  <2>2. r[1] = "star" /\ r[2] = "x" /\ r[3] = "star" /\ r[4] = "x"
    BY <2>1, <1>3, <1>4
  <2>3. r[5] = "<pre>"
    <3>1. 5 \in 1..(n + 8)
      BY <1>0
    <3> QED BY <3>1, <1>3
  <2>4. r[6] = "x"
    <3>1. 6 \in 1..(n + 8) /\ 6 # n + 8 /\ 6 + 2 = 8
      BY <1>0
    <3> QED BY <3>1, <1>3, <1>4
  <2>5. r[n + 7] = "x"
    <3>1. n + 7 \in 1..(n + 8) /\ n + 7 # n + 8 /\ n + 7 # 5 /\ ~(n + 7 < 5) /\ (n + 7) + 2 = n + 9
      BY <1>0
    <3> QED BY <3>1, <1>3, <1>4
  <2>6. r[n + 8] = "</pre>"
    <3>1. n + 8 \in 1..(n + 8) /\ n + 8 # 5
      BY <1>0
    <3> QED BY <3>1, <1>3
  <2> QED BY <2>2, <2>3, <2>4, <2>5, <2>6
<1>6. ASSUME NEW i \in 7..(n + 6) PROVE i - 6 \in 1..n /\ r[i] = m[i - 6]
  <2>1. /\ i \in 1..(n + 8) /\ i # 5 /\ i # n + 8 /\ ~(i < 5)
        /\ i - 6 \in 1..n /\ (i - 6) + 8 = i + 2
    BY <1>0
  <2>2. r[i] = s[i + 2]
    BY <2>1, <1>3
  <2>3. s[(i - 6) + 8] = m[i - 6]
    BY <2>1, <1>4
  <2> QED BY <2>1, <2>2, <2>3
<1>7. \A i \in 1..(n + 8) : \/ i \in {1, 2, 3, 4, 5, 6, n + 7, n + 8}
                            \/ i \in 7..(n + 6)
  BY <1>0
<1>8. ASSUME NEW c \in Marks, NEW i \in At(r, c), i # 1, i # 3
      PROVE  i \in Int /\ i - 6 \in MarkAt(m)
  <2>1. i \in 1..(n + 8) /\ r[i] = c
    BY <1>3 DEF At
  <2>2. c \notin {"x", "<pre>", "</pre>"}
    BY DEF Marks
  <2>3. i \in 7..(n + 6)
    BY <2>1, <2>2, <1>5, <1>7, <1>8
  <2> QED BY <2>1, <2>3, <1>6 DEF MarkAt
<1>9. ASSUME NEW c \in {"tick", "line"} PROVE Single(At(r, c))
  <2> SUFFICES ASSUME NEW i \in At(r, c), NEW j \in At(r, c) PROVE i = j
    BY DEF Single
  <2>1. c \in Marks /\ c # "star"
    BY DEF Marks
  <2>2. i # 1 /\ i # 3 /\ j # 1 /\ j # 3
    BY <2>1, <1>5 DEF At
  <2>3. i \in Int /\ j \in Int /\ i - 6 = j - 6
    BY <2>1, <2>2, <1>8 DEF Single
  <2> QED BY <2>3
<1>10. TitleStars(r)
  <2>1. Single({i \in At(r, "star") : i > 3})
    <3> SUFFICES ASSUME NEW i \in At(r, "star"), NEW j \in At(r, "star"), i > 3, j > 3
                 PROVE  i = j
      BY DEF Single
    <3>1. "star" \in Marks
      BY DEF Marks
    <3>2. i # 1 /\ i # 3 /\ j # 1 /\ j # 3
      OBVIOUS
    <3>3. i \in Int /\ j \in Int /\ i - 6 = j - 6
      BY <3>1, <3>2, <1>8 DEF Single
    <3> QED BY <3>3
  <2>2. Len(r) >= 3
    BY <1>0, <1>3
  <2> QED BY <2>1, <2>2, <1>5 DEF TitleStars
<1>11. Alternate(r, "tick") = r
  <2>1. "tick" \in Marks
    BY DEF Marks
  <2> QED BY <2>1, <1>2, <1>9, LoneMark
<1>12. MDToHTML(s) = Alternate(Alternate(r, "star"), "line")
  BY <1>2, <1>11 DEF MDToHTML
<1>13. f[3] = <<>> /\ f[Len(r)] = <<>>
  BY <1>0, <1>3
<1>14. Read(<<>>, "<pre>") = <<"<pre>">> /\ Read(<<"<pre>">>, "</pre>") = <<>>
  <2>1. Fence \in DOMAIN Open
    BY MarksAndFence DEF Fence
  <2> QED BY <2>1, ReadTags, TagsOfMarks
<1>15. ASSUME NEW i \in 4..Len(r) PROVE f[i] = Read(f[i - 1], r[i])
  <2>0. i \in 4..(n + 8) /\ i \in Nat /\ i - 1 \in Nat
    BY <1>0, <1>3
  <2>1. /\ f[i] = IF 5 <= i /\ i < n + 8 THEN <<"<pre>">> ELSE <<>>
        /\ f[i - 1] = IF 5 <= i - 1 /\ i - 1 < n + 8 THEN <<"<pre>">> ELSE <<>>
    BY <2>0
  <2> HIDE DEF f
  <2>2. CASE i = 5
    <3>1. f[5] = <<"<pre>">> /\ f[5 - 1] = <<>>
      BY <2>1, <2>2, <1>0
    <3> QED BY <2>2, <3>1, <1>5, <1>14
  <2>3. CASE i = n + 8
    <3>1. f[i] = <<>> /\ f[i - 1] = <<"<pre>">>
      BY <2>1, <2>3, <1>0
    <3> QED BY <2>3, <3>1, <1>5, <1>14
  <2>4. CASE i # 5 /\ i # n + 8
    <3>1. f[i] = f[i - 1]
      BY <2>0, <2>1, <2>4, <1>0
    <3>2. r[i] \in Chars
      <4>1. i = 4 \/ i = 6 \/ i = n + 7 \/ i \in 7..(n + 6)
        BY <2>0, <2>4, <1>0
      <4>2. "x" \in Chars
        BY DEF Chars
      <4>3. \A j \in 1..n : m[j] \in Chars
        BY ElementOfSeq
      <4> QED BY <4>1, <4>2, <4>3, <1>5, <1>6
    <3> QED BY <3>1, <3>2, ReadText
  <2> QED BY <2>2, <2>3, <2>4
<1> HIDE DEF f
<1>16. "line" \in {"tick", "line"}
  OBVIOUS
<1>17. Nests(Alternate(Alternate(r, "star"), "line"))
  BY <1>2, <1>9, <1>10, <1>13, <1>15, <1>16, TitleNests
<1> QED BY <1>12, <1>17 DEF s
---------------------------------------------------------------------------
(* A set of at most one. *)
LEMMA FewIsSingle ==
  ASSUME NEW S, IsFiniteSet(S), Cardinality(S) <= 1
  PROVE  Single(S)
<1> SUFFICES ASSUME NEW i \in S, NEW j \in S, i # j PROVE FALSE
  BY DEF Single
<1>1. IsFiniteSet({i}) /\ Cardinality({i}) = 1
  BY FS_Singleton
<1>2. Cardinality({i} \cup {j}) = 1 + 1
  BY <1>1, FS_AddElement, j \notin {i}
<1>3. Cardinality({i} \cup {j}) \in Nat /\ Cardinality({i} \cup {j}) <= Cardinality(S)
  <2>1. {i} \cup {j} \subseteq S
    OBVIOUS
  <2> QED BY <2>1, FS_Subset, FS_CardinalityType
<1>4. Cardinality(S) \in Nat
  BY FS_CardinalityType
<1> QED BY <1>2, <1>3, <1>4

(* One mark in two texts is in one of them. *)
LEMMA OneOfTwo ==
  ASSUME NEW a \in Seq(Chars), NEW b \in Seq(Chars), MarksIn(a \o b) <= 1
  PROVE  \/ Single(MarkAt(a)) /\ MarkAt(b) = {}
         \/ MarkAt(a) = {} /\ Single(MarkAt(b))
<1> DEFINE t == a \o b
           n == Len(a)
<1>1. /\ t \in Seq(Chars) /\ Len(t) = n + Len(b)
      /\ \A i \in 1..n : t[i] = a[i]
      /\ \A i \in 1..Len(b) : t[n + i] = b[i]
  BY Cat
<1>2. n \in Nat /\ Len(b) \in Nat
  BY LenProperties
<1> HIDE DEF t, n
<1>3. Single(MarkAt(t))
  <2>1. DOMAIN t = 1..Len(t) /\ Len(t) \in Nat
    BY <1>1, LenProperties
  <2>2. MarksIn(t) = Cardinality(MarkAt(t))
    BY <2>1 DEF MarksIn, MarkAt
  <2>3. IsFiniteSet(MarkAt(t))
    BY <2>1, FS_Interval, FS_Subset, 1 \in Int, Len(t) \in Int, MarkAt(t) \subseteq 1..Len(t) DEF MarkAt
  <2>4. MarksIn(t) <= 1
    BY DEF t
  <2> QED BY <2>2, <2>3, <2>4, FewIsSingle
<1>4. \A i \in MarkAt(a) : i \in 1..n /\ i \in MarkAt(t)
  BY <1>1, <1>2 DEF MarkAt, n
<1>5. \A i \in MarkAt(b) : i \in 1..Len(b) /\ n + i \in MarkAt(t)
  BY <1>1, <1>2 DEF MarkAt
<1>6. Single(MarkAt(a))
  BY <1>3, <1>4 DEF Single
<1>7. Single(MarkAt(b))
  <2> SUFFICES ASSUME NEW i \in MarkAt(b), NEW j \in MarkAt(b) PROVE i = j
    BY DEF Single
  <2>1. n + i = n + j
    BY <1>3, <1>5 DEF Single
  <2> QED BY <2>1, <1>2, <1>5
<1>8. ASSUME NEW i \in MarkAt(a), NEW j \in MarkAt(b) PROVE FALSE
  <2>1. i = n + j
    BY <1>3, <1>4, <1>5 DEF Single
  <2> QED BY <2>1, <1>2, <1>4, <1>5
<1> QED BY <1>6, <1>7, <1>8

(* Two texts with one mark in both have one when text is put between. *)
LEMMA OneWithTextBetween ==
  ASSUME NEW a \in Seq(Chars), NEW b \in Seq(Chars),
         \/ Single(MarkAt(a)) /\ MarkAt(b) = {}
         \/ MarkAt(a) = {} /\ Single(MarkAt(b))
  PROVE  Single(MarkAt((a \o Text) \o b))
<1> DEFINE w == (a \o Text) \o b
           n == Len(a) + 1
<1>1. \A i \in MarkAt(w) : i \in MarkAt(a) \/ i - n \in MarkAt(b)
  <2> TAKE i \in MarkAt(w)
  <2>1. \A c \in Marks : \A j \in At(w, c) : j \in At(a, c) \/ j - n \in At(b, c)
    BY BesideHas
  <2> HIDE DEF w, n
  <2>2. w[i] \in Marks /\ i \in At(w, w[i])
    BY DEF MarkAt, At
  <2>3. i \in At(a, w[i]) \/ i - n \in At(b, w[i])
    BY <2>1, <2>2
  <2> QED BY <2>2, <2>3 DEF MarkAt, At
<1>2. n \in Int
  BY LenProperties
<1>3. MarkAt(w) \subseteq Int
  BY DEF MarkAt
<1> HIDE DEF w, n
<1>4. Single(MarkAt(w))
  BY <1>1, <1>2, <1>3, SetsApart
<1> QED BY <1>4 DEF w

(* Text of its own. *)
LEMMA TextIsPlain == MarkAt(Text) = {} /\ Plain(Code(Text))
<1>1. Text \in Seq(Chars) /\ Len(Text) = 1 /\ Text[1] = "x"
  BY TextIsText
<1>2. MarkAt(Text) = {}
  <2>1. \A i \in 1..1 : i = 1
    OBVIOUS
  <2>2. "x" \notin Marks
    BY DEF Marks
  <2> QED BY <1>1, <2>1, <2>2 DEF MarkAt
<1> QED BY <1>1, <1>2, CodeIsCalm

(* The pages without italics of their own, given one mark. *)
LEMMA PlainPagesNest ==
  ASSUME NEW a \in Seq(Chars), NEW b \in Seq(Chars), MarksIn(a \o b) <= 1
  PROVE  /\ Nests(MDToHTML(Status(a, b)))
         /\ Nests(MDToHTML(WiFi(a, b)))
         /\ Nests(MDToHTML(ErrorPage(a, b)))
         /\ Nests(MDToHTML(Dump(a, b)))
<1>1. \/ Single(MarkAt(a)) /\ MarkAt(b) = {}
      \/ MarkAt(a) = {} /\ Single(MarkAt(b))
  BY OneOfTwo
<1>2. \/ Calm(Code(a)) /\ Plain(Code(b))
      \/ Plain(Code(a)) /\ Calm(Code(b))
  BY <1>1, CodeIsCalm
<1>3. Plain(Code(Text))
  BY TextIsPlain
<1>4. Nests(MDToHTML(Status(a, b)))
  <2> DEFINE ab == (Code(a) \o Text) \o Code(b)
             abt == (ab \o Text) \o Code(Text)
             body == (abt \o Text) \o Code(Text)
  <2>1. Calm(ab)
    BY <1>2, PlainBeside
  <2> HIDE DEF ab
  <2>2. Calm(abt)
    BY <2>1, <1>3, PlainBeside
  <2> HIDE DEF abt
  <2>3. Calm(body)
    BY <2>2, <1>3, PlainBeside
  <2>4. Status(a, b) = Titled(body)
    BY DEF Status, body, abt, ab
  <2> HIDE DEF body
  <2> QED BY <2>3, <2>4, CalmNests
<1>5. Nests(MDToHTML(WiFi(a, b)))
  <2> DEFINE ta == (Code(Text) \o Text) \o Code(a)
             body == (ta \o Text) \o Code(b)
  <2>1. \/ Calm(ta) /\ Plain(Code(b))
        \/ Plain(ta) /\ Calm(Code(b))
    BY <1>2, <1>3, PlainBeside
  <2> HIDE DEF ta
  <2>2. Calm(body)
    BY <2>1, PlainBeside
  <2>3. WiFi(a, b) = Titled(body)
    BY DEF WiFi, body, ta
  <2> HIDE DEF body
  <2> QED BY <2>2, <2>3, CalmNests
<1> DEFINE m == (a \o Text) \o b
<1>6. m \in Seq(Chars) /\ Single(MarkAt(m))
  BY <1>1, Beside, OneWithTextBetween
<1>7. ErrorPage(a, b) = Titled(Code(m)) /\ Dump(a, b) = Titled(Fenced(m))
  BY DEF ErrorPage, Dump
<1> HIDE DEF m
<1>8. Nests(MDToHTML(ErrorPage(a, b)))
  BY <1>6, <1>7, CodeIsCalm, CalmNests
<1>9. Nests(MDToHTML(Dump(a, b)))
  BY <1>6, <1>7, DumpNests
<1> QED BY <1>4, <1>5, <1>8, <1>9
---------------------------------------------------------------------------
(* What is sent is the conversion of what was composed. *)
Inv ==
  /\ page \in Pages
  /\ texts \in Texts \X Texts
  /\ html = <<>> \/ html = MDToHTML(Compose(page, texts))

(* It is always so. *)
LEMMA Invariance == Spec => []Inv
<1>1. Init => Inv
  BY DEF Init, Inv
<1>2. Inv /\ [Next]_vars => Inv'
  <2> SUFFICES ASSUME Inv, [Next]_vars PROVE Inv'
    OBVIOUS
  <2>1. CASE Send
    BY <2>1 DEF Inv, Send
  <2>2. CASE UNCHANGED vars
    BY <2>2 DEF Inv, vars
  <2> QED BY <2>1, <2>2 DEF Next
<1> QED BY <1>1, <1>2, PTL DEF Spec

(* Markup.TextSurvives: MDToHTML only puts tags for marks, so that the text*)
(* of any page can be read off what is sent, however long the texts and    *)
(* whatever marks they bring.                                              *)
THEOREM NothingIsLost == Spec => []TextSurvives
<1>1. Inv => TextSurvives
  <2> SUFFICES ASSUME Inv, Sent PROVE Unmarked(html) = Compose(page, texts)
    BY DEF TextSurvives
  <2>1. html = MDToHTML(Compose(page, texts))
    BY DEF Inv, Sent
  <2>2. Compose(page, texts) \in Seq(Chars)
    BY PageIsText DEF Inv
  <2> QED BY <2>1, <2>2, ConversionKeeps
<1> QED BY <1>1, Invariance, PTL

(* Markup.OneMarkIsHarmless: one mark in all that was put into it does not *)
(* spoil a page without italics of its own, however long the texts and     *)
(* wherever the mark is.                                                   *)
THEOREM OneMarkSpoilsNothing == Spec => []OneMarkIsHarmless
<1>1. Inv => OneMarkIsHarmless
  <2> SUFFICES ASSUME Inv, Sent, page \in {"status", "wifi", "error", "dump"},
                      MarksIn(texts[1] \o texts[2]) <= 1
               PROVE  Nests(html)
    BY DEF OneMarkIsHarmless
  <2> DEFINE a == texts[1]
             b == texts[2]
  <2>1. html = MDToHTML(Compose(page, texts))
    BY DEF Inv, Sent
  <2>2. a \in Seq(Chars) /\ b \in Seq(Chars)
    BY TextsAreText DEF Inv
  <2>3. Compose(page, texts) \in {Status(a, b), WiFi(a, b), ErrorPage(a, b), Dump(a, b)}
    <3> HIDE DEF a, b
    <3>1. CASE page = "status"
      BY <3>1 DEF Compose, a, b
    <3>2. CASE page = "wifi"
      BY <3>2 DEF Compose, a, b
    <3>3. CASE page = "error"
      BY <3>3 DEF Compose, a, b
    <3>4. CASE page = "dump"
      BY <3>4 DEF Compose, a, b
    <3> QED BY <3>1, <3>2, <3>3, <3>4
  <2> HIDE DEF a, b
  <2>4. MarksIn(a \o b) <= 1
    BY DEF a, b
  <2> QED BY <2>1, <2>2, <2>3, <2>4, PlainPagesNest
<1> QED BY <1>1, Invariance, PTL
====
