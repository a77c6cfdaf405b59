---------------------------- MODULE ReportProofs ----------------------------
(***************************************************************************)
(* Whatever heap, however the pipelines of fhat.sh run and whatever dies:  *)
(* every line of the report is about one instance.  If nothing is killed,  *)
(* the report is of those that retain most, and complete.                  *)
(*                                                                         *)
(* What flows in a pipe is a stream, a sequence of whatever.  The first    *)
(* part of the module says what each program makes of what it has read,    *)
(* by place: the c-th word of the k-th row.  Nothing a program has         *)
(* written is taken back (ResultGrows), so that what is in a pipe is       *)
(* always the first part of what would be there in the end; that is Flow,  *)
(* the inductive invariant of any pipeline.  From it follows what the four *)
(* pipelines leave in files, each from what the ones before it have left   *)
(* (FilesRight), and ReportInv is inductive for the script.                *)
(*                                                                         *)
(* That nothing is missing is the second part.  Until its last program has *)
(* ended, no program of a pipeline dies or ends before the one it reads    *)
(* from, unless it is killed (Undisturbed); so all of what its programs    *)
(* would make of whole inputs is delivered (Orderly).  sort puts the rows  *)
(* at their ranks, and TopInv carries whole files from one pipeline to the *)
(* next.                                                                   *)
(***************************************************************************)
EXTENDS Report, LinkFilesTheorems

(* A sequence of whatever it holds: a file, or what is in a pipe.          *)
IsStream(s) == s \in Seq(Range(s))

(* The first part of a stream, or all of it.                               *)
Begins(s, t) ==
  /\ IsStream(s) /\ IsStream(t)
  /\ Len(s) <= Len(t)
  /\ \A k \in 1..Len(s) : s[k] = t[k]

------------------------------------------------------------------------------
(* Streams *)

LEMMA StreamLaws ==
  \A s : IsStream(s) =>
    /\ Len(s) \in Nat /\ DOMAIN s = 1..Len(s)
    /\ \A k \in 1..Len(s) : s[k] \in Range(s)
<1>1. SUFFICES ASSUME NEW s, s \in Seq(Range(s))
      PROVE  /\ Len(s) \in Nat /\ DOMAIN s = 1..Len(s)
             /\ \A k \in 1..Len(s) : s[k] \in Range(s)
  BY DEF IsStream
<1> DEFINE R == Range(s)
<1>2. s \in Seq(R)
  BY <1>1
<1> HIDE DEF R
<1>3. Len(s) \in Nat /\ DOMAIN s = 1..Len(s) /\ \A k \in 1..Len(s) : s[k] \in R
  BY <1>2, LenProperties, ElementOfSeq
<1>4. QED
  BY <1>3 DEF R

LEMMA IsAStream ==
  ASSUME NEW S, NEW s \in Seq(S)
  PROVE  IsStream(s) /\ Len(s) \in Nat
<1>1. Len(s) \in Nat /\ DOMAIN s = 1..Len(s) /\ s \in [1..Len(s) -> S]
  BY LenProperties
<1>2. s \in [1..Len(s) -> Range(s)]
  BY <1>1 DEF Range
<1>3. s \in Seq(Range(s))
  BY <1>1, <1>2, SeqDef
<1>4. QED
  BY <1>1, <1>3 DEF IsStream

(* A function on 1..n is one.                                              *)
LEMMA StreamMade ==
  ASSUME NEW n \in Nat, NEW s, s = [k \in 1..n |-> s[k]]
  PROVE  IsStream(s) /\ Len(s) = n /\ DOMAIN s = 1..n
<1>1. DOMAIN s = 1..n
  OBVIOUS
<1>2. s \in [1..n -> Range(s)]
  BY <1>1 DEF Range
<1>3. s \in Seq(Range(s))
  BY <1>2, SeqDef
<1>4. Len(s) \in Nat /\ 1..Len(s) = 1..n
  BY <1>1, <1>3, LenProperties
<1>5. QED
  BY <1>1, <1>3, <1>4 DEF IsStream

(* SubSeq, by where its elements are.                                      *)
LEMMA StreamCut ==
  ASSUME NEW s, IsStream(s), NEW m \in Nat \ {0}, NEW n \in Nat, n <= Len(s), m <= n + 1
  PROVE  /\ IsStream(SubSeq(s, m, n)) /\ Len(SubSeq(s, m, n)) = n - m + 1
         /\ \A i \in 1..(n - m + 1) : SubSeq(s, m, n)[i] = s[m + i - 1]
<1> DEFINE R == Range(s)
<1>1. Len(s) \in Nat /\ \A k \in 1..Len(s) : s[k] \in R
  BY StreamLaws
<1>2. m \in Int /\ n \in Int /\ \A i \in m..n : s[i] \in R
  BY <1>1
<1> HIDE DEF R
<1>3. /\ SubSeq(s, m, n) \in Seq(R)
      /\ Len(SubSeq(s, m, n)) = IF m <= n THEN n - m + 1 ELSE 0
      /\ \A i \in 1..(n - m + 1) : SubSeq(s, m, n)[i] = s[m + i - 1]
  BY <1>2, SubSeqProperties
<1>4. IsStream(SubSeq(s, m, n))
  BY <1>3, IsAStream
<1>5. (IF m <= n THEN n - m + 1 ELSE 0) = n - m + 1
  OBVIOUS
<1>6. QED
  BY <1>3, <1>4, <1>5

LEMMA StreamJoin ==
  ASSUME NEW s, NEW t, IsStream(s), IsStream(t)
  PROVE  /\ IsStream(s \o t) /\ Len(s \o t) = Len(s) + Len(t)
         /\ \A i \in 1..Len(s) : (s \o t)[i] = s[i]
         /\ \A i \in 1..Len(t) : (s \o t)[Len(s) + i] = t[i]
<1> DEFINE R == Range(s) \cup Range(t)
<1>1. s \in Seq(R) /\ t \in Seq(R)
  BY SeqMonotonic DEF IsStream
<1> HIDE DEF R
<1>2. /\ s \o t \in Seq(R) /\ Len(s \o t) = Len(s) + Len(t)
      /\ \A i \in 1..Len(s) + Len(t) :
           (s \o t)[i] = IF i <= Len(s) THEN s[i] ELSE t[i - Len(s)]
  BY <1>1, ConcatProperties
<1>3. Len(s) \in Nat /\ Len(t) \in Nat
  BY <1>1, LenProperties
<1>4. \A i \in 1..Len(s) : i \in 1..Len(s) + Len(t) /\ i <= Len(s)
  BY <1>3
<1>5. \A i \in 1..Len(t) : /\ Len(s) + i \in 1..Len(s) + Len(t) /\ ~ (Len(s) + i <= Len(s))
                           /\ (Len(s) + i) - Len(s) = i
  BY <1>3
<1>6. IsStream(s \o t)
  BY <1>2, IsAStream
<1>7. QED
  BY <1>2, <1>4, <1>5, <1>6

LEMMA StreamAppend ==
  ASSUME NEW s, IsStream(s), NEW e
  PROVE  /\ IsStream(Append(s, e)) /\ Len(Append(s, e)) = Len(s) + 1
         /\ \A i \in 1..Len(s) : Append(s, e)[i] = s[i]
         /\ Append(s, e)[Len(s) + 1] = e
<1> DEFINE R == Range(s) \cup {e}
<1>1. s \in Seq(R) /\ e \in R
  BY SeqMonotonic DEF IsStream
<1> HIDE DEF R
<1>2. /\ Append(s, e) \in Seq(R) /\ Len(Append(s, e)) = Len(s) + 1
      /\ \A i \in 1..Len(s) : Append(s, e)[i] = s[i]
      /\ Append(s, e)[Len(s) + 1] = e
  BY <1>1, AppendProperties
<1>3. QED
  BY <1>2, IsAStream

LEMMA NoStream == IsStream(<< >>) /\ Len(<< >>) = 0
<1>1. << >> \in Seq({}) /\ Len(<< >>) = 0
  BY EmptySeq
<1>2. QED
  BY <1>1, IsAStream

(* Streams are equal if they are as long and hold the same.                *)
LEMMA SameStream ==
  ASSUME NEW s, NEW t, IsStream(s), IsStream(t), Len(s) = Len(t),
         \A k \in 1..Len(s) : s[k] = t[k]
  PROVE  s = t
<1> DEFINE R == Range(s) \cup Range(t)
<1>1. s \in Seq(R) /\ t \in Seq(R)
  BY SeqMonotonic DEF IsStream
<1> HIDE DEF R
<1>2. QED
  BY <1>1, SeqEqual

(* Every word is the c-th of the k-th row, for some k and c.               *)
LEMMA Place ==
  ASSUME NEW w \in Nat \ {0}, NEW j \in Nat \ {0}
  PROVE  /\ (j - 1) \div w \in Nat /\ (j - 1) % w \in 0..(w - 1)
         /\ j - 1 = ((j - 1) \div w) * w + ((j - 1) % w)
<1>1. (j - 1) % w \in 0..(w - 1)
  OBVIOUS
<1>2. j - 1 = ((j - 1) \div w) * w + ((j - 1) % w)
  OBVIOUS
<1>3. (j - 1) \div w \in Int
  OBVIOUS
<1> DEFINE q == (j - 1) \div w
           r == (j - 1) % w
<1>4. q \in Int /\ r \in Int /\ r < w /\ j - 1 = q * w + r
  BY <1>1, <1>2, <1>3
<1> HIDE DEF q, r
<1>5. q >= 0
  <2>1. SUFFICES ASSUME q <= 0 - 1 PROVE FALSE
    BY <1>4
  <2>2. q * w <= 0 - w
    BY <1>4, <2>1
  <2>3. QED
    BY <1>4, <2>2
<1>6. QED
  BY <1>1, <1>2, <1>4, <1>5 DEF q

(* The c-th word of the k-th row.                                          *)
LEMMA PlaceInRow ==
  ASSUME NEW w \in Nat \ {0}, NEW k \in Nat \ {0}, NEW c \in 1..w
  PROVE  LET j == (k - 1) * w + c
         IN  /\ j \in Nat \ {0} /\ j <= k * w
             /\ (j - 1) \div w = k - 1 /\ (j - 1) % w = c - 1
<1> DEFINE a == (k - 1) * w
           j == a + c
           q == (j - 1) \div w
           r == (j - 1) % w
<1>1. a \in Nat /\ a = (k - 1) * w /\ k * w = a + w
  OBVIOUS
<1> HIDE DEF a
<1>2. j \in Nat \ {0} /\ j <= k * w
  BY <1>1
<1>3. q \in Nat /\ r \in 0..(w - 1) /\ j - 1 = q * w + r
  <2> HIDE DEF j
  <2>1. QED
    BY <1>2, Place
<1>4. q * w + r = (k - 1) * w + (c - 1)
  BY <1>1, <1>3
<1> HIDE DEF q, r, j
<1>5. (q - (k - 1)) * w = (c - 1) - r
  BY <1>3, <1>4
<1>6. q - (k - 1) <= 0
  <2>1. SUFFICES ASSUME q - (k - 1) >= 1 PROVE FALSE
    BY <1>3
  <2>2. (q - (k - 1)) * w >= w
    BY <1>3, <2>1
  <2>3. QED
    BY <1>3, <1>5, <2>2
<1>7. q - (k - 1) >= 0
  <2>1. SUFFICES ASSUME q - (k - 1) <= 0 - 1 PROVE FALSE
    BY <1>3
  <2>2. (q - (k - 1)) * w <= 0 - w
    BY <1>3, <2>1
  <2>3. QED
    BY <1>3, <1>5, <2>2
<1>8. q = k - 1
  BY <1>3, <1>6, <1>7
<1>9. r = c - 1
  BY <1>3, <1>4, <1>8
<1>10. QED
  BY <1>1, <1>2, <1>8, <1>9 DEF q, r, j, a

(* Full rows end within the words they are cut from.                       *)
LEMMA RowsWithin ==
  ASSUME NEW w \in Nat \ {0}, NEW n \in Nat, NEW k \in 1..(n \div w)
  PROVE  n \div w \in Nat /\ k * w \in Nat /\ k * w <= n
<1>1. n \div w \in Int /\ n % w \in 0..(w - 1) /\ n = (n \div w) * w + (n % w)
  OBVIOUS
<1> DEFINE q == n \div w
           r == n % w
<1>2. q \in Int /\ r \in Nat /\ n = q * w + r /\ k \in 1..q
  BY <1>1
<1> HIDE DEF q, r
<1>3. (q - k) * w \in Nat /\ (q - k) * w = q * w - k * w
  BY <1>2
<1>4. k * w \in Nat
  OBVIOUS
<1>5. QED
  BY <1>2, <1>3, <1>4 DEF q

(* The words of rows, by where they are.                                   *)
WordsOf(rows, w, n) == [j \in 1..(n * w) |-> rows[((j - 1) \div w) + 1][((j - 1) % w) + 1]]

(* Rows that are equally long.                                             *)
Even(rows, w) ==
  IsStream(rows) /\ \A k \in 1..Len(rows) : IsStream(rows[k]) /\ Len(rows[k]) = w

(* Words made of rows, by where they are.                                  *)
LEMMA WordsOfLaws ==
  ASSUME NEW rows, NEW w \in Nat \ {0}, NEW n \in Nat
  PROVE  /\ IsStream(WordsOf(rows, w, n)) /\ Len(WordsOf(rows, w, n)) = n * w
         /\ \A k \in 1..n : \A c \in 1..w : WordsOf(rows, w, n)[(k - 1) * w + c] = rows[k][c]
<1> DEFINE s == WordsOf(rows, w, n)
           size == n * w
<1>1. size \in Nat
  OBVIOUS
<1>2. s = [j \in 1..size |-> s[j]]
  BY DEF WordsOf
<1>3. ASSUME NEW k \in 1..n, NEW c \in 1..w PROVE s[(k - 1) * w + c] = rows[k][c]
  <2> DEFINE j == (k - 1) * w + c
  <2>1. j \in Nat \ {0} /\ j <= k * w /\ (j - 1) \div w = k - 1 /\ (j - 1) % w = c - 1
    BY PlaceInRow
  <2>2. k * w <= size
    <3>1. (n - k) * w \in Nat /\ (n - k) * w = n * w - k * w
      OBVIOUS
    <3>2. QED
      BY <3>1
  <2>3. j \in 1..size
    <3>1. k * w \in Nat
      OBVIOUS
    <3> HIDE DEF j, size
    <3>2. QED
      BY <1>1, <2>1, <2>2, <3>1
  <2>4. s[j] = rows[((j - 1) \div w) + 1][((j - 1) % w) + 1]
    <3> HIDE DEF j
    <3>1. QED
      BY <2>3 DEF WordsOf
  <2>5. (k - 1) + 1 = k /\ (c - 1) + 1 = c
    OBVIOUS
  <2> HIDE DEF s, j
  <2>6. s[j] = rows[k][c]
    BY <2>1, <2>4, <2>5
  <2>7. QED
    BY <2>6 DEF j
<1> HIDE DEF s, size
<1>4. IsStream(s) /\ Len(s) = size
  BY <1>1, <1>2, StreamMade
<1>5. QED
  BY <1>3, <1>4 DEF s, size

(* The words of one more row follow those before it.                       *)
LEMMA WordsOfOneMore ==
  ASSUME NEW rows, NEW w \in Nat \ {0}, Even(rows, w), NEW n \in 1..Len(rows)
  PROVE  /\ n > 1 => WordsOf(rows, w, n) = WordsOf(rows, w, n - 1) \o rows[n]
         /\ n = 1 => WordsOf(rows, w, n) = rows[n]
<1> DEFINE s == WordsOf(rows, w, n)
           t == WordsOf(rows, w, n - 1)
           a == (n - 1) * w
<1>1. Len(rows) \in Nat /\ n \in Nat /\ n - 1 \in Nat /\ IsStream(rows[n]) /\ Len(rows[n]) = w
  BY StreamLaws DEF Even
<1>2. a \in Nat /\ n * w = a + w
  BY <1>1
<1>3. IsStream(s) /\ Len(s) = a + w /\ IsStream(t) /\ Len(t) = a
  BY <1>1, <1>2, WordsOfLaws
<1>4. \A j \in 1..a : s[j] = t[j]
  <2>1. \A j \in 1..a : j \in 1..(n * w) /\ j \in 1..((n - 1) * w)
    BY <1>2
  <2> HIDE DEF a
  <2>2. QED
    BY <2>1 DEF WordsOf
<1>5. \A c \in 1..w : s[a + c] = rows[n][c]
  <2>1. \A k \in 1..n : \A c \in 1..w : s[(k - 1) * w + c] = rows[k][c]
    <3>1. n \in Nat
      BY <1>1
    <3>2. QED
      BY <3>1, WordsOfLaws, Zenon
  <2>2. n \in 1..n
    BY <1>1
  <2> HIDE DEF s
  <2>3. QED
    BY <2>1, <2>2
<1>6. n = 1 => a = 0
  OBVIOUS
<1> HIDE DEF s, t, a
<1>7. CASE n = 1
  <2>1. \A c \in 1..w : s[c] = rows[n][c]
    BY <1>5, <1>6, <1>7
  <2>2. s = rows[n]
    BY <1>1, <1>3, <1>6, <1>7, <2>1, SameStream
  <2>3. QED
    BY <1>7, <2>2 DEF s
<1>8. CASE n > 1
  <2> DEFINE u == t \o rows[n]
  <2>1. /\ IsStream(u) /\ Len(u) = a + w /\ \A j \in 1..a : u[j] = t[j]
        /\ \A c \in 1..w : u[a + c] = rows[n][c]
    BY <1>1, <1>3, StreamJoin
  <2> HIDE DEF u
  <2>2. ASSUME NEW j \in 1..(a + w) PROVE s[j] = u[j]
    <3>1. CASE j <= a
      BY <1>2, <1>4, <2>1, <3>1
    <3>2. CASE j > a
      <4>1. j - a \in 1..w /\ a + (j - a) = j
        BY <1>2, <3>2
      <4>2. QED
        BY <1>5, <2>1, <4>1
    <3>3. QED
      BY <1>2, <3>1, <3>2
  <2>3. s = u
    BY <1>3, <2>1, <2>2, SameStream
  <2>4. WordsOf(rows, w, n) = WordsOf(rows, w, n - 1) \o rows[n]
    BY <2>3, Zenon DEF s, t, u
  <2>5. n # 1
    BY <1>1, <1>8
  <2>6. QED
    BY <2>4, <2>5, Zenon
<1>9. QED
  BY <1>1, <1>7, <1>8

(* FlattenSeq of equally long rows, by where the words are.                *)
LEMMA Flattened ==
  ASSUME NEW rows, NEW w \in Nat \ {0}, Even(rows, w)
  PROVE  FlattenSeq(rows) = WordsOf(rows, w, Len(rows))
<1> DEFINE n == Len(rows)
           Join(h) == [i \in 1..n |-> IF i = 1 THEN rows[i] ELSE h[i - 1] \o rows[i]]
           flat == CHOOSE h : h = Join(h)
           words == [i \in 1..n |-> WordsOf(rows, w, i)]
<1>1. n \in Nat
  BY StreamLaws DEF Even
<1>2. CASE n = 0
  <2>1. FlattenSeq(rows) = rows
    BY <1>2 DEF FlattenSeq
  <2>2. Len(WordsOf(rows, w, n)) = n * w /\ IsStream(WordsOf(rows, w, n)) /\ n * w = 0
    BY <1>1, <1>2, WordsOfLaws
  <2>3. IsStream(rows)
    BY DEF Even
  <2> HIDE DEF n
  <2>4. Len(rows) = 0
    BY <1>2 DEF n
  <2>5. rows = WordsOf(rows, w, n)
    BY <2>2, <2>3, <2>4, SameStream
  <2>6. QED
    BY <2>1, <2>5 DEF n
<1>3. CASE n # 0
  <2>1. FlattenSeq(rows) = flat[n]
    BY <1>3 DEF FlattenSeq
  <2>2. words = Join(words)
    <3>1. ASSUME NEW i \in 1..n
          PROVE  words[i] = IF i = 1 THEN rows[i] ELSE words[i - 1] \o rows[i]
      <4>1. CASE i = 1
        BY <4>1, WordsOfOneMore
      <4>2. CASE i # 1
        <5>1. i > 1 /\ i - 1 \in 1..n
          BY <4>2
        <5>2. QED
          BY <4>2, <5>1, WordsOfOneMore
      <4>3. QED
        BY <4>1, <4>2
    <3> HIDE DEF words
    <3>2. words = [i \in 1..n |-> words[i]]
      BY DEF words
    <3>3. QED
      BY <3>1, <3>2
  <2>3. flat = Join(flat)
    BY <2>2
  <2> HIDE DEF flat, words
  <2>4. \A i \in 1..n : flat[i] = IF i = 1 THEN rows[i] ELSE flat[i - 1] \o rows[i]
    BY <2>3
  <2>5. \A i \in 1..n : words[i] = IF i = 1 THEN rows[i] ELSE words[i - 1] \o rows[i]
    BY <2>2
  <2> DEFINE Bad == {i \in 1..n : flat[i] # words[i]}
  <2>6. Bad = {}
    <3>1. SUFFICES ASSUME Bad # {} PROVE FALSE
      OBVIOUS
    <3>2. Bad \subseteq Nat
      OBVIOUS
    <3>3. PICK i \in Bad : \A j \in Bad : i <= j
      BY <3>1, <3>2, LeastElement
    <3>4. CASE i = 1
      BY <2>4, <2>5, <3>3, <3>4
    <3>5. CASE i # 1
      <4>1. i \in 1..n /\ i - 1 \in 1..n /\ i - 1 \notin Bad
        BY <3>3, <3>5
      <4>2. flat[i - 1] = words[i - 1]
        BY <4>1
      <4>3. flat[i] = words[i]
        BY <2>4, <2>5, <3>5, <4>1, <4>2
      <4>4. QED
        BY <3>3, <4>3
    <3>6. QED
      BY <3>4, <3>5
  <2>7. n \in 1..n
    BY <1>1, <1>3
  <2>8. flat[n] = words[n]
    BY <2>6, <2>7
  <2>9. words[n] = WordsOf(rows, w, n)
    BY <2>7 DEF words
  <2>10. QED
    BY <2>1, <2>8, <2>9
<1>4. QED
  BY <1>2, <1>3

(* Rows of numbers, and how they are sorted.                               *)
Tuples(w) == [1..w -> Nat]

(* RowGreater is a strict order of rows that are as long.                  *)
LEMMA RowOrder ==
  ASSUME NEW w \in Nat
  PROVE  /\ \A r \in Tuples(w) : ~ RowGreater(r, r)
         /\ \A r, s \in Tuples(w) : r # s => RowGreater(r, s) \/ RowGreater(s, r)
         /\ \A r, s, t \in Tuples(w) : RowGreater(r, s) /\ RowGreater(s, t) => RowGreater(r, t)
<1>1. \A r \in Tuples(w) : DOMAIN r = 1..w /\ \A k \in 1..w : r[k] \in Nat
  BY DEF Tuples
<1>2. \A r, s \in Tuples(w) :
        RowGreater(r, s) <=> \E k \in 1..w : r[k] > s[k] /\ \A j \in 1..(k - 1) : r[j] = s[j]
  BY <1>1 DEF RowGreater
<1>3. ASSUME NEW r \in Tuples(w) PROVE ~ RowGreater(r, r)
  BY <1>1, <1>2
<1>4. ASSUME NEW r \in Tuples(w), NEW s \in Tuples(w), r # s
      PROVE  RowGreater(r, s) \/ RowGreater(s, r)
  <2> DEFINE T == {k \in 1..w : r[k] # s[k]}
  <2>1. T # {} /\ T \subseteq Nat
    BY <1>4 DEF Tuples
  <2>2. PICK k \in T : \A j \in T : k <= j
    BY <2>1, LeastElement
  <2>3. k \in 1..w /\ r[k] # s[k] /\ r[k] \in Nat /\ s[k] \in Nat
    BY <1>1, <2>2
  <2>4. \A j \in 1..(k - 1) : r[j] = s[j]
    BY <2>2, <2>3
  <2>5. r[k] > s[k] \/ s[k] > r[k]
    BY <2>3
  <2>6. QED
    BY <1>2, <2>3, <2>4, <2>5
<1>5. ASSUME NEW r \in Tuples(w), NEW s \in Tuples(w), NEW t \in Tuples(w),
             RowGreater(r, s), RowGreater(s, t)
      PROVE  RowGreater(r, t)
  <2>1. PICK k \in 1..w : r[k] > s[k] /\ \A j \in 1..(k - 1) : r[j] = s[j]
    BY <1>2, <1>5
  <2>2. PICK l \in 1..w : s[l] > t[l] /\ \A j \in 1..(l - 1) : s[j] = t[j]
    BY <1>2, <1>5
  <2>3. \A j \in 1..w : r[j] \in Nat /\ s[j] \in Nat /\ t[j] \in Nat
    BY <1>1
  <2>4. CASE k < l
    <3>1. r[k] > t[k] /\ \A j \in 1..(k - 1) : r[j] = t[j]
      BY <2>1, <2>2, <2>3, <2>4
    <3>2. QED
      BY <1>2, <3>1
  <2>5. CASE k = l
    <3>1. r[k] > t[k] /\ \A j \in 1..(k - 1) : r[j] = t[j]
      BY <2>1, <2>2, <2>3, <2>5
    <3>2. QED
      BY <1>2, <3>1
  <2>6. CASE k > l
    <3>1. r[l] > t[l] /\ \A j \in 1..(l - 1) : r[j] = t[j]
      BY <2>1, <2>2, <2>3, <2>6
    <3>2. QED
      BY <1>2, <3>1
  <2>7. QED
    BY <2>4, <2>5, <2>6
<1>6. QED
  BY <1>3, <1>4, <1>5

Sortable(rows, w) == IsStream(rows) /\ \A k \in 1..Len(rows) : rows[k] \in Tuples(w)

(* Sorting works on a finite set of rows.                                  *)
LEMMA RangeOfRows ==
  ASSUME NEW rows, IsStream(rows)
  PROVE  /\ Range(rows) = {rows[k] : k \in 1..Len(rows)}
         /\ IsFiniteSet(Range(rows)) /\ Cardinality(Range(rows)) \in Nat
<1>1. Len(rows) \in Nat /\ DOMAIN rows = 1..Len(rows)
  BY StreamLaws
<1>2. Range(rows) = {rows[k] : k \in 1..Len(rows)}
  BY <1>1 DEF Range
<1>3. IsFiniteSet(1..Len(rows))
  BY <1>1, FS_Interval
<1> DEFINE R == Range(rows)
           f == [k \in 1..Len(rows) |-> rows[k]]
<1>4. f \in Surjection(1..Len(rows), R)
  <2>1. f \in [1..Len(rows) -> R]
    BY <1>2
  <2>2. \A x \in R : \E k \in 1..Len(rows) : f[k] = x
    BY <1>2
  <2>3. QED
    BY <2>1, <2>2, Fun_IsSurj
<1> HIDE DEF R, f
<1>5. IsFiniteSet(R)
  BY <1>3, <1>4, FS_Surjection
<1>6. QED
  BY <1>2, <1>5, FS_CardinalityType DEF R

(* Every row is there once, the greatest first.                            *)
LEMMA SortedRowsLaws ==
  ASSUME NEW w \in Nat, NEW rows, Sortable(rows, w)
  PROVE  LET size == Cardinality(Range(rows))
             sorted == SortedRows(rows)
         IN  /\ IsStream(sorted) /\ Len(sorted) = size
             /\ sorted \in Bijection(1..size, Range(rows))
             /\ \A i, j \in 1..size : i < j => RowGreater(sorted[i], sorted[j])
<1> DEFINE S == Range(rows)
           size == Cardinality(S)
           above == [row \in S |-> {r \in S : RowGreater(r, row)}]
           p == SortedRows(rows)
<1>1. IsFiniteSet(S) /\ size \in Nat
  BY RangeOfRows DEF Sortable
<1>2. S \subseteq Tuples(w)
  BY RangeOfRows DEF Sortable
<1>3. p = [k \in 1..size |-> CHOOSE row \in S : Cardinality(above[row]) = k - 1]
  BY DEF SortedRows
<1> HIDE DEF S, p
<1>4. above \in [S -> SUBSET S] /\ \A x, y \in S : x \in above[y] <=> RowGreater(x, y)
  OBVIOUS
<1> HIDE DEF above
<1>5. \A x \in S : x \notin above[x]
  BY <1>2, <1>4, RowOrder
<1>6. \A x, y \in S : x # y => x \in above[y] \/ y \in above[x]
  BY <1>2, <1>4, RowOrder
<1>7. \A x \in S : \A y \in above[x] : above[y] \subseteq above[x]
  <2>1. ASSUME NEW x \in S, NEW y \in above[x], NEW z \in above[y] PROVE z \in above[x]
    <3>1. y \in S
      BY <1>4
    <3>2. z \in S
      BY <1>4, <3>1
    <3>3. RowGreater(y, x) /\ RowGreater(z, y)
      BY <1>4, <3>1, <3>2
    <3>4. RowGreater(z, x)
      BY <1>2, <3>1, <3>2, <3>3, RowOrder
    <3>5. QED
      BY <1>4, <3>2, <3>4
  <2>2. QED
    BY <2>1
<1>8. p = [k \in 1..size |-> p[k]]
  BY <1>3
<1>9. \A k \in 1..size : \A x \in S :
        Cardinality(above[x]) = k - 1 => p[k] \in S /\ Cardinality(above[p[k]]) = k - 1
  BY <1>3
<1>10. /\ p \in Bijection(1..size, S)
       /\ \A i, j \in 1..size : i < j => p[i] \in above[p[j]]
  BY <1>1, <1>4, <1>5, <1>6, <1>7, <1>8, <1>9, Enumerated
<1>11. \A i \in 1..size : p[i] \in S
  BY <1>10 DEF Bijection, Injection, Surjection
<1>12. \A i, j \in 1..size : i < j => RowGreater(p[i], p[j])
  BY <1>4, <1>10, <1>11
<1>13. IsStream(p) /\ Len(p) = size
  BY <1>1, <1>8, StreamMade
<1> HIDE DEF size
<1>14. QED
  BY <1>10, <1>12, <1>13 DEF S, p, size

------------------------------------------------------------------------------
(* Rows *)

(* Rows cut from words, by where these are.                                *)
CutFrom(rows, words, w) ==
  /\ IsStream(rows) /\ Len(rows) = Len(words) \div w
  /\ \A k \in 1..Len(rows) :
       /\ IsStream(rows[k]) /\ Len(rows[k]) = w
       /\ \A c \in 1..w : /\ (k - 1) * w + c \in 1..Len(words)
                          /\ rows[k][c] = words[(k - 1) * w + c]

LEMMA FullRowsLaws ==
  ASSUME NEW words, IsStream(words), NEW w \in Nat \ {0}
  PROVE  CutFrom(FullRows(words, w), words, w) /\ Len(words) \div w \in Nat
<1> DEFINE rows == FullRows(words, w)
           q == Len(words) \div w
<1>1. Len(words) \in Nat
  BY StreamLaws
<1>2. q \in Nat
  <2>1. q \in Int /\ Len(words) % w \in 0..(w - 1) /\ Len(words) = q * w + (Len(words) % w)
    BY <1>1
  <2> DEFINE r == Len(words) % w
  <2>2. q \in Int /\ r < w /\ r \in Nat /\ Len(words) = q * w + r
    BY <2>1
  <2> HIDE DEF q, r
  <2>3. SUFFICES ASSUME q <= 0 - 1 PROVE FALSE
    BY <2>2
  <2>4. q * w <= 0 - w
    BY <2>2, <2>3
  <2>5. QED
    BY <1>1, <2>2, <2>4
<1>3. rows = [k \in 1..q |-> SubSeq(words, (k - 1) * w + 1, k * w)]
  BY DEF FullRows
<1>4. ASSUME NEW k \in 1..q
      PROVE  LET row == SubSeq(words, (k - 1) * w + 1, k * w)
             IN  /\ IsStream(row) /\ Len(row) = w
                 /\ \A c \in 1..w : /\ (k - 1) * w + c \in 1..Len(words)
                                    /\ row[c] = words[(k - 1) * w + c]
  <2> DEFINE a == (k - 1) * w
             b == k * w
  <2>1. a \in Nat /\ b = a + w
    BY <1>2
  <2>2. b <= Len(words)
    BY <1>1, RowsWithin
  <2> HIDE DEF a, b
  <2>3. a + 1 \in Nat \ {0} /\ b \in Nat /\ a + 1 <= b + 1 /\ b - (a + 1) + 1 = w
    BY <2>1
  <2> DEFINE row == SubSeq(words, a + 1, b)
  <2>4. /\ IsStream(row) /\ Len(row) = b - (a + 1) + 1
        /\ \A i \in 1..(b - (a + 1) + 1) : row[i] = words[(a + 1) + i - 1]
    BY <2>2, <2>3, StreamCut
  <2> HIDE DEF row
  <2>5. ASSUME NEW c \in 1..w PROVE a + c \in 1..Len(words) /\ row[c] = words[a + c]
    <3>1. (a + 1) + c - 1 = a + c /\ a + c \in 1..Len(words)
      BY <1>1, <2>1, <2>2
    <3>2. QED
      BY <2>3, <2>4, <3>1
  <2>6. IsStream(row) /\ Len(row) = w
    BY <2>3, <2>4
  <2>7. QED
    BY <2>5, <2>6, Zenon DEF row, a, b
<1> HIDE DEF rows, q
<1>5. rows = [k \in 1..q |-> rows[k]]
  BY <1>3
<1>6. IsStream(rows) /\ Len(rows) = q
  BY <1>2, <1>5, StreamMade
<1>7. \A k \in 1..q : rows[k] = SubSeq(words, (k - 1) * w + 1, k * w)
  BY <1>3
<1>8. CutFrom(rows, words, w)
  BY <1>4, <1>6, <1>7, Zenon DEF CutFrom, q
<1>9. QED
  BY <1>2, <1>8 DEF rows, q

(* The words after the last full row.                                      *)
LEMMA PartOfRowLaws ==
  ASSUME NEW words, IsStream(words), NEW w \in Nat \ {0}
  PROVE  LET part == PartOfRow(words, w)
             full == (Len(words) \div w) * w
         IN  /\ IsStream(part)
             /\ Len(part) = 0 \/ Len(part) = 1
             /\ Len(part) = 1 =>
                  /\ IsStream(part[1]) /\ Len(part[1]) <= w
                  /\ \A c \in 1..Len(part[1]) : /\ full + c \in 1..Len(words)
                                                /\ part[1][c] = words[full + c]
<1> DEFINE part == PartOfRow(words, w)
           full == (Len(words) \div w) * w
           rest == SubSeq(words, full + 1, Len(words))
<1>1. Len(words) \in Nat
  BY StreamLaws
<1>2. full \in Nat /\ full <= Len(words) /\ Len(words) - full <= w
  <2> DEFINE j == Len(words) + 1
             q == (j - 1) \div w
             r == (j - 1) % w
  <2>1. j \in Nat \ {0} /\ j - 1 = Len(words)
    BY <1>1
  <2> HIDE DEF j
  <2>2. q \in Nat /\ r \in 0..(w - 1) /\ j - 1 = q * w + r
    BY <2>1, Place
  <2>3. full = q * w
    BY <2>1
  <2> HIDE DEF q, r, full
  <2>4. q * w \in Nat
    BY <2>2
  <2>5. QED
    BY <2>1, <2>2, <2>3, <2>4
<1> HIDE DEF full
<1>3. CASE full = Len(words)
  <2>1. part = << >>
    BY <1>3 DEF PartOfRow, full
  <2>2. QED
    BY <2>1, NoStream
<1>4. CASE full # Len(words)
  <2>1. part = <<rest>>
    BY <1>4 DEF PartOfRow, full
  <2>2. /\ IsStream(rest) /\ Len(rest) = Len(words) - (full + 1) + 1
        /\ \A i \in 1..(Len(words) - (full + 1) + 1) : rest[i] = words[(full + 1) + i - 1]
    <3>1. full + 1 \in Nat \ {0} /\ full + 1 <= Len(words) + 1
      BY <1>2
    <3>2. QED
      BY <1>1, <3>1, StreamCut
  <2> HIDE DEF rest
  <2>3. Len(words) - (full + 1) + 1 = Len(words) - full
    BY <1>1, <1>2
  <2>4. Len(rest) <= w /\ \A c \in 1..Len(rest) : full + c \in 1..Len(words)
                                                  /\ rest[c] = words[full + c]
    <3>1. Len(rest) <= w
      BY <1>2, <2>2, <2>3
    <3>2. ASSUME NEW c \in 1..Len(rest)
          PROVE  full + c \in 1..Len(words) /\ rest[c] = words[full + c]
      <4>1. (full + 1) + c - 1 = full + c /\ full + c \in 1..Len(words)
        BY <1>1, <1>2, <2>2, <2>3
      <4>2. QED
        BY <2>2, <4>1
    <3>3. QED
      BY <3>1, <3>2
  <2>5. part = [k \in 1..1 |-> part[k]] /\ part[1] = rest
    BY <2>1
  <2>6. IsStream(part) /\ Len(part) = 1
    BY <2>5, StreamMade
  <2> HIDE DEF part
  <2>7. QED
    BY <2>2, <2>4, <2>5, <2>6 DEF part, full
<1>5. QED
  BY <1>3, <1>4

------------------------------------------------------------------------------
(* Columns zipped *)

(* What zip and unzip do to the places of words.                           *)
AreColumns(columns) ==
  IsStream(columns) /\ Len(columns) > 0 /\ \A c \in 1..Len(columns) : IsStream(columns[c])

LEMMA LeastOf ==
  ASSUME NEW T, T \subseteq Nat, T # {}
  PROVE  Min(T) \in T /\ \A k \in T : Min(T) <= k
<1>1. \E m \in T : \A k \in T : m <= k
  BY LeastElement
<1>2. QED
  BY <1>1 DEF Min

(* No column is shorter than the shortest.                                 *)
LEMMA ShortestColumn ==
  ASSUME NEW columns, AreColumns(columns)
  PROVE  /\ Shortest(columns) \in Nat
         /\ \A c \in 1..Len(columns) : Shortest(columns) <= Len(columns[c])
         /\ \E c \in 1..Len(columns) : Shortest(columns) = Len(columns[c])
<1> DEFINE T == {Len(columns[c]) : c \in DOMAIN columns}
<1>1. DOMAIN columns = 1..Len(columns) /\ Len(columns) \in Nat
  BY StreamLaws DEF AreColumns
<1>2. T \subseteq Nat /\ T # {}
  <2>1. \A c \in 1..Len(columns) : Len(columns[c]) \in Nat
    BY StreamLaws DEF AreColumns
  <2>2. 1 \in 1..Len(columns)
    BY <1>1 DEF AreColumns
  <2>3. QED
    BY <1>1, <2>1, <2>2
<1>3. Shortest(columns) = Min(T)
  BY DEF Shortest
<1>4. Min(T) \in T /\ \A k \in T : Min(T) <= k
  BY <1>2, LeastOf
<1>5. QED
  BY <1>1, <1>2, <1>3, <1>4

(* Every word of the zipped columns is one of a column's.                  *)
LEMMA ZippedLaws ==
  ASSUME NEW columns, AreColumns(columns)
  PROVE  LET zipped == ZippedWords(columns)
             n == Len(columns)
         IN  /\ IsStream(zipped)
             /\ Shortest(columns) * n <= Len(zipped)
             /\ ~ ZipFails(columns) => Len(zipped) = Shortest(columns) * n
             /\ \A j \in 1..Len(zipped) :
                  LET c == ((j - 1) % n) + 1
                      k == ((j - 1) \div n) + 1
                  IN  c \in 1..n /\ k \in 1..Len(columns[c]) /\ zipped[j] = columns[c][k]
<1> DEFINE n == Len(columns)
           zipped == ZippedWords(columns)
           short == Shortest(columns)
           T == {c \in DOMAIN columns : Len(columns[c]) = short}
           missing == Min(T)
           count == short * n + (IF ZipFails(columns) THEN missing - 1 ELSE 0)
<1>1. DOMAIN columns = 1..n /\ n \in Nat \ {0}
  BY StreamLaws DEF AreColumns
<1>2. \A c \in 1..n : Len(columns[c]) \in Nat
  BY StreamLaws DEF AreColumns
<1>3. /\ short \in Nat
      /\ \A c \in 1..n : short <= Len(columns[c])
      /\ \E c \in 1..n : short = Len(columns[c])
  BY ShortestColumn
<1>4. zipped = [j \in 1..count |-> columns[((j - 1) % n) + 1][((j - 1) \div n) + 1]]
  BY DEF ZippedWords
<1> HIDE DEF n, zipped, short
<1>5. missing \in 1..n /\ \A c \in 1..n : c < missing => Len(columns[c]) # short
  <2>1. T \subseteq Nat /\ T # {}
    BY <1>1, <1>3
  <2>2. Min(T) \in T /\ \A k \in T : Min(T) <= k
    BY <2>1, LeastOf
  <2> DEFINE m == Min(T)
  <2>3. m \in T /\ \A k \in T : m <= k
    BY <2>2
  <2> HIDE DEF m
  <2>4. m \in 1..n /\ \A c \in 1..n : c < m => Len(columns[c]) # short
    BY <1>1, <2>3
  <2>5. QED
    BY <2>4 DEF m
<1> HIDE DEF missing
<1>6. short * n \in Nat
  BY <1>1, <1>3
<1>7. count \in Nat /\ short * n <= count /\ (~ ZipFails(columns) => count = short * n)
  <2> DEFINE a == short * n
  <2>1. a \in Nat
    BY <1>6
  <2> HIDE DEF a
  <2>2. /\ a + (IF ZipFails(columns) THEN missing - 1 ELSE 0) \in Nat
        /\ a <= a + (IF ZipFails(columns) THEN missing - 1 ELSE 0)
        /\ ~ ZipFails(columns) => a + (IF ZipFails(columns) THEN missing - 1 ELSE 0) = a
    BY <1>1, <1>5, <2>1
  <2>3. QED
    BY <2>2 DEF a
<1>8. ASSUME NEW j \in 1..count
      PROVE  LET c == ((j - 1) % n) + 1
                 k == ((j - 1) \div n) + 1
             IN  c \in 1..n /\ k \in 1..Len(columns[c])
  <2> DEFINE q == (j - 1) \div n
             r == (j - 1) % n
  <2>1. j \in Nat \ {0}
    BY <1>7
  <2>2. q \in Nat /\ r \in 0..(n - 1) /\ j - 1 = q * n + r
    BY <1>1, <2>1, Place
  <2>3. j - 1 < short * n + (missing - 1) \/ j - 1 < short * n
    BY <1>5, <1>6, <2>1
  <2> HIDE DEF q, r, count
  <2>4. r + 1 \in 1..n
    BY <1>1, <2>2
  <2>5. q < short \/ (q = short /\ r + 1 < missing)
    <3>1. SUFFICES ASSUME q >= short PROVE q = short /\ r + 1 < missing
      BY <1>3, <2>2
    <3>2. (q - short) * n \in Nat /\ (q - short) * n = q * n - short * n
      BY <1>1, <1>3, <2>2, <3>1
    <3>3. r < missing - 1 /\ (q - short) * n < n
      <4> DEFINE a == q * n
                 b == short * n
                 d == (q - short) * n
      <4>1. a \in Nat /\ b \in Nat /\ d \in Nat /\ d = a - b
        BY <1>1, <1>6, <2>2, <3>2
      <4>2. r \in Nat /\ r < n /\ (a + r < b + (missing - 1) \/ a + r < b)
        BY <1>1, <2>2, <2>3
      <4> HIDE DEF a, b, d
      <4>3. missing \in Nat \ {0} /\ missing <= n /\ n \in Nat
        BY <1>1, <1>5
      <4>4. r < missing - 1 /\ d < n
        BY <4>1, <4>2, <4>3
      <4>5. QED
        BY <4>4 DEF d
    <3>4. q = short
      <4>1. SUFFICES ASSUME q - short >= 1 PROVE FALSE
        BY <1>3, <2>2, <3>1
      <4>2. (q - short) * n >= n
        <5> DEFINE x == q - short
        <5>1. x \in Nat /\ x >= 1
          BY <1>3, <2>2, <3>1, <4>1
        <5> HIDE DEF x
        <5>2. x * n >= n
          BY <1>1, <5>1
        <5>3. QED
          BY <5>2 DEF x
      <4>3. QED
        BY <1>1, <3>2, <3>3, <4>2
    <3>5. QED
      BY <1>5, <2>2, <3>3, <3>4
  <2>6. Len(columns[r + 1]) \in Nat /\ short <= Len(columns[r + 1])
    BY <1>2, <1>3, <2>4
  <2>7. q + 1 <= Len(columns[r + 1])
    <3>1. CASE q < short
      BY <1>3, <2>2, <2>6, <3>1
    <3>2. CASE q = short /\ r + 1 < missing
      <4>1. Len(columns[r + 1]) # short
        BY <1>5, <2>4, <3>2
      <4>2. QED
        BY <1>3, <2>2, <2>6, <3>2, <4>1
    <3>3. QED
      BY <2>5, <3>1, <3>2
  <2>8. q + 1 \in 1..Len(columns[r + 1])
    BY <2>2, <2>6, <2>7
  <2>9. QED
    BY <2>4, <2>8 DEF q, r
<1> HIDE DEF count
<1>9. zipped = [j \in 1..count |-> zipped[j]]
  BY <1>4
<1>10. IsStream(zipped) /\ Len(zipped) = count
  BY <1>7, <1>9, StreamMade
<1>11. \A j \in 1..count : zipped[j] = columns[((j - 1) % n) + 1][((j - 1) \div n) + 1]
  BY <1>4
<1>12. QED
  BY <1>7, <1>8, <1>10, <1>11, Zenon DEF n, zipped, short

------------------------------------------------------------------------------
(* Programs *)

(* Words of numbers, as opposed to lines.                                  *)
Numbers(s) == \A k \in 1..Len(s) : s[k] \in Nat

Kinds == {"cat", "zip", "copy", "absent", "translate", "unpack", "sort", "unzip", "rows",
          "paste", "head"}

(* A program and arguments that fit it.                                    *)
WellBuilt(program) ==
  /\ program.does \in Kinds
  /\ program.does = "cat" => IsStream(program.words)
  /\ program.does = "zip" =>
       /\ AreColumns(program.columns)
       /\ \A c \in 1..Len(program.columns) : Numbers(program.columns[c])
  /\ program.does \in {"sort", "unzip", "rows"} => program.width \in Nat \ {0}
  /\ program.does = "paste" => IsStream(program.lines)
  /\ program.does = "head" => program.count \in Nat

(* What sort writes: rows it has read, each at its place.                  *)
SortedInto(rows, out, full, w) ==
  /\ IsStream(rows) /\ Len(rows) \in Nat
  /\ IsStream(out) /\ Len(out) = Len(rows) * w
  /\ \A k \in 1..Len(rows) :
       /\ \E i \in 1..Len(full) : rows[k] = full[i]
       /\ \A c \in 1..w : out[(k - 1) * w + c] = rows[k][c]

LEMMA SortedWords ==
  ASSUME NEW in, IsStream(in), Numbers(in), NEW w \in Nat \ {0}
  PROVE  SortedInto(SortedRows(FullRows(in, w)), FlattenSeq(SortedRows(FullRows(in, w))),
                    FullRows(in, w), w)
<1> DEFINE full == FullRows(in, w)
           rows == SortedRows(full)
           out == FlattenSeq(rows)
           size == Cardinality(Range(full))
<1>1. /\ IsStream(full)
      /\ \A k \in 1..Len(full) :
           /\ IsStream(full[k]) /\ Len(full[k]) = w
           /\ \A c \in 1..w : /\ (k - 1) * w + c \in 1..Len(in)
                              /\ full[k][c] = in[(k - 1) * w + c]
  <2>1. CutFrom(full, in, w)
    BY FullRowsLaws
  <2> HIDE DEF full
  <2>2. QED
    BY <2>1, Zenon DEF CutFrom
<1> HIDE DEF full
<1>2. Sortable(full, w)
  <2>1. ASSUME NEW k \in 1..Len(full) PROVE full[k] \in Tuples(w)
    <3>1. IsStream(full[k]) /\ Len(full[k]) = w
      BY <1>1
    <3>2. full[k] \in Seq(Range(full[k]))
      BY <3>1 DEF IsStream
    <3>3. full[k] \in [1..w -> Range(full[k])]
      BY <3>1, <3>2, LenProperties
    <3>4. \A c \in 1..w : full[k][c] \in Nat
      BY <1>1 DEF Numbers
    <3>5. QED
      BY <3>3, <3>4 DEF Tuples
  <2>2. QED
    BY <1>1, <2>1 DEF Sortable
<1>3. /\ IsStream(rows) /\ Len(rows) = size /\ rows \in Bijection(1..size, Range(full))
  BY <1>2, SortedRowsLaws, Zenon
<1>4. /\ Range(full) = {full[i] : i \in 1..Len(full)} /\ size \in Nat
  BY <1>1, RangeOfRows
<1> HIDE DEF rows, size
<1>5. ASSUME NEW k \in 1..Len(rows) PROVE \E i \in 1..Len(full) : rows[k] = full[i]
  <2>1. rows[k] \in Range(full)
    BY <1>3 DEF Bijection, Injection, Surjection
  <2>2. QED
    BY <1>4, <2>1
<1>6. Even(rows, w)
  <2>1. ASSUME NEW k \in 1..Len(rows) PROVE IsStream(rows[k]) /\ Len(rows[k]) = w
    BY <1>1, <1>5
  <2>2. QED
    BY <1>3, <2>1 DEF Even
<1>7. Len(rows) \in Nat
  BY <1>3, <1>4
<1>8. out = WordsOf(rows, w, Len(rows))
  BY <1>6, Flattened
<1>9. /\ IsStream(out) /\ Len(out) = Len(rows) * w
      /\ \A k \in 1..Len(rows) : \A c \in 1..w : out[(k - 1) * w + c] = rows[k][c]
  <2> DEFINE n == Len(rows)
  <2>1. n \in Nat
    BY <1>7
  <2> HIDE DEF n
  <2>2. /\ IsStream(WordsOf(rows, w, n)) /\ Len(WordsOf(rows, w, n)) = n * w
        /\ \A k \in 1..n : \A c \in 1..w : WordsOf(rows, w, n)[(k - 1) * w + c] = rows[k][c]
    BY <2>1, WordsOfLaws, Zenon
  <2>3. out = WordsOf(rows, w, n)
    BY <1>8 DEF n
  <2> HIDE DEF out
  <2>4. QED
    BY <2>2, <2>3, Zenon DEF n
<1> HIDE DEF out
<1>10. SortedInto(rows, out, full, w)
  BY <1>3, <1>5, <1>7, <1>9, Zenon DEF SortedInto
<1>11. QED
  BY <1>10, Zenon DEF out, rows, full

(* translate and unpack write one word for every word, up to the first     *)
(* they cannot replace.                                                    *)
LEMMA ReplacedLaws ==
  ASSUME NEW program, NEW in, IsStream(in)
  PROVE  LET out == ReplacedWords(program, in)
         IN  /\ IsStream(out) /\ Len(out) <= Len(in)
             /\ ~ Refused(program, in) => Len(out) = Len(in)
             /\ \A k \in 1..Len(out) : out[k] = Replaced(program, in[k])
<1> DEFINE out == ReplacedWords(program, in)
           n == IF Refused(program, in) THEN Len(in) - 1 ELSE Len(in)
<1>1. Len(in) \in Nat
  BY StreamLaws
<1>2. in # << >> => Len(in) > 0
  <2>1. in # << >> => Len(in) # 0
    BY NoStream, SameStream
  <2>2. QED
    BY <1>1, <2>1
<1>3. n \in Nat /\ n <= Len(in) /\ (~ Refused(program, in) => n = Len(in))
  BY <1>1, <1>2 DEF Refused
<1>4. out = [k \in 1..n |-> Replaced(program, in[k])]
  BY DEF ReplacedWords
<1> HIDE DEF out, n
<1>5. out = [k \in 1..n |-> out[k]] /\ \A k \in 1..n : out[k] = Replaced(program, in[k])
  BY <1>4
<1>6. IsStream(out) /\ Len(out) = n
  BY <1>3, <1>5, StreamMade
<1>7. QED
  BY <1>3, <1>5, <1>6 DEF out

(* What paste writes, line by line.                                        *)
PastedFrom(out, in, names) ==
  /\ IsStream(out) /\ Len(out) \in Nat /\ Len(in) <= Len(out)
  /\ Len(names) <= Len(in) => Len(out) = Len(in)
  /\ \A k \in 1..Len(out) :
       out[k] = Line(IF k <= Len(in) THEN in[k] ELSE << >>,
                     IF k <= Len(names) THEN names[k] ELSE NoName)

LEMMA PastedLaws ==
  ASSUME NEW in, NEW names, IsStream(in), IsStream(names), NEW eof
  PROVE  /\ PastedFrom(PastedLines(in, names, eof), in, names)
         /\ ~ eof => Len(PastedLines(in, names, eof)) = Len(in)
<1> DEFINE out == PastedLines(in, names, eof)
           n == IF eof /\ Len(names) > Len(in) THEN Len(names) ELSE Len(in)
<1>1. Len(in) \in Nat /\ Len(names) \in Nat
  BY StreamLaws
<1>2. /\ n \in Nat /\ Len(in) <= n /\ (~ eof => n = Len(in))
      /\ Len(names) <= Len(in) => n = Len(in)
  BY <1>1
<1>3. out = [k \in 1..n |-> Line(IF k <= Len(in) THEN in[k] ELSE << >>,
                                 IF k <= Len(names) THEN names[k] ELSE NoName)]
  BY DEF PastedLines
<1> HIDE DEF out, n
<1>4. /\ out = [k \in 1..n |-> out[k]]
      /\ \A k \in 1..n : out[k] = Line(IF k <= Len(in) THEN in[k] ELSE << >>,
                                       IF k <= Len(names) THEN names[k] ELSE NoName)
  BY <1>3
<1>5. IsStream(out) /\ Len(out) = n
  BY <1>2, <1>4, StreamMade
<1>6. PastedFrom(out, in, names) /\ (~ eof => Len(out) = Len(in))
  BY <1>2, <1>4, <1>5 DEF PastedFrom
<1>7. QED
  BY <1>6, Zenon DEF out

(* Results, program by program.                                            *)
LEMMA ResultCases ==
  ASSUME NEW program, NEW in, NEW eof
  PROVE  /\ program.does = "cat" => Results(program, in, eof) = program.words
         /\ program.does = "zip" => Results(program, in, eof) = ZippedWords(program.columns)
         /\ program.does = "absent" => Results(program, in, eof) = << >>
         /\ Replaces(program) => Results(program, in, eof) = ReplacedWords(program, in)
         /\ program.does = "sort" /\ eof =>
              Results(program, in, eof) = FlattenSeq(SortedRows(FullRows(in, program.width)))
         /\ program.does = "sort" /\ ~ eof => Results(program, in, eof) = << >>
         /\ program.does = "rows" /\ eof =>
              Results(program, in, eof)
                = FullRows(in, program.width) \o PartOfRow(in, program.width)
         /\ program.does = "rows" /\ ~ eof =>
              Results(program, in, eof) = FullRows(in, program.width) \o << >>
         /\ program.does = "paste" =>
              Results(program, in, eof) = PastedLines(in, program.lines, eof)
         /\ program.does \in {"copy", "unzip", "head"} => Results(program, in, eof) = in
<1> DEFINE R == Results(program, in, eof)
<1>1. program.does = "cat" => R = program.words
  BY DEF Results, Replaces
<1>2. program.does = "zip" => R = ZippedWords(program.columns)
  BY DEF Results, Replaces
<1>3. program.does = "absent" => R = << >>
  BY DEF Results, Replaces
<1>4. Replaces(program) => R = ReplacedWords(program, in)
  BY DEF Results, Replaces
<1>5. program.does = "sort" /\ eof => R = FlattenSeq(SortedRows(FullRows(in, program.width)))
  BY DEF Results, Replaces
<1>6. program.does = "sort" /\ ~ eof => R = << >>
  BY DEF Results, Replaces
<1>7. program.does = "rows" /\ eof
        => R = FullRows(in, program.width) \o PartOfRow(in, program.width)
  BY DEF Results, Replaces
<1>8. program.does = "rows" /\ ~ eof => R = FullRows(in, program.width) \o << >>
  BY DEF Results, Replaces
<1>9. program.does = "paste" => R = PastedLines(in, program.lines, eof)
  BY DEF Results, Replaces
<1>10. program.does \in {"copy", "unzip", "head"} => R = in
  BY DEF Results, Replaces
<1> HIDE DEF R
<1>11. QED
  BY <1>1, <1>2, <1>3, <1>4, <1>5, <1>6, <1>7, <1>8, <1>9, <1>10, Zenon DEF R

(* Programs write streams.                                                 *)
LEMMA ResultIsStream ==
  ASSUME NEW program, WellBuilt(program), NEW in, IsStream(in), NEW eof,
         program.does = "sort" => Numbers(in)
  PROVE  IsStream(Results(program, in, eof))
<1> DEFINE R == Results(program, in, eof)
<1>1. CASE program.does = "cat"
  BY <1>1, ResultCases DEF WellBuilt
<1>2. CASE program.does = "zip"
  BY <1>2, ResultCases, ZippedLaws DEF WellBuilt
<1>3. CASE program.does = "absent"
  BY <1>3, ResultCases, NoStream
<1>4. CASE Replaces(program)
  BY <1>4, ResultCases, ReplacedLaws
<1>5. CASE program.does = "sort"
  <2>1. CASE eof
    <3>1. R = FlattenSeq(SortedRows(FullRows(in, program.width)))
      BY <1>5, <2>1, ResultCases, Zenon
    <3>2. program.width \in Nat \ {0} /\ Numbers(in)
      BY <1>5 DEF WellBuilt
    <3> DEFINE w == program.width
    <3> HIDE DEF R, w
    <3>3. IsStream(FlattenSeq(SortedRows(FullRows(in, w))))
      BY <3>2, SortedWords, Zenon DEF w, SortedInto
    <3>4. QED
      BY <3>1, <3>3, Zenon DEF R, w
  <2>2. CASE ~ eof
    BY <1>5, <2>2, ResultCases, NoStream
  <2>3. QED
    BY <2>1, <2>2
<1>6. CASE program.does = "rows"
  <2>1. IsStream(FullRows(in, program.width)) /\ IsStream(PartOfRow(in, program.width))
    BY <1>6, FullRowsLaws, PartOfRowLaws DEF WellBuilt, CutFrom
  <2>2. CASE eof
    <3>1. R = FullRows(in, program.width) \o PartOfRow(in, program.width)
      BY <1>6, <2>2, ResultCases, Zenon
    <3> HIDE DEF R
    <3>2. IsStream(R)
      BY <2>1, <3>1, StreamJoin
    <3>3. QED
      BY <3>2 DEF R
  <2>3. CASE ~ eof
    BY <1>6, <2>1, <2>3, ResultCases, StreamJoin, NoStream
  <2>4. QED
    BY <2>2, <2>3
<1>7. CASE program.does = "paste"
  <2>1. R = PastedLines(in, program.lines, eof)
    BY <1>7, ResultCases, Zenon
  <2>2. IsStream(program.lines)
    BY <1>7 DEF WellBuilt
  <2>3. PastedFrom(PastedLines(in, program.lines, eof), in, program.lines)
    BY <2>2, PastedLaws, Zenon
  <2> HIDE DEF R
  <2>4. IsStream(R)
    BY <2>1, <2>3, Zenon DEF PastedFrom
  <2>5. QED
    BY <2>4 DEF R
<1>8. CASE program.does \in {"copy", "unzip", "head"}
  BY <1>8, ResultCases
<1>9. QED
  BY <1>1, <1>2, <1>3, <1>4, <1>5, <1>6, <1>7, <1>8 DEF WellBuilt, Kinds, Replaces

LEMMA BeginsItself ==
  ASSUME NEW s, IsStream(s)
  PROVE  Begins(s, s)
BY StreamLaws DEF Begins

LEMMA BeginsTwice ==
  ASSUME NEW s, NEW t, NEW u, Begins(s, t), Begins(t, u)
  PROVE  Begins(s, u)
<1>1. /\ IsStream(s) /\ IsStream(t) /\ IsStream(u)
      /\ Len(s) \in Nat /\ Len(t) \in Nat /\ Len(u) \in Nat
  BY StreamLaws DEF Begins
<1>2. QED
  BY <1>1 DEF Begins

(* Full rows are still there when more words come.                         *)
LEMMA RowsGrow ==
  ASSUME NEW in, NEW in2, Begins(in, in2), NEW w \in Nat \ {0}
  PROVE  Begins(FullRows(in, w), FullRows(in2, w))
<1> DEFINE r == FullRows(in, w)
           s == FullRows(in2, w)
<1>1. /\ IsStream(in) /\ IsStream(in2) /\ Len(in) \in Nat /\ Len(in2) \in Nat
      /\ Len(in) <= Len(in2)
  BY StreamLaws DEF Begins
<1>2. CutFrom(r, in, w) /\ CutFrom(s, in2, w)
  BY <1>1, FullRowsLaws
<1>3. r = [k \in 1..(Len(in) \div w) |-> SubSeq(in, (k - 1) * w + 1, k * w)]
  BY DEF FullRows
<1> HIDE DEF r, s
<1>4. IsStream(r) /\ IsStream(s) /\ Len(r) \in Nat /\ Len(s) \in Nat
      /\ Len(r) = Len(in) \div w /\ Len(s) = Len(in2) \div w
  BY <1>2, StreamLaws DEF CutFrom
<1>5. Len(r) <= Len(s)
  <2> DEFINE p == Len(in) \div w
             a == Len(in) % w
             q == Len(in2) \div w
             b == Len(in2) % w
  <2>1. Len(in) = p * w + a /\ a \in 0..(w - 1) /\ Len(in2) = q * w + b /\ b \in 0..(w - 1)
    BY <1>1
  <2>2. p \in Nat /\ q \in Nat
    BY <1>4
  <2> HIDE DEF p, q, a, b
  <2>3. SUFFICES ASSUME p - q >= 1 PROVE FALSE
    BY <1>4, <2>2 DEF p, q
  <2>4. (p - q) * w >= w
    <3> DEFINE x == p - q
    <3>1. x \in Nat /\ x >= 1
      BY <2>2, <2>3
    <3> HIDE DEF x
    <3>2. x * w >= w
      BY <3>1
    <3>3. QED
      BY <3>2 DEF x
  <2>5. (p - q) * w = p * w - q * w /\ p * w \in Nat /\ q * w \in Nat
    BY <2>2
  <2>6. QED
    BY <1>1, <2>1, <2>4, <2>5
<1>6. ASSUME NEW k \in 1..Len(r) PROVE r[k] = s[k]
  <2>1. k \in 1..Len(s)
    BY <1>4, <1>5
  <2>2. /\ IsStream(r[k]) /\ Len(r[k]) = w
        /\ \A c \in 1..w : (k - 1) * w + c \in 1..Len(in) /\ r[k][c] = in[(k - 1) * w + c]
    BY <1>2, Zenon DEF CutFrom
  <2>3. /\ IsStream(s[k]) /\ Len(s[k]) = w
        /\ \A c \in 1..w : s[k][c] = in2[(k - 1) * w + c]
    BY <1>2, <2>1, Zenon DEF CutFrom
  <2>4. ASSUME NEW c \in 1..w PROVE r[k][c] = s[k][c]
    <3> DEFINE j == (k - 1) * w + c
    <3>1. j \in 1..Len(in) /\ r[k][c] = in[j] /\ s[k][c] = in2[j]
      BY <2>2, <2>3
    <3> HIDE DEF j
    <3>2. in[j] = in2[j]
      BY <3>1 DEF Begins
    <3>3. QED
      BY <3>1, <3>2
  <2>5. QED
    BY <2>2, <2>3, <2>4, SameStream
<1>7. Begins(r, s)
  BY <1>4, <1>5, <1>6 DEF Begins
<1>8. QED
  BY <1>7 DEF r, s

(* Nothing that has been written is taken back: with more input, or at the *)
(* end of it, a program only writes more.                                  *)
LEMMA ResultGrows ==
  ASSUME NEW program, WellBuilt(program), NEW in, NEW in2, Begins(in, in2),
         NEW eof, NEW eof2,
         eof => in = in2 /\ eof2,
         in = in2 \/ ~ Fails(program, in, eof),
         program.does = "sort" => Numbers(in2)
  PROVE  Begins(Results(program, in, eof), Results(program, in2, eof2))
<1> DEFINE R == Results(program, in, eof)
           Q == Results(program, in2, eof2)
<1>1. IsStream(in) /\ IsStream(in2) /\ Len(in) \in Nat /\ Len(in2) \in Nat
  BY StreamLaws DEF Begins
<1>2. program.does = "sort" => Numbers(in)
  BY <1>1 DEF Numbers, Begins
<1>3. IsStream(R) /\ IsStream(Q)
  BY <1>1, <1>2, ResultIsStream
<1>4. CASE eof
  BY <1>3, <1>4, BeginsItself
<1>5. CASE ~ eof
  <2>1. CASE program.does \in {"cat", "zip", "absent"}
    <3>1. R = Q
      BY <2>1, ResultCases
    <3>2. QED
      BY <1>3, <3>1, BeginsItself
  <2>2. CASE Replaces(program)
    <3>1. R = ReplacedWords(program, in) /\ Q = ReplacedWords(program, in2)
      BY <2>2, ResultCases
    <3>2. CASE in = in2
      BY <1>3, <3>1, <3>2, BeginsItself
    <3>3. CASE in # in2
      <4>1. ~ Refused(program, in)
        <5>1. Fails(program, in, eof) = Refused(program, in)
          BY <2>2 DEF Fails, Replaces
        <5>2. QED
          BY <3>3, <5>1
      <4>2. /\ Len(R) = Len(in) /\ Len(Q) <= Len(in2)
            /\ \A k \in 1..Len(R) : R[k] = Replaced(program, in[k])
            /\ \A k \in 1..Len(Q) : Q[k] = Replaced(program, in2[k])
        BY <1>1, <3>1, <4>1, ReplacedLaws
      <4>3. Len(in) < Len(in2)
        BY <1>1, <3>3, SameStream DEF Begins
      <4>4. Len(Q) >= Len(in2) - 1
        <5>1. Q = [k \in 1..(IF Refused(program, in2) THEN Len(in2) - 1 ELSE Len(in2)) |->
                     Replaced(program, in2[k])]
          BY <3>1 DEF ReplacedWords
        <5> DEFINE n == IF Refused(program, in2) THEN Len(in2) - 1 ELSE Len(in2)
        <5>2. n \in Nat /\ n >= Len(in2) - 1
          BY <1>1, <4>3
        <5> HIDE DEF n, Q
        <5>3. Q = [k \in 1..n |-> Q[k]]
          BY <5>1 DEF n
        <5>4. Len(Q) = n
          BY <5>2, <5>3, StreamMade
        <5>5. QED
          BY <5>2, <5>4
      <4> HIDE DEF R, Q
      <4>5. Len(R) <= Len(Q) /\ Len(Q) \in Nat
        BY <1>1, <1>3, <4>2, <4>3, <4>4, StreamLaws
      <4>6. \A k \in 1..Len(R) : R[k] = Q[k]
        BY <1>1, <4>2, <4>5 DEF Begins
      <4>7. QED
        BY <1>3, <4>5, <4>6 DEF Begins, R, Q
    <3>4. QED
      BY <3>2, <3>3
  <2>3. CASE program.does = "sort"
    <3>1. R = << >>
      BY <1>5, <2>3, ResultCases
    <3> HIDE DEF Q
    <3>2. Len(Q) \in Nat
      BY <1>3, StreamLaws
    <3>3. Begins(<< >>, Q)
      BY <1>3, <3>2, NoStream DEF Begins
    <3>4. QED
      BY <3>1, <3>3 DEF Q
  <2>4. CASE program.does = "rows"
    <3> DEFINE w == program.width
               r == FullRows(in, w)
               s == FullRows(in2, w)
    <3>1. w \in Nat \ {0}
      BY <2>4 DEF WellBuilt
    <3> HIDE DEF w
    <3>2. Begins(r, s)
      BY <3>1, RowsGrow
    <3>3. R = r \o << >>
      BY <1>5, <2>4, ResultCases DEF w
    <3>4. \E tail : IsStream(tail) /\ Q = s \o tail
      <4>1. CASE eof2
        <5>1. Q = s \o PartOfRow(in2, w)
          BY <2>4, <4>1, ResultCases DEF w
        <5>2. IsStream(PartOfRow(in2, w))
          BY <1>1, <3>1, PartOfRowLaws
        <5> HIDE DEF Q
        <5>3. QED
          BY <5>1, <5>2
      <4>2. CASE ~ eof2
        <5>1. Q = s \o << >>
          BY <2>4, <4>2, ResultCases DEF w
        <5> HIDE DEF Q
        <5>2. QED
          BY <5>1, NoStream
      <4>3. QED
        BY <4>1, <4>2
    <3>5. PICK tail : IsStream(tail) /\ Q = s \o tail
      BY <3>4
    <3> HIDE DEF R, Q, r, s
    <3>6. Len(r) \in Nat /\ Len(s) \in Nat /\ Len(tail) \in Nat /\ IsStream(r) /\ IsStream(s)
      BY <3>2, <3>5, StreamLaws DEF Begins
    <3>7. Len(R) = Len(r) /\ \A k \in 1..Len(r) : R[k] = r[k]
      BY <3>3, <3>6, NoStream, StreamJoin
    <3>8. Len(Q) = Len(s) + Len(tail) /\ \A k \in 1..Len(s) : Q[k] = s[k]
      BY <3>5, <3>6, StreamJoin
    <3>9. Begins(R, Q)
      BY <1>3, <3>2, <3>6, <3>7, <3>8 DEF Begins
    <3>10. QED
      BY <3>9 DEF R, Q
  <2>5. CASE program.does = "paste"
    <3> DEFINE names == program.lines
    <3>1. IsStream(names)
      BY <2>5 DEF WellBuilt
    <3>2. R = PastedLines(in, names, eof) /\ Q = PastedLines(in2, names, eof2)
      BY <2>5, ResultCases
    <3>3. /\ Len(R) = Len(in) /\ Len(in2) <= Len(Q) /\ Len(Q) \in Nat
          /\ \A k \in 1..Len(R) :
               R[k] = Line(IF k <= Len(in) THEN in[k] ELSE << >>,
                           IF k <= Len(names) THEN names[k] ELSE NoName)
          /\ \A k \in 1..Len(Q) :
               Q[k] = Line(IF k <= Len(in2) THEN in2[k] ELSE << >>,
                           IF k <= Len(names) THEN names[k] ELSE NoName)
      <4>1. PastedFrom(R, in, names) /\ PastedFrom(Q, in2, names)
        BY <1>1, <3>1, <3>2, PastedLaws, Zenon
      <4>2. Len(PastedLines(in, names, eof)) = Len(in)
        BY <1>1, <1>5, <3>1, PastedLaws, Zenon
      <4>3. Len(R) = Len(in)
        BY <3>2, <4>2, Zenon
      <4> HIDE DEF R, Q, names
      <4>4. QED
        BY <4>1, <4>3 DEF PastedFrom
    <3> HIDE DEF R, Q, names
    <3>4. Len(in) <= Len(in2) /\ \A k \in 1..Len(in) : in[k] = in2[k]
      BY DEF Begins
    <3>5. \A k \in 1..Len(R) : R[k] = Q[k]
      BY <1>1, <3>3, <3>4
    <3>6. Len(R) <= Len(Q)
      BY <1>1, <3>3, <3>4
    <3>7. QED
      BY <1>3, <3>5, <3>6 DEF Begins, R, Q
  <2>6. CASE program.does \in {"copy", "unzip", "head"}
    BY <2>6, ResultCases
  <2>7. QED
    BY <2>1, <2>2, <2>3, <2>4, <2>5, <2>6 DEF WellBuilt, Kinds, Replaces
<1>6. QED
  BY <1>4, <1>5

------------------------------------------------------------------------------
(* Pipelines *)

(* The programs before a sort, which write numbers.                        *)
Counting(ps, p) ==
  \/ ps[p].does \in {"zip", "absent"}
  \/ ps[p].does = "copy" /\ p > 1 /\ ps[p - 1].does = "zip"

PipelineOK(ps) ==
  /\ IsStream(ps) /\ Len(ps) > 0
  /\ \A p \in 1..Len(ps) :
       /\ WellBuilt(ps[p])
       /\ ps[p].does = "sort" => p > 1 /\ Counting(ps, p - 1)

(* Flow is the invariant of a pipeline: what is written is the first part  *)
(* of the result of what is read, which is the first part of what is       *)
(* written before.                                                         *)
FlowTypes ==
  /\ PipelineOK(programs)
  /\ read \in [Stages -> Nat] /\ DOMAIN written = Stages
  /\ status \in [Stages -> {"running", "ended", "dead"}]
  /\ \A p \in Stages : IsStream(written[p])

FlowReads == \A p \in Stages : read[p] <= Len(Before(p))

FlowNumbers == \A p \in Stages : Counting(programs, p) => Numbers(written[p])

FlowWritten == \A p \in Stages : Begins(written[p], Result(p))

FlowEnded ==
  \A p \in Stages : status[p] = "ended" =>
    /\ written[p] = Result(p) /\ ~ Failing(p)
    /\ AtEof(p) \/ HasEnough(programs[p], Input(p))

Flow == FlowTypes /\ FlowReads /\ FlowNumbers /\ FlowWritten /\ FlowEnded

LEMMA StagesAre ==
  ASSUME FlowTypes
  PROVE  /\ Stages = 1..Final /\ Final \in Nat \ {0}
         /\ \A p \in Stages : WellBuilt(programs[p])
         /\ \A p \in Stages : p > 1 => p - 1 \in Stages
<1>1. /\ IsStream(programs) /\ Len(programs) > 0
      /\ \A p \in 1..Len(programs) : WellBuilt(programs[p])
  BY DEF FlowTypes, PipelineOK
<1>2. Len(programs) \in Nat /\ DOMAIN programs = 1..Len(programs)
  BY <1>1, StreamLaws
<1>3. QED
  BY <1>1, <1>2 DEF Stages, Final

LEMMA BeforeIsStream ==
  ASSUME FlowTypes, NEW p \in Stages
  PROVE  IsStream(Before(p)) /\ Len(Before(p)) \in Nat
<1>1. CASE p = 1
  BY <1>1, NoStream DEF Before
<1>2. CASE p # 1
  <2>1. p - 1 \in Stages
    BY <1>2, StagesAre
  <2>2. IsStream(written[p - 1])
    BY <2>1 DEF FlowTypes
  <2>3. IsStream(Piped(p - 1))
    BY <2>2, NoStream DEF Piped
  <2>4. QED
    BY <1>2, <2>3, StreamLaws DEF Before
<1>3. QED
  BY <1>1, <1>2

(* The first elements of a stream.                                         *)
LEMMA Taken ==
  ASSUME NEW b, IsStream(b), NEW n \in Nat, n <= Len(b)
  PROVE  /\ IsStream(SubSeq(b, 1, n)) /\ Len(SubSeq(b, 1, n)) = n
         /\ \A i \in 1..n : SubSeq(b, 1, n)[i] = b[i]
<1>1. 1 \in Nat \ {0} /\ 1 <= n + 1 /\ n - 1 + 1 = n /\ \A i \in 1..n : 1 + i - 1 = i
  OBVIOUS
<1>2. /\ IsStream(SubSeq(b, 1, n)) /\ Len(SubSeq(b, 1, n)) = n - 1 + 1
      /\ \A i \in 1..(n - 1 + 1) : SubSeq(b, 1, n)[i] = b[1 + i - 1]
  BY <1>1, StreamCut
<1>3. QED
  BY <1>1, <1>2

LEMMA TakenOfMore ==
  ASSUME NEW b, NEW c, Begins(b, c), NEW n \in Nat, n <= Len(b)
  PROVE  SubSeq(b, 1, n) = SubSeq(c, 1, n)
<1>1. IsStream(b) /\ IsStream(c) /\ Len(b) \in Nat /\ Len(c) \in Nat /\ n <= Len(c)
      /\ \A i \in 1..Len(b) : b[i] = c[i]
  BY StreamLaws DEF Begins
<1>2. /\ IsStream(SubSeq(b, 1, n)) /\ Len(SubSeq(b, 1, n)) = n
      /\ \A i \in 1..n : SubSeq(b, 1, n)[i] = b[i]
  BY <1>1, Taken
<1>3. /\ IsStream(SubSeq(c, 1, n)) /\ Len(SubSeq(c, 1, n)) = n
      /\ \A i \in 1..n : SubSeq(c, 1, n)[i] = c[i]
  BY <1>1, Taken
<1>4. \A i \in 1..n : b[i] = c[i]
  BY <1>1
<1>5. \A i \in 1..n : SubSeq(b, 1, n)[i] = SubSeq(c, 1, n)[i]
  BY <1>2, <1>3, <1>4
<1>6. QED
  BY <1>2, <1>3, <1>5, SameStream

(* What a program has read.                                                *)
LEMMA InputIsStream ==
  ASSUME FlowTypes, FlowReads, NEW p \in Stages
  PROVE  /\ IsStream(Input(p)) /\ Len(Input(p)) = read[p] /\ read[p] \in Nat
         /\ \A i \in 1..read[p] : Input(p)[i] = Before(p)[i]
         /\ AtEof(p) => Input(p) = Before(p)
<1>1. IsStream(Before(p)) /\ Len(Before(p)) \in Nat
  BY BeforeIsStream
<1>2. read[p] \in Nat /\ read[p] <= Len(Before(p))
  BY DEF FlowTypes, FlowReads
<1>3. /\ IsStream(Input(p)) /\ Len(Input(p)) = read[p]
      /\ \A i \in 1..read[p] : Input(p)[i] = Before(p)[i]
  BY <1>1, <1>2, Taken DEF Input
<1>4. AtEof(p) => Input(p) = Before(p)
  BY <1>1, <1>3, SameStream DEF AtEof
<1>5. QED
  BY <1>2, <1>3, <1>4

(* What comes to sort is numbers.                                          *)
LEMMA SortReadsNumbers ==
  ASSUME FlowTypes, FlowReads, FlowNumbers, NEW p \in Stages, programs[p].does = "sort"
  PROVE  Numbers(Input(p))
<1>1. p > 1 /\ Counting(programs, p - 1)
  BY DEF FlowTypes, PipelineOK, Stages, StreamLaws
<1>2. p - 1 \in Stages
  BY <1>1, StagesAre
<1>3. Numbers(written[p - 1])
  BY <1>1, <1>2 DEF FlowNumbers
<1>4. Before(p) = written[p - 1]
  BY <1>1 DEF Before, Piped, Counting
<1>5. /\ Len(Input(p)) = read[p] /\ read[p] \in Nat /\ read[p] <= Len(Before(p))
      /\ \A i \in 1..read[p] : Input(p)[i] = Before(p)[i]
  BY InputIsStream DEF FlowReads
<1>6. Len(Before(p)) \in Nat
  BY BeforeIsStream
<1>7. QED
  BY <1>3, <1>4, <1>5, <1>6 DEF Numbers

LEMMA ResultIsAStream ==
  ASSUME FlowTypes, FlowReads, FlowNumbers, NEW p \in Stages
  PROVE  IsStream(Result(p)) /\ Len(Result(p)) \in Nat
<1>1. WellBuilt(programs[p]) /\ IsStream(Input(p))
  BY StagesAre, InputIsStream
<1>2. programs[p].does = "sort" => Numbers(Input(p))
  BY SortReadsNumbers
<1>3. IsStream(Result(p))
  BY <1>1, <1>2, ResultIsStream DEF Result
<1>4. QED
  BY <1>3, StreamLaws

(* Words that are numbers stay numbers.                                    *)
LEMMA CountingResults ==
  ASSUME FlowTypes, FlowReads, FlowNumbers, NEW p \in Stages, Counting(programs, p)
  PROVE  Numbers(Result(p))
<1>1. WellBuilt(programs[p])
  BY StagesAre
<1>2. CASE programs[p].does = "zip"
  <2> DEFINE columns == programs[p].columns
             out == ZippedWords(columns)
  <2>1. AreColumns(columns) /\ \A c \in 1..Len(columns) : Numbers(columns[c])
    BY <1>1, <1>2 DEF WellBuilt
  <2>2. Result(p) = out
    BY <1>2, ResultCases DEF Result
  <2> HIDE DEF columns
  <2>3. \A j \in 1..Len(out) :
          \E c \in 1..Len(columns) : \E k \in 1..Len(columns[c]) : out[j] = columns[c][k]
    BY <2>1, ZippedLaws
  <2> HIDE DEF out
  <2>4. Numbers(out)
    BY <2>1, <2>3 DEF Numbers
  <2>5. QED
    BY <2>2, <2>4
<1>3. CASE programs[p].does = "absent"
  <2>1. Result(p) = << >>
    BY <1>3, ResultCases DEF Result
  <2>2. QED
    BY <2>1, NoStream DEF Numbers
<1>4. CASE programs[p].does = "copy" /\ p > 1 /\ programs[p - 1].does = "zip"
  <2>1. p - 1 \in Stages /\ Counting(programs, p - 1)
    BY <1>4, StagesAre DEF Counting
  <2>2. Numbers(written[p - 1]) /\ Before(p) = written[p - 1]
    BY <1>4, <2>1 DEF FlowNumbers, Before, Piped
  <2>3. /\ Len(Input(p)) = read[p] /\ read[p] \in Nat /\ read[p] <= Len(Before(p))
        /\ \A i \in 1..read[p] : Input(p)[i] = Before(p)[i] /\ Len(Before(p)) \in Nat
    BY InputIsStream, BeforeIsStream DEF FlowReads
  <2>4. Numbers(Input(p))
    BY <2>2, <2>3 DEF Numbers
  <2>5. Result(p) = Input(p)
    BY <1>4, ResultCases DEF Result
  <2>6. QED
    BY <2>4, <2>5
<1>5. QED
  BY <1>2, <1>3, <1>4 DEF Counting

(* Inputs and results are streams that fit their programs.                 *)
InputsFit ==
  \A p \in Stages :
    /\ IsStream(Input(p)) /\ Len(Input(p)) = read[p]
    /\ AtEof(p) => Input(p) = Before(p)
    /\ programs[p].does = "sort" => Numbers(Input(p))
    /\ IsStream(Result(p)) /\ Len(Result(p)) \in Nat
    /\ Counting(programs, p) => Numbers(Result(p))

LEMMA InputsAreFit == FlowTypes /\ FlowReads /\ FlowNumbers => InputsFit
<1>1. SUFFICES ASSUME FlowTypes, FlowReads, FlowNumbers, NEW p \in Stages
      PROVE  /\ IsStream(Input(p)) /\ Len(Input(p)) = read[p]
             /\ AtEof(p) => Input(p) = Before(p)
             /\ programs[p].does = "sort" => Numbers(Input(p))
             /\ IsStream(Result(p)) /\ Len(Result(p)) \in Nat
             /\ Counting(programs, p) => Numbers(Result(p))
  BY DEF InputsFit
<1>2. QED
  BY <1>1, InputIsStream, SortReadsNumbers, ResultIsAStream, CountingResults

LEMMA InputsAreFitNext == FlowTypes' /\ FlowReads' /\ FlowNumbers' => InputsFit'
BY InputsAreFit, PTL

(* What a step may do to the input of a program.                           *)
MoreInput(p) ==
  /\ Begins(Input(p), Input(p)')
  /\ AtEof(p) => Input(p)' = Input(p) /\ AtEof(p)'
  /\ Input(p)' = Input(p) \/ ~ Failing(p)

(* The output of a program grows by the next word of its result.           *)
OneMoreWord(p) ==
  /\ Len(written[p]) < Len(Result(p))
  /\ written'[p] = Append(written[p], Result(p)[Len(written[p]) + 1])

(* A program that has ended, and one that ends in this step.               *)
StaysEnded(p) == status[p] = "ended" /\ Input(p)' = Input(p) /\ written'[p] = written[p]

EndsNow(p) ==
  /\ written[p] = Result(p) /\ ~ Failing(p)
  /\ AtEof(p) \/ HasEnough(programs[p], Input(p))
  /\ Input(p)' = Input(p) /\ written'[p] = written[p]

(* A result goes on from what it was.                                      *)
LEMMA Onward ==
  ASSUME FlowTypes, FlowReads, FlowNumbers, InputsFit', programs' = programs,
         NEW p \in Stages, MoreInput(p)
  PROVE  Begins(Result(p), Result(p)')
<1>1. Stages' = Stages
  BY DEF Stages
<1>2. programs'[p].does = "sort" => Numbers(Input(p)')
  BY <1>1 DEF InputsFit
<1>3. WellBuilt(programs[p])
  BY StagesAre
<1> DEFINE program == programs[p]
           in == Input(p)
           in2 == Input(p)'
           eof == AtEof(p)
           eof2 == AtEof(p)'
<1>4. /\ WellBuilt(program) /\ Begins(in, in2)
      /\ eof => in = in2 /\ eof2
      /\ in = in2 \/ ~ Fails(program, in, eof)
      /\ program.does = "sort" => Numbers(in2)
  BY <1>2, <1>3 DEF MoreInput, Failing
<1>5. Result(p) = Results(program, in, eof)
  BY DEF Result
<1>6. Result(p)' = Results(program, in2, eof2)
  BY DEF Result
<1> HIDE DEF program, in, in2, eof, eof2
<1>7. Begins(Results(program, in, eof), Results(program, in2, eof2))
  BY <1>4, ResultGrows
<1>8. QED
  BY <1>5, <1>6, <1>7, Zenon

(* Flow is kept by any step that only goes on like this.                   *)
LEMMA FlowOnward ==
  ASSUME Flow, FlowTypes', FlowReads', FlowNumbers', programs' = programs,
         \A p \in Stages : MoreInput(p),
         \A p \in Stages : written'[p] = written[p] \/ OneMoreWord(p),
         \A p \in Stages : status'[p] = "ended" => StaysEnded(p) \/ EndsNow(p)
  PROVE  Flow'
<1>1. FlowTypes /\ FlowReads /\ FlowNumbers /\ FlowWritten /\ FlowEnded
  BY DEF Flow
<1>2. InputsFit /\ InputsFit'
  BY <1>1, InputsAreFit, InputsAreFitNext
<1>3. Stages' = Stages
  BY DEF Stages
<1>4. \A p \in Stages : Begins(Result(p), Result(p)')
  BY <1>1, <1>2, Onward
<1>5. ASSUME NEW p \in Stages PROVE Begins(written'[p], Result(p)')
  <2>1. Begins(written[p], Result(p)) /\ Begins(Result(p), Result(p)')
    BY <1>1, <1>4 DEF FlowWritten
  <2>2. CASE written'[p] = written[p]
    BY <2>1, <2>2, BeginsTwice
  <2>3. CASE OneMoreWord(p)
    <3> DEFINE w == written[p]
               v == written'[p]
               r == Result(p)
               s == Result(p)'
    <3>1. IsStream(w) /\ Len(w) \in Nat /\ Len(w) < Len(r) /\ v = Append(w, r[Len(w) + 1])
      BY <1>1, <2>3, StreamLaws DEF OneMoreWord, FlowTypes
    <3>2. Begins(w, r) /\ Begins(r, s)
      BY <2>1
    <3> HIDE DEF w, v, r, s
    <3>3. IsStream(v) /\ Len(v) = Len(w) + 1 /\ v[Len(w) + 1] = r[Len(w) + 1]
          /\ \A i \in 1..Len(w) : v[i] = w[i]
      BY <3>1, StreamAppend
    <3>4. IsStream(s) /\ Len(r) \in Nat /\ Len(s) \in Nat /\ Len(r) <= Len(s)
          /\ \A i \in 1..Len(r) : r[i] = s[i]
      BY <3>2, StreamLaws DEF Begins
    <3>5. \A i \in 1..Len(w) : w[i] = r[i]
      BY <3>2 DEF Begins
    <3>6. \A i \in 1..Len(v) : v[i] = s[i]
      BY <3>1, <3>3, <3>4, <3>5
    <3>7. Begins(v, s)
      BY <3>1, <3>3, <3>4, <3>6 DEF Begins
    <3>8. QED
      BY <3>7 DEF v, s
  <2>4. QED
    BY <2>2, <2>3
<1>6. ASSUME NEW p \in Stages, status'[p] = "ended"
      PROVE  /\ written'[p] = Result(p)' /\ ~ Failing(p)'
             /\ AtEof(p)' \/ HasEnough(programs'[p], Input(p)')
  <2>1. /\ written'[p] = written[p] /\ Input(p)' = Input(p)
        /\ written[p] = Result(p) /\ ~ Failing(p)
        /\ AtEof(p) \/ HasEnough(programs[p], Input(p))
    BY <1>1, <1>6 DEF StaysEnded, EndsNow, FlowEnded
  <2> DEFINE program == programs[p]
             in == Input(p)
             eof == AtEof(p)
             eof2 == AtEof(p)'
  <2>2. /\ Result(p) = Results(program, in, eof) /\ Failing(p) = Fails(program, in, eof)
    BY DEF Result, Failing
  <2>3. Result(p)' = Results(program, in, eof2) /\ Failing(p)' = Fails(program, in, eof2)
    BY <2>1 DEF Result, Failing
  <2>4. programs'[p] = program /\ Input(p)' = in
    BY <2>1
  <2>5. CASE AtEof(p)
    <3>1. eof /\ eof2
      BY <2>5 DEF MoreInput
    <3>2. WellBuilt(program) /\ IsStream(in) /\ (program.does = "sort" => Numbers(in))
      BY <1>1, <1>2, StagesAre DEF InputsFit
    <3> HIDE DEF program, in, eof, eof2
    <3>3. Begins(Results(program, in, eof), Results(program, in, eof2))
      BY <3>1, <3>2, BeginsItself, ResultGrows
    <3>4. Begins(Results(program, in, eof2), Results(program, in, eof))
      BY <3>1, <3>2, BeginsItself, ResultGrows
    <3>5. Results(program, in, eof) = Results(program, in, eof2)
      <4> DEFINE a == Results(program, in, eof)
                 b == Results(program, in, eof2)
      <4>1. Begins(a, b) /\ Begins(b, a)
        BY <3>3, <3>4
      <4> HIDE DEF a, b
      <4>2. IsStream(a) /\ IsStream(b) /\ Len(a) \in Nat /\ Len(b) \in Nat
        BY <4>1, StreamLaws DEF Begins
      <4>3. Len(a) = Len(b) /\ \A k \in 1..Len(a) : a[k] = b[k]
        BY <4>1, <4>2 DEF Begins
      <4>4. a = b
        BY <4>2, <4>3, SameStream
      <4>5. QED
        BY <4>4 DEF a, b
    <3>6. ~ Fails(program, in, eof2)
      <4>1. ~ Fails(program, in, eof)
        BY <2>1, <2>2
      <4>2. QED
        BY <3>1, <4>1 DEF Fails, Replaces
    <3>7. QED
      BY <2>1, <2>2, <2>3, <3>1, <3>5, <3>6 DEF eof2
  <2>6. CASE HasEnough(programs[p], Input(p))
    <3>1. program.does = "head"
      BY <2>6 DEF HasEnough
    <3>2. Results(program, in, eof) = in /\ Results(program, in, eof2) = in
      BY <3>1, ResultCases
    <3>3. ~ Fails(program, in, eof2)
      BY <3>1 DEF Fails, Replaces
    <3>4. HasEnough(programs'[p], Input(p)')
      BY <2>4, <2>6
    <3> HIDE DEF program, in, eof, eof2
    <3>5. QED
      BY <2>1, <2>2, <2>3, <3>2, <3>3, <3>4
  <2>7. QED
    BY <2>1, <2>5, <2>6
<1>7. FlowWritten'
  BY <1>3, <1>5 DEF FlowWritten
<1>8. FlowEnded'
  BY <1>3, <1>6 DEF FlowEnded
<1>9. QED
  BY <1>7, <1>8 DEF Flow

(* A read takes a word that is there already.                              *)
LEMMA ReadKeeps ==
  ASSUME Flow, NEW p \in Stages, Read(p)
  PROVE  Flow'
<1>1. FlowTypes /\ FlowReads /\ FlowNumbers /\ InputsFit
  BY InputsAreFit DEF Flow
<1>2. /\ programs' = programs /\ written' = written /\ status' = status
      /\ read' = [read EXCEPT ![p] = @ + 1]
      /\ read[p] < Len(Before(p)) /\ ~ Gone(p) /\ ~ Failing(p)
  BY DEF Read
<1>3. /\ read \in [Stages -> Nat] /\ read' \in [Stages -> Nat] /\ read'[p] = read[p] + 1
      /\ \A q \in Stages : q # p => read'[q] = read[q]
  BY <1>1, <1>2 DEF FlowTypes
<1>4. \A q : Before(q)' = Before(q) /\ Gone(q)' = Gone(q)
  BY <1>2 DEF Before, Piped, Gone
<1>5. Stages' = Stages
  BY <1>2 DEF Stages
<1>6. FlowTypes'
  BY <1>1, <1>2, <1>3, <1>5 DEF FlowTypes
<1>7. FlowReads'
  <2>1. ASSUME NEW q \in Stages PROVE read'[q] <= Len(Before(q)')
    <3>1. Len(Before(q)) \in Nat /\ read[q] <= Len(Before(q)) /\ read[q] \in Nat
      BY <1>1, <1>3, BeforeIsStream DEF FlowReads
    <3>2. CASE q = p
      BY <1>2, <1>3, <1>4, <3>1, <3>2
    <3>3. CASE q # p
      BY <1>3, <1>4, <3>1, <3>3
    <3>4. QED
      BY <3>2, <3>3
  <2>2. QED
    BY <1>5, <2>1 DEF FlowReads
<1>8. FlowNumbers'
  BY <1>1, <1>2, <1>5 DEF FlowNumbers, Counting
<1>9. ASSUME NEW q \in Stages, q # p
      PROVE  Input(q)' = Input(q) /\ (AtEof(q) => AtEof(q)')
  BY <1>3, <1>4, <1>9 DEF Input, AtEof
<1>10. ASSUME NEW q \in Stages PROVE MoreInput(q)
  <2>1. CASE q # p
    BY <1>1, <1>9, <2>1, BeginsItself DEF MoreInput, InputsFit
  <2>2. CASE q = p
    <3> DEFINE b == Before(p)
               n == read[p]
               in == Input(p)
               in2 == Input(p)'
    <3>1. IsStream(b) /\ Len(b) \in Nat /\ n \in Nat /\ n < Len(b)
      BY <1>1, <1>2, <1>3, BeforeIsStream
    <3>2. in = SubSeq(b, 1, n) /\ in2 = SubSeq(b, 1, n + 1)
      BY <1>3, <1>4 DEF Input
    <3> HIDE DEF b, n, in, in2
    <3>3. /\ IsStream(in) /\ Len(in) = n /\ \A i \in 1..n : in[i] = b[i]
      BY <3>1, <3>2, Taken
    <3>4. /\ IsStream(in2) /\ Len(in2) = n + 1 /\ \A i \in 1..(n + 1) : in2[i] = b[i]
      <4>1. n + 1 \in Nat /\ n + 1 <= Len(b)
        BY <3>1
      <4>2. QED
        BY <3>1, <3>2, <4>1, Taken
    <3>5. Begins(in, in2)
      BY <3>1, <3>3, <3>4 DEF Begins
    <3>6. ~ AtEof(p)
      BY <3>1 DEF AtEof, n, b
    <3>7. MoreInput(p)
      BY <1>2, <3>5, <3>6 DEF MoreInput, in, in2
    <3>8. QED
      BY <2>2, <3>7
  <2>3. QED
    BY <2>1, <2>2
<1>11. ASSUME NEW q \in Stages, status'[q] = "ended" PROVE StaysEnded(q)
  <2>1. q # p
    BY <1>2, <1>11 DEF Gone
  <2>2. QED
    BY <1>2, <1>9, <1>11, <2>1 DEF StaysEnded
<1>12. QED
  BY <1>2, <1>6, <1>7, <1>8, <1>10, <1>11, FlowOnward

(* A write gives the reader one more word, and may not come after its end  *)
(* of input.                                                               *)
LEMMA WriteKeeps ==
  ASSUME Flow, NEW p \in Stages, Write(p)
  PROVE  Flow'
<1>1. FlowTypes /\ FlowReads /\ FlowNumbers /\ InputsFit
  BY InputsAreFit DEF Flow
<1> DEFINE word == Result(p)[Len(written[p]) + 1]
<1>2. /\ programs' = programs /\ read' = read /\ status' = status
      /\ written' = [written EXCEPT ![p] = Append(@, word)]
      /\ ~ Gone(p) /\ Len(written[p]) < Len(Result(p))
  BY DEF Write
<1>3. /\ written'[p] = Append(written[p], word) /\ DOMAIN written' = Stages
      /\ \A q \in Stages : q # p => written'[q] = written[q]
  BY <1>1, <1>2 DEF FlowTypes
<1>4. /\ IsStream(written[p]) /\ Len(written[p]) \in Nat
  BY <1>1, StreamLaws DEF FlowTypes
<1>5. /\ IsStream(written'[p]) /\ Len(written'[p]) = Len(written[p]) + 1
      /\ written'[p][Len(written[p]) + 1] = word
      /\ \A i \in 1..Len(written[p]) : written'[p][i] = written[p][i]
  <2> HIDE DEF word
  <2>1. QED
    BY <1>3, <1>4, StreamAppend
<1>6. Stages' = Stages
  BY <1>2 DEF Stages
<1>7. \A q \in Stages : Begins(written[q], written'[q])
  <2>1. ASSUME NEW q \in Stages PROVE Begins(written[q], written'[q])
    <3>1. CASE q = p
      BY <1>4, <1>5, <3>1 DEF Begins
    <3>2. CASE q # p
      <4>1. IsStream(written[q])
        BY <1>1 DEF FlowTypes
      <4>2. QED
        BY <1>3, <3>2, <4>1, BeginsItself
    <3>3. QED
      BY <3>1, <3>2
  <2>2. QED
    BY <2>1
<1>8. FlowTypes'
  <2>1. \A q \in Stages : IsStream(written'[q])
    BY <1>7 DEF Begins
  <2>2. PipelineOK(programs') /\ read' \in [Stages -> Nat]
        /\ status' \in [Stages -> {"running", "ended", "dead"}]
    BY <1>1, <1>2 DEF FlowTypes
  <2>3. QED
    BY <1>3, <1>6, <2>1, <2>2 DEF FlowTypes
<1>9. ASSUME NEW q \in Stages PROVE Begins(Before(q), Before(q)')
  <2>1. CASE q = 1
    <3>1. Before(q) = << >> /\ Before(q)' = << >>
      BY <2>1 DEF Before
    <3>2. QED
      BY <3>1, NoStream, BeginsItself
  <2>2. CASE q # 1
    <3>1. q - 1 \in Stages /\ Before(q) = Piped(q - 1) /\ Before(q)' = Piped(q - 1)'
      BY <1>1, <2>2, StagesAre DEF Before
    <3>2. CASE programs[q - 1].does = "unzip"
      <4>1. Piped(q - 1) = << >> /\ Piped(q - 1)' = << >>
        BY <1>2, <3>2 DEF Piped
      <4>2. QED
        BY <3>1, <4>1, NoStream, BeginsItself
    <3>3. CASE programs[q - 1].does # "unzip"
      <4>1. Piped(q - 1) = written[q - 1] /\ Piped(q - 1)' = written'[q - 1]
        BY <1>2, <3>3 DEF Piped
      <4>2. QED
        BY <1>7, <3>1, <4>1
    <3>4. QED
      BY <3>2, <3>3
  <2>3. QED
    BY <2>1, <2>2
<1>10. FlowReads'
  <2>1. ASSUME NEW q \in Stages PROVE read'[q] <= Len(Before(q)')
    <3>1. /\ Len(Before(q)) \in Nat /\ read[q] <= Len(Before(q)) /\ read[q] \in Nat
          /\ Len(Before(q)) <= Len(Before(q)') /\ Len(Before(q)') \in Nat
      <4>1. read[q] <= Len(Before(q)) /\ read[q] \in Nat
        BY <1>1 DEF FlowReads, FlowTypes
      <4>2. IsStream(Before(q)) /\ IsStream(Before(q)') /\ Len(Before(q)) <= Len(Before(q)')
        BY <1>9 DEF Begins
      <4>3. QED
        BY <4>1, <4>2, StreamLaws
    <3>2. QED
      BY <1>2, <3>1
  <2>2. QED
    BY <1>6, <2>1 DEF FlowReads
<1>11. FlowNumbers'
  <2>1. ASSUME NEW q \in Stages, Counting(programs, q) PROVE Numbers(written'[q])
    <3>1. Numbers(written[q]) /\ Numbers(Result(q))
      BY <1>1, <2>1 DEF FlowNumbers, InputsFit
    <3>2. CASE q # p
      BY <1>3, <3>1, <3>2
    <3>3. CASE q = p
      <4>1. Len(Result(p)) \in Nat
        BY <1>1 DEF InputsFit
      <4>2. word \in Nat
        BY <1>2, <1>4, <3>1, <3>3, <4>1 DEF Numbers
      <4> HIDE DEF word
      <4>3. \A i \in 1..Len(written'[p]) : written'[p][i] \in Nat
        BY <1>4, <1>5, <3>1, <3>3, <4>2 DEF Numbers
      <4>4. QED
        BY <3>3, <4>3 DEF Numbers
    <3>4. QED
      BY <3>2, <3>3
  <2>2. QED
    BY <1>2, <1>6, <2>1 DEF FlowNumbers
<1>12. ASSUME NEW q \in Stages PROVE Input(q)' = Input(q)
  <2>1. read[q] \in Nat /\ read[q] <= Len(Before(q))
    BY <1>1 DEF FlowTypes, FlowReads
  <2>2. SubSeq(Before(q), 1, read[q]) = SubSeq(Before(q)', 1, read[q])
    BY <1>9, <2>1, TakenOfMore
  <2>3. QED
    BY <1>2, <2>2 DEF Input
<1>13. ASSUME NEW q \in Stages PROVE AtEof(q) => AtEof(q)'
  <2>1. SUFFICES ASSUME AtEof(q) PROVE AtEof(q)'
    OBVIOUS
  <2>2. Before(q)' = Before(q)
    <3>1. CASE q = 1
      BY <3>1 DEF Before
    <3>2. CASE q # 1
      <4>1. q > 1 /\ q - 1 \in Stages
        BY <1>1, <3>2, StagesAre
      <4>2. q - 1 # p
        BY <1>2, <2>1, <4>1 DEF AtEof
      <4>3. written'[q - 1] = written[q - 1]
        BY <1>3, <4>1, <4>2
      <4>4. QED
        BY <1>2, <3>2, <4>3 DEF Before, Piped
    <3>3. QED
      BY <3>1, <3>2
  <2>3. QED
    BY <1>2, <2>1, <2>2 DEF AtEof, Gone
<1>14. ASSUME NEW q \in Stages PROVE MoreInput(q)
  BY <1>1, <1>12, <1>13, BeginsItself DEF MoreInput, InputsFit
<1>15. \A q \in Stages : written'[q] = written[q] \/ OneMoreWord(q)
  BY <1>2, <1>3 DEF OneMoreWord
<1>16. ASSUME NEW q \in Stages, status'[q] = "ended" PROVE StaysEnded(q)
  <2>1. q # p
    BY <1>2, <1>16 DEF Gone
  <2>2. QED
    BY <1>2, <1>3, <1>12, <1>16, <2>1 DEF StaysEnded
<1>17. QED
  BY <1>2, <1>8, <1>10, <1>11, <1>14, <1>15, <1>16, FlowOnward

(* A program that ends or dies changes nothing in the pipes; its reader    *)
(* may now be at the end.                                                  *)
LEMMA StopKeeps ==
  ASSUME Flow, NEW p \in Stages, NEW s \in {"ended", "dead"}, ~ Gone(p),
         status' = [status EXCEPT ![p] = s], UNCHANGED <<programs, read, written>>,
         s = "ended" => /\ written[p] = Result(p) /\ ~ Failing(p)
                        /\ AtEof(p) \/ HasEnough(programs[p], Input(p))
  PROVE  Flow'
<1>1. FlowTypes /\ FlowReads /\ FlowNumbers /\ InputsFit
  BY InputsAreFit DEF Flow
<1>2. programs' = programs /\ read' = read /\ written' = written
  OBVIOUS
<1>3. /\ status' \in [Stages -> {"running", "ended", "dead"}] /\ status'[p] = s
      /\ \A q \in Stages : q # p => status'[q] = status[q]
  BY <1>1 DEF FlowTypes
<1>4. Stages' = Stages
  BY <1>2 DEF Stages
<1>5. \A q : Before(q)' = Before(q) /\ Input(q)' = Input(q)
  BY <1>2 DEF Before, Piped, Input
<1>6. FlowTypes'
  BY <1>1, <1>2, <1>3, <1>4 DEF FlowTypes
<1>7. FlowReads'
  BY <1>1, <1>2, <1>4, <1>5 DEF FlowReads
<1>8. FlowNumbers'
  BY <1>1, <1>2, <1>4 DEF FlowNumbers, Counting
<1>9. \A q \in Stages : Gone(q) => Gone(q)'
  BY <1>3 DEF Gone
<1>10. \A q \in Stages : AtEof(q) => AtEof(q)'
  <2>1. \A q \in Stages : q > 1 => q - 1 \in Stages
    BY <1>1, StagesAre
  <2>2. QED
    BY <1>2, <1>5, <1>9, <2>1 DEF AtEof
<1>11. ASSUME NEW q \in Stages PROVE MoreInput(q)
  BY <1>1, <1>5, <1>10, BeginsItself DEF MoreInput, InputsFit
<1>12. ASSUME NEW q \in Stages, status'[q] = "ended" PROVE StaysEnded(q) \/ EndsNow(q)
  <2>1. CASE q = p
    BY <1>2, <1>3, <1>5, <1>12, <2>1 DEF EndsNow
  <2>2. CASE q # p
    BY <1>2, <1>3, <1>5, <1>12, <2>2 DEF StaysEnded
  <2>3. QED
    BY <2>1, <2>2
<1>13. QED
  BY <1>2, <1>6, <1>7, <1>8, <1>11, <1>12, FlowOnward

(* Every step of a pipeline keeps Flow.                                    *)
LEMMA StepKeeps ==
  ASSUME Flow, NEW p \in Stages, Step(p) \/ Kill(p)
  PROVE  Flow'
<1>1. CASE Read(p)
  BY <1>1, ReadKeeps
<1>2. CASE Write(p)
  BY <1>2, WriteKeeps
<1>3. CASE WriteToNobody(p)
  BY <1>3, StopKeeps DEF WriteToNobody, Dies, streams
<1>4. CASE Fail(p)
  BY <1>4, StopKeeps DEF Fail, Dies, streams
<1>5. CASE End(p)
  BY <1>5, StopKeeps DEF End, streams
<1>6. CASE Kill(p)
  BY <1>6, StopKeeps DEF Kill, Dies, streams
<1>7. QED
  BY <1>1, <1>2, <1>3, <1>4, <1>5, <1>6 DEF Step

(* At the start nothing is read or written.                                *)
FlowBegins == PipelineOK(programs) /\ Started(programs, read, written, status)

(* Flow holds when a pipeline starts.                                      *)
LEMMA FlowStarts == FlowBegins => Flow
<1> SUFFICES ASSUME PipelineOK(programs), Started(programs, read, written, status)
    PROVE  Flow
  BY DEF FlowBegins
<1>1. /\ IsStream(programs) /\ Len(programs) \in Nat \ {0}
      /\ DOMAIN programs = 1..Len(programs) /\ Stages = 1..Len(programs)
  BY StreamLaws DEF PipelineOK, Stages
<1>2. /\ \A p \in Stages : read[p] = 0 /\ written[p] = << >> /\ status[p] = "running"
      /\ DOMAIN written = Stages
      /\ read \in [Stages -> Nat] /\ status \in [Stages -> {"running", "ended", "dead"}]
  BY <1>1 DEF Started
<1>3. FlowTypes
  BY <1>2, NoStream DEF FlowTypes
<1>4. FlowReads
  <2>1. \A p \in Stages : Len(Before(p)) \in Nat
    BY <1>3, BeforeIsStream
  <2>2. QED
    BY <1>2, <2>1 DEF FlowReads
<1>5. FlowNumbers
  BY <1>2, NoStream DEF FlowNumbers, Numbers
<1>6. FlowWritten
  <2>1. \A p \in Stages : IsStream(Result(p)) /\ Len(Result(p)) \in Nat
    BY <1>3, <1>4, <1>5, ResultIsAStream
  <2>2. QED
    BY <1>2, <2>1, NoStream DEF FlowWritten, Begins
<1>7. FlowEnded
  BY <1>2 DEF FlowEnded
<1>8. QED
  BY <1>3, <1>4, <1>5, <1>6, <1>7 DEF Flow

LEMMA FlowStartsNext == FlowBegins' => Flow'
BY FlowStarts, PTL

------------------------------------------------------------------------------
(* What programs pass on *)

(* A program reads the first part of what the one before it writes.        *)
LEMMA Passed ==
  ASSUME Flow, NEW p \in Stages, p > 1, programs[p - 1].does # "unzip"
  PROVE  Begins(Input(p), written[p - 1])
<1>1. FlowTypes /\ FlowReads
  BY DEF Flow
<1>2. p - 1 \in Stages /\ p # 1
  BY <1>1, StagesAre
<1>3. Before(p) = written[p - 1] /\ IsStream(written[p - 1])
  BY <1>1, <1>2 DEF Before, Piped, FlowTypes
<1>4. /\ IsStream(Input(p)) /\ Len(Input(p)) = read[p] /\ read[p] <= Len(Before(p))
      /\ \A i \in 1..read[p] : Input(p)[i] = Before(p)[i]
  BY <1>1, InputIsStream DEF FlowReads
<1>5. QED
  BY <1>3, <1>4 DEF Begins

(* A program that copies writes the first part of what the one before it   *)
(* writes.                                                                 *)
LEMMA Copied ==
  ASSUME Flow, NEW p \in Stages, p > 1, programs[p - 1].does # "unzip",
         programs[p].does \in {"copy", "unzip", "head"}
  PROVE  Begins(written[p], written[p - 1])
<1>1. Begins(written[p], Result(p))
  BY DEF Flow, FlowWritten
<1>2. Result(p) = Input(p)
  BY ResultCases DEF Result
<1>3. Begins(Input(p), written[p - 1])
  BY Passed
<1>4. QED
  BY <1>1, <1>2, <1>3, BeginsTwice

(* Words that are replaced one by one.                                     *)
ReplacedFrom(out, in, program) ==
  /\ IsStream(out) /\ IsStream(in) /\ Len(out) <= Len(in)
  /\ \A k \in 1..Len(out) : out[k] = Replaced(program, in[k])

LEMMA ReplacedOnTheWay ==
  ASSUME Flow, NEW p \in Stages, p > 1, programs[p - 1].does # "unzip", Replaces(programs[p])
  PROVE  ReplacedFrom(written[p], written[p - 1], programs[p])
<1> DEFINE w == written[p]
           r == Result(p)
           in == Input(p)
           b == written[p - 1]
<1>1. Begins(w, r) /\ Begins(in, b)
  BY Passed DEF Flow, FlowWritten
<1>2. r = ReplacedWords(programs[p], in)
  BY ResultCases DEF Result
<1> HIDE DEF w, r, in, b
<1>3. /\ IsStream(w) /\ IsStream(r) /\ IsStream(in) /\ IsStream(b)
      /\ Len(w) \in Nat /\ Len(r) \in Nat /\ Len(in) \in Nat /\ Len(b) \in Nat
      /\ Len(w) <= Len(r) /\ Len(in) <= Len(b)
      /\ \A k \in 1..Len(w) : w[k] = r[k]
      /\ \A k \in 1..Len(in) : in[k] = b[k]
  BY <1>1, StreamLaws DEF Begins
<1>4. Len(r) <= Len(in) /\ \A k \in 1..Len(r) : r[k] = Replaced(programs[p], in[k])
  BY <1>2, <1>3, ReplacedLaws
<1>5. ReplacedFrom(w, b, programs[p])
  BY <1>3, <1>4 DEF ReplacedFrom
<1>6. QED
  BY <1>5 DEF w, b

------------------------------------------------------------------------------
(* The script *)

(* What column c says of a row of the heap, the dominator by its           *)
(* identifier.                                                             *)
Cell(row, c) ==
  IF c = 4 THEN heap.ids[heap.dominators[row] + 1] ELSE HeapColumns(heap)[c][row]

(* What is in the files that the pipelines leave.                          *)
DominatorsRight(d) ==
  /\ IsStream(d) /\ Numbers(d)
  /\ \A k \in 1..Len(d) : d[k] = heap.ids[heap.dominators[k] + 1]

RowsRight(rows) ==
  /\ rows = [c \in 1..7 |-> rows[c]]
  /\ \A c \in 1..7 : IsStream(rows[c]) /\ Numbers(rows[c])
  /\ \A c \in 1..7 : \A k \in 1..Len(rows[c]) :
       \E row \in HeapRows :
         \A d \in 1..7 : k \in 1..Len(rows[d]) => rows[d][k] = Cell(row, d)

NamesRight(names, rows) ==
  /\ IsStream(names)
  /\ \A k \in 1..Len(names) : /\ k \in 1..Len(rows[6])
                              /\ names[k] = NT!NameOf(heap.tables, rows[6][k])

LinesRight(lines) ==
  /\ IsStream(lines)
  /\ \A k \in 1..Len(lines) :
       \/ lines[k].row = << >>
       \/ \E row \in HeapRows : /\ IsPrefix(lines[k].row, RowLine(row))
                                /\ lines[k].name \in {NoName, RowName(row)}

(* Where the script is, what it has left, and what runs.                   *)
ScriptTypes ==
  /\ heap \in Heaps /\ pv \in BOOLEAN
  /\ command \in {"dominators", "rows", "names", "report", "done", "stopped"}

FilesRight ==
  /\ files = [dominators |-> files.dominators, rows |-> files.rows,
              names |-> files.names, report |-> files.report]
  /\ DominatorsRight(files.dominators)
  /\ RowsRight(files.rows)
  /\ NamesRight(files.names, files.rows)
  /\ LinesRight(files.report)
  /\ command \in {"dominators", "rows"} => files.names = << >>

Running ==
  /\ command = "dominators" => programs = DominatorPrograms
  /\ command = "rows" => programs = RowPrograms
  /\ command = "names" => programs = NamePrograms
  /\ command = "report" => programs = ReportPrograms

ReportInv == ScriptTypes /\ FilesRight /\ Running /\ Flow

(* The assumption on heaps, column by column.                              *)
LEMMA HeapLaws ==
  ASSUME heap \in Heaps
  PROVE  /\ \A c \in 1..7 : /\ IsStream(HeapColumns(heap)[c]) /\ Numbers(HeapColumns(heap)[c])
                            /\ Len(HeapColumns(heap)[c]) \in Nat
                            /\ Len(HeapColumns(heap)[c]) >= Len(heap.ids)
         /\ HeapColumns(heap)[1] = heap.retained /\ HeapColumns(heap)[2] = heap.sizes
         /\ HeapColumns(heap)[3] = heap.counts /\ HeapColumns(heap)[4] = heap.dominators
         /\ HeapColumns(heap)[5] = heap.ids /\ HeapColumns(heap)[6] = heap.classOf
         /\ HeapColumns(heap)[7] = heap.offsets
         /\ HeapRows = 1..Len(heap.ids) /\ Len(heap.retained) = Len(heap.ids)
         /\ \A k \in 1..Len(heap.dominators) : heap.dominators[k] + 1 \in 1..Len(heap.ids)
         /\ MaxRows \in Nat \ {0}
<1>1. /\ \A c \in 1..7 : /\ HeapColumns(heap)[c] \in Seq(Nat)
                         /\ Len(HeapColumns(heap)[c]) >= Len(heap.ids)
      /\ Range(heap.dominators) \subseteq 0..(Len(heap.ids) - 1)
      /\ Len(heap.retained) = Len(heap.ids) /\ MaxRows \in Nat \ {0}
  BY HeapsAssumption
<1>2. /\ HeapColumns(heap)[1] = heap.retained /\ HeapColumns(heap)[2] = heap.sizes
      /\ HeapColumns(heap)[3] = heap.counts /\ HeapColumns(heap)[4] = heap.dominators
      /\ HeapColumns(heap)[5] = heap.ids /\ HeapColumns(heap)[6] = heap.classOf
      /\ HeapColumns(heap)[7] = heap.offsets
  BY DEF HeapColumns
<1>3. \A c \in 1..7 : /\ IsStream(HeapColumns(heap)[c]) /\ Numbers(HeapColumns(heap)[c])
                      /\ Len(HeapColumns(heap)[c]) \in Nat
  <2>1. \A s \in Seq(Nat) : IsStream(s) /\ Len(s) \in Nat /\ \A k \in 1..Len(s) : s[k] \in Nat
    BY IsAStream, ElementOfSeq
  <2>2. QED
    BY <1>1, <2>1 DEF Numbers
<1>4. HeapRows = 1..Len(heap.ids) /\ Len(heap.ids) \in Nat
  <2>1. IsStream(heap.ids)
    BY <1>2, <1>3
  <2>2. QED
    BY <2>1, StreamLaws DEF HeapRows
<1>5. \A k \in 1..Len(heap.dominators) : heap.dominators[k] + 1 \in 1..Len(heap.ids)
  <2>1. IsStream(heap.dominators)
    BY <1>2, <1>3
  <2>2. \A k \in 1..Len(heap.dominators) : heap.dominators[k] \in Range(heap.dominators)
    BY <2>1, StreamLaws
  <2>3. \A x \in 0..(Len(heap.ids) - 1) : x + 1 \in 1..Len(heap.ids)
    BY <1>4
  <2>4. QED
    BY <1>1, <2>2, <2>3
<1>6. QED
  BY <1>1, <1>2, <1>3, <1>4, <1>5

(* The first pipeline leaves identifiers of dominators (fhat.sh:67-68).    *)
LEMMA TheDominators ==
  ASSUME Flow, heap \in Heaps, programs = DominatorPrograms
  PROVE  DominatorsRight(written[Final])
<1>1. /\ Stages = 1..2 /\ Final = 2
      /\ programs[1] = Cat(heap.dominators) /\ programs[2] = Unpack(heap.ids)
  BY DEF DominatorPrograms, Stages, Final
<1>2. programs[1].does = "cat" /\ programs[1].words = heap.dominators
      /\ programs[2].does = "unpack" /\ programs[2].table = heap.ids
  BY <1>1 DEF Cat, Unpack
<1>3. Begins(written[1], heap.dominators)
  <2>1. Begins(written[1], Result(1))
    BY <1>1 DEF Flow, FlowWritten
  <2>2. Result(1) = heap.dominators
    BY <1>2, ResultCases DEF Result
  <2>3. QED
    BY <2>1, <2>2
<1>4. ReplacedFrom(written[2], written[1], programs[2])
  <2>1. 2 \in Stages /\ 2 > 1 /\ 2 - 1 = 1 /\ Replaces(programs[2]) /\ programs[1].does # "unzip"
    BY <1>1, <1>2 DEF Replaces
  <2>2. ReplacedFrom(written[2], written[2 - 1], programs[2])
    BY <2>1, ReplacedOnTheWay
  <2>3. QED
    BY <2>1, <2>2
<1> DEFINE out == written[2]
           in == written[1]
<1>5. /\ IsStream(out) /\ Len(out) \in Nat /\ Len(in) \in Nat /\ Len(heap.dominators) \in Nat
      /\ Len(out) <= Len(in) /\ Len(in) <= Len(heap.dominators)
  BY <1>3, <1>4, StreamLaws DEF ReplacedFrom, Begins
<1>6. ASSUME NEW k \in 1..Len(out)
      PROVE  out[k] = heap.ids[heap.dominators[k] + 1] /\ out[k] \in Nat
  <2>1. k \in 1..Len(in) /\ k \in 1..Len(heap.dominators)
    BY <1>5
  <2>2. out[k] = Replaced(programs[2], in[k]) /\ in[k] = heap.dominators[k]
    BY <1>3, <1>4, <2>1 DEF ReplacedFrom, Begins
  <2>3. out[k] = heap.ids[heap.dominators[k] + 1]
    BY <1>2, <2>2 DEF Replaced
  <2>4. heap.dominators[k] + 1 \in 1..Len(heap.ids) /\ Numbers(heap.ids)
    <3>1. 5 \in 1..7 /\ HeapColumns(heap)[5] = heap.ids
      BY HeapLaws
    <3>2. Numbers(heap.ids)
      BY <3>1, HeapLaws
    <3>3. QED
      BY <2>1, <3>2, HeapLaws
  <2>5. QED
    BY <2>3, <2>4 DEF Numbers
<1>7. DominatorsRight(out)
  BY <1>5, <1>6 DEF DominatorsRight, Numbers
<1>8. QED
  BY <1>1, <1>7

(* The columns zip reads for the sorted rows.                              *)
RowColumns == [HeapColumns(heap) EXCEPT ![4] = files.dominators]

LEMMA RowColumnsLaws ==
  ASSUME heap \in Heaps, DominatorsRight(files.dominators)
  PROVE  /\ AreColumns(RowColumns) /\ Len(RowColumns) = 7
         /\ \A c \in 1..7 : Numbers(RowColumns[c])
         /\ \A i : (\A c \in 1..7 : i \in 1..Len(RowColumns[c])) =>
              i \in HeapRows /\ \A c \in 1..7 : RowColumns[c][i] = Cell(i, c)
<1>1. /\ RowColumns = [c \in 1..7 |-> RowColumns[c]]
      /\ RowColumns[4] = files.dominators
      /\ \A c \in 1..7 : c # 4 => RowColumns[c] = HeapColumns(heap)[c]
  BY DEF RowColumns, HeapColumns
<1>2. IsStream(RowColumns) /\ Len(RowColumns) = 7
  BY <1>1, StreamMade
<1>3. \A c \in 1..7 : IsStream(RowColumns[c]) /\ Numbers(RowColumns[c])
  BY <1>1, HeapLaws DEF DominatorsRight
<1>4. ASSUME NEW i, \A c \in 1..7 : i \in 1..Len(RowColumns[c])
      PROVE  i \in HeapRows /\ \A c \in 1..7 : RowColumns[c][i] = Cell(i, c)
  <2>1. 1 \in 1..7 /\ 4 \in 1..7 /\ RowColumns[1] = heap.retained
    BY <1>1, HeapLaws
  <2>2. i \in HeapRows
    BY <1>4, <2>1, HeapLaws
  <2>3. i \in 1..Len(files.dominators)
    BY <1>1, <1>4, <2>1
  <2>4. ASSUME NEW c \in 1..7 PROVE RowColumns[c][i] = Cell(i, c)
    BY <1>1, <2>3 DEF Cell, DominatorsRight
  <2>5. QED
    BY <2>2, <2>4
<1>5. AreColumns(RowColumns)
  BY <1>2, <1>3 DEF AreColumns
<1>6. QED
  BY <1>2, <1>3, <1>4, <1>5

(* zip, and pv if there is one.                                            *)
LEMMA ZippedAndCopied ==
  ASSUME Flow, Final > 2, programs[1].does = "zip", programs[2] = Pv
  PROVE  Begins(written[2], ZippedWords(programs[1].columns))
<1>1. FlowTypes
  BY DEF Flow
<1>2. 1 \in Stages /\ 2 \in Stages /\ 2 - 1 = 1 /\ 2 > 1
  BY <1>1, StagesAre
<1>3. Begins(written[1], ZippedWords(programs[1].columns))
  <2>1. Begins(written[1], Result(1))
    BY <1>2 DEF Flow, FlowWritten
  <2>2. Result(1) = ZippedWords(programs[1].columns)
    BY ResultCases DEF Result
  <2>3. QED
    BY <2>1, <2>2
<1>4. CASE pv
  <2>1. programs[2].does = "copy"
    BY <1>4 DEF Pv, Copy
  <2>2. Begins(written[2], written[2 - 1])
    BY <1>2, <2>1, Copied
  <2>3. QED
    BY <1>2, <1>3, <2>2, BeginsTwice
<1>5. CASE ~ pv
  <2>1. programs[2].does = "absent"
    BY <1>5 DEF Pv, Absent
  <2>2. Begins(written[2], << >>)
    <3>1. Begins(written[2], Result(2))
      BY <1>2 DEF Flow, FlowWritten
    <3>2. Result(2) = << >>
      BY <2>1, ResultCases DEF Result
    <3>3. QED
      BY <3>1, <3>2
  <2>3. Begins(<< >>, ZippedWords(programs[1].columns))
    <3>1. IsStream(ZippedWords(programs[1].columns))
      BY <1>3 DEF Begins
    <3>2. QED
      BY <3>1, NoStream, StreamLaws DEF Begins
  <2>4. QED
    BY <2>2, <2>3, BeginsTwice
<1>6. QED
  BY <1>4, <1>5

(* The j-th word is the c-th of the k-th row.                              *)
InPlace(j, k, c, w) == (j - 1) \div w = k - 1 /\ (j - 1) % w = c - 1

LEMMA ThePlace ==
  ASSUME NEW w \in Nat \ {0}, NEW k \in Nat \ {0}, NEW c \in 1..w
  PROVE  InPlace((k - 1) * w + c, k, c, w)
BY PlaceInRow DEF InPlace

(* The c-th word of the k-th row of zipped columns.                        *)
ZippedPlace(columns, j, k, c) ==
  /\ AreColumns(columns) /\ k \in Nat \ {0} /\ c \in 1..Len(columns)
  /\ j \in 1..Len(ZippedWords(columns)) /\ InPlace(j, k, c, Len(columns))

LEMMA ZippedRow ==
  ASSUME NEW columns, NEW j, NEW k, NEW c, ZippedPlace(columns, j, k, c)
  PROVE  k \in 1..Len(columns[c]) /\ ZippedWords(columns)[j] = columns[c][k]
<1> DEFINE out == ZippedWords(columns)
           w == Len(columns)
<1>1. /\ AreColumns(columns) /\ k \in Nat \ {0} /\ c \in 1..w
      /\ j \in 1..Len(out) /\ InPlace(j, k, c, w)
  BY DEF ZippedPlace
<1>2. w \in Nat
  BY <1>1, StreamLaws DEF AreColumns
<1>3. ((j - 1) \div w) + 1 = k /\ ((j - 1) % w) + 1 = c
  <2> HIDE DEF w, out
  <2>1. QED
    BY <1>1, <1>2 DEF InPlace
<1>4. /\ ((j - 1) \div w) + 1 \in 1..Len(columns[((j - 1) % w) + 1])
      /\ out[j] = columns[((j - 1) % w) + 1][((j - 1) \div w) + 1]
  BY <1>1, ZippedLaws
<1> HIDE DEF out
<1>5. k \in 1..Len(columns[c]) /\ out[j] = columns[c][k]
  BY <1>3, <1>4, Zenon
<1>6. QED
  BY <1>5 DEF out

(* Where the words of the c-th file that unzip writes are.                 *)
LEMMA UnzippedLaws ==
  ASSUME NEW words, IsStream(words), NEW c \in 1..7
  PROVE  LET file == UnzippedWords(words, 7, c)
         IN  /\ IsStream(file) /\ Len(file) = (Len(words) - c + 7) \div 7
             /\ \A k \in 1..Len(file) : /\ (k - 1) * 7 + c \in 1..Len(words)
                                        /\ file[k] = words[(k - 1) * 7 + c]
<1> DEFINE file == UnzippedWords(words, 7, c)
           n == (Len(words) - c + 7) \div 7
<1>1. Len(words) \in Nat
  BY StreamLaws
<1>2. n \in Nat
  BY <1>1
<1>3. \A k \in 1..n : (k - 1) * 7 + c \in 1..Len(words)
  BY <1>1
<1>4. file = [k \in 1..n |-> words[(k - 1) * 7 + c]]
  BY DEF UnzippedWords
<1> HIDE DEF file, n
<1>5. file = [k \in 1..n |-> file[k]] /\ \A k \in 1..n : file[k] = words[(k - 1) * 7 + c]
  BY <1>4
<1>6. IsStream(file) /\ Len(file) = n
  BY <1>2, <1>5, StreamMade
<1>7. QED
  BY <1>3, <1>5, <1>6 DEF file, n

(* The second pipeline (fhat.sh:74-75).                                    *)
LEMMA SortedPrograms ==
  ASSUME programs = RowPrograms
  PROVE  /\ Stages = 1..5 /\ Final = 5
         /\ programs[1].does = "zip" /\ programs[1].columns = RowColumns
         /\ programs[2] = Pv
         /\ programs[3].does = "sort" /\ programs[3].width = 7
         /\ programs[4].does = "unzip" /\ programs[4].width = 7
         /\ programs[5].does = "head" /\ programs[5].count = MaxRows
         /\ programs[2].does # "unzip"
<1>1. /\ Stages = 1..5 /\ Final = 5
      /\ programs[1] = ZipFiles(RowColumns) /\ programs[2] = Pv
      /\ programs[3] = SortRows(7) /\ programs[4] = UnzipFiles(7)
      /\ programs[5] = FirstLines(MaxRows)
  BY DEF RowPrograms, Stages, Final, RowColumns
<1>2. QED
  BY <1>1 DEF ZipFiles, SortRows, UnzipFiles, FirstLines, Pv, Copy, Absent

(* The rows that are sorted are the heap's.                                *)
LEMMA TheSortedRows ==
  ASSUME Flow, heap \in Heaps, DominatorsRight(files.dominators), programs = RowPrograms
  PROVE  \E sorted :
           /\ Len(sorted) \in Nat
           /\ \A k \in 1..Len(written[4]) : k <= Len(sorted) * 7
           /\ \A k \in 1..Len(sorted) : \E row \in HeapRows :
                \A c \in 1..7 : (k - 1) * 7 + c \in 1..Len(written[4]) =>
                  written[4][(k - 1) * 7 + c] = Cell(row, c)
<1> DEFINE zipped == ZippedWords(RowColumns)
           in == Input(3)
           w4 == written[4]
<1>1. 3 \in Stages /\ 4 \in Stages /\ 3 > 1 /\ 4 > 1 /\ 3 - 1 = 2 /\ 4 - 1 = 3
  BY SortedPrograms
<1>2. Begins(in, zipped)
  <2>1. Begins(written[2], zipped)
    BY SortedPrograms, ZippedAndCopied
  <2>2. Begins(in, written[3 - 1])
    BY <1>1, SortedPrograms, Passed
  <2>3. QED
    BY <1>1, <2>1, <2>2, BeginsTwice
<1>3. Begins(w4, written[3])
  <2>1. Begins(written[4], written[4 - 1])
    BY <1>1, SortedPrograms, Copied
  <2>2. QED
    BY <1>1, <2>1
<1>4. Begins(written[3], Result(3))
  BY <1>1 DEF Flow, FlowWritten
<1>5. Begins(w4, Result(3))
  BY <1>3, <1>4, BeginsTwice
<1>6. CASE ~ AtEof(3)
  <2>1. Result(3) = << >>
    BY <1>6, SortedPrograms, ResultCases DEF Result
  <2>2. Len(w4) = 0
    BY <1>5, <2>1, NoStream, StreamLaws DEF Begins
  <2>3. QED
    BY <2>2, NoStream
<1>7. CASE AtEof(3)
  <2> DEFINE sorted == SortedRows(FullRows(in, 7))
             out == FlattenSeq(sorted)
  <2>1. Result(3) = out
    BY <1>7, SortedPrograms, ResultCases DEF Result
  <2>2. IsStream(in) /\ Numbers(in)
    <3>1. FlowTypes /\ FlowReads /\ FlowNumbers
      BY DEF Flow
    <3>2. QED
      BY <1>1, <3>1, SortedPrograms, SortReadsNumbers, InputIsStream
  <2> HIDE DEF in, w4
  <2>3a. SortedInto(sorted, out, FullRows(in, 7), 7)
    <3>1. 7 \in Nat \ {0}
      OBVIOUS
    <3>2. QED
      BY <2>2, <3>1, SortedWords
  <2>3. /\ Len(sorted) \in Nat /\ IsStream(out) /\ Len(out) = Len(sorted) * 7
        /\ \A k \in 1..Len(sorted) :
             /\ \E i \in 1..Len(FullRows(in, 7)) : sorted[k] = FullRows(in, 7)[i]
             /\ \A c \in 1..7 : out[(k - 1) * 7 + c] = sorted[k][c]
    BY <2>3a, Zenon DEF SortedInto
  <2>4. CutFrom(FullRows(in, 7), in, 7)
    BY <2>2, FullRowsLaws
  <2>5. Begins(w4, out)
    BY <1>5, <2>1
  <2> HIDE DEF sorted, out
  <2>6. \A k \in 1..Len(w4) : k <= Len(sorted) * 7
    BY <2>3, <2>5, StreamLaws DEF Begins
  <2>7. ASSUME NEW k \in 1..Len(sorted)
        PROVE  \E row \in HeapRows :
                 \A c \in 1..7 : (k - 1) * 7 + c \in 1..Len(w4) =>
                   w4[(k - 1) * 7 + c] = Cell(row, c)
    <3>1. PICK i \in 1..Len(FullRows(in, 7)) : sorted[k] = FullRows(in, 7)[i]
      BY <2>3
    <3>2. \A c \in 1..7 : /\ (i - 1) * 7 + c \in 1..Len(in)
                          /\ sorted[k][c] = in[(i - 1) * 7 + c]
      BY <2>4, <3>1 DEF CutFrom
    <3>3. ASSUME NEW c \in 1..7
          PROVE  i \in 1..Len(RowColumns[c]) /\ sorted[k][c] = RowColumns[c][i]
      <4> DEFINE j == (i - 1) * 7 + c
      <4>1. j \in 1..Len(in) /\ sorted[k][c] = in[j]
        BY <3>2
      <4>2. j \in 1..Len(zipped) /\ in[j] = zipped[j]
        <5> HIDE DEF j, zipped
        <5>1. QED
          BY <1>2, <4>1, StreamLaws DEF Begins
      <4>3. AreColumns(RowColumns) /\ 7 = Len(RowColumns) /\ i \in Nat \ {0}
        <5>1. Len(FullRows(in, 7)) \in Nat
          BY <2>4, StreamLaws DEF CutFrom
        <5>2. QED
          BY <5>1, RowColumnsLaws
      <4>4. i \in 1..Len(RowColumns[c]) /\ zipped[j] = RowColumns[c][i]
        <5> DEFINE w == Len(RowColumns)
        <5>0. w = 7
          BY <4>3
        <5> HIDE DEF w
        <5>1. w \in Nat \ {0} /\ c \in 1..w
          BY <5>0
        <5> HIDE DEF w
        <5>2. InPlace((i - 1) * w + c, i, c, w)
          BY <4>3, <5>1, ThePlace
        <5>3. InPlace(j, i, c, w)
          BY <4>3, <5>2 DEF w
        <5>4. ZippedPlace(RowColumns, j, i, c)
          BY <4>2, <4>3, <5>1, <5>3 DEF ZippedPlace, w
        <5> HIDE DEF j
        <5>5. i \in 1..Len(RowColumns[c]) /\ ZippedWords(RowColumns)[j] = RowColumns[c][i]
          BY <5>4, ZippedRow
        <5>6. QED
          BY <5>5
      <4> HIDE DEF zipped
      <4>5. QED
        BY <4>1, <4>2, <4>4
    <3>4. i \in HeapRows /\ \A c \in 1..7 : RowColumns[c][i] = Cell(i, c)
      BY <3>3, RowColumnsLaws
    <3>5. ASSUME NEW c \in 1..7, (k - 1) * 7 + c \in 1..Len(w4)
          PROVE  w4[(k - 1) * 7 + c] = Cell(i, c)
      <4>1. out[(k - 1) * 7 + c] = sorted[k][c]
        BY <2>3
      <4>2. w4[(k - 1) * 7 + c] = out[(k - 1) * 7 + c]
        BY <2>5, <3>5 DEF Begins
      <4>3. QED
        BY <3>3, <3>4, <4>1, <4>2
    <3>6. QED
      BY <3>4, <3>5
  <2>8. QED
    BY <2>3, <2>6, <2>7 DEF w4
<1>8. QED
  BY <1>6, <1>7

(* The heap is made of numbers.                                            *)
LEMMA CellsAreNumbers ==
  ASSUME heap \in Heaps, NEW row \in HeapRows, NEW c \in 1..7
  PROVE  Cell(row, c) \in Nat
<1>1. \A d \in 1..7 : row \in 1..Len(HeapColumns(heap)[d]) /\ HeapColumns(heap)[d][row] \in Nat
  <2>1. ASSUME NEW d \in 1..7
        PROVE  row \in 1..Len(HeapColumns(heap)[d])
    <3>1. /\ Len(HeapColumns(heap)[d]) \in Nat /\ Len(HeapColumns(heap)[d]) >= Len(heap.ids)
          /\ HeapRows = 1..Len(heap.ids)
      BY HeapLaws
    <3>2. 5 \in 1..7 /\ Len(heap.ids) \in Nat
      BY HeapLaws
    <3>3. QED
      BY <3>1, <3>2
  <2>2. QED
    BY <2>1, HeapLaws DEF Numbers
<1>2. CASE c # 4
  BY <1>1, <1>2 DEF Cell
<1>3. CASE c = 4
  <2>1. 4 \in 1..7 /\ row \in 1..Len(heap.dominators)
    BY <1>1, HeapLaws
  <2>2. heap.dominators[row] + 1 \in 1..Len(heap.ids)
    BY <2>1, HeapLaws
  <2>3. Numbers(heap.ids)
    <3>1. 5 \in 1..7 /\ HeapColumns(heap)[5] = heap.ids
      BY HeapLaws
    <3>2. QED
      BY <3>1, HeapLaws
  <2>4. QED
    BY <1>3, <2>2, <2>3 DEF Cell, Numbers
<1>4. QED
  BY <1>2, <1>3

(* It leaves columns that still belong together, although each is cut from *)
(* the stream on its own and may end earlier than another.                 *)
LEMMA TheRows ==
  ASSUME Flow, heap \in Heaps, DominatorsRight(files.dominators), programs = RowPrograms
  PROVE  RowsRight([c \in 1..7 |-> UnzippedWords(written[4], 7, c)])
<1> DEFINE w4 == written[4]
           rows == [c \in 1..7 |-> UnzippedWords(w4, 7, c)]
<1>1. IsStream(w4) /\ Len(w4) \in Nat /\ 4 \in Stages
  BY SortedPrograms, StreamLaws DEF Flow, FlowTypes
<1>2. PICK sorted :
        /\ Len(sorted) \in Nat
        /\ \A k \in 1..Len(w4) : k <= Len(sorted) * 7
        /\ \A k \in 1..Len(sorted) : \E row \in HeapRows :
             \A c \in 1..7 : (k - 1) * 7 + c \in 1..Len(w4) =>
               w4[(k - 1) * 7 + c] = Cell(row, c)
  BY TheSortedRows
<1> HIDE DEF w4
<1>3. \A c \in 1..7 : rows[c] = UnzippedWords(w4, 7, c)
  OBVIOUS
<1> HIDE DEF rows
<1>4. \A c \in 1..7 :
        /\ IsStream(rows[c]) /\ Len(rows[c]) = (Len(w4) - c + 7) \div 7
        /\ \A k \in 1..Len(rows[c]) : /\ (k - 1) * 7 + c \in 1..Len(w4)
                                      /\ rows[c][k] = w4[(k - 1) * 7 + c]
  BY <1>1, <1>3, UnzippedLaws
<1>5. ASSUME NEW c \in 1..7, NEW k \in 1..Len(rows[c])
      PROVE  \E row \in HeapRows :
               \A d \in 1..7 : k \in 1..Len(rows[d]) => rows[d][k] = Cell(row, d)
  <2>1. k \in Nat \ {0} /\ (k - 1) * 7 + c \in 1..Len(w4)
    <3>1. Len(rows[c]) \in Nat
      BY <1>4, StreamLaws
    <3>2. QED
      <4>1. k \in Nat \ {0}
        BY <3>1
      <4>2. QED
        BY <1>4, <4>1
  <2>2. (k - 1) * 7 + c <= Len(sorted) * 7
    BY <1>2, <2>1
  <2>3. k \in 1..Len(sorted)
    BY <1>2, <2>1, <2>2
  <2>4. PICK row \in HeapRows :
          \A d \in 1..7 : (k - 1) * 7 + d \in 1..Len(w4) => w4[(k - 1) * 7 + d] = Cell(row, d)
    BY <1>2, <2>3
  <2>5. ASSUME NEW d \in 1..7, k \in 1..Len(rows[d]) PROVE rows[d][k] = Cell(row, d)
    BY <1>4, <2>4, <2>5
  <2>6. QED
    BY <2>5
<1>6. \A c \in 1..7 : Numbers(rows[c])
  <2>1. SUFFICES ASSUME NEW c \in 1..7, NEW k \in 1..Len(rows[c]) PROVE rows[c][k] \in Nat
    BY DEF Numbers
  <2>2. PICK row \in HeapRows :
          \A d \in 1..7 : k \in 1..Len(rows[d]) => rows[d][k] = Cell(row, d)
    BY <1>5
  <2>3. QED
    BY <2>2, CellsAreNumbers
<1>7. rows = [c \in 1..7 |-> rows[c]]
  BY DEF rows
<1>8. RowsRight(rows)
  BY <1>4, <1>5, <1>6, <1>7 DEF RowsRight
<1>9. QED
  BY <1>8 DEF rows, w4

(* The look-up of the naming pipeline is that of translate.                *)
LEMMA SameLookUp ==
  ASSUME NEW keys, NEW node
  PROVE  NT!PositionOf(keys, node) = PositionOf(keys, node)
BY DEF NT!PositionOf, PositionOf, NT!Range, Range, NT!KeyLowerBound, KeyLowerBound,
       NT!PartitionPoint, PartitionPoint

(* The third pipeline (fhat.sh:82).                                        *)
LEMMA NameProgramsAre ==
  ASSUME heap \in Heaps, programs = NamePrograms
  PROVE  /\ Stages = 1..7 /\ Final = 7
         /\ programs[1].does = "cat" /\ programs[1].words = files.rows[6]
         /\ programs[2].does = "translate" /\ programs[2].keys = heap.tables.classes
         /\ programs[3].does = "unpack" /\ programs[3].table = heap.tables.classNames
         /\ programs[4].does = "translate" /\ programs[4].keys = heap.tables.names
         /\ programs[5].does = "unpack" /\ programs[5].table = heap.tables.nameOffsets
         /\ programs[6].does = "unpack" /\ programs[6].table = heap.tables.strings
         /\ programs[7].does = "copy"
<1> DEFINE t == [heap.tables EXCEPT !.ofRows = files.rows[6]]
<1>1. heap.tables \in [ofRows : Seq(Nat), classes : Seq(Nat), classNames : Seq(Nat),
                       names : Seq(Nat), nameOffsets : Seq(Nat), strings : Seq(Nat)]
  BY HeapsAssumption DEF NT!AreTables
<1>2. /\ t.ofRows = files.rows[6] /\ t.classes = heap.tables.classes
      /\ t.classNames = heap.tables.classNames /\ t.names = heap.tables.names
      /\ t.nameOffsets = heap.tables.nameOffsets /\ t.strings = heap.tables.strings
  BY <1>1
<1>3. programs = NT!NamePrograms(t)
  BY DEF NamePrograms
<1> HIDE DEF t
<1>4. programs = <<NT!Cat(t.ofRows), NT!Translate(t.classes, TRUE), NT!Unpack(t.classNames),
                   NT!Translate(t.names, FALSE), NT!Unpack(t.nameOffsets),
                   NT!Unpack(t.strings), NT!Copy>>
  BY <1>3 DEF NT!NamePrograms
<1>5. /\ programs[1] = NT!Cat(t.ofRows) /\ programs[2] = NT!Translate(t.classes, TRUE)
      /\ programs[3] = NT!Unpack(t.classNames) /\ programs[4] = NT!Translate(t.names, FALSE)
      /\ programs[5] = NT!Unpack(t.nameOffsets) /\ programs[6] = NT!Unpack(t.strings)
      /\ programs[7] = NT!Copy
  BY <1>4
<1>6. Stages = 1..7 /\ Final = 7
  BY <1>4 DEF Stages, Final
<1>7. QED
  BY <1>2, <1>5, <1>6 DEF NT!Cat, NT!Translate, NT!Unpack, NT!Copy

(* A word that is known before program p is known after it.                *)
LEMMA OneWord ==
  ASSUME NEW out, NEW in, NEW program, ReplacedFrom(out, in, program), NEW k \in 1..Len(out)
  PROVE  k \in 1..Len(in) /\ out[k] = Replaced(program, in[k])
<1>1. Len(out) \in Nat /\ Len(in) \in Nat /\ Len(out) <= Len(in)
  BY StreamLaws DEF ReplacedFrom
<1>2. QED
  BY <1>1 DEF ReplacedFrom

(* It leaves the names of the classes of the rows, in their order.         *)
LEMMA TheNames ==
  ASSUME Flow, heap \in Heaps, programs = NamePrograms
  PROVE  NamesRight(written[Final], files.rows)
<1>1. ASSUME NEW p \in 2..6 PROVE ReplacedFrom(written[p], written[p - 1], programs[p])
  <2>1. p \in Stages /\ p > 1 /\ programs[p - 1].does # "unzip" /\ Replaces(programs[p])
    <3>1. p = 2 \/ p = 3 \/ p = 4 \/ p = 5 \/ p = 6
      OBVIOUS
    <3>2. QED
      BY <3>1, NameProgramsAre DEF Replaces
  <2>2. QED
    BY <2>1, ReplacedOnTheWay
<1>2. /\ ReplacedFrom(written[2], written[1], programs[2])
      /\ ReplacedFrom(written[3], written[2], programs[3])
      /\ ReplacedFrom(written[4], written[3], programs[4])
      /\ ReplacedFrom(written[5], written[4], programs[5])
      /\ ReplacedFrom(written[6], written[5], programs[6])
  <2>1. /\ 2 \in 2..6 /\ 3 \in 2..6 /\ 4 \in 2..6 /\ 5 \in 2..6 /\ 6 \in 2..6
        /\ 2 - 1 = 1 /\ 3 - 1 = 2 /\ 4 - 1 = 3 /\ 5 - 1 = 4 /\ 6 - 1 = 5
    OBVIOUS
  <2>2. QED
    BY <1>1, <2>1
<1>3. Begins(written[7], written[6])
  <2>1. 7 \in Stages /\ 7 > 1 /\ 7 - 1 = 6 /\ programs[6].does # "unzip"
        /\ programs[7].does \in {"copy", "unzip", "head"}
    BY NameProgramsAre
  <2>2. Begins(written[7], written[7 - 1])
    BY <2>1, Copied
  <2>3. QED
    BY <2>1, <2>2
<1>4. Begins(written[1], files.rows[6])
  <2>1. Begins(written[1], Result(1))
    BY NameProgramsAre DEF Flow, FlowWritten
  <2>2. Result(1) = files.rows[6]
    BY NameProgramsAre, ResultCases DEF Result
  <2>3. QED
    BY <2>1, <2>2
<1> DEFINE T == heap.tables
           w1 == written[1]
           w2 == written[2]
           w3 == written[3]
           w4 == written[4]
           w5 == written[5]
           w6 == written[6]
           w7 == written[7]
<1>5. ASSUME NEW k \in 1..Len(w7)
      PROVE  k \in 1..Len(files.rows[6]) /\ w7[k] = NT!NameOf(T, files.rows[6][k])
  <2> DEFINE class == files.rows[6][k]
  <2>1. k \in 1..Len(w6) /\ w7[k] = w6[k]
    BY <1>3, StreamLaws DEF Begins
  <2>2. k \in 1..Len(w5) /\ w6[k] = T.strings[w5[k] + 1]
    <3>1. k \in 1..Len(w5) /\ w6[k] = Replaced(programs[6], w5[k])
      BY <1>2, <2>1, OneWord
    <3>2. programs[6].does = "unpack" /\ programs[6].table = T.strings
      BY NameProgramsAre
    <3>3. QED
      BY <3>1, <3>2 DEF Replaced
  <2>3. k \in 1..Len(w4) /\ w5[k] = T.nameOffsets[w4[k] + 1]
    BY <1>2, <2>2, OneWord, NameProgramsAre DEF Replaced
  <2>4. k \in 1..Len(w3) /\ w4[k] = PositionOf(T.names, w3[k])
    BY <1>2, <2>3, OneWord, NameProgramsAre DEF Replaced
  <2>5. k \in 1..Len(w2) /\ w3[k] = T.classNames[w2[k] + 1]
    BY <1>2, <2>4, OneWord, NameProgramsAre DEF Replaced
  <2>6. k \in 1..Len(w1) /\ w2[k] = PositionOf(T.classes, w1[k])
    BY <1>2, <2>5, OneWord, NameProgramsAre DEF Replaced
  <2>7. k \in 1..Len(files.rows[6]) /\ w1[k] = class
    BY <1>4, <2>6, StreamLaws DEF Begins
  <2> HIDE DEF w1, w2, w3, w4, w5, w6, w7, class, T
  <2>8. w7[k] = T.strings[T.nameOffsets[
                  PositionOf(T.names, T.classNames[PositionOf(T.classes, class) + 1]) + 1] + 1]
    BY <2>1, <2>2, <2>3, <2>4, <2>5, <2>6, <2>7
  <2>9. NT!NameOf(T, class)
          = T.strings[T.nameOffsets[
              PositionOf(T.names, T.classNames[PositionOf(T.classes, class) + 1]) + 1] + 1]
    BY SameLookUp DEF NT!NameOf
  <2>10. QED
    BY <2>7, <2>8, <2>9 DEF class
<1>6. IsStream(w7) /\ Final = 7
  BY <1>3, NameProgramsAre DEF Begins
<1>7. QED
  BY <1>5, <1>6 DEF NamesRight

(* The columns of the report, by their place in a sorted row.              *)
ReportedColumns == <<5, 1, 3, 2, 4, 7>>

(* The fourth pipeline (fhat.sh:84).                                       *)
LEMMA ReportProgramsAre ==
  ASSUME programs = ReportPrograms
  PROVE  /\ Stages = 1..5 /\ Final = 5
         /\ programs[1].does = "zip" /\ programs[1].columns = ReportColumns(files.rows)
         /\ programs[2] = Pv
         /\ programs[3].does = "rows" /\ programs[3].width = 6
         /\ programs[4].does = "paste" /\ programs[4].lines = files.names
         /\ programs[5].does = "head" /\ programs[5].count = MaxRows
         /\ programs[2].does # "unzip"
<1>1. /\ Stages = 1..5 /\ Final = 5
      /\ programs[1] = ZipFiles(ReportColumns(files.rows)) /\ programs[2] = Pv
      /\ programs[3] = RowLines(6) /\ programs[4] = Paste(files.names)
      /\ programs[5] = FirstLines(MaxRows)
  BY DEF ReportPrograms, Stages, Final
<1>2. QED
  BY <1>1 DEF ZipFiles, RowLines, Paste, FirstLines, Pv, Copy, Absent

LEMMA ReportColumnsLaws ==
  ASSUME RowsRight(files.rows)
  PROVE  LET R == ReportColumns(files.rows)
         IN  /\ AreColumns(R) /\ Len(R) = 6
             /\ \A c \in 1..6 : /\ ReportedColumns[c] \in 1..7 /\ Numbers(R[c])
                                /\ R[c] = files.rows[ReportedColumns[c]]
<1> DEFINE R == ReportColumns(files.rows)
<1>1. /\ R = [c \in 1..6 |-> R[c]]
      /\ \A c \in 1..6 : /\ ReportedColumns[c] \in 1..7
                         /\ R[c] = files.rows[ReportedColumns[c]]
  BY DEF ReportColumns, ReportedColumns
<1> HIDE DEF R
<1>2. IsStream(R) /\ Len(R) = 6
  BY <1>1, StreamMade
<1>3. \A c \in 1..6 : IsStream(R[c]) /\ Numbers(R[c])
  BY <1>1 DEF RowsRight
<1>4. AreColumns(R)
  BY <1>2, <1>3 DEF AreColumns
<1>5. QED
  BY <1>1, <1>2, <1>3, <1>4 DEF R

RowLineLaw(row) ==
  /\ RowLine(row) = [c \in 1..6 |-> RowLine(row)[c]]
  /\ \A c \in 1..6 : RowLine(row)[c] = Cell(row, ReportedColumns[c])

(* RowLine, by these columns.                                              *)
LEMMA RowLineCells ==
  ASSUME NEW row
  PROVE  RowLineLaw(row)
<1>1. RowLine(row) = [c \in 1..6 |-> RowLine(row)[c]]
  BY DEF RowLine
<1>2. ASSUME NEW c \in 1..6 PROVE RowLine(row)[c] = Cell(row, ReportedColumns[c])
  <2>1. /\ RowLine(row)[1] = heap.ids[row] /\ RowLine(row)[2] = heap.retained[row]
        /\ RowLine(row)[3] = heap.counts[row] /\ RowLine(row)[4] = heap.sizes[row]
        /\ RowLine(row)[5] = heap.ids[heap.dominators[row] + 1]
        /\ RowLine(row)[6] = heap.offsets[row]
    BY DEF RowLine
  <2>2. /\ HeapColumns(heap)[1] = heap.retained /\ HeapColumns(heap)[2] = heap.sizes
        /\ HeapColumns(heap)[3] = heap.counts /\ HeapColumns(heap)[4] = heap.dominators
        /\ HeapColumns(heap)[5] = heap.ids /\ HeapColumns(heap)[7] = heap.offsets
    BY DEF HeapColumns
  <2>3. /\ ReportedColumns[1] = 5 /\ ReportedColumns[2] = 1 /\ ReportedColumns[3] = 3
        /\ ReportedColumns[4] = 2 /\ ReportedColumns[5] = 4 /\ ReportedColumns[6] = 7
    BY DEF ReportedColumns
  <2>4. /\ Cell(row, 5) = heap.ids[row] /\ Cell(row, 1) = heap.retained[row]
        /\ Cell(row, 3) = heap.counts[row] /\ Cell(row, 2) = heap.sizes[row]
        /\ Cell(row, 4) = heap.ids[heap.dominators[row] + 1]
        /\ Cell(row, 7) = heap.offsets[row]
    BY <2>2 DEF Cell
  <2>5. c = 1 \/ c = 2 \/ c = 3 \/ c = 4 \/ c = 5 \/ c = 6
    OBVIOUS
  <2>6. QED
    BY <2>1, <2>3, <2>4, <2>5
<1>3. QED
  BY <1>1, <1>2 DEF RowLineLaw

(* A line of the k-th row: its words are the first of the row.             *)
PartOfLine(line, columns, k) ==
  /\ IsStream(line) /\ Len(line) \in Nat /\ Len(line) <= Len(columns)
  /\ \A c \in 1..Len(line) : k \in 1..Len(columns[c]) /\ line[c] = columns[c][k]

(* od and sed, after zip.                                                  *)
LEMMA WordsInLines ==
  ASSUME NEW columns, AreColumns(columns), NEW in, Begins(in, ZippedWords(columns)),
         NEW w, w \in Nat \ {0}, w = Len(columns),
         NEW line, NEW k, k \in Nat \ {0}, IsStream(line), Len(line) <= w,
         \A c \in 1..Len(line) : /\ (k - 1) * w + c \in 1..Len(in)
                                 /\ line[c] = in[(k - 1) * w + c]
  PROVE  PartOfLine(line, columns, k)
<1> DEFINE zipped == ZippedWords(columns)
<1>1. Len(line) \in Nat
  BY StreamLaws
<1>2. ASSUME NEW c \in 1..Len(line)
      PROVE  k \in 1..Len(columns[c]) /\ line[c] = columns[c][k]
  <2> DEFINE j == (k - 1) * w + c
  <2>1. c \in 1..w
    BY <1>1
  <2>2. InPlace(j, k, c, w)
    BY <2>1, ThePlace
  <2>3. j \in 1..Len(in) /\ line[c] = in[j]
    OBVIOUS
  <2> HIDE DEF j, zipped
  <2>4. j \in 1..Len(zipped) /\ in[j] = zipped[j]
    <3>1. Begins(in, zipped)
      BY DEF zipped
    <3>2. QED
      BY <2>3, <3>1, StreamLaws DEF Begins
  <2>5. ZippedPlace(columns, j, k, c)
    BY <2>1, <2>2, <2>4 DEF ZippedPlace, zipped
  <2>6. k \in 1..Len(columns[c]) /\ ZippedWords(columns)[j] = columns[c][k]
    BY <2>5, ZippedRow
  <2>7. QED
    BY <2>3, <2>4, <2>6 DEF zipped
<1>3. QED
  BY <1>1, <1>2 DEF PartOfLine

(* Lines that each hold words of one row.                                  *)
LinesOf(lines, columns) ==
  /\ IsStream(lines)
  /\ \A k \in 1..Len(lines) : PartOfLine(lines[k], columns, k)

LEMMA FullLines ==
  ASSUME NEW columns, AreColumns(columns), NEW in, Begins(in, ZippedWords(columns)),
         NEW w, w \in Nat \ {0}, w = Len(columns)
  PROVE  LinesOf(FullRows(in, w), columns)
<1> DEFINE rows == FullRows(in, w)
<1>1. IsStream(in)
  BY DEF Begins
<1>2. CutFrom(rows, in, w)
  BY <1>1, FullRowsLaws
<1> HIDE DEF rows
<1>3. IsStream(rows) /\ Len(rows) \in Nat
  BY <1>2, StreamLaws DEF CutFrom
<1>4. ASSUME NEW k \in 1..Len(rows) PROVE PartOfLine(rows[k], columns, k)
  <2> DEFINE line == rows[k]
  <2>1. k \in Nat \ {0}
    BY <1>3
  <2>2. /\ IsStream(line) /\ Len(line) = w
        /\ \A c \in 1..w : /\ (k - 1) * w + c \in 1..Len(in)
                           /\ line[c] = in[(k - 1) * w + c]
    BY <1>2, Zenon DEF CutFrom
  <2> HIDE DEF line
  <2>3. \A c \in 1..Len(line) : /\ (k - 1) * w + c \in 1..Len(in)
                                /\ line[c] = in[(k - 1) * w + c]
    BY <2>2, Zenon
  <2>4. Len(line) <= w
    BY <2>2
  <2>5. PartOfLine(line, columns, k)
    BY <2>1, <2>2, <2>3, <2>4, WordsInLines
  <2>6. QED
    BY <2>5 DEF line
<1>5. LinesOf(rows, columns)
  BY <1>3, <1>4 DEF LinesOf
<1>6. QED
  BY <1>5 DEF rows

LEMMA MoreLines ==
  ASSUME NEW columns, NEW lines, LinesOf(lines, columns), NEW more, IsStream(more),
         \A i \in 1..Len(more) : PartOfLine(more[i], columns, Len(lines) + i)
  PROVE  LinesOf(lines \o more, columns)
<1> DEFINE both == lines \o more
<1>1. IsStream(lines) /\ Len(lines) \in Nat /\ Len(more) \in Nat
  BY StreamLaws DEF LinesOf
<1>2. /\ IsStream(both) /\ Len(both) = Len(lines) + Len(more)
      /\ \A i \in 1..Len(lines) : both[i] = lines[i]
      /\ \A i \in 1..Len(more) : both[Len(lines) + i] = more[i]
  BY <1>1, StreamJoin
<1> HIDE DEF both
<1>3. ASSUME NEW k \in 1..Len(both) PROVE PartOfLine(both[k], columns, k)
  <2>1. CASE k <= Len(lines)
    <3>1. k \in 1..Len(lines)
      BY <1>1, <1>2, <2>1
    <3>2. both[k] = lines[k]
      BY <1>2, <3>1
    <3>3. QED
      BY <3>1, <3>2 DEF LinesOf
  <2>2. CASE k > Len(lines)
    <3> DEFINE i == k - Len(lines)
    <3>1. i \in 1..Len(more) /\ k = Len(lines) + i
      BY <1>1, <1>2, <2>2
    <3> HIDE DEF i
    <3>2. both[k] = more[i]
      BY <1>2, <3>1
    <3>3. PartOfLine(more[i], columns, Len(lines) + i)
      BY <3>1
    <3>4. QED
      BY <3>1, <3>2, <3>3
  <2>3. QED
    BY <1>1, <1>2, <2>1, <2>2
<1>4. LinesOf(both, columns)
  BY <1>2, <1>3 DEF LinesOf
<1>5. QED
  BY <1>4 DEF both

(* The words after the last full row make a line too.                      *)
LEMMA LastLine ==
  ASSUME NEW columns, AreColumns(columns), NEW in, Begins(in, ZippedWords(columns)),
         NEW w, w \in Nat \ {0}, w = Len(columns),
         NEW i \in 1..Len(PartOfRow(in, w))
  PROVE  PartOfLine(PartOfRow(in, w)[i], columns, Len(FullRows(in, w)) + i)
<1> DEFINE part == PartOfRow(in, w)
           n == Len(in) \div w
           line == part[1]
<1>1. IsStream(in)
  BY DEF Begins
<1>2. Len(FullRows(in, w)) = n /\ n \in Nat
  BY <1>1, FullRowsLaws DEF CutFrom
<1>3. /\ Len(part) = 0 \/ Len(part) = 1
      /\ Len(part) = 1 =>
           /\ IsStream(line) /\ Len(line) <= w
           /\ \A c \in 1..Len(line) : /\ n * w + c \in 1..Len(in)
                                      /\ line[c] = in[n * w + c]
  BY <1>1, PartOfRowLaws, Zenon
<1>4. i = 1 /\ Len(part) = 1
  <2> HIDE DEF part, line
  <2>1. i \in 1..Len(part)
    BY DEF part
  <2>2. Len(part) = 0 \/ Len(part) = 1
    BY <1>3, Zenon
  <2> DEFINE m == Len(part)
  <2>3. i \in 1..m /\ (m = 0 \/ m = 1)
    BY <2>1, <2>2
  <2> HIDE DEF m
  <2>4. CASE m = 0
    <3>1. i \in 1..0
      BY <2>3, <2>4
    <3>2. QED
      BY <3>1
  <2>5. CASE m = 1
    <3>1. i \in 1..1
      BY <2>3, <2>5
    <3>2. QED
      BY <2>5, <3>1 DEF m
  <2>6. QED
    BY <2>3, <2>4, <2>5
<1> DEFINE k == n + 1
<1> HIDE DEF n, line
<1>5. k \in Nat \ {0} /\ k - 1 = n
  BY <1>2
<1>6. \A c \in 1..Len(line) : /\ (k - 1) * w + c \in 1..Len(in)
                              /\ line[c] = in[(k - 1) * w + c]
  BY <1>3, <1>4, <1>5, Zenon
<1>7. IsStream(line) /\ Len(line) <= w
  BY <1>3, <1>4
<1> HIDE DEF k
<1>8. PartOfLine(line, columns, k)
  BY <1>5, <1>6, <1>7, WordsInLines
<1>9. QED
  BY <1>2, <1>4, <1>8 DEF line, k

LEMMA ResultLines ==
  ASSUME NEW columns, AreColumns(columns), NEW in, Begins(in, ZippedWords(columns)),
         NEW w, w \in Nat \ {0}, w = Len(columns)
  PROVE  /\ LinesOf(FullRows(in, w) \o PartOfRow(in, w), columns)
         /\ LinesOf(FullRows(in, w) \o << >>, columns)
<1>1. LinesOf(FullRows(in, w), columns)
  BY FullLines
<1>2. LinesOf(FullRows(in, w) \o << >>, columns)
  <2>1. \A i \in 1..Len(<< >>) : PartOfLine((<< >>)[i], columns, Len(FullRows(in, w)) + i)
    BY NoStream
  <2>2. QED
    BY <1>1, <2>1, NoStream, MoreLines
<1>3. LinesOf(FullRows(in, w) \o PartOfRow(in, w), columns)
  <2>1. IsStream(PartOfRow(in, w))
    BY PartOfRowLaws DEF Begins
  <2>2. \A i \in 1..Len(PartOfRow(in, w)) :
          PartOfLine(PartOfRow(in, w)[i], columns, Len(FullRows(in, w)) + i)
    BY LastLine
  <2>3. QED
    BY <1>1, <2>1, <2>2, MoreLines
<1>4. QED
  BY <1>2, <1>3

(* The lines that come to paste.                                           *)
LEMMA TheLines ==
  ASSUME Flow, heap \in Heaps, RowsRight(files.rows), programs = ReportPrograms
  PROVE  LinesOf(Input(4), ReportColumns(files.rows))
<1> DEFINE R == ReportColumns(files.rows)
           zipped == ZippedWords(R)
           in == Input(3)
           lines == Input(4)
<1>1. /\ 3 \in Stages /\ 4 \in Stages /\ 3 > 1 /\ 4 > 1 /\ 3 - 1 = 2 /\ 4 - 1 = 3
      /\ programs[3].does # "unzip" /\ Final > 2
  BY ReportProgramsAre
<1>2. Begins(in, zipped)
  <2>1. Begins(written[2], ZippedWords(programs[1].columns))
    BY <1>1, ReportProgramsAre, ZippedAndCopied
  <2>2. Begins(in, written[3 - 1])
    BY <1>1, ReportProgramsAre, Passed
  <2>3. QED
    BY <1>1, <2>1, <2>2, ReportProgramsAre, BeginsTwice
<1>3. Begins(lines, Result(3))
  <2>1. Begins(lines, written[4 - 1])
    BY <1>1, Passed
  <2>2. Begins(written[3], Result(3))
    BY <1>1 DEF Flow, FlowWritten
  <2>3. QED
    BY <1>1, <2>1, <2>2, BeginsTwice
<1>4. AreColumns(R) /\ Len(R) = 6
  BY ReportColumnsLaws
<1>5. LinesOf(Result(3), R)
  <2>1. LinesOf(FullRows(in, 6) \o PartOfRow(in, 6), R) /\ LinesOf(FullRows(in, 6) \o << >>, R)
    <3>1. 6 \in Nat \ {0} /\ 6 = Len(R)
      BY <1>4
    <3>2. QED
      BY <1>2, <1>4, <3>1, ResultLines
  <2>2. CASE AtEof(3)
    <3>1. Result(3) = FullRows(in, 6) \o PartOfRow(in, 6)
      <4>1. programs[3].does = "rows" /\ programs[3].width = 6
        BY ReportProgramsAre
      <4>2. Results(programs[3], in, AtEof(3))
              = FullRows(in, programs[3].width) \o PartOfRow(in, programs[3].width)
        BY <2>2, <4>1, ResultCases, Zenon
      <4>3. QED
        BY <4>1, <4>2 DEF Result
    <3>2. QED
      BY <2>1, <3>1
  <2>3. CASE ~ AtEof(3)
    <3>1. Result(3) = FullRows(in, 6) \o << >>
      BY <2>3, ReportProgramsAre, ResultCases DEF Result
    <3>2. QED
      BY <2>1, <3>1
  <2>4. QED
    BY <2>2, <2>3
<1> DEFINE r == Result(3)
<1>6. /\ IsStream(lines) /\ Len(lines) \in Nat /\ Len(r) \in Nat /\ Len(lines) <= Len(r)
      /\ \A k \in 1..Len(lines) : lines[k] = r[k]
  BY <1>3, StreamLaws DEF Begins
<1> HIDE DEF r, lines, R
<1>7. LinesOf(r, R)
  BY <1>5 DEF r
<1>8. LinesOf(lines, R)
  BY <1>6, <1>7 DEF LinesOf
<1>9. QED
  BY <1>8 DEF lines, R

(* IsPrefix, by what the sequences hold.                                   *)
LEMMA PrefixOf ==
  ASSUME NEW s, NEW t, NEW n \in Nat, IsStream(s), t = [c \in 1..n |-> t[c]], Len(s) <= n,
         \A c \in 1..Len(s) : s[c] = t[c]
  PROVE  IsPrefix(s, t)
<1>1. IsStream(t) /\ Len(t) = n /\ Len(s) \in Nat
  BY StreamMade, StreamLaws
<1> DEFINE m == Len(s)
<1>2. /\ IsStream(SubSeq(s, 1, m)) /\ Len(SubSeq(s, 1, m)) = m
      /\ \A c \in 1..m : SubSeq(s, 1, m)[c] = s[c]
  BY <1>1, Taken
<1>3. /\ IsStream(SubSeq(t, 1, m)) /\ Len(SubSeq(t, 1, m)) = m
      /\ \A c \in 1..m : SubSeq(t, 1, m)[c] = t[c]
  BY <1>1, Taken
<1>4. SubSeq(s, 1, m) = SubSeq(t, 1, m)
  BY <1>2, <1>3, SameStream
<1>5. QED
  BY <1>1, <1>4 DEF IsPrefix

(* A part of the k-th line is a part of the line of a row.                 *)
LEMMA OneLine ==
  ASSUME heap \in Heaps, RowsRight(files.rows), NEW k, NEW line, IsStream(line), Len(line) # 0,
         PartOfLine(line, ReportColumns(files.rows), k)
  PROVE  \E row \in HeapRows :
           /\ IsPrefix(line, RowLine(row))
           /\ k \in 1..Len(files.rows[6]) => files.rows[6][k] = heap.classOf[row]
<1> DEFINE R == ReportColumns(files.rows)
           rows == files.rows
<1>1. /\ Len(R) = 6
      /\ \A c \in 1..6 : ReportedColumns[c] \in 1..7 /\ R[c] = rows[ReportedColumns[c]]
  BY ReportColumnsLaws
<1> HIDE DEF R, rows
<1>2. /\ Len(line) \in Nat /\ Len(line) <= 6 /\ Len(line) # 0
      /\ \A c \in 1..Len(line) : k \in 1..Len(R[c]) /\ line[c] = R[c][k]
  BY <1>1 DEF PartOfLine, R
<1>3. ReportedColumns[1] \in 1..7 /\ k \in 1..Len(rows[ReportedColumns[1]])
  <2>1. 1 \in 1..Len(line) /\ 1 \in 1..6
    BY <1>2
  <2>2. QED
    BY <1>1, <1>2, <2>1
<1>4. PICK row \in HeapRows :
        \A d \in 1..7 : k \in 1..Len(rows[d]) => rows[d][k] = Cell(row, d)
  BY <1>3 DEF RowsRight, rows
<1>5. RowLineLaw(row)
  BY RowLineCells
<1>6. ASSUME NEW c \in 1..Len(line) PROVE line[c] = RowLine(row)[c]
  <2>1. c \in 1..6
    BY <1>2
  <2>2. /\ line[c] = rows[ReportedColumns[c]][k] /\ k \in 1..Len(rows[ReportedColumns[c]])
        /\ ReportedColumns[c] \in 1..7
    BY <1>1, <1>2, <2>1
  <2>3. QED
    BY <1>4, <1>5, <2>1, <2>2 DEF RowLineLaw
<1>7. IsPrefix(line, RowLine(row))
  <2>1. RowLine(row) = [c \in 1..6 |-> RowLine(row)[c]]
    BY <1>5 DEF RowLineLaw
  <2> DEFINE t == RowLine(row)
  <2>2. t = [c \in 1..6 |-> t[c]] /\ 6 \in Nat
    BY <2>1
  <2> HIDE DEF t
  <2>3. \A c \in 1..Len(line) : line[c] = t[c]
    BY <1>6 DEF t
  <2>4. IsPrefix(line, t)
    BY <1>2, <2>2, <2>3, PrefixOf
  <2>5. QED
    BY <2>4 DEF t
<1>8. ASSUME k \in 1..Len(rows[6]) PROVE rows[6][k] = heap.classOf[row]
  <2>1. rows[6][k] = Cell(row, 6) /\ Cell(row, 6) = heap.classOf[row]
    BY <1>4, <1>8, HeapLaws DEF Cell
  <2>2. QED
    BY <2>1
<1>9. QED
  BY <1>7, <1>8 DEF rows

(* It leaves a line for a row, with the name of its class or none.         *)
LEMMA TheReport ==
  ASSUME Flow, heap \in Heaps, RowsRight(files.rows), NamesRight(files.names, files.rows),
         programs = ReportPrograms
  PROVE  LinesRight(written[Final])
<1> DEFINE in == Input(4)
           names == files.names
           pasted == PastedLines(in, names, AtEof(4))
           out == written[5]
<1>1. LinesOf(in, ReportColumns(files.rows))
  BY TheLines
<1>2. Begins(out, pasted)
  <2>1. /\ 4 \in Stages /\ 5 \in Stages /\ 5 > 1 /\ 5 - 1 = 4
        /\ programs[4].does # "unzip" /\ programs[5].does = "head"
        /\ programs[4].does = "paste" /\ programs[4].lines = names
    BY ReportProgramsAre
  <2>2. Begins(written[5], written[5 - 1])
    BY <2>1, Copied
  <2>3. Begins(written[4], Result(4))
    BY <2>1 DEF Flow, FlowWritten
  <2>4. Result(4) = pasted
    <3>1. Results(programs[4], in, AtEof(4)) = PastedLines(in, programs[4].lines, AtEof(4))
      <4>1. programs[4].does = "paste"
        BY <2>1
      <4> DEFINE program == programs[4]
                 eof == AtEof(4)
      <4>2. program.does = "paste"
        BY <4>1
      <4> HIDE DEF program, eof, in
      <4>3. Results(program, in, eof) = PastedLines(in, program.lines, eof)
        BY <4>2, ResultCases, Zenon
      <4>4. QED
        BY <4>3 DEF program, eof
    <3>2. QED
      BY <2>1, <3>1 DEF Result
  <2>5. QED
    BY <2>1, <2>2, <2>3, <2>4, BeginsTwice
<1>3. PastedFrom(pasted, in, names)
  <2>1. IsStream(in) /\ IsStream(names)
    BY <1>1 DEF LinesOf, NamesRight
  <2> DEFINE eof == AtEof(4)
  <2> HIDE DEF in, names, eof
  <2>2. PastedFrom(PastedLines(in, names, eof), in, names)
    BY <2>1, PastedLaws
  <2>3. QED
    BY <2>2 DEF eof
<1> HIDE DEF in, names, pasted, out
<1>4. /\ IsStream(out) /\ Len(out) \in Nat /\ Len(pasted) \in Nat /\ Len(out) <= Len(pasted)
      /\ \A k \in 1..Len(out) : out[k] = pasted[k]
  BY <1>2, StreamLaws DEF Begins
<1>5. IsStream(in) /\ Len(in) \in Nat /\ IsStream(names) /\ Len(names) \in Nat
  BY <1>1, StreamLaws DEF LinesOf, NamesRight, names
<1>6. ASSUME NEW k \in 1..Len(out)
      PROVE  \/ out[k].row = << >>
             \/ \E row \in HeapRows : /\ IsPrefix(out[k].row, RowLine(row))
                                      /\ out[k].name \in {NoName, RowName(row)}
  <2>1. /\ k \in 1..Len(pasted)
        /\ out[k].row = IF k <= Len(in) THEN in[k] ELSE << >>
        /\ out[k].name = IF k <= Len(names) THEN names[k] ELSE NoName
    <3>1. k \in 1..Len(pasted) /\ out[k] = pasted[k]
      BY <1>4
    <3>2. pasted[k] = Line(IF k <= Len(in) THEN in[k] ELSE << >>,
                           IF k <= Len(names) THEN names[k] ELSE NoName)
      BY <1>3, <3>1 DEF PastedFrom
    <3>3. QED
      BY <3>1, <3>2 DEF Line
  <2>2. CASE k > Len(in)
    BY <1>4, <1>5, <2>1, <2>2
  <2>3. CASE k <= Len(in)
    <3>1. k \in 1..Len(in) /\ out[k].row = in[k]
      BY <1>4, <1>5, <2>1, <2>3
    <3>2. PartOfLine(in[k], ReportColumns(files.rows), k) /\ IsStream(in[k])
      BY <1>1, <3>1 DEF LinesOf, PartOfLine
    <3>3. CASE Len(in[k]) = 0
      <4>1. in[k] = << >>
        BY <3>2, <3>3, NoStream, SameStream
      <4>2. QED
        BY <3>1, <4>1
    <3>4. CASE Len(in[k]) # 0
      <4>1. PICK row \in HeapRows :
              /\ IsPrefix(in[k], RowLine(row))
              /\ k \in 1..Len(files.rows[6]) => files.rows[6][k] = heap.classOf[row]
        BY <3>2, <3>4, OneLine
      <4>2. ASSUME k <= Len(names) PROVE names[k] = RowName(row)
        <5>1. k \in 1..Len(names)
          BY <1>4, <1>5, <4>2
        <5>2. k \in 1..Len(files.rows[6]) /\ names[k] = NT!NameOf(heap.tables, files.rows[6][k])
          BY <5>1 DEF NamesRight, names
        <5>3. QED
          BY <4>1, <5>2 DEF RowName
      <4>3. out[k].name \in {NoName, RowName(row)}
        BY <2>1, <4>2
      <4>4. QED
        BY <3>1, <4>1, <4>3
    <3>5. QED
      BY <3>3, <3>4
  <2>4. QED
    BY <1>4, <1>5, <2>2, <2>3
<1>7. LinesRight(out)
  BY <1>4, <1>6 DEF LinesRight
<1>8. QED
  BY <1>7, ReportProgramsAre DEF out

(* The pipelines are well built, if what they read is right.               *)
LEMMA Built ==
  ASSUME NEW program, program.does \in {"copy", "absent", "translate", "unpack"}
  PROVE  WellBuilt(program)
BY DEF WellBuilt, Kinds

LEMMA PvBuilt ==
  /\ Pv.does \in {"copy", "absent"} /\ Pv.does # "sort" /\ WellBuilt(Pv)
  /\ Pv.does = "absent" \/ Pv.does = "copy"
<1>1. Pv.does \in {"copy", "absent"}
  BY DEF Pv, Copy, Absent
<1>2. QED
  BY <1>1, Built

LEMMA DominatorPipeline ==
  ASSUME heap \in Heaps
  PROVE  PipelineOK(DominatorPrograms)
<1> DEFINE ps == DominatorPrograms
<1>1. ps = [p \in 1..2 |-> ps[p]] /\ ps[1] = Cat(heap.dominators) /\ ps[2] = Unpack(heap.ids)
  BY DEF DominatorPrograms
<1> HIDE DEF ps
<1>2. IsStream(ps) /\ Len(ps) = 2
  BY <1>1, StreamMade
<1>3. IsStream(heap.dominators)
  <2>1. 4 \in 1..7 /\ HeapColumns(heap)[4] = heap.dominators
    BY HeapLaws
  <2>2. QED
    BY <2>1, HeapLaws
<1>4. ps[1].does = "cat" /\ ps[1].words = heap.dominators /\ ps[2].does = "unpack"
  BY <1>1 DEF Cat, Unpack
<1>5. WellBuilt(ps[1]) /\ WellBuilt(ps[2])
  BY <1>3, <1>4, Built DEF WellBuilt, Kinds
<1>6. PipelineOK(ps)
  BY <1>2, <1>4, <1>5 DEF PipelineOK
<1>7. QED
  BY <1>6 DEF ps

LEMMA RowPipeline ==
  ASSUME heap \in Heaps, DominatorsRight(files.dominators)
  PROVE  PipelineOK(RowPrograms)
<1> DEFINE ps == RowPrograms
<1>1. /\ ps = [p \in 1..5 |-> ps[p]]
      /\ ps[1] = ZipFiles(RowColumns) /\ ps[2] = Pv /\ ps[3] = SortRows(7)
      /\ ps[4] = UnzipFiles(7) /\ ps[5] = FirstLines(MaxRows)
  BY DEF RowPrograms, RowColumns
<1> HIDE DEF ps
<1>2. IsStream(ps) /\ Len(ps) = 5
  BY <1>1, StreamMade
<1>3. /\ ps[1].does = "zip" /\ ps[1].columns = RowColumns
      /\ ps[3].does = "sort" /\ ps[3].width = 7 /\ ps[4].does = "unzip" /\ ps[4].width = 7
      /\ ps[5].does = "head" /\ ps[5].count = MaxRows
  BY <1>1 DEF ZipFiles, SortRows, UnzipFiles, FirstLines
<1>4. AreColumns(RowColumns) /\ \A c \in 1..Len(RowColumns) : Numbers(RowColumns[c])
  BY RowColumnsLaws
<1>5. MaxRows \in Nat
  BY HeapsAssumption
<1>6. WellBuilt(ps[1])
  BY <1>3, <1>4 DEF WellBuilt, Kinds
<1>7. WellBuilt(ps[3]) /\ WellBuilt(ps[4]) /\ WellBuilt(ps[5]) /\ WellBuilt(ps[2])
  BY <1>1, <1>3, <1>5, PvBuilt DEF WellBuilt, Kinds
<1>8. Counting(ps, 2)
  BY <1>1, <1>3, PvBuilt DEF Counting
<1>9. ASSUME NEW p \in 1..Len(ps)
      PROVE  WellBuilt(ps[p]) /\ (ps[p].does = "sort" => p > 1 /\ Counting(ps, p - 1))
  <2>1. p = 1 \/ p = 2 \/ p = 3 \/ p = 4 \/ p = 5
    BY <1>2
  <2>2. ps[2].does # "sort"
    BY <1>1, PvBuilt
  <2>3. WellBuilt(ps[p])
    BY <1>6, <1>7, <2>1
  <2>4. ps[p].does = "sort" => p = 3
    BY <1>3, <2>1, <2>2
  <2>5. 3 > 1 /\ 3 - 1 = 2
    OBVIOUS
  <2>6. QED
    BY <1>8, <2>3, <2>4, <2>5
<1>10. PipelineOK(ps)
  BY <1>2, <1>9 DEF PipelineOK
<1>11. QED
  BY <1>10 DEF ps

LEMMA NamePipeline ==
  ASSUME heap \in Heaps, RowsRight(files.rows)
  PROVE  PipelineOK(NamePrograms)
<1> DEFINE ps == NamePrograms
           t == [heap.tables EXCEPT !.ofRows = files.rows[6]]
<1>1. heap.tables \in [ofRows : Seq(Nat), classes : Seq(Nat), classNames : Seq(Nat),
                       names : Seq(Nat), nameOffsets : Seq(Nat), strings : Seq(Nat)]
  BY HeapsAssumption DEF NT!AreTables
<1>2. t.ofRows = files.rows[6] /\ IsStream(t.ofRows)
  BY <1>1 DEF RowsRight
<1> HIDE DEF t
<1>3. ps = <<NT!Cat(t.ofRows), NT!Translate(t.classes, TRUE), NT!Unpack(t.classNames),
             NT!Translate(t.names, FALSE), NT!Unpack(t.nameOffsets),
             NT!Unpack(t.strings), NT!Copy>>
  BY DEF NamePrograms, NT!NamePrograms, t
<1> HIDE DEF ps
<1>4. ps = [p \in 1..7 |-> ps[p]]
  BY <1>3
<1>5. IsStream(ps) /\ Len(ps) = 7
  BY <1>4, StreamMade
<1>6. /\ ps[1].does = "cat" /\ ps[1].words = t.ofRows
      /\ ps[2].does = "translate" /\ ps[3].does = "unpack" /\ ps[4].does = "translate"
      /\ ps[5].does = "unpack" /\ ps[6].does = "unpack" /\ ps[7].does = "copy"
  BY <1>3 DEF NT!Cat, NT!Translate, NT!Unpack, NT!Copy
<1>7. WellBuilt(ps[1])
  BY <1>2, <1>6 DEF WellBuilt, Kinds
<1>8. ASSUME NEW p \in 1..Len(ps) PROVE WellBuilt(ps[p]) /\ ps[p].does # "sort"
  <2>1. p = 1 \/ p = 2 \/ p = 3 \/ p = 4 \/ p = 5 \/ p = 6 \/ p = 7
    BY <1>5
  <2>2. ps[p].does # "sort" /\ (p = 1 \/ ps[p].does \in {"copy", "absent", "translate", "unpack"})
    BY <1>6, <2>1
  <2>3. QED
    BY <1>7, <2>2, Built
<1>9. PipelineOK(ps)
  BY <1>5, <1>8 DEF PipelineOK
<1>10. QED
  BY <1>9 DEF ps

LEMMA ReportPipeline ==
  ASSUME heap \in Heaps, RowsRight(files.rows), NamesRight(files.names, files.rows)
  PROVE  PipelineOK(ReportPrograms)
<1> DEFINE ps == ReportPrograms
           R == ReportColumns(files.rows)
<1>1. /\ ps = [p \in 1..5 |-> ps[p]]
      /\ ps[1] = ZipFiles(R) /\ ps[2] = Pv /\ ps[3] = RowLines(6)
      /\ ps[4] = Paste(files.names) /\ ps[5] = FirstLines(MaxRows)
  BY DEF ReportPrograms
<1>2. AreColumns(R) /\ \A c \in 1..Len(R) : Numbers(R[c])
  BY ReportColumnsLaws
<1> HIDE DEF ps, R
<1>3. IsStream(ps) /\ Len(ps) = 5
  BY <1>1, StreamMade
<1>4. /\ ps[1].does = "zip" /\ ps[1].columns = R
      /\ ps[3].does = "rows" /\ ps[3].width = 6 /\ ps[4].does = "paste"
      /\ ps[4].lines = files.names /\ ps[5].does = "head" /\ ps[5].count = MaxRows
  BY <1>1 DEF ZipFiles, RowLines, Paste, FirstLines
<1>5. MaxRows \in Nat /\ IsStream(files.names)
  BY HeapsAssumption DEF NamesRight
<1>6. WellBuilt(ps[1])
  BY <1>2, <1>4 DEF WellBuilt, Kinds
<1>7. WellBuilt(ps[3]) /\ WellBuilt(ps[4]) /\ WellBuilt(ps[5]) /\ WellBuilt(ps[2])
  BY <1>1, <1>4, <1>5, PvBuilt DEF WellBuilt, Kinds
<1>8. ASSUME NEW p \in 1..Len(ps) PROVE WellBuilt(ps[p]) /\ ps[p].does # "sort"
  <2>1. p = 1 \/ p = 2 \/ p = 3 \/ p = 4 \/ p = 5
    BY <1>3
  <2>2. ps[2].does # "sort"
    BY <1>1, PvBuilt
  <2>3. QED
    BY <1>4, <1>6, <1>7, <2>1, <2>2
<1>9. PipelineOK(ps)
  BY <1>3, <1>8 DEF PipelineOK
<1>10. QED
  BY <1>9 DEF ps

PipelinesOK ==
  /\ PipelineOK(DominatorPrograms) /\ PipelineOK(RowPrograms)
  /\ PipelineOK(NamePrograms) /\ PipelineOK(ReportPrograms)

LEMMA PipelinesAre == ScriptTypes /\ FilesRight => PipelinesOK
BY DominatorPipeline, RowPipeline, NamePipeline, ReportPipeline
   DEF ScriptTypes, FilesRight, PipelinesOK

LEMMA PipelinesAreNext == ScriptTypes' /\ FilesRight' => PipelinesOK'
BY PipelinesAre, PTL

(* Nothing changes in the pipes when the script stops.                     *)
LEMMA FlowStays == Flow /\ UNCHANGED pipeVars => Flow'
<1> SUFFICES ASSUME Flow, UNCHANGED pipeVars PROVE Flow'
  OBVIOUS
<1>1. programs' = programs /\ read' = read /\ written' = written /\ status' = status
  BY DEF pipeVars, streams
<1>2. QED
  BY <1>1 DEF Flow, FlowTypes, FlowReads, FlowNumbers, FlowWritten, FlowEnded, Stages,
     Before, Piped, Input, AtEof, Gone, Result, Failing

(* Nobody changes the heap.                                                *)
LEMMA SameHeap ==
  ASSUME heap' = heap
  PROVE  /\ \A d : DominatorsRight(d) => DominatorsRight(d)'
         /\ \A rows : RowsRight(rows) => RowsRight(rows)'
         /\ \A names, rows : NamesRight(names, rows) => NamesRight(names, rows)'
         /\ \A lines : LinesRight(lines) => LinesRight(lines)'
<1>1. \A d : DominatorsRight(d) => DominatorsRight(d)'
  BY DEF DominatorsRight
<1>2. HeapRows' = HeapRows /\ \A row, c : Cell(row, c)' = Cell(row, c)
  BY DEF HeapRows, Cell, HeapColumns
<1>3. \A row : RowLine(row)' = RowLine(row) /\ RowName(row)' = RowName(row)
  BY DEF RowLine, RowName
<1>4. \A rows : RowsRight(rows) => RowsRight(rows)'
  BY <1>2 DEF RowsRight
<1>5. \A names, rows : NamesRight(names, rows) => NamesRight(names, rows)'
  BY DEF NamesRight
<1>6. \A lines : LinesRight(lines) => LinesRight(lines)'
  BY <1>2, <1>3 DEF LinesRight
<1>7. QED
  BY <1>1, <1>4, <1>5, <1>6

LEMMA FilesChange ==
  ASSUME heap' = heap, NEW d, NEW r, NEW n, NEW l,
         DominatorsRight(d), RowsRight(r), NamesRight(n, r), LinesRight(l),
         files' = [dominators |-> d, rows |-> r, names |-> n, report |-> l],
         command' \in {"dominators", "rows"} => n = << >>
  PROVE  FilesRight'
<1>1. DominatorsRight(d)' /\ RowsRight(r)' /\ NamesRight(n, r)' /\ LinesRight(l)'
  BY SameHeap
<1>2. files'.dominators = d /\ files'.rows = r /\ files'.names = n /\ files'.report = l
  OBVIOUS
<1>3. QED
  BY <1>1, <1>2 DEF FilesRight

LEMMA FilesStay ==
  ASSUME FilesRight, heap' = heap, files' = files,
         command' \in {"dominators", "rows"} => command \in {"dominators", "rows"}
  PROVE  FilesRight'
BY FilesChange DEF FilesRight

(* What the pipeline that has ended has left in files, and the next one.   *)
Left ==
  /\ ScriptTypes' /\ FilesRight' /\ Running'
  /\ \/ FlowBegins'
     \/ UNCHANGED pipeVars

LEMMA LeftIsRight ==
  ASSUME Flow, Left
  PROVE  ReportInv'
<1>1. Flow'
  BY FlowStartsNext, FlowStays DEF Left
<1>2. QED
  BY <1>1 DEF Left, ReportInv

(* The steps of the script: each takes over what the pipeline has left.    *)
LEMMA SortTheRowsRight ==
  ASSUME ReportInv, SortTheRows
  PROVE  Left
<1>1. ScriptTypes /\ FilesRight /\ Running /\ Flow
  BY DEF ReportInv
<1>2. /\ command = "dominators" /\ programs = DominatorPrograms /\ heap \in Heaps
      /\ files' = [files EXCEPT !.dominators = written[Final]] /\ command' = "rows"
      /\ heap' = heap /\ pv' = pv /\ programs' = RowPrograms'
      /\ Started(programs', read', written', status')
  BY <1>1 DEF SortTheRows, Finished, Run, Running, ScriptTypes, inputs
<1>3. DominatorsRight(written[Final])
  BY <1>1, <1>2, TheDominators
<1>4. /\ files' = [dominators |-> written[Final], rows |-> files.rows,
                   names |-> files.names, report |-> files.report]
      /\ RowsRight(files.rows) /\ NamesRight(files.names, files.rows)
      /\ LinesRight(files.report) /\ files.names = << >>
  BY <1>1, <1>2 DEF FilesRight
<1>5. FilesRight'
  BY <1>2, <1>3, <1>4, FilesChange
<1>6. ScriptTypes'
  BY <1>1, <1>2 DEF ScriptTypes
<1>7. PipelinesOK'
  BY <1>5, <1>6, PipelinesAreNext
<1>8. FlowBegins'
  BY <1>2, <1>7 DEF FlowBegins, PipelinesOK
<1>9. Running'
  BY <1>2 DEF Running
<1>10. QED
  BY <1>5, <1>6, <1>8, <1>9 DEF Left

LEMMA NameTheRowsRight ==
  ASSUME ReportInv, NameTheRows
  PROVE  Left
<1> DEFINE r == [c \in 1..7 |-> UnzippedWords(written[4], 7, c)]
<1>1. ScriptTypes /\ FilesRight /\ Running /\ Flow
  BY DEF ReportInv
<1>2. /\ command = "rows" /\ programs = RowPrograms /\ heap \in Heaps
      /\ files' = [files EXCEPT !.rows = r] /\ command' = "names"
      /\ heap' = heap /\ pv' = pv /\ programs' = NamePrograms'
      /\ Started(programs', read', written', status')
  BY <1>1 DEF NameTheRows, Finished, Run, Running, ScriptTypes, inputs
<1>3. RowsRight(r)
  BY <1>1, <1>2, TheRows DEF FilesRight
<1> HIDE DEF r
<1>4. /\ files' = [dominators |-> files.dominators, rows |-> r,
                   names |-> files.names, report |-> files.report]
      /\ DominatorsRight(files.dominators) /\ LinesRight(files.report)
      /\ files.names = << >>
  BY <1>1, <1>2 DEF FilesRight
<1>5. NamesRight(files.names, r)
  BY <1>4, NoStream DEF NamesRight
<1>6. FilesRight'
  BY <1>2, <1>3, <1>4, <1>5, FilesChange
<1>7. ScriptTypes'
  BY <1>1, <1>2 DEF ScriptTypes
<1>8. PipelinesOK'
  BY <1>6, <1>7, PipelinesAreNext
<1>9. FlowBegins'
  BY <1>2, <1>8 DEF FlowBegins, PipelinesOK
<1>10. Running'
  BY <1>2 DEF Running
<1>11. QED
  BY <1>6, <1>7, <1>9, <1>10 DEF Left

LEMMA WriteReportRight ==
  ASSUME ReportInv, WriteReport
  PROVE  Left
<1>1. ScriptTypes /\ FilesRight /\ Running /\ Flow
  BY DEF ReportInv
<1>2. /\ command = "names" /\ programs = NamePrograms /\ heap \in Heaps
      /\ files' = [files EXCEPT !.names = written[Final]] /\ command' = "report"
      /\ heap' = heap /\ pv' = pv /\ programs' = ReportPrograms'
      /\ Started(programs', read', written', status')
  BY <1>1 DEF WriteReport, Finished, Run, Running, ScriptTypes, inputs
<1>3. NamesRight(written[Final], files.rows)
  BY <1>1, <1>2, TheNames
<1>4. /\ files' = [dominators |-> files.dominators, rows |-> files.rows,
                   names |-> written[Final], report |-> files.report]
      /\ DominatorsRight(files.dominators) /\ RowsRight(files.rows)
      /\ LinesRight(files.report)
  BY <1>1, <1>2 DEF FilesRight
<1>5. FilesRight'
  BY <1>2, <1>3, <1>4, FilesChange
<1>6. ScriptTypes'
  BY <1>1, <1>2 DEF ScriptTypes
<1>7. PipelinesOK'
  BY <1>5, <1>6, PipelinesAreNext
<1>8. FlowBegins'
  BY <1>2, <1>7 DEF FlowBegins, PipelinesOK
<1>9. Running'
  BY <1>2 DEF Running
<1>10. QED
  BY <1>5, <1>6, <1>8, <1>9 DEF Left

LEMMA DoneRight ==
  ASSUME ReportInv, Done
  PROVE  Left
<1>1. ScriptTypes /\ FilesRight /\ Running /\ Flow
  BY DEF ReportInv
<1>2. /\ command = "report" /\ programs = ReportPrograms /\ heap \in Heaps
      /\ files' = [files EXCEPT !.report = written[Final]] /\ command' = "done"
      /\ heap' = heap /\ pv' = pv /\ UNCHANGED pipeVars
  BY <1>1 DEF Done, Finished, Running, ScriptTypes, inputs
<1>3. LinesRight(written[Final])
  BY <1>1, <1>2, TheReport DEF FilesRight
<1>4. /\ files' = [dominators |-> files.dominators, rows |-> files.rows,
                   names |-> files.names, report |-> written[Final]]
      /\ DominatorsRight(files.dominators) /\ RowsRight(files.rows)
      /\ NamesRight(files.names, files.rows)
  BY <1>1, <1>2 DEF FilesRight
<1>5. FilesRight'
  BY <1>2, <1>3, <1>4, FilesChange
<1>6. ScriptTypes' /\ Running'
  BY <1>1, <1>2 DEF ScriptTypes, Running
<1>7. QED
  BY <1>2, <1>5, <1>6 DEF Left

LEMMA StopRight ==
  ASSUME ReportInv, StopScript
  PROVE  Left
<1>1. ScriptTypes /\ FilesRight /\ Running /\ Flow
  BY DEF ReportInv
<1>2. /\ files' = files /\ command' = "stopped" /\ heap' = heap /\ pv' = pv
      /\ UNCHANGED pipeVars
  BY DEF StopScript, inputs
<1>3. FilesRight'
  BY <1>1, <1>2, FilesStay
<1>4. ScriptTypes' /\ Running'
  BY <1>1, <1>2 DEF ScriptTypes, Running
<1>5. QED
  BY <1>2, <1>3, <1>4 DEF Left

LEMMA SamePrograms ==
  ASSUME Running, heap' = heap, pv' = pv, files' = files, command' = command,
         programs' = programs
  PROVE  Running'
<1>1. /\ DominatorPrograms' = DominatorPrograms /\ RowPrograms' = RowPrograms
      /\ NamePrograms' = NamePrograms /\ ReportPrograms' = ReportPrograms
  BY DEF DominatorPrograms, RowPrograms, NamePrograms, ReportPrograms, Pv, HeapColumns
<1>2. QED
  BY <1>1 DEF Running

LEMMA RunProgramsRight ==
  ASSUME ReportInv, RunPrograms
  PROVE  ReportInv'
<1>1. ScriptTypes /\ FilesRight /\ Running /\ Flow
  BY DEF ReportInv
<1>2. PICK p \in Stages : Step(p) \/ Kill(p)
  BY DEF RunPrograms
<1>3. Flow'
  BY <1>1, <1>2, StepKeeps
<1>4. heap' = heap /\ pv' = pv /\ files' = files /\ command' = command
  BY DEF RunPrograms, inputs
<1>5. programs' = programs
  BY <1>2 DEF Step, Kill, Read, Write, WriteToNobody, Fail, End
<1>6. ScriptTypes'
  BY <1>1, <1>4 DEF ScriptTypes
<1>7. FilesRight'
  BY <1>1, <1>4, FilesStay
<1>8. Running'
  BY <1>1, <1>4, <1>5, SamePrograms
<1>9. QED
  BY <1>3, <1>6, <1>7, <1>8 DEF ReportInv

LEMMA ReportBegins == Init => ReportInv
<1> SUFFICES ASSUME Init PROVE ReportInv
  OBVIOUS
<1>1. /\ heap \in Heaps /\ pv \in BOOLEAN /\ command = "dominators"
      /\ programs = DominatorPrograms /\ Started(programs, read, written, status)
      /\ files = [dominators |-> << >>, rows |-> [c \in 1..7 |-> << >>],
                  names |-> << >>, report |-> << >>]
  BY HeapsAssumption DEF Init
<1>2. /\ DominatorsRight(<< >>) /\ NamesRight(<< >>, [c \in 1..7 |-> << >>])
      /\ LinesRight(<< >>)
  BY NoStream DEF DominatorsRight, NamesRight, LinesRight, Numbers
<1>3. RowsRight([c \in 1..7 |-> << >>])
  <2> DEFINE r == [c \in 1..7 |-> << >>]
  <2>1. r = [c \in 1..7 |-> r[c]] /\ \A c \in 1..7 : r[c] = << >>
    OBVIOUS
  <2> HIDE DEF r
  <2>2. RowsRight(r)
    BY <2>1, NoStream DEF RowsRight, Numbers
  <2>3. QED
    BY <2>2 DEF r
<1>4. FilesRight
  BY <1>1, <1>2, <1>3 DEF FilesRight
<1>5. ScriptTypes /\ Running
  BY <1>1 DEF ScriptTypes, Running
<1>6. FlowBegins
  BY <1>1, <1>4, <1>5, PipelinesAre DEF FlowBegins, PipelinesOK
<1>7. QED
  BY <1>4, <1>5, <1>6, FlowStarts DEF ReportInv

(* ReportInv is inductive.                                                 *)
LEMMA ReportInvariance == Spec => []ReportInv
<1>1. ReportInv /\ [Next]_vars => ReportInv'
  <2> SUFFICES ASSUME ReportInv, [Next]_vars PROVE ReportInv'
    OBVIOUS
  <2>1. Flow
    BY DEF ReportInv
  <2>2. CASE RunPrograms
    BY <2>2, RunProgramsRight
  <2>3. CASE SortTheRows
    BY <2>1, <2>3, SortTheRowsRight, LeftIsRight
  <2>4. CASE NameTheRows
    BY <2>1, <2>4, NameTheRowsRight, LeftIsRight
  <2>5. CASE WriteReport
    BY <2>1, <2>5, WriteReportRight, LeftIsRight
  <2>6. CASE Done
    BY <2>1, <2>6, DoneRight, LeftIsRight
  <2>7. CASE StopScript
    BY <2>1, <2>7, StopRight, LeftIsRight
  <2>8. CASE UNCHANGED vars
    <3>1. /\ heap' = heap /\ pv' = pv /\ files' = files /\ command' = command
          /\ UNCHANGED pipeVars /\ programs' = programs
      BY <2>8 DEF vars, inputs, pipeVars
    <3>2. ScriptTypes /\ FilesRight /\ Running
      BY DEF ReportInv
    <3>3. ScriptTypes' /\ FilesRight' /\ Running'
      BY <3>1, <3>2, FilesStay, SamePrograms DEF ScriptTypes
    <3>4. QED
      BY <2>1, <3>1, <3>3, FlowStays DEF ReportInv
  <2>9. QED
    BY <2>2, <2>3, <2>4, <2>5, <2>6, <2>7, <2>8 DEF Next, Script
<1>2. QED
  BY ReportBegins, <1>1, PTL DEF Spec

(* Every line of the report, while it is written and when it is done, is   *)
(* about one instance: its numbers are those of a row of the heap, or the  *)
(* first of them, and its name is that of its class, or none, whichever    *)
(* program dies (fhat.sh:75-84).                                           *)
THEOREM LinesAreAligned == Spec => []LinesAligned
<1>1. ReportInv => LinesAligned
  <2> SUFFICES ASSUME ReportInv PROVE LinesAligned
    OBVIOUS
  <2>1. ScriptTypes /\ FilesRight /\ Running /\ Flow
    BY DEF ReportInv
  <2>2. LinesRight(ReportSoFar)
    <3>1. CASE command = "report"
      BY <2>1, <3>1, TheReport DEF ReportSoFar, Running, ScriptTypes, FilesRight
    <3>2. CASE command # "report"
      BY <2>1, <3>2 DEF ReportSoFar, FilesRight
    <3>3. QED
      BY <3>1, <3>2
  <2>3. DOMAIN ReportSoFar = 1..Len(ReportSoFar)
    BY <2>2, StreamLaws DEF LinesRight
  <2>4. QED
    BY <2>2, <2>3 DEF LinesRight, LinesAligned
<1>2. QED
  BY ReportInvariance, <1>1, PTL

------------------------------------------------------------------------------
(* Pipelines in order *)

(* What a program reads, if nothing is lost before it.                     *)
WholeInput(full, q) == IF q = 1 THEN << >> ELSE full[q - 1]

(* A program that does not fail, however much of its input it has read.    *)
Harmless(program, in) ==
  \A s, eof : Begins(s, in) /\ (eof => s = in) => ~ Fails(program, s, eof)

(* What program q writes in all.                                           *)
OutputOf(full, last, q) ==
  /\ IsStream(WholeInput(full, q)) /\ IsStream(full[q])
  /\ full[q] = Results(programs[q], WholeInput(full, q), TRUE)
  /\ Harmless(programs[q], WholeInput(full, q))
  /\ programs[q].does = "sort" => Numbers(WholeInput(full, q))
  /\ q < last => programs[q].does \notin {"unzip", "head"}

(* What the programs up to one that writes to files write in all, if       *)
(* nothing is lost.                                                        *)
Outputs(full, last) ==
  /\ last \in Stages /\ ToFile(last)
  /\ \A q \in 1..last : OutputOf(full, last, q)

(* So far nothing is lost at program q.                                    *)
SoFar(full, q) ==
  /\ Begins(Input(q), WholeInput(full, q))
  /\ AtEof(q) => Input(q) = WholeInput(full, q)
  /\ ~ Failing(q)
  /\ Begins(written[q], full[q])
  /\ status[q] = "ended" /\ AtEof(q) => written[q] = full[q]

(* No program before the last has died, and none has ended before the one  *)
(* it reads from.                                                          *)
Undisturbed(last) ==
  \A q \in 1..last : q < last => status[q] # "dead" /\ (Gone(q + 1) => Gone(q))

(* Everything is written, or as much as head wants.                        *)
Delivered(full, last) ==
  /\ Begins(written[last], full[last])
  /\ \/ written[last] = full[last]
     \/ programs[last].does = "head" /\ Len(written[last]) >= programs[last].count
  /\ programs[last].does = "head" => Len(written[last]) <= programs[last].count

(* Whatever the programs up to the last make of whole inputs: the last     *)
(* has delivered it, or none of them is disturbed yet.                     *)
Orderly(last) ==
  \A full : Outputs(full, last) =>
    IF Gone(last) THEN Delivered(full, last) ELSE Undisturbed(last)

(* head reads no more lines than it is to write.                           *)
HeadReads == \A p \in Stages : programs[p].does = "head" => read[p] <= programs[p].count

(* What a program has read, while nothing is lost before it.               *)
LEMMA WhatComesIn ==
  ASSUME Flow, NEW full, NEW last, Outputs(full, last), Undisturbed(last),
         NEW q \in 1..last, q > 1 => SoFar(full, q - 1)
  PROVE  /\ q \in Stages
         /\ Begins(Input(q), WholeInput(full, q))
         /\ AtEof(q) => Input(q) = WholeInput(full, q)
<1>1. FlowTypes /\ FlowReads /\ FlowEnded
  BY DEF Flow
<1>2. last \in Stages /\ Stages = 1..Final /\ Final \in Nat \ {0}
  BY <1>1, StagesAre DEF Outputs, OutputOf
<1>3. q \in Stages /\ last \in Nat
  BY <1>2
<1>4. IsStream(WholeInput(full, q))
  BY DEF Outputs, OutputOf
<1>5. /\ IsStream(Input(q)) /\ Len(Input(q)) = read[q]
      /\ AtEof(q) => Input(q) = Before(q)
  BY <1>1, <1>3, InputIsStream
<1>6. CASE q = 1
  <2>1. Before(q) = << >> /\ WholeInput(full, q) = << >>
    BY <1>6 DEF Before, WholeInput
  <2>2. Len(Input(q)) = 0
    BY <1>1, <1>3, <1>5, <2>1, NoStream, InputIsStream DEF FlowReads
  <2>3. Input(q) = << >>
    BY <1>5, <2>2, NoStream, SameStream
  <2>4. QED
    BY <1>3, <2>1, <2>3, NoStream, BeginsItself
<1>7. CASE q # 1
  <2>1. q - 1 \in 1..last /\ q > 1 /\ q - 1 < last /\ q - 1 \in Stages
    BY <1>2, <1>3, <1>7
  <2>2. WholeInput(full, q) = full[q - 1] /\ SoFar(full, q - 1)
    BY <1>7, <2>1 DEF WholeInput
  <2>3. programs[q - 1].does # "unzip" /\ programs[q - 1].does # "head"
    BY <2>1 DEF Outputs, OutputOf
  <2>4. Begins(Input(q), written[q - 1]) /\ Before(q) = written[q - 1]
    BY <1>3, <1>7, <2>1, <2>3, Passed DEF Before, Piped
  <2>5. Begins(Input(q), full[q - 1])
    BY <2>2, <2>4, BeginsTwice DEF SoFar
  <2>6. ASSUME AtEof(q) PROVE Input(q) = full[q - 1]
    <3>1. Gone(q - 1)
      BY <2>1, <2>6 DEF AtEof
    <3>2. status[q - 1] = "ended"
      <4>1. status[q - 1] \in {"running", "ended", "dead"}
        BY <1>1, <2>1 DEF FlowTypes
      <4>2. status[q - 1] # "dead"
        BY <2>1 DEF Undisturbed
      <4>3. QED
        BY <3>1, <4>1, <4>2 DEF Gone
    <3>3. AtEof(q - 1)
      BY <1>1, <2>1, <2>3, <3>2 DEF FlowEnded, HasEnough
    <3>4. written[q - 1] = full[q - 1]
      BY <2>2, <3>2, <3>3 DEF SoFar
    <3>5. QED
      BY <1>5, <2>4, <2>6, <3>4
  <2>7. QED
    BY <1>3, <2>2, <2>5, <2>6
<1>8. QED
  BY <1>6, <1>7

(* What it has written, if what it has read is right.                      *)
LEMMA WhatGoesOut ==
  ASSUME Flow, NEW full, NEW last, Outputs(full, last), NEW q \in 1..last, q \in Stages,
         Begins(Input(q), WholeInput(full, q)), AtEof(q) => Input(q) = WholeInput(full, q)
  PROVE  SoFar(full, q)
<1>1. FlowTypes /\ FlowEnded /\ FlowWritten
  BY DEF Flow
<1> DEFINE program == programs[q]
           in == Input(q)
           whole == WholeInput(full, q)
           eof == AtEof(q)
<1>2. WellBuilt(program)
  BY <1>1, StagesAre
<1>3. /\ full[q] = Results(program, whole, TRUE) /\ Harmless(program, whole)
      /\ program.does = "sort" => Numbers(whole)
  BY DEF Outputs, OutputOf
<1>4. Begins(in, whole) /\ (eof => in = whole)
  OBVIOUS
<1>5. Result(q) = Results(program, in, eof) /\ Failing(q) = Fails(program, in, eof)
  BY DEF Result, Failing
<1> HIDE DEF program, in, whole, eof
<1>6. ~ Fails(program, in, eof)
  BY <1>3, <1>4 DEF Harmless
<1>7. Begins(Results(program, in, eof), full[q])
  BY <1>2, <1>3, <1>4, <1>6, ResultGrows
<1>8. Begins(written[q], full[q])
  BY <1>1, <1>5, <1>7, BeginsTwice DEF FlowWritten
<1>9. ASSUME status[q] = "ended", AtEof(q) PROVE written[q] = full[q]
  <2>1. written[q] = Result(q)
    BY <1>1, <1>9 DEF FlowEnded
  <2>2. eof = TRUE /\ in = whole
    BY <1>4, <1>9 DEF eof, AtEof
  <2>3. QED
    BY <1>3, <1>5, <2>1, <2>2
<1>10. QED
  BY <1>4, <1>5, <1>6, <1>8, <1>9 DEF SoFar, in, whole, eof

(* While nothing is disturbed, nothing is lost.                            *)
LEMMA AllIsWell ==
  ASSUME Flow, NEW full, NEW last, Outputs(full, last), Undisturbed(last)
  PROVE  \A q \in 1..last : SoFar(full, q)
<1> DEFINE T == {q \in 1..last : ~ SoFar(full, q)}
<1>1. last \in Nat
  BY StagesAre DEF Flow, Outputs
<1>2. SUFFICES ASSUME T # {} PROVE FALSE
  OBVIOUS
<1>3. T \subseteq Nat
  BY <1>1
<1>4. PICK q \in T : \A r \in T : q <= r
  BY <1>2, <1>3, LeastElement
<1>5. q \in 1..last /\ ~ SoFar(full, q)
  BY <1>4
<1>6. q > 1 => SoFar(full, q - 1)
  BY <1>1, <1>4, <1>5
<1>7. QED
  BY <1>5, <1>6, WhatComesIn, WhatGoesOut

(* A step of a program, by what it does to the end of others.              *)
LEMMA Ending ==
  ASSUME Flow, HeadReads, NEW full, NEW last, Outputs(full, last), Undisturbed(last),
         ~ Gone(last), End(last)
  PROVE  Delivered(full, last)
<1>1. FlowTypes /\ FlowReads /\ last \in Stages /\ last \in 1..last
  BY StagesAre DEF Flow, Outputs
<1>2. SoFar(full, last)
  BY <1>1, AllIsWell
<1>3. written[last] = Result(last) /\ (AtEof(last) \/ HasEnough(programs[last], Input(last)))
  BY DEF End
<1>4. Len(Input(last)) = read[last]
  BY <1>1, InputIsStream
<1>5. ASSUME programs[last].does = "head" PROVE Result(last) = Input(last)
  BY <1>5, ResultCases DEF Result
<1>6. programs[last].does = "head" => Len(written[last]) <= programs[last].count
  BY <1>1, <1>3, <1>4, <1>5 DEF HeadReads
<1>7. CASE AtEof(last)
  <2> DEFINE program == programs[last]
             in == Input(last)
             eof == AtEof(last)
  <2>1. eof = TRUE /\ in = WholeInput(full, last)
    BY <1>2, <1>7 DEF SoFar, AtEof
  <2>2. Result(last) = Results(program, in, eof)
    BY DEF Result
  <2>3. full[last] = Results(program, WholeInput(full, last), TRUE)
    BY <1>1 DEF Outputs, OutputOf
  <2> HIDE DEF program, in, eof
  <2>4. written[last] = full[last]
    BY <1>3, <2>1, <2>2, <2>3
  <2>5. QED
    BY <1>2, <1>6, <2>4 DEF Delivered, SoFar
<1>8. CASE HasEnough(programs[last], Input(last))
  BY <1>2, <1>3, <1>5, <1>6, <1>8 DEF Delivered, SoFar, HasEnough
<1>9. QED
  BY <1>3, <1>7, <1>8

(* No step of a program disturbs the others.                               *)
LEMMA StepIsOrderly ==
  ASSUME Flow, HeadReads, NEW full, NEW last, Outputs(full, last), Undisturbed(last),
         ~ Gone(last), NEW p \in Stages, Step(p)
  PROVE  IF Gone(last)' THEN Delivered(full, last)' ELSE Undisturbed(last)'
<1>1. FlowTypes /\ last \in Stages /\ ToFile(last) /\ last \in Nat
  BY StagesAre DEF Flow, Outputs
<1>2. \A q \in 1..last : SoFar(full, q)
  BY AllIsWell
<1>3. Stages = 1..Final /\ Final \in Nat /\ p \in Nat /\ 1..last \subseteq Stages
  BY <1>1, StagesAre
<1>4. programs' = programs
  BY DEF Step, Read, Write, WriteToNobody, Fail, End
<1>5. CASE status' = status
  BY <1>5 DEF Gone, Undisturbed
<1>6. CASE WriteToNobody(p) \/ Fail(p)
  <2>1. p > last
    <3>1. SUFFICES ASSUME p \in 1..last PROVE FALSE
      BY <1>1, <1>3
    <3>2. ~ Failing(p) /\ ~ Gone(p)
      BY <1>2, <1>6, <3>1 DEF SoFar, WriteToNobody, Fail
    <3>3. ~ ToFile(p) /\ Gone(p + 1)
      BY <1>6, <3>2 DEF WriteToNobody, Fail
    <3>4. p < last
      BY <1>1, <3>1, <3>3
    <3>5. QED
      BY <3>1, <3>2, <3>3, <3>4 DEF Undisturbed
  <2>2. \A q \in 1..last : status'[q] = status[q]
    BY <1>1, <1>3, <1>6, <2>1 DEF WriteToNobody, Fail, Dies, FlowTypes
  <2>3. \A q \in 1..last : Gone(q)' = Gone(q)
    BY <2>2 DEF Gone
  <2>4. last \in 1..last /\ \A q \in 1..last : q < last => q + 1 \in 1..last
    BY <1>1, <1>3
  <2>5. Undisturbed(last)' /\ ~ Gone(last)'
    BY <2>2, <2>3, <2>4 DEF Undisturbed
  <2>6. QED
    BY <2>5
<1>7. CASE End(p)
  <2>1. status' = [status EXCEPT ![p] = "ended"] /\ written' = written
    BY <1>7 DEF End, streams
  <2>2. \A q \in Stages : status'[q] = IF q = p THEN "ended" ELSE status[q]
    BY <1>1, <2>1 DEF FlowTypes
  <2>3. CASE p = last
    <3>1. Delivered(full, last)
      BY <1>7, <2>3, Ending
    <3>2. Gone(last)' /\ Delivered(full, last)'
      BY <1>1, <1>4, <2>1, <2>2, <2>3, <3>1 DEF Delivered, Gone
    <3>3. QED
      BY <3>2
  <2>4. CASE p # last
    <3>1. ~ Gone(last)'
      BY <1>1, <2>2, <2>4 DEF Gone
    <3>2. ASSUME NEW q \in 1..last, q < last
          PROVE  status'[q] # "dead" /\ (Gone(q + 1)' => Gone(q)')
      <4>1. q \in Stages /\ q + 1 \in Stages /\ q + 1 \in 1..last
        BY <1>1, <1>3, <3>2
      <4>2. status[q] # "dead" /\ (Gone(q + 1) => Gone(q))
        BY <3>2 DEF Undisturbed
      <4>3. status'[q] # "dead"
        BY <2>2, <4>1, <4>2
      <4>4. ASSUME Gone(q + 1)' PROVE Gone(q)'
        <5>1. CASE q + 1 = p
          <6>0. p \in 1..last /\ p < last
            BY <1>1, <1>3, <2>4, <4>1, <5>1
          <6>1. programs[p].does # "head"
            BY <6>0 DEF Outputs, OutputOf
          <6>2. AtEof(p)
            BY <1>7, <6>1 DEF End, HasEnough
          <6>3. Gone(q)
            BY <4>1, <5>1, <6>2, <1>3 DEF AtEof
          <6>4. QED
            BY <2>2, <4>1, <6>3 DEF Gone
        <5>2. CASE q + 1 # p
          BY <2>2, <4>1, <4>2, <4>4, <5>2 DEF Gone
        <5>3. QED
          BY <5>1, <5>2
      <4>5. QED
        BY <4>3, <4>4
    <3>3. QED
      BY <3>1, <3>2 DEF Undisturbed
  <2>5. QED
    BY <2>3, <2>4
<1>8. QED
  BY <1>5, <1>6, <1>7 DEF Step, Read, Write

(* What programs are to write depends on the programs only.                *)
LEMMA SameOutputs ==
  ASSUME programs' = programs, NEW full, NEW last
  PROVE  Outputs(full, last)' <=> Outputs(full, last)
BY DEF Outputs, OutputOf, ToFile, Stages, Final

(* head stops reading when it has enough.                                  *)
LEMMA HeadReadsKept ==
  ASSUME Flow, HeadReads, NEW p \in Stages, Step(p) \/ Kill(p)
  PROVE  HeadReads'
<1>1. FlowTypes /\ FlowReads
  BY DEF Flow
<1>2. programs' = programs /\ Stages' = Stages
  BY DEF Step, Kill, Read, Write, WriteToNobody, Fail, End, Stages
<1>3. CASE Read(p)
  <2>1. read' = [read EXCEPT ![p] = @ + 1] /\ ~ HasEnough(programs[p], Input(p))
    BY <1>3 DEF Read
  <2>2. read[p] \in Nat /\ Len(Input(p)) = read[p]
    BY <1>1, InputIsStream
  <2>3. ASSUME programs[p].does = "head" PROVE read[p] + 1 <= programs[p].count
    <3>1. programs[p].count \in Nat
      BY <1>1, <2>3, StagesAre DEF WellBuilt
    <3>2. QED
      BY <2>1, <2>2, <2>3, <3>1 DEF HasEnough
  <2>4. \A q \in Stages : read'[q] = IF q = p THEN read[p] + 1 ELSE read[q]
    BY <1>1, <2>1 DEF FlowTypes
  <2>5. QED
    BY <1>2, <2>3, <2>4 DEF HeadReads
<1>4. CASE ~ Read(p)
  <2>1. read' = read
    BY <1>4 DEF Step, Kill, Write, WriteToNobody, Fail, End, streams
  <2>2. QED
    BY <1>2, <2>1 DEF HeadReads
<1>5. QED
  BY <1>3, <1>4

(* Order is kept, unless a program is killed.                              *)
LEMMA OrderIsKept ==
  ASSUME Flow, HeadReads, NEW last, Orderly(last), NEW p \in Stages, Step(p)
  PROVE  Orderly(last)'
<1>1. programs' = programs
  BY DEF Step, Read, Write, WriteToNobody, Fail, End
<1>2. ASSUME NEW full, Outputs(full, last)
      PROVE  IF Gone(last)' THEN Delivered(full, last)' ELSE Undisturbed(last)'
  <2>1. FlowTypes /\ last \in Stages
    BY <1>2 DEF Flow, Outputs
  <2>2. CASE Gone(last)
    <3>1. Delivered(full, last)
      BY <1>2, <2>2 DEF Orderly
    <3>2. Gone(last)'
      BY <2>1, <2>2 DEF Gone, Step, Read, Write, WriteToNobody, Fail, End, Dies, FlowTypes
    <3>3. written'[last] = written[last]
      <4>1. CASE Write(p)
        <5>1. p # last
          BY <2>2, <4>1 DEF Write
        <5>2. QED
          BY <2>1, <4>1, <5>1 DEF Write, FlowTypes
      <4>2. CASE ~ Write(p)
        BY <4>2 DEF Step, Read, WriteToNobody, Fail, End, streams
      <4>3. QED
        BY <4>1, <4>2
    <3>4. QED
      BY <1>1, <3>1, <3>2, <3>3 DEF Delivered
  <2>3. CASE ~ Gone(last)
    BY <1>2, <2>3, StepIsOrderly DEF Orderly
  <2>4. QED
    BY <2>2, <2>3
<1>3. QED
  BY <1>1, <1>2, SameOutputs DEF Orderly

(* A pipeline starts orderly.                                              *)
LEMMA StartIsOrderly ==
  ASSUME FlowBegins, NEW last
  PROVE  HeadReads /\ Orderly(last)
<1>1. FlowTypes
  BY FlowStarts DEF Flow
<1>2. /\ Stages = 1..Final /\ Final \in Nat
      /\ \A p \in Stages : WellBuilt(programs[p])
      /\ \A p \in Stages : status[p] = "running" /\ read[p] = 0
  BY <1>1, StagesAre DEF FlowBegins, Started, Stages
<1>3. HeadReads
  BY <1>2 DEF HeadReads, WellBuilt
<1>4. ASSUME last \in Stages PROVE ~ Gone(last) /\ Undisturbed(last)
  <2>1. \A q \in 1..last : q \in Stages /\ (q < last => q + 1 \in Stages)
    BY <1>2, <1>4
  <2>2. QED
    BY <1>2, <1>4, <2>1 DEF Gone, Undisturbed
<1>5. QED
  BY <1>3, <1>4 DEF Orderly, Outputs

(* unzip fails of input that is not whole rows, zip of its columns, and    *)
(* others never, unless they replace words.                                *)
LEMMA MostAreHarmless ==
  ASSUME NEW program, NEW in,
         \/ program.does \in {"cat", "copy", "sort", "rows", "paste", "head"}
         \/ program.does = "zip" /\ ~ ZipFails(program.columns)
         \/ program.does = "unzip" /\ Len(in) % program.width = 0
  PROVE  Harmless(program, in)
<1>1. SUFFICES ASSUME NEW s, NEW eof, eof => s = in PROVE ~ Fails(program, s, eof)
  BY DEF Harmless
<1>2. CASE program.does \in {"cat", "copy", "sort", "rows", "paste", "head"}
  BY <1>2 DEF Fails, Replaces
<1>3. CASE program.does = "zip" /\ ~ ZipFails(program.columns)
  BY <1>3 DEF Fails, Replaces
<1>4. CASE program.does = "unzip" /\ Len(in) % program.width = 0
  <2>1. CASE eof
    BY <1>1, <1>4, <2>1 DEF Fails, Replaces
  <2>2. CASE ~ eof
    BY <1>4, <2>2 DEF Fails, Replaces
  <2>3. QED
    BY <2>1, <2>2
<1>5. QED
  BY <1>2, <1>3, <1>4

(* A program that can replace every word replaces every word.              *)
Replacing(program, in, out) ==
  /\ Harmless(program, in)
  /\ out = Results(program, in, TRUE)
  /\ IsStream(out) /\ Len(out) = Len(in)
  /\ \A k \in 1..Len(in) : out[k] = Replaced(program, in[k])

LEMMA AllReplaced ==
  ASSUME NEW program, Replaces(program), NEW in, IsStream(in),
         \A k \in 1..Len(in) : Replaceable(program, in[k])
  PROVE  Replacing(program, in, ReplacedWords(program, in))
<1>1. ASSUME NEW s, Begins(s, in) PROVE ~ Refused(program, s)
  <2>1. IsStream(s) /\ Len(s) \in Nat /\ Len(in) \in Nat /\ Len(s) <= Len(in)
        /\ \A k \in 1..Len(s) : s[k] = in[k]
    BY <1>1, StreamLaws DEF Begins
  <2>2. CASE Len(s) = 0
    <3>1. s = << >>
      BY <2>1, <2>2, NoStream, SameStream
    <3>2. QED
      BY <3>1 DEF Refused
  <2>3. CASE Len(s) # 0
    <3>1. Len(s) \in 1..Len(in) /\ s[Len(s)] = in[Len(s)]
      BY <2>1, <2>3
    <3>2. QED
      BY <3>1 DEF Refused
  <2>4. QED
    BY <2>2, <2>3
<1>2. Harmless(program, in)
  <2>1. \A s, eof : Fails(program, s, eof) = Refused(program, s)
    BY DEF Fails, Replaces
  <2>2. QED
    BY <1>1, <2>1 DEF Harmless
<1>3. ReplacedWords(program, in) = Results(program, in, TRUE)
  BY ResultCases
<1>4. ~ Refused(program, in)
  BY <1>1, BeginsItself
<1> DEFINE out == ReplacedWords(program, in)
<1>5. /\ IsStream(out) /\ Len(out) = Len(in)
      /\ \A k \in 1..Len(out) : out[k] = Replaced(program, in[k])
  BY <1>4, ReplacedLaws
<1> HIDE DEF out
<1>6. \A k \in 1..Len(in) : out[k] = Replaced(program, in[k])
  BY <1>5
<1>7. QED
  BY <1>2, <1>3, <1>5, <1>6 DEF Replacing, out

(* The result of a pipeline whose programs have ended, nothing lost.       *)
LEMMA AllDelivered ==
  ASSUME NEW last, Orderly(last), Gone(last), NEW full, Outputs(full, last)
  PROVE  Delivered(full, last)
BY DEF Orderly

(* There is a dominator for every entry.                                   *)
LEMMA EveryDominator ==
  ASSUME Flow, heap \in Heaps, programs = DominatorPrograms, Orderly(Final), Gone(Final)
  PROVE  Len(written[Final]) = Len(heap.dominators)
<1> DEFINE D == heap.dominators
           unpack == programs[2]
           full == <<D, ReplacedWords(unpack, D)>>
<1>1. /\ Stages = 1..2 /\ Final = 2
      /\ programs[1].does = "cat" /\ programs[1].words = D
      /\ unpack.does = "unpack" /\ unpack.table = heap.ids
  BY DEF DominatorPrograms, Stages, Final, Cat, Unpack
<1>2. IsStream(D) /\ IsStream(heap.ids)
  <2>1. 4 \in 1..7 /\ 5 \in 1..7
    OBVIOUS
  <2>2. QED
    BY <2>1, HeapLaws
<1>3. Replacing(unpack, D, ReplacedWords(unpack, D))
  <2>1. DOMAIN heap.ids = 1..Len(heap.ids)
    BY <1>2, StreamLaws
  <2>2. \A k \in 1..Len(D) : Replaceable(unpack, D[k])
    BY <1>1, <2>1, HeapLaws DEF Replaceable, InTable
  <2>3. QED
    BY <1>1, <1>2, <2>2, AllReplaced DEF Replaces
<1>4. full[1] = D /\ full[2] = ReplacedWords(unpack, D)
  OBVIOUS
<1>5. WholeInput(full, 1) = << >> /\ WholeInput(full, 2) = D
  BY <1>4 DEF WholeInput
<1> HIDE DEF full, unpack
<1>6. /\ full[1] = Results(programs[1], WholeInput(full, 1), TRUE)
      /\ Harmless(programs[1], WholeInput(full, 1))
  <2>1. Results(programs[1], WholeInput(full, 1), TRUE) = programs[1].words
    BY <1>1, ResultCases, Zenon
  <2>2. Harmless(programs[1], WholeInput(full, 1))
    BY <1>1, MostAreHarmless
  <2>3. QED
    BY <1>1, <1>4, <2>1, <2>2
<1>7. /\ full[2] = Results(programs[2], WholeInput(full, 2), TRUE) /\ IsStream(full[2])
      /\ Harmless(programs[2], WholeInput(full, 2))
  BY <1>3, <1>4, <1>5 DEF Replacing, unpack
<1>8. Outputs(full, 2)
  <2>1. \A q \in 1..2 : q = 1 \/ q = 2
    OBVIOUS
  <2>2. ToFile(2)
    BY <1>1 DEF ToFile
  <2>3. /\ programs[1].does \notin {"sort", "unzip", "head"} /\ programs[2].does # "sort"
        /\ 2 \in Stages
    BY <1>1 DEF unpack
  <2>4. OutputOf(full, 2, 1)
    BY <1>2, <1>4, <1>5, <1>6, <2>3, NoStream DEF OutputOf
  <2>5. OutputOf(full, 2, 2)
    BY <1>2, <1>5, <1>7, <2>3 DEF OutputOf
  <2>6. QED
    BY <2>1, <2>2, <2>3, <2>4, <2>5 DEF Outputs
<1>9. Delivered(full, 2)
  BY <1>1, <1>8, AllDelivered
<1>10. written[2] = full[2]
  BY <1>1, <1>9 DEF Delivered, unpack
<1>11. QED
  BY <1>1, <1>3, <1>4, <1>10 DEF Replacing

------------------------------------------------------------------------------
(* Ranks *)

(* What Enumerated asks for, with p choosing by rank.                      *)
RanksBy(S, below, p) ==
  /\ IsFiniteSet(S) /\ below \in [S -> SUBSET S]
  /\ \A x \in S : x \notin below[x]
  /\ \A x, y \in S : x # y => x \in below[y] \/ y \in below[x]
  /\ \A x \in S : \A y \in below[x] : below[y] \subseteq below[x]
  /\ p = [k \in 1..Cardinality(S) |-> p[k]]
  /\ \A k \in 1..Cardinality(S) : \A x \in S :
       Cardinality(below[x]) = k - 1 => p[k] \in S /\ Cardinality(below[p[k]]) = k - 1

(* p counts through S in the order of below: as many as j - 1 are below    *)
(* the j-th.                                                               *)
Ranks(S, below, p) ==
  \A k \in 1..Cardinality(S) :
    /\ p[k] \in S /\ Cardinality(below[p[k]]) = k - 1
    /\ \A x \in S : Cardinality(below[x]) = k - 1 => x = p[k]

(* What Enumerated enumerates is at the place that its rank says.          *)
LEMMA RankedBy ==
  ASSUME NEW S, NEW below, NEW p, RanksBy(S, below, p)
  PROVE  Ranks(S, below, p)
<1> DEFINE size == Cardinality(S)
<1>0. /\ IsFiniteSet(S) /\ below \in [S -> SUBSET S]
      /\ \A x \in S : x \notin below[x]
      /\ \A x, y \in S : x # y => x \in below[y] \/ y \in below[x]
      /\ \A x \in S : \A y \in below[x] : below[y] \subseteq below[x]
      /\ p = [k \in 1..Cardinality(S) |-> p[k]]
      /\ \A k \in 1..Cardinality(S) : \A x \in S :
           Cardinality(below[x]) = k - 1 => p[k] \in S /\ Cardinality(below[p[k]]) = k - 1
  BY DEF RanksBy
<1>1. size \in Nat
  BY <1>0, FS_CardinalityType
<1>2. /\ p \in Bijection(1..size, S)
      /\ \A i, j \in 1..size : i < j => p[i] \in below[p[j]]
  BY <1>0, Enumerated
<1> HIDE DEF size
<1>3. /\ p \in [1..size -> S]
      /\ \A i, j \in 1..size : p[i] = p[j] => i = j
      /\ \A x \in S : \E i \in 1..size : p[i] = x
  <2> DEFINE I == 1..size
  <2>1. p \in Bijection(I, S)
    BY <1>2
  <2> HIDE DEF I
  <2>2. /\ p \in [I -> S]
        /\ \A i, j \in I : p[i] = p[j] => i = j
        /\ \A x \in S : \E i \in I : p[i] = x
    BY <2>1 DEF Bijection, Injection, Surjection, IsInjective
  <2>3. QED
    BY <2>2 DEF I
<1>4. ASSUME NEW k \in 1..size PROVE Cardinality(below[p[k]]) = k - 1
  <2> DEFINE before == 1..(k - 1)
             q == [i \in before |-> p[i]]
  <2>1. before \subseteq 1..size /\ \A i \in before : i < k
    BY <1>1
  <2>2. \A i \in before : q[i] \in below[p[k]]
    BY <1>2, <2>1
  <2>3. ASSUME NEW x \in below[p[k]] PROVE \E i \in before : q[i] = x
    <3>1. p[k] \in S /\ x \in S /\ x # p[k]
      BY <1>0, <1>3
    <3>2. PICK i \in 1..size : p[i] = x
      BY <1>3, <3>1
    <3>3. ~ k < i
      <4>1. SUFFICES ASSUME k < i PROVE FALSE
        OBVIOUS
      <4>2. p[k] \in below[x]
        BY <1>2, <3>2, <4>1
      <4>3. p[k] \in below[p[k]]
        BY <1>0, <2>3, <3>1, <4>2
      <4>4. QED
        BY <1>0, <3>1, <4>3
    <3>4. i # k
      BY <3>1, <3>2
    <3>5. i \in before
      BY <1>1, <3>3, <3>4
    <3>6. QED
      BY <3>2, <3>5
  <2>4. \A i, j \in before : q[i] = q[j] => i = j
    BY <1>3, <2>1
  <2>5. q \in Bijection(before, below[p[k]])
    <3>1. q \in [before -> below[p[k]]]
      BY <2>2
    <3> HIDE DEF q, before
    <3>2. QED
      BY <2>3, <2>4, <3>1, Fun_IsBij
  <2>6. k - 1 \in Nat
    BY <1>1
  <2>7. IsFiniteSet(before) /\ Cardinality(before) = k - 1
    <3> DEFINE m == k - 1
    <3>1. m \in Nat /\ 1 \in Int /\ m \in Int
      BY <2>6
    <3> HIDE DEF m
    <3>2. IsFiniteSet(1..m) /\ Cardinality(1..m) = IF 1 > m THEN 0 ELSE m - 1 + 1
      BY <3>1, FS_Interval
    <3>3. Cardinality(1..m) = m
      BY <3>1, <3>2
    <3>4. QED
      BY <3>2, <3>3 DEF m
  <2>8. ExistsBijection(before, below[p[k]])
    BY <2>5 DEF ExistsBijection
  <2> HIDE DEF before, q
  <2>9. QED
    BY <2>7, <2>8, FS_Bijection
<1>5. ASSUME NEW k \in 1..size, NEW x \in S, Cardinality(below[x]) = k - 1 PROVE x = p[k]
  <2>1. PICK i \in 1..size : p[i] = x
    BY <1>3
  <2>2. Cardinality(below[x]) = i - 1
    BY <1>4, <2>1
  <2>3. i = k
    BY <1>1, <1>5, <2>2
  <2>4. QED
    BY <2>1, <2>3
<1>6. QED
  BY <1>3, <1>4, <1>5 DEF Ranks, size

(* The row of the heap that zip makes of row i.                            *)
FullRow(i) == [c \in 1..7 |-> Cell(i, c)]

(* Rows as zip makes them are ordered as their keys are.                   *)
LEMMA FullRowOrder ==
  ASSUME heap \in Heaps
  PROVE  /\ \A r \in HeapRows : FullRow(r) \in Tuples(7)
         /\ \A r, s \in HeapRows : FullRow(r) = FullRow(s) => r = s
         /\ \A r, s \in HeapRows : RowGreater(FullRow(r), FullRow(s)) <=> RowGreater(Key(r), Key(s))
<1>1. HeapRows = 1..Len(heap.ids) /\ Len(heap.ids) \in Nat
  <2>1. 5 \in 1..7
    OBVIOUS
  <2>2. QED
    BY <2>1, HeapLaws
<1>2. \A r \in HeapRows : \A c \in 1..7 : FullRow(r)[c] = Cell(r, c) /\ Cell(r, c) \in Nat
  BY CellsAreNumbers DEF FullRow
<1>3. \A r \in HeapRows : FullRow(r) \in Tuples(7)
  BY <1>2 DEF FullRow, Tuples
<1>4. \A r \in HeapRows : FullRow(r)[5] = heap.ids[r] /\ heap.ids[r] \in Nat
  <2>1. \A r : Cell(r, 5) = heap.ids[r]
    BY DEF Cell, HeapColumns
  <2>2. QED
    BY <1>2, <2>1
<1>5. \A r, s \in HeapRows : heap.ids[r] > heap.ids[s] <=> r > s
  <2>1. \A i, j \in 1..Len(heap.ids) : i < j => heap.ids[i] < heap.ids[j]
    BY HeapsAssumption
  <2>2. SUFFICES ASSUME NEW r \in HeapRows, NEW s \in HeapRows
        PROVE  heap.ids[r] > heap.ids[s] <=> r > s
    OBVIOUS
  <2>3. r \in Nat /\ s \in Nat /\ heap.ids[r] \in Nat /\ heap.ids[s] \in Nat
    BY <1>1, <1>4
  <2>4. (r < s => heap.ids[r] < heap.ids[s]) /\ (s < r => heap.ids[s] < heap.ids[r])
    BY <1>1, <2>1
  <2>5. r = s \/ r < s \/ s < r
    BY <2>3
  <2>6. QED
    BY <2>3, <2>4, <2>5
<1>6. \A r, s \in HeapRows : heap.ids[r] = heap.ids[s] => r = s
  <2>1. SUFFICES ASSUME NEW r \in HeapRows, NEW s \in HeapRows, heap.ids[r] = heap.ids[s]
        PROVE  r = s
    OBVIOUS
  <2>2. r \in Nat /\ s \in Nat /\ heap.ids[r] \in Nat /\ ~ r > s /\ ~ s > r
    BY <1>1, <1>4, <1>5, <2>1
  <2>3. QED
    BY <2>2
<1>7. \A r, s \in HeapRows : FullRow(r) = FullRow(s) => r = s
  BY <1>4, <1>6
<1>8. \A r \in HeapRows : /\ DOMAIN Key(r) = 1..5 /\ Key(r)[5] = r
                          /\ \A c \in 1..4 : Key(r)[c] = FullRow(r)[c]
  <2>1. \A r \in HeapRows :
          /\ FullRow(r)[1] = heap.retained[r] /\ FullRow(r)[2] = heap.sizes[r]
          /\ FullRow(r)[3] = heap.counts[r] /\ FullRow(r)[4] = RowLine(r)[5]
    <3>1. SUFFICES ASSUME NEW r \in HeapRows
          PROVE  /\ FullRow(r)[1] = heap.retained[r] /\ FullRow(r)[2] = heap.sizes[r]
                 /\ FullRow(r)[3] = heap.counts[r] /\ FullRow(r)[4] = RowLine(r)[5]
      OBVIOUS
    <3>2. /\ Cell(r, 1) = heap.retained[r] /\ Cell(r, 2) = heap.sizes[r]
          /\ Cell(r, 3) = heap.counts[r] /\ Cell(r, 4) = RowLine(r)[5]
      BY DEF Cell, HeapColumns, RowLine
    <3>3. QED
      BY <1>2, <3>2
  <2>2. \A r \in HeapRows :
          /\ DOMAIN Key(r) = 1..5 /\ Key(r)[5] = r
          /\ Key(r)[1] = heap.retained[r] /\ Key(r)[2] = heap.sizes[r]
          /\ Key(r)[3] = heap.counts[r] /\ Key(r)[4] = RowLine(r)[5]
    BY DEF Key
  <2>3. \A c \in 1..4 : c = 1 \/ c = 2 \/ c = 3 \/ c = 4
    OBVIOUS
  <2>4. QED
    BY <2>1, <2>2, <2>3
<1>9. ASSUME NEW r \in HeapRows, NEW s \in HeapRows
      PROVE  RowGreater(FullRow(r), FullRow(s)) <=> RowGreater(Key(r), Key(s))
  <2> DEFINE f == FullRow(r)
             g == FullRow(s)
             k == Key(r)
             l == Key(s)
  <2>1. /\ DOMAIN f = 1..7 /\ DOMAIN k = 1..5
        /\ \A c \in 1..4 : k[c] = f[c] /\ l[c] = g[c]
        /\ k[5] = r /\ l[5] = s /\ f[5] = heap.ids[r] /\ g[5] = heap.ids[s]
        /\ \A c \in 1..7 : f[c] \in Nat /\ g[c] \in Nat
    BY <1>2, <1>4, <1>8 DEF FullRow
  <2>2. f[5] > g[5] <=> k[5] > l[5]
    BY <1>5, <2>1
  <2>3. r = s => f = g
    OBVIOUS
  <2>4. f[5] = g[5] => f = g
    <3>1. heap.ids[r] = heap.ids[s] => r = s
      BY <1>6
    <3> HIDE DEF f, g
    <3>2. QED
      BY <2>1, <2>3, <3>1
  <2> HIDE DEF f, g, k, l
  <2>5. ASSUME RowGreater(k, l) PROVE RowGreater(f, g)
    <3>1. PICK i \in 1..5 : k[i] > l[i] /\ \A j \in 1..(i - 1) : k[j] = l[j]
      BY <2>1, <2>5 DEF RowGreater
    <3>2. f[i] > g[i]
      <4>1. CASE i = 5
        BY <2>2, <3>1, <4>1
      <4>2. CASE i # 5
        <5>1. i \in 1..4
          BY <4>2
        <5>2. QED
          BY <2>1, <3>1, <5>1
      <4>3. QED
        BY <4>1, <4>2
    <3>3. \A j \in 1..(i - 1) : f[j] = g[j]
      <4>1. \A j \in 1..(i - 1) : j \in 1..4
        OBVIOUS
      <4>2. QED
        BY <2>1, <3>1, <4>1
    <3>4. i \in DOMAIN f
      BY <2>1
    <3>5. QED
      BY <3>2, <3>3, <3>4 DEF RowGreater
  <2>6. ASSUME RowGreater(f, g) PROVE RowGreater(k, l)
    <3>1. PICK i \in 1..7 : f[i] > g[i] /\ \A j \in 1..(i - 1) : f[j] = g[j]
      BY <2>1, <2>6 DEF RowGreater
    <3>2. i \in 1..5
      <4>1. SUFFICES ASSUME i > 5 PROVE FALSE
        OBVIOUS
      <4>2. 5 \in 1..(i - 1)
        BY <4>1
      <4>3. f[5] = g[5]
        BY <3>1, <4>2
      <4>4. f[i] = g[i]
        BY <2>4, <4>3
      <4>5. f[i] \in Nat /\ g[i] \in Nat
        BY <2>1
      <4>6. QED
        BY <3>1, <4>4, <4>5
    <3>3. k[i] > l[i]
      <4>1. CASE i = 5
        BY <2>2, <3>1, <4>1
      <4>2. CASE i # 5
        <5>1. i \in 1..4
          BY <3>2, <4>2
        <5>2. QED
          BY <2>1, <3>1, <5>1
      <4>3. QED
        BY <4>1, <4>2
    <3>4. \A j \in 1..(i - 1) : k[j] = l[j]
      <4>1. \A j \in 1..(i - 1) : j \in 1..4
        BY <3>2
      <4>2. QED
        BY <2>1, <3>1, <4>1
    <3>5. i \in DOMAIN k
      BY <2>1, <3>2
    <3>6. QED
      BY <3>3, <3>4, <3>5 DEF RowGreater
  <2>7. QED
    BY <2>5, <2>6 DEF f, g, k, l
<1>10. QED
  BY <1>3, <1>7, <1>9

(* The row at place k, and how many come before it.                        *)
RankOf(k) ==
  /\ Ranked(k) \in HeapRows /\ Cardinality(Above(Ranked(k))) = k - 1
  /\ \A r \in HeapRows : Cardinality(Above(r)) = k - 1 => r = Ranked(k)

(* There is exactly one row at every place.                                *)
LEMMA RankedRows ==
  ASSUME heap \in Heaps
  PROVE  /\ HeapRows = 1..Len(heap.ids) /\ Len(heap.ids) \in Nat
         /\ IsFiniteSet(HeapRows) /\ Cardinality(HeapRows) = Len(heap.ids)
         /\ \A k \in 1..Len(heap.ids) : RankOf(k)
<1> DEFINE n == Len(heap.ids)
           H == HeapRows
           above == [row \in H |-> Above(row)]
           p == [k \in 1..n |-> Ranked(k)]
<1>1. H = 1..n /\ n \in Nat
  <2>1. 5 \in 1..7
    OBVIOUS
  <2>2. QED
    BY <2>1, HeapLaws
<1>2. IsFiniteSet(H) /\ Cardinality(H) = n
  <2>1. 1 \in Int /\ n \in Int /\ n \in Nat
    BY <1>1
  <2> HIDE DEF n, H
  <2>2. IsFiniteSet(1..n) /\ Cardinality(1..n) = IF 1 > n THEN 0 ELSE n - 1 + 1
    BY <2>1, FS_Interval
  <2>3. QED
    BY <1>1, <2>1, <2>2
<1>3. above \in [H -> SUBSET H]
  BY DEF Above
<1>4. \A x, y \in H : x \in above[y] <=> RowGreater(FullRow(x), FullRow(y))
  BY FullRowOrder DEF Above
<1>5. /\ \A x \in H : FullRow(x) \in Tuples(7)
      /\ \A x, y \in H : FullRow(x) = FullRow(y) => x = y
  BY FullRowOrder
<1>6. /\ \A r \in Tuples(7) : ~ RowGreater(r, r)
      /\ \A r, s \in Tuples(7) : r # s => RowGreater(r, s) \/ RowGreater(s, r)
      /\ \A r, s, t \in Tuples(7) : RowGreater(r, s) /\ RowGreater(s, t) => RowGreater(r, t)
  <2>1. 7 \in Nat
    OBVIOUS
  <2>2. QED
    BY <2>1, RowOrder
<1>7. \A x \in H : above[x] = Above(x)
  OBVIOUS
<1>8. \A k \in 1..n : p[k] = Ranked(k)
  OBVIOUS
<1>9. p = [k \in 1..n |-> p[k]]
  OBVIOUS
<1> HIDE DEF H, above, p, n
<1>10. \A x \in H : x \notin above[x]
  BY <1>4, <1>5, <1>6
<1>11. \A x, y \in H : x # y => x \in above[y] \/ y \in above[x]
  BY <1>4, <1>5, <1>6
<1>12. \A x \in H : \A y \in above[x] : above[y] \subseteq above[x]
  <2>1. ASSUME NEW x \in H, NEW y \in above[x], NEW z \in above[y] PROVE z \in above[x]
    <3>1. y \in H /\ z \in H
      BY <1>3
    <3>2. RowGreater(FullRow(y), FullRow(x)) /\ RowGreater(FullRow(z), FullRow(y))
      BY <1>4, <2>1, <3>1
    <3>3. RowGreater(FullRow(z), FullRow(x))
      BY <1>5, <1>6, <3>1, <3>2
    <3>4. QED
      BY <1>4, <3>1, <3>3
  <2>2. QED
    BY <2>1
<1>13. ASSUME NEW k \in 1..n, NEW x \in H, Cardinality(above[x]) = k - 1
       PROVE  p[k] \in H /\ Cardinality(above[p[k]]) = k - 1
  <2>1. Cardinality(Above(x)) = k - 1
    BY <1>7, <1>13
  <2>2. Ranked(k) \in H /\ Cardinality(Above(Ranked(k))) = k - 1
    BY <2>1 DEF Ranked, H
  <2>3. QED
    BY <1>7, <1>8, <2>2
<1>14. \A k \in 1..n : /\ p[k] \in H /\ Cardinality(above[p[k]]) = k - 1
                       /\ \A x \in H : Cardinality(above[x]) = k - 1 => x = p[k]
  <2>1. p = [k \in 1..Cardinality(H) |-> p[k]]
    BY <1>2, <1>9
  <2>2. \A k \in 1..Cardinality(H) : \A x \in H :
          Cardinality(above[x]) = k - 1 => p[k] \in H /\ Cardinality(above[p[k]]) = k - 1
    BY <1>2, <1>13
  <2>3. RanksBy(H, above, p)
    BY <1>2, <1>3, <1>10, <1>11, <1>12, <2>1, <2>2 DEF RanksBy
  <2>4. Ranks(H, above, p)
    BY <2>3, RankedBy
  <2>5. QED
    BY <1>2, <2>4 DEF Ranks
<1>15. ASSUME NEW k \in 1..n PROVE RankOf(k)
  BY <1>7, <1>8, <1>14 DEF RankOf, H
<1>16. QED
  BY <1>1, <1>2, <1>15 DEF H, n

(* The rows of the heap, as zip makes them.                                *)
HeapRowsIn(rows) ==
  /\ IsStream(rows) /\ Len(rows) = Len(heap.ids)
  /\ \A i \in 1..Len(heap.ids) : rows[i] = FullRow(i)

(* Rows in the order in which the report is to have them.                  *)
RankedRowsIn(sorted) ==
  /\ IsStream(sorted) /\ Len(sorted) = Len(heap.ids)
  /\ \A k \in 1..Len(heap.ids) : sorted[k] = FullRow(Ranked(k))

(* What sort makes of them.                                                *)
LEMMA SortedHeapRows ==
  ASSUME heap \in Heaps, NEW rows, HeapRowsIn(rows)
  PROVE  RankedRowsIn(SortedRows(rows))
<1> DEFINE n == Len(heap.ids)
           H == HeapRows
           R == Range(rows)
           above(row) == {r \in R : RowGreater(r, row)}
           f == [x \in H |-> FullRow(x)]
           sorted == SortedRows(rows)
<1>1. /\ H = 1..n /\ n \in Nat /\ IsFiniteSet(H) /\ Cardinality(H) = n
      /\ \A k \in 1..n : RankOf(k)
  BY RankedRows
<1>2. /\ \A x, y \in H : FullRow(x) = FullRow(y) => x = y
      /\ \A x, y \in H : RowGreater(FullRow(x), FullRow(y)) <=> RowGreater(Key(x), Key(y))
  BY FullRowOrder
<1>3. R = {FullRow(x) : x \in H}
  <2>1. R = {rows[k] : k \in 1..Len(rows)}
    BY RangeOfRows DEF HeapRowsIn
  <2>2. \A k \in 1..n : rows[k] = FullRow(k)
    BY DEF HeapRowsIn
  <2>3. QED
    BY <1>1, <2>1, <2>2 DEF HeapRowsIn
<1>4. \A x \in H : f[x] = FullRow(x)
  OBVIOUS
<1>5. sorted = [k \in 1..Cardinality(R) |->
                  CHOOSE row \in R : Cardinality(above(row)) = k - 1]
  BY DEF SortedRows
<1>6. \A x \in H : Above(x) = {r \in H : RowGreater(FullRow(r), FullRow(x))}
  BY <1>2 DEF Above
<1> HIDE DEF n, H, R, sorted
<1>7. f \in Bijection(H, R)
  <2>1. f \in [H -> R]
    BY <1>3
  <2>2. \A x, y \in H : f[x] = f[y] => x = y
    BY <1>2, <1>4
  <2>3. \A t \in R : \E x \in H : f[x] = t
    BY <1>3
  <2> HIDE DEF f
  <2>4. QED
    BY <2>1, <2>2, <2>3, Fun_IsBij
<1>8. Cardinality(R) = n
  <2>1. ExistsBijection(H, R)
    BY <1>7 DEF ExistsBijection
  <2>2. QED
    BY <1>1, <2>1, FS_Bijection
<1>9. ASSUME NEW x \in H PROVE Cardinality(above(FullRow(x))) = Cardinality(Above(x))
  <2> DEFINE A == Above(x)
             B == above(FullRow(x))
             g == [r \in A |-> FullRow(r)]
  <2>1. A \subseteq H
    BY <1>6
  <2>2. \A r \in A : g[r] = FullRow(r)
    OBVIOUS
  <2>3. g \in [A -> B]
    BY <1>3, <1>6, <2>1
  <2>4. \A r, s \in A : g[r] = g[s] => r = s
    BY <1>2, <2>1
  <2>5. ASSUME NEW t \in B PROVE \E r \in A : g[r] = t
    <3>1. PICK r \in H : t = FullRow(r)
      BY <1>3
    <3>2. RowGreater(FullRow(r), FullRow(x))
      BY <3>1
    <3>3. r \in A
      BY <1>6, <3>2
    <3>4. QED
      BY <3>1, <3>3
  <2>6. IsFiniteSet(A)
    BY <1>1, <2>1, FS_Subset
  <2> HIDE DEF A, B, g
  <2>7. g \in Bijection(A, B)
    BY <2>3, <2>4, <2>5, Fun_IsBij
  <2>8. ExistsBijection(A, B)
    BY <2>7 DEF ExistsBijection
  <2>9. Cardinality(B) = Cardinality(A)
    BY <2>6, <2>8, FS_Bijection
  <2>10. QED
    BY <2>9 DEF A, B
<1>10. ASSUME NEW k \in 1..n
       PROVE  (CHOOSE row \in R : Cardinality(above(row)) = k - 1) = FullRow(Ranked(k))
  <2> DEFINE C == CHOOSE row \in R : Cardinality(above(row)) = k - 1
  <2>1. /\ Ranked(k) \in H /\ Cardinality(Above(Ranked(k))) = k - 1
        /\ \A r \in H : Cardinality(Above(r)) = k - 1 => r = Ranked(k)
    BY <1>1 DEF RankOf, H
  <2>2. FullRow(Ranked(k)) \in R /\ Cardinality(above(FullRow(Ranked(k)))) = k - 1
    BY <1>3, <1>9, <2>1
  <2>3. C \in R /\ Cardinality(above(C)) = k - 1
    BY <2>2
  <2> HIDE DEF C
  <2>4. PICK x \in H : C = FullRow(x)
    BY <1>3, <2>3
  <2>5. Cardinality(Above(x)) = k - 1
    BY <1>9, <2>3, <2>4
  <2>6. C = FullRow(Ranked(k))
    BY <2>1, <2>4, <2>5
  <2>7. QED
    BY <2>6 DEF C
<1>11. /\ sorted = [k \in 1..n |-> sorted[k]]
       /\ \A k \in 1..n : sorted[k] = FullRow(Ranked(k))
  BY <1>5, <1>8, <1>10
<1>12. IsStream(sorted) /\ Len(sorted) = n
  BY <1>1, <1>11, StreamMade
<1>13. QED
  BY <1>11, <1>12 DEF RankedRowsIn, n, sorted

------------------------------------------------------------------------------
(* Complete columns *)

(* Columns of which the first has n rows, and no other has less.           *)
Complete(columns, n) ==
  /\ AreColumns(columns) /\ n \in Nat /\ Len(columns[1]) = n
  /\ \A c \in 1..Len(columns) : n <= Len(columns[c])

(* Rows of columns.                                                        *)
RowsOf(rows, columns, n) ==
  /\ IsStream(rows) /\ Len(rows) = n
  /\ \A i \in 1..n : /\ IsStream(rows[i]) /\ Len(rows[i]) = Len(columns)
                     /\ \A c \in 1..Len(columns) : rows[i][c] = columns[c][i]

(* Nothing is left when rows are cut from zipped columns.                  *)
LEMMA CutEvenly ==
  ASSUME NEW w \in Nat \ {0}, NEW n \in Nat
  PROVE  n * w \in Nat /\ (n * w) \div w = n
<1> DEFINE k == n + 1
           j == (k - 1) * w + 1
<1>1. k \in Nat \ {0} /\ 1 \in 1..w /\ k - 1 = n
  OBVIOUS
<1>2. (j - 1) \div w = k - 1
  <2> HIDE DEF k
  <2>1. QED
    BY <1>1, PlaceInRow
<1>3. n * w \in Nat
  OBVIOUS
<1>4. j - 1 = n * w
  BY <1>1, <1>3
<1>5. QED
  BY <1>1, <1>2, <1>3, <1>4

(* Complete columns are zipped to as many rows as the first has, and       *)
(* nothing is left over.                                                   *)
LEMMA CompleteZipped ==
  ASSUME NEW columns, NEW n, Complete(columns, n), NEW w, w = Len(columns)
  PROVE  /\ ~ ZipFails(columns)
         /\ IsStream(ZippedWords(columns)) /\ Len(ZippedWords(columns)) = n * w
         /\ RowsOf(FullRows(ZippedWords(columns), w), columns, n)
         /\ PartOfRow(ZippedWords(columns), w) = << >>
<1> DEFINE zipped == ZippedWords(columns)
           rows == FullRows(zipped, w)
<1>1. /\ AreColumns(columns) /\ n \in Nat /\ Len(columns[1]) = n
      /\ \A c \in 1..w : n <= Len(columns[c])
  BY DEF Complete
<1>2. w \in Nat \ {0} /\ 1 \in 1..w
  BY <1>1, StreamLaws DEF AreColumns
<1>3. Shortest(columns) = n
  <2>1. /\ Shortest(columns) \in Nat /\ Shortest(columns) <= n
        /\ \E c \in 1..w : Shortest(columns) = Len(columns[c])
    BY <1>1, <1>2, ShortestColumn
  <2>2. n <= Shortest(columns)
    BY <1>1, <2>1
  <2>3. QED
    BY <1>1, <2>1, <2>2
<1>4. ~ ZipFails(columns)
  BY <1>1, <1>3 DEF ZipFails
<1>5. IsStream(zipped) /\ Len(zipped) = n * w
  BY <1>1, <1>3, <1>4, ZippedLaws
<1>6. n * w \in Nat /\ (n * w) \div w = n
  BY <1>1, <1>2, CutEvenly
<1>7. CutFrom(rows, zipped, w)
  BY <1>2, <1>5, FullRowsLaws
<1>8. PartOfRow(zipped, w) = << >>
  <2> DEFINE m == Len(zipped) \div w
  <2>1. m = n
    BY <1>5, <1>6
  <2> HIDE DEF m, zipped
  <2>2. m * w = Len(zipped)
    BY <1>5, <2>1
  <2>3. QED
    BY <2>2 DEF PartOfRow, m
<1> HIDE DEF zipped, rows
<1>9. /\ IsStream(rows) /\ Len(rows) = n
      /\ \A i \in 1..n :
           /\ IsStream(rows[i]) /\ Len(rows[i]) = w
           /\ \A c \in 1..w : /\ (i - 1) * w + c \in 1..Len(zipped)
                              /\ rows[i][c] = zipped[(i - 1) * w + c]
  <2>1. IsStream(rows) /\ Len(rows) = Len(zipped) \div w
    BY <1>7 DEF CutFrom
  <2>2. Len(rows) = n
    BY <1>5, <1>6, <2>1
  <2>3. \A i \in 1..Len(rows) :
           /\ IsStream(rows[i]) /\ Len(rows[i]) = w
           /\ \A c \in 1..w : /\ (i - 1) * w + c \in 1..Len(zipped)
                              /\ rows[i][c] = zipped[(i - 1) * w + c]
    BY <1>7, Zenon DEF CutFrom
  <2>4. QED
    BY <2>1, <2>2, <2>3, Zenon
<1>10. ASSUME NEW i \in 1..n, NEW c \in 1..w PROVE rows[i][c] = columns[c][i]
  <2> DEFINE j == (i - 1) * w + c
  <2>1. i \in Nat \ {0}
    BY <1>1
  <2>2. InPlace(j, i, c, w)
    BY <1>2, <2>1, ThePlace
  <2>3. j \in 1..Len(zipped) /\ rows[i][c] = zipped[j]
    BY <1>9, Zenon
  <2> HIDE DEF j
  <2>4. ZippedPlace(columns, j, i, c)
    BY <1>1, <2>1, <2>2, <2>3 DEF ZippedPlace, zipped
  <2>5. zipped[j] = columns[c][i]
    BY <2>4, ZippedRow DEF zipped
  <2>6. QED
    BY <2>3, <2>5
<1>11. RowsOf(rows, columns, n)
  BY <1>9, <1>10, Zenon DEF RowsOf
<1>12. QED
  BY <1>4, <1>5, <1>8, <1>11 DEF zipped, rows

(* What is zipped for the sorted rows are all rows of the heap.            *)
LEMMA RowColumnsComplete ==
  ASSUME heap \in Heaps, DominatorsRight(files.dominators),
         Len(files.dominators) = Len(heap.dominators)
  PROVE  /\ Complete(RowColumns, Len(heap.ids)) /\ Len(RowColumns) = 7
         /\ \A i \in HeapRows : \A c \in 1..7 : RowColumns[c][i] = Cell(i, c)
<1> DEFINE n == Len(heap.ids)
<1>1. /\ AreColumns(RowColumns) /\ Len(RowColumns) = 7
      /\ \A i : (\A c \in 1..7 : i \in 1..Len(RowColumns[c])) =>
           i \in HeapRows /\ \A c \in 1..7 : RowColumns[c][i] = Cell(i, c)
  BY RowColumnsLaws
<1>2. /\ RowColumns[4] = files.dominators
      /\ \A c \in 1..7 : c # 4 => RowColumns[c] = HeapColumns(heap)[c]
  BY DEF RowColumns, HeapColumns
<1>3. /\ \A c \in 1..7 : /\ Len(HeapColumns(heap)[c]) \in Nat
                         /\ Len(HeapColumns(heap)[c]) >= n
      /\ HeapColumns(heap)[1] = heap.retained /\ HeapColumns(heap)[4] = heap.dominators
      /\ Len(heap.retained) = n /\ HeapColumns(heap)[5] = heap.ids /\ HeapRows = 1..n
  BY HeapLaws
<1>4. n \in Nat /\ 1 \in 1..7 /\ 4 \in 1..7 /\ 5 \in 1..7
  BY <1>3
<1>5. ASSUME NEW c \in 1..7 PROVE Len(RowColumns[c]) \in Nat /\ Len(RowColumns[c]) >= n
  <2>1. CASE c = 4
    BY <1>2, <1>3, <1>4, <2>1
  <2>2. CASE c # 4
    BY <1>2, <1>3, <2>2
  <2>3. QED
    BY <2>1, <2>2
<1>6. Len(RowColumns[1]) = n
  BY <1>2, <1>3, <1>4
<1> HIDE DEF n
<1>7. Complete(RowColumns, n)
  BY <1>1, <1>4, <1>5, <1>6 DEF Complete
<1>8. ASSUME NEW i \in HeapRows PROVE \A c \in 1..7 : RowColumns[c][i] = Cell(i, c)
  <2>1. ASSUME NEW c \in 1..7 PROVE i \in 1..Len(RowColumns[c])
    <3>1. HeapRows = 1..n
      BY <1>3
    <3>2. Len(RowColumns[c]) \in Nat /\ n <= Len(RowColumns[c])
      BY <1>5
    <3>3. QED
      BY <1>4, <3>1, <3>2
  <2>2. QED
    BY <1>1, <2>1
<1>9. QED
  BY <1>1, <1>7, <1>8 DEF n

(* The second pipeline zips a row for every row of the heap (fhat.sh:74).  *)
LEMMA ZippedHeapRows ==
  ASSUME heap \in Heaps, DominatorsRight(files.dominators),
         Len(files.dominators) = Len(heap.dominators)
  PROVE  /\ HeapRowsIn(FullRows(ZippedWords(RowColumns), 7))
         /\ IsStream(ZippedWords(RowColumns)) /\ Numbers(ZippedWords(RowColumns))
         /\ ~ ZipFails(RowColumns)
<1> DEFINE n == Len(heap.ids)
           zipped == ZippedWords(RowColumns)
           rows == FullRows(zipped, 7)
<1>1. /\ Complete(RowColumns, n) /\ Len(RowColumns) = 7
      /\ \A i \in HeapRows : \A c \in 1..7 : RowColumns[c][i] = Cell(i, c)
  BY RowColumnsComplete
<1>2. HeapRows = 1..n /\ n \in Nat
  BY RankedRows
<1> HIDE DEF n
<1>3. ~ ZipFails(RowColumns) /\ IsStream(zipped) /\ RowsOf(rows, RowColumns, n)
  BY <1>1, CompleteZipped
<1>4. AreColumns(RowColumns) /\ \A c \in 1..7 : Numbers(RowColumns[c])
  BY RowColumnsLaws
<1>5. Numbers(zipped)
  <2>1. \A j \in 1..Len(zipped) :
          LET c == ((j - 1) % 7) + 1
              k == ((j - 1) \div 7) + 1
          IN  c \in 1..7 /\ k \in 1..Len(RowColumns[c]) /\ zipped[j] = RowColumns[c][k]
    BY <1>1, <1>4, ZippedLaws
  <2> HIDE DEF zipped
  <2>2. QED
    BY <1>4, <2>1 DEF Numbers
<1> HIDE DEF zipped, rows
<1>6. ASSUME NEW i \in 1..n PROVE rows[i] = FullRow(i)
  <2>1. IsStream(rows[i]) /\ Len(rows[i]) = 7 /\ \A c \in 1..7 : rows[i][c] = RowColumns[c][i]
    BY <1>1, <1>3 DEF RowsOf
  <2>2. FullRow(i) = [c \in 1..7 |-> FullRow(i)[c]] /\ \A c \in 1..7 : FullRow(i)[c] = Cell(i, c)
    BY DEF FullRow
  <2>3. IsStream(FullRow(i)) /\ Len(FullRow(i)) = 7
    <3>1. 7 \in Nat
      OBVIOUS
    <3>2. QED
      BY <2>2, <3>1, StreamMade
  <2>4. \A c \in 1..7 : rows[i][c] = FullRow(i)[c]
    BY <1>1, <1>2, <2>1, <2>2
  <2>5. QED
    BY <2>1, <2>3, <2>4, SameStream
<1>7. HeapRowsIn(rows)
  BY <1>3, <1>6 DEF HeapRowsIn, RowsOf, n
<1>8. QED
  BY <1>3, <1>5, <1>7 DEF zipped, rows

(* The files of the sorted rows, if they are whole.                        *)
RowsWhole(rows) ==
  \A c \in 1..7 : /\ Len(rows[c]) = Len(heap.ids)
                  /\ \A k \in 1..Len(heap.ids) : rows[c][k] = Cell(Ranked(k), c)

(* What sort writes for all rows of the heap.                              *)
RankedWords(words) ==
  /\ IsStream(words) /\ Len(words) = Len(heap.ids) * 7
  /\ \A k \in 1..Len(heap.ids) : \A c \in 1..7 : words[(k - 1) * 7 + c] = Cell(Ranked(k), c)

(* sort writes the rows of the heap by rank.                               *)
LEMMA SortedHeapWords ==
  ASSUME heap \in Heaps, NEW in, IsStream(in), Numbers(in), HeapRowsIn(FullRows(in, 7))
  PROVE  RankedWords(FlattenSeq(SortedRows(FullRows(in, 7))))
<1> DEFINE full == FullRows(in, 7)
           sorted == SortedRows(full)
           out == FlattenSeq(sorted)
           n == Len(heap.ids)
<1>1. RankedRowsIn(sorted)
  BY SortedHeapRows
<1>2. SortedInto(sorted, out, full, 7)
  <2>1. 7 \in Nat \ {0}
    OBVIOUS
  <2>2. QED
    BY <2>1, SortedWords
<1> HIDE DEF full, sorted, out
<1>3. Len(sorted) = n /\ \A k \in 1..n : sorted[k] = FullRow(Ranked(k))
  BY <1>1 DEF RankedRowsIn
<1>4. /\ IsStream(out) /\ Len(out) = Len(sorted) * 7
      /\ \A k \in 1..Len(sorted) : \A c \in 1..7 : out[(k - 1) * 7 + c] = sorted[k][c]
  BY <1>2, Zenon DEF SortedInto
<1>5. \A k \in 1..n : \A c \in 1..7 : out[(k - 1) * 7 + c] = sorted[k][c]
  BY <1>3, <1>4, Zenon
<1>6. ASSUME NEW k \in 1..n, NEW c \in 1..7
      PROVE  out[(k - 1) * 7 + c] = Cell(Ranked(k), c)
  <2>1. sorted[k][c] = Cell(Ranked(k), c)
    BY <1>3 DEF FullRow
  <2>2. QED
    BY <1>5, <2>1, Zenon
<1>7. RankedWords(out)
  BY <1>3, <1>4, <1>6, Zenon DEF RankedWords
<1>8. QED
  BY <1>7 DEF out, sorted, full

(* The files that unzip makes of it.                                       *)
LEMMA UnzippedHeap ==
  ASSUME heap \in Heaps, NEW words, RankedWords(words)
  PROVE  RowsWhole([c \in 1..7 |-> UnzippedWords(words, 7, c)])
<1> DEFINE n == Len(heap.ids)
           rows == [c \in 1..7 |-> UnzippedWords(words, 7, c)]
<1>1. n \in Nat /\ IsStream(words) /\ Len(words) = n * 7
  BY RankedRows DEF RankedWords
<1>2. \A k \in 1..n : \A c \in 1..7 : words[(k - 1) * 7 + c] = Cell(Ranked(k), c)
  BY Zenon DEF RankedWords
<1>3. ASSUME NEW c \in 1..7
      PROVE  Len(rows[c]) = n /\ \A k \in 1..n : rows[c][k] = Cell(Ranked(k), c)
  <2> DEFINE file == UnzippedWords(words, 7, c)
  <2>1. /\ Len(file) = (Len(words) - c + 7) \div 7
        /\ \A k \in 1..Len(file) : file[k] = words[(k - 1) * 7 + c]
    BY <1>1, UnzippedLaws
  <2>2. rows[c] = file
    OBVIOUS
  <2> HIDE DEF n, file, rows
  <2>3. (n * 7 - c + 7) \div 7 = n
    BY <1>1
  <2>4. Len(file) = n
    BY <1>1, <2>1, <2>3
  <2>5. ASSUME NEW k \in 1..n PROVE file[k] = Cell(Ranked(k), c)
    <3>1. file[k] = words[(k - 1) * 7 + c]
      BY <2>1, <2>4, Zenon
    <3>2. words[(k - 1) * 7 + c] = Cell(Ranked(k), c)
      BY <1>2, Zenon
    <3>3. QED
      BY <3>1, <3>2
  <2>6. QED
    BY <2>2, <2>4, <2>5
<1>4. QED
  BY <1>3 DEF RowsWhole

(* The second pipeline, if nothing is killed, makes files of all rows, in  *)
(* the order of what they retain (fhat.sh:74-75).                          *)
LEMMA AllRows ==
  ASSUME Flow, heap \in Heaps, pv, DominatorsRight(files.dominators),
         Len(files.dominators) = Len(heap.dominators),
         programs = RowPrograms, Orderly(4), Gone(4)
  PROVE  RowsWhole([c \in 1..7 |-> UnzippedWords(written[4], 7, c)])
<1> DEFINE zipped == ZippedWords(RowColumns)
           sorted == FlattenSeq(SortedRows(FullRows(zipped, 7)))
           full == <<zipped, zipped, sorted, sorted>>
<1>1. /\ HeapRowsIn(FullRows(zipped, 7)) /\ IsStream(zipped) /\ Numbers(zipped)
      /\ ~ ZipFails(RowColumns)
  BY ZippedHeapRows
<1>2. RankedWords(sorted)
  BY <1>1, SortedHeapWords
<1>3. full[1] = zipped /\ full[2] = zipped /\ full[3] = sorted /\ full[4] = sorted
  OBVIOUS
<1>4. sorted = FlattenSeq(SortedRows(FullRows(zipped, 7)))
  OBVIOUS
<1>5. zipped = ZippedWords(RowColumns)
  OBVIOUS
<1>6. /\ WholeInput(full, 1) = << >> /\ WholeInput(full, 2) = zipped
      /\ WholeInput(full, 3) = zipped /\ WholeInput(full, 4) = sorted
  BY <1>3 DEF WholeInput
<1> HIDE DEF zipped, sorted, full
<1>7. IsStream(sorted) /\ Len(sorted) % 7 = 0
  <2>1. IsStream(sorted) /\ Len(sorted) = Len(heap.ids) * 7 /\ Len(heap.ids) \in Nat
    BY <1>2, RankedRows DEF RankedWords
  <2> DEFINE m == Len(heap.ids)
             l == Len(sorted)
  <2>2. l = m * 7 /\ m \in Nat
    BY <2>1
  <2> HIDE DEF l, m
  <2>3. l % 7 = 0
    BY <2>2
  <2>4. QED
    BY <2>1, <2>3 DEF l
<1>8. /\ Stages = 1..5
      /\ programs[1].does = "zip" /\ programs[1].columns = RowColumns
      /\ programs[2].does = "copy" /\ programs[3].does = "sort" /\ programs[3].width = 7
      /\ programs[4].does = "unzip" /\ programs[4].width = 7
  BY SortedPrograms DEF Pv, Copy
<1>9. OutputOf(full, 4, 1)
  <2>1. Results(programs[1], << >>, TRUE) = zipped
    <3>1. programs[1].does = "zip"
      BY <1>8
    <3>2. Results(programs[1], << >>, TRUE) = ZippedWords(programs[1].columns)
      BY <3>1, ResultCases, Zenon
    <3>3. QED
      BY <1>5, <1>8, <3>2
  <2>2. Harmless(programs[1], << >>)
    BY <1>1, <1>8, MostAreHarmless
  <2>3. programs[1].does \notin {"sort", "unzip", "head"}
    BY <1>8
  <2>4. QED
    BY <1>1, <1>3, <1>6, <2>1, <2>2, <2>3, NoStream DEF OutputOf
<1>10. OutputOf(full, 4, 2)
  <2>1. Results(programs[2], zipped, TRUE) = zipped
    <3>1. programs[2].does \in {"copy", "unzip", "head"}
      BY <1>8
    <3>2. QED
      BY <3>1, ResultCases, Zenon
  <2>2. Harmless(programs[2], zipped)
    BY <1>8, MostAreHarmless
  <2>3. programs[2].does \notin {"sort", "unzip", "head"}
    BY <1>8
  <2>4. QED
    BY <1>1, <1>3, <1>6, <2>1, <2>2, <2>3 DEF OutputOf
<1>11. OutputOf(full, 4, 3)
  <2>1. Results(programs[3], zipped, TRUE) = sorted
    <3>1. Results(programs[3], zipped, TRUE)
            = FlattenSeq(SortedRows(FullRows(zipped, programs[3].width)))
      <4>1. programs[3].does = "sort"
        BY <1>8
      <4> DEFINE program == programs[3]
                 eof == TRUE
      <4>2. program.does = "sort" /\ eof
        BY <4>1
      <4> HIDE DEF program, eof
      <4>3. Results(program, zipped, eof)
              = FlattenSeq(SortedRows(FullRows(zipped, program.width)))
        BY <4>2, ResultCases, Zenon
      <4>4. QED
        BY <4>3 DEF program, eof
    <3>2. QED
      BY <1>4, <1>8, <3>1
  <2>2. Harmless(programs[3], zipped)
    BY <1>8, MostAreHarmless
  <2>3. programs[3].does \notin {"unzip", "head"}
    BY <1>8
  <2>4. QED
    BY <1>1, <1>3, <1>6, <1>7, <2>1, <2>2, <2>3 DEF OutputOf
<1>12. OutputOf(full, 4, 4)
  <2>1. Results(programs[4], sorted, TRUE) = sorted
    <3>1. programs[4].does \in {"copy", "unzip", "head"}
      BY <1>8
    <3>2. QED
      BY <3>1, ResultCases, Zenon
  <2>2. Harmless(programs[4], sorted)
    BY <1>7, <1>8, MostAreHarmless
  <2>3. programs[4].does # "sort" /\ ~ 4 < 4
    BY <1>8
  <2>4. QED
    BY <1>3, <1>6, <1>7, <2>1, <2>2, <2>3 DEF OutputOf
<1>13. Outputs(full, 4)
  <2>1. \A q \in 1..4 : q = 1 \/ q = 2 \/ q = 3 \/ q = 4
    OBVIOUS
  <2>2. ToFile(4) /\ 4 \in Stages
    BY <1>8 DEF ToFile
  <2>3. QED
    BY <1>9, <1>10, <1>11, <1>12, <2>1, <2>2 DEF Outputs
<1>14. Delivered(full, 4)
  BY <1>13, AllDelivered
<1>15. written[4] = sorted
  BY <1>3, <1>8, <1>14 DEF Delivered
<1>16. QED
  BY <1>2, <1>15, UnzippedHeap

(* The tables of a heap.                                                   *)
KeysInOrder(keys) == \A i, j \in DOMAIN keys : i < j => keys[i] < keys[j]

(* The tables by which names are found, as they are assumed.               *)
LEMMA TablesLaws ==
  ASSUME heap \in Heaps
  PROVE  LET t == heap.tables
         IN  /\ t.classes \in Seq(Nat) /\ t.names \in Seq(Nat)
             /\ t.classes # << >> /\ t.names # << >>
             /\ KeysInOrder(t.classes) /\ KeysInOrder(t.names)
             /\ t.classNames \in [1..Len(t.classes) -> Range(t.names)]
             /\ t.nameOffsets \in [1..Len(t.names) -> 0..(Len(t.strings) - 1)]
             /\ t.strings \in Seq(Nat)
<1>1. NT!AreTables(heap.tables)
  BY HeapsAssumption
<1>2. Range(heap.tables.names) = NT!Range(heap.tables.names)
  BY DEF Range, NT!Range
<1>3. QED
  BY <1>1, <1>2 DEF NT!AreTables, KeysInOrder

(* A key that is there is found, and a position is one of the column.      *)
LEMMA PositionsFit ==
  ASSUME NEW keys \in Seq(Nat), keys # << >>, KeysInOrder(keys), NEW node
  PROVE  /\ node \in Range(keys) => InColumn(keys, node)
         /\ PositionOf(keys, node) + 1 \in 1..Len(keys)
<1> DEFINE n == Len(keys)
           below == {j \in 1..n : keys[j] < node}
           p == PartitionPoint(n, below)
<1>1. n \in Nat \ {0} /\ DOMAIN keys = 1..n /\ \A j \in 1..n : keys[j] \in Nat
  BY EmptySeq, LenProperties, ElementOfSeq
<1>2. KeyLowerBound(keys, node) = p
  BY DEF KeyLowerBound
<1>3. \A j \in 1..n : j \in below <=> keys[j] < node
  OBVIOUS
<1> HIDE DEF n, below, p
<1>4. ASSUME node \in Range(keys) PROVE p \in 1..n
  <2>1. PICK i \in 1..n : keys[i] = node
    BY <1>1, <1>4 DEF Range
  <2>2. \A j, k \in 1..n : j < k /\ k \in below => j \in below
    <3>1. SUFFICES ASSUME NEW j \in 1..n, NEW k \in 1..n, j < k, keys[k] < node
          PROVE  keys[j] < node
      BY <1>3
    <3>2. keys[j] < keys[k]
      BY <1>1, <3>1 DEF KeysInOrder
    <3>3. keys[j] \in Nat /\ keys[k] \in Nat /\ node \in Nat
      BY <1>1, <2>1
    <3>4. QED
      BY <3>1, <3>2, <3>3
  <2>3. p \in 1..(n + 1) /\ \A j \in 1..n : j \in below <=> j < p
    BY <1>1, <2>2, PartitionPointSplits DEF p
  <2>4. i \notin below
    BY <1>1, <1>3, <2>1
  <2>5. QED
    BY <1>1, <2>1, <2>3, <2>4
<1>5. node \in Range(keys) => InColumn(keys, node)
  BY <1>1, <1>2, <1>4 DEF InColumn, n
<1>6. PositionOf(keys, node) + 1 \in 1..n
  <2>1. CASE node \in Range(keys)
    BY <1>1, <1>2, <1>4, <2>1 DEF PositionOf
  <2>2. CASE node \notin Range(keys)
    BY <1>1, <2>2 DEF PositionOf
  <2>3. QED
    BY <2>1, <2>2
<1>7. QED
  BY <1>5, <1>6 DEF n

(* Whether translate drops or refuses what it does not know (fhat.sh:82).  *)
LEMMA OrphanFlags ==
  ASSUME heap \in Heaps, programs = NamePrograms
  PROVE  programs[2].orphansToZero = TRUE /\ programs[4].orphansToZero = FALSE
<1> DEFINE t == [heap.tables EXCEPT !.ofRows = files.rows[6]]
<1>1. programs = NT!NamePrograms(t)
  BY DEF NamePrograms
<1> HIDE DEF t
<1>2. programs = <<NT!Cat(t.ofRows), NT!Translate(t.classes, TRUE), NT!Unpack(t.classNames),
                   NT!Translate(t.names, FALSE), NT!Unpack(t.nameOffsets),
                   NT!Unpack(t.strings), NT!Copy>>
  BY <1>1 DEF NT!NamePrograms
<1>3. /\ programs[2] = NT!Translate(t.classes, TRUE)
      /\ programs[4] = NT!Translate(t.names, FALSE)
  BY <1>2
<1>4. QED
  BY <1>3 DEF NT!Translate

(* A program of the third pipeline that replaces every word.               *)
ReplacesAll(q, in, out) ==
  /\ Replacing(programs[q], in, out) /\ Len(out) = Len(heap.ids)
  /\ \A k \in 1..Len(heap.ids) : out[k] = Replaced(programs[q], in[k])

(* It replaces all of them if it can replace each.                         *)
LEMMA ReplacingAll ==
  ASSUME NEW q, Replaces(programs[q]), NEW in, IsStream(in), Len(in) = Len(heap.ids),
         \A k \in 1..Len(heap.ids) : Replaceable(programs[q], in[k])
  PROVE  \E out : ReplacesAll(q, in, out) /\ IsStream(out)
<1> DEFINE out == ReplacedWords(programs[q], in)
<1>1. Replacing(programs[q], in, out)
  BY AllReplaced
<1> HIDE DEF out
<1>2. /\ IsStream(out) /\ Len(out) = Len(in)
      /\ \A k \in 1..Len(in) : out[k] = Replaced(programs[q], in[k])
  BY <1>1 DEF Replacing
<1>3. ReplacesAll(q, in, out)
  BY <1>1, <1>2 DEF ReplacesAll
<1>4. QED
  BY <1>2, <1>3

(* The third pipeline, if nothing is killed and the classes are known,     *)
(* makes a name for every row (fhat.sh:82).                                *)
LEMMA AllNames ==
  ASSUME Flow, heap \in Heaps, RowsRight(files.rows), RowsWhole(files.rows), ClassesKnown,
         programs = NamePrograms, Orderly(Final), Gone(Final)
  PROVE  Len(written[Final]) = Len(heap.ids)
<1> DEFINE n == Len(heap.ids)
           T == heap.tables
           a1 == files.rows[6]
<1>1. /\ T.classes \in Seq(Nat) /\ T.names \in Seq(Nat)
      /\ T.classes # << >> /\ T.names # << >>
      /\ KeysInOrder(T.classes) /\ KeysInOrder(T.names)
      /\ T.classNames \in [1..Len(T.classes) -> Range(T.names)]
      /\ T.nameOffsets \in [1..Len(T.names) -> 0..(Len(T.strings) - 1)]
      /\ T.strings \in Seq(Nat)
  BY TablesLaws
<1>2. /\ Stages = 1..7 /\ Final = 7
      /\ programs[1].does = "cat" /\ programs[1].words = a1
      /\ programs[2].does = "translate" /\ programs[2].keys = T.classes
      /\ programs[3].does = "unpack" /\ programs[3].table = T.classNames
      /\ programs[4].does = "translate" /\ programs[4].keys = T.names
      /\ programs[5].does = "unpack" /\ programs[5].table = T.nameOffsets
      /\ programs[6].does = "unpack" /\ programs[6].table = T.strings
      /\ programs[7].does = "copy"
      /\ programs[2].orphansToZero
  BY NameProgramsAre, OrphanFlags
<1>3. IsStream(a1) /\ Len(a1) = n /\ \A k \in 1..n : InColumn(T.classes, a1[k])
  <2>1. 6 \in 1..7
    OBVIOUS
  <2>2. IsStream(a1) /\ Len(a1) = n /\ \A k \in 1..n : a1[k] = Cell(Ranked(k), 6)
    BY <2>1 DEF RowsRight, RowsWhole
  <2>3. \A k \in 1..n : Ranked(k) \in HeapRows
    BY RankedRows DEF RankOf
  <2>4. \A row : Cell(row, 6) = heap.classOf[row]
    BY DEF Cell, HeapColumns
  <2>5. QED
    BY <2>2, <2>3, <2>4 DEF ClassesKnown
<1> HIDE DEF n, T, a1
<1>4. PICK a2 : ReplacesAll(2, a1, a2) /\ IsStream(a2)
  <2>1. \A k \in 1..n : Replaceable(programs[2], a1[k])
    BY <1>2, <1>3 DEF Replaceable, Translatable
  <2>2. QED
    BY <1>2, <1>3, <2>1, ReplacingAll DEF Replaces, n
<1>5. Len(a2) = n /\ \A k \in 1..n : a2[k] + 1 \in 1..Len(T.classes)
  <2>1. Len(a2) = n /\ \A k \in 1..n : a2[k] = Replaced(programs[2], a1[k])
    BY <1>4 DEF ReplacesAll, n
  <2>2. \A k \in 1..n : a2[k] = PositionOf(T.classes, a1[k])
    BY <1>2, <2>1 DEF Replaced
  <2>3. QED
    BY <1>1, <2>1, <2>2, PositionsFit
<1>6. PICK a3 : ReplacesAll(3, a2, a3) /\ IsStream(a3)
  <2>1. \A k \in 1..n : Replaceable(programs[3], a2[k])
    BY <1>1, <1>2, <1>5 DEF Replaceable, InTable
  <2>2. QED
    BY <1>2, <1>4, <1>5, <2>1, ReplacingAll DEF Replaces, n
<1>7. Len(a3) = n /\ \A k \in 1..n : a3[k] \in Range(T.names)
  <2>1. Len(a3) = n /\ \A k \in 1..n : a3[k] = Replaced(programs[3], a2[k])
    BY <1>6 DEF ReplacesAll, n
  <2>2. \A k \in 1..n : a3[k] = T.classNames[a2[k] + 1]
    BY <1>2, <2>1 DEF Replaced
  <2>3. QED
    BY <1>1, <1>5, <2>1, <2>2
<1>8. PICK a4 : ReplacesAll(4, a3, a4) /\ IsStream(a4)
  <2>1. \A k \in 1..n : Replaceable(programs[4], a3[k])
    <3>1. \A k \in 1..n : InColumn(T.names, a3[k])
      BY <1>1, <1>7, PositionsFit
    <3>2. QED
      BY <1>2, <1>7, <3>1 DEF Replaceable, Translatable
  <2>2. QED
    BY <1>2, <1>6, <1>7, <2>1, ReplacingAll DEF Replaces, n
<1>9. Len(a4) = n /\ \A k \in 1..n : a4[k] + 1 \in 1..Len(T.names)
  <2>1. Len(a4) = n /\ \A k \in 1..n : a4[k] = Replaced(programs[4], a3[k])
    BY <1>8 DEF ReplacesAll, n
  <2>2. \A k \in 1..n : a4[k] = PositionOf(T.names, a3[k])
    BY <1>2, <2>1 DEF Replaced
  <2>3. QED
    BY <1>1, <2>1, <2>2, PositionsFit
<1>10. PICK a5 : ReplacesAll(5, a4, a5) /\ IsStream(a5)
  <2>1. \A k \in 1..n : Replaceable(programs[5], a4[k])
    BY <1>1, <1>2, <1>9 DEF Replaceable, InTable
  <2>2. QED
    BY <1>2, <1>8, <1>9, <2>1, ReplacingAll DEF Replaces, n
<1>11. Len(a5) = n /\ \A k \in 1..n : a5[k] + 1 \in DOMAIN T.strings
  <2>1. Len(a5) = n /\ \A k \in 1..n : a5[k] = Replaced(programs[5], a4[k])
    BY <1>10 DEF ReplacesAll, n
  <2>2. \A k \in 1..n : a5[k] = T.nameOffsets[a4[k] + 1]
    BY <1>2, <2>1 DEF Replaced
  <2>3. Len(T.strings) \in Nat /\ DOMAIN T.strings = 1..Len(T.strings)
    BY <1>1, LenProperties
  <2>4. \A k \in 1..n : a5[k] \in 0..(Len(T.strings) - 1)
    BY <1>1, <1>9, <2>2
  <2>5. QED
    BY <2>1, <2>3, <2>4
<1>12. PICK a6 : ReplacesAll(6, a5, a6) /\ IsStream(a6)
  <2>1. \A k \in 1..n : Replaceable(programs[6], a5[k])
    BY <1>2, <1>11 DEF Replaceable, InTable
  <2>2. QED
    BY <1>2, <1>10, <1>11, <2>1, ReplacingAll DEF Replaces, n
<1> DEFINE full == <<a1, a2, a3, a4, a5, a6, a6>>
<1>13. /\ full[1] = a1 /\ full[2] = a2 /\ full[3] = a3 /\ full[4] = a4
       /\ full[5] = a5 /\ full[6] = a6 /\ full[7] = a6
  OBVIOUS
<1>14. /\ WholeInput(full, 1) = << >> /\ WholeInput(full, 2) = a1 /\ WholeInput(full, 3) = a2
       /\ WholeInput(full, 4) = a3 /\ WholeInput(full, 5) = a4 /\ WholeInput(full, 6) = a5
       /\ WholeInput(full, 7) = a6
  BY <1>13 DEF WholeInput
<1> HIDE DEF full
<1>15. OutputOf(full, 7, 1)
  <2>1. programs[1].does = "cat"
    BY <1>2
  <2>2. Results(programs[1], << >>, TRUE) = programs[1].words
    BY <2>1, ResultCases, Zenon
  <2>3. Harmless(programs[1], << >>)
    BY <2>1, MostAreHarmless
  <2>4. programs[1].does \notin {"sort", "unzip", "head"}
    BY <2>1
  <2>5. QED
    BY <1>2, <1>3, <1>13, <1>14, <2>2, <2>3, <2>4, NoStream DEF OutputOf
<1>16. ASSUME NEW q \in 2..6, NEW in, NEW out, ReplacesAll(q, in, out), IsStream(in),
              WholeInput(full, q) = in, full[q] = out
       PROVE  OutputOf(full, 7, q)
  <2>1. /\ Harmless(programs[q], in) /\ out = Results(programs[q], in, TRUE) /\ IsStream(out)
    BY <1>16 DEF ReplacesAll, Replacing
  <2>2. programs[q].does \notin {"sort", "unzip", "head"}
    <3>1. q = 2 \/ q = 3 \/ q = 4 \/ q = 5 \/ q = 6
      OBVIOUS
    <3>2. QED
      BY <1>2, <3>1
  <2>3. QED
    BY <1>16, <2>1, <2>2 DEF OutputOf
<1>17. OutputOf(full, 7, 7)
  <2>1. programs[7].does = "copy" /\ programs[7].does \in {"copy", "unzip", "head"}
    BY <1>2
  <2>2. Results(programs[7], a6, TRUE) = a6
    BY <2>1, ResultCases, Zenon
  <2>3. Harmless(programs[7], a6)
    BY <2>1, MostAreHarmless
  <2>4. programs[7].does # "sort" /\ ~ 7 < 7
    BY <2>1
  <2>5. QED
    BY <1>12, <1>13, <1>14, <2>2, <2>3, <2>4 DEF OutputOf
<1>18. Outputs(full, 7)
  <2>1. \A q \in 1..7 : q = 1 \/ q \in 2..6 \/ q = 7
    OBVIOUS
  <2>2. ToFile(7) /\ 7 \in Stages
    BY <1>2 DEF ToFile
  <2>3. /\ OutputOf(full, 7, 2) /\ OutputOf(full, 7, 3) /\ OutputOf(full, 7, 4)
        /\ OutputOf(full, 7, 5) /\ OutputOf(full, 7, 6)
    <3>1. 2 \in 2..6 /\ 3 \in 2..6 /\ 4 \in 2..6 /\ 5 \in 2..6 /\ 6 \in 2..6
      OBVIOUS
    <3>2. OutputOf(full, 7, 2) /\ OutputOf(full, 7, 3)
      BY <1>3, <1>4, <1>6, <1>13, <1>14, <1>16, <3>1
    <3>3. OutputOf(full, 7, 4) /\ OutputOf(full, 7, 5)
      BY <1>6, <1>8, <1>10, <1>13, <1>14, <1>16, <3>1
    <3>4. OutputOf(full, 7, 6)
      BY <1>10, <1>12, <1>13, <1>14, <1>16, <3>1
    <3>5. QED
      BY <3>2, <3>3, <3>4
  <2>4. ASSUME NEW q \in 1..7 PROVE OutputOf(full, 7, q)
    <3>1. q = 1 \/ q = 2 \/ q = 3 \/ q = 4 \/ q = 5 \/ q = 6 \/ q = 7
      OBVIOUS
    <3>2. QED
      BY <1>15, <1>17, <2>3, <3>1
  <2>5. QED
    BY <2>2, <2>4 DEF Outputs
<1>19. Delivered(full, 7)
  BY <1>2, <1>18, AllDelivered
<1>20. written[7] = a6
  BY <1>2, <1>13, <1>19 DEF Delivered
<1>21. Len(a6) = n
  BY <1>12 DEF ReplacesAll, n
<1>22. QED
  BY <1>2, <1>20, <1>21 DEF n

------------------------------------------------------------------------------
(* The whole report *)

(* What the report is to be: the first lines on the rows, in their order.  *)
TopLine(k) == Line(RowLine(Ranked(k)), RowName(Ranked(k)))

(* The first n of them.                                                    *)
TopLines(n) == [k \in 1..n |-> TopLine(k)]

(* What Min chooses of two numbers.                                        *)
LEMMA SmallerOf ==
  ASSUME NEW a \in Nat, NEW b \in Nat
  PROVE  Min({a, b}) = IF a <= b THEN a ELSE b
<1>1. {a, b} \subseteq Nat /\ {a, b} # {}
  OBVIOUS
<1>2. Min({a, b}) \in {a, b} /\ \A k \in {a, b} : Min({a, b}) <= k
  BY <1>1, LeastOf
<1>3. QED
  BY <1>2

(* Zipped again for the report, the sorted columns are complete.           *)
LEMMA ReportColumnsComplete ==
  ASSUME heap \in Heaps, RowsRight(files.rows), RowsWhole(files.rows)
  PROVE  LET R == ReportColumns(files.rows)
         IN  /\ Complete(R, Len(heap.ids)) /\ Len(R) = 6
             /\ \A k \in 1..Len(heap.ids) : \A c \in 1..6 : R[c][k] = RowLine(Ranked(k))[c]
<1> DEFINE R == ReportColumns(files.rows)
           n == Len(heap.ids)
<1>1. /\ AreColumns(R) /\ Len(R) = 6
      /\ \A c \in 1..6 : ReportedColumns[c] \in 1..7 /\ R[c] = files.rows[ReportedColumns[c]]
  BY ReportColumnsLaws
<1> HIDE DEF R
<1>2. n \in Nat
  BY RankedRows
<1>3. \A c \in 1..6 : Len(R[c]) = n
  BY <1>1 DEF RowsWhole
<1>4. Complete(R, n)
  <2>1. 1 \in 1..6
    OBVIOUS
  <2>2. QED
    BY <1>1, <1>2, <1>3, <2>1 DEF Complete
<1>5. ASSUME NEW k \in 1..n, NEW c \in 1..6 PROVE R[c][k] = RowLine(Ranked(k))[c]
  <2>1. R[c][k] = Cell(Ranked(k), ReportedColumns[c])
    BY <1>1 DEF RowsWhole
  <2>2. RowLineLaw(Ranked(k))
    BY RowLineCells
  <2>3. QED
    BY <2>1, <2>2 DEF RowLineLaw
<1>6. QED
  BY <1>1, <1>4, <1>5 DEF R

(* Lines on all rows, in their order.                                      *)
RowLinesIn(lines) ==
  /\ IsStream(lines) /\ Len(lines) = Len(heap.ids)
  /\ \A k \in 1..Len(heap.ids) : lines[k] = RowLine(Ranked(k))

(* The rows of the report, before names are pasted to them.                *)
LEMMA AllLines ==
  ASSUME heap \in Heaps, RowsRight(files.rows), RowsWhole(files.rows),
         NEW zipped, zipped = ZippedWords(ReportColumns(files.rows))
  PROVE  /\ ~ ZipFails(ReportColumns(files.rows)) /\ IsStream(zipped)
         /\ RowLinesIn(FullRows(zipped, 6) \o PartOfRow(zipped, 6))
<1> DEFINE R == ReportColumns(files.rows)
           n == Len(heap.ids)
           lines == FullRows(zipped, 6)
           all == lines \o << >>
<1>1. /\ Complete(R, n) /\ Len(R) = 6
      /\ \A k \in 1..n : \A c \in 1..6 : R[c][k] = RowLine(Ranked(k))[c]
  BY ReportColumnsComplete
<1> HIDE DEF R
<1>2. /\ ~ ZipFails(R) /\ IsStream(zipped) /\ RowsOf(lines, R, n)
      /\ PartOfRow(zipped, 6) = << >>
  BY <1>1, CompleteZipped DEF R
<1>3. n \in Nat
  BY RankedRows
<1> HIDE DEF lines, n
<1>4. ASSUME NEW k \in 1..n PROVE lines[k] = RowLine(Ranked(k))
  <2> DEFINE l == RowLine(Ranked(k))
  <2>1. IsStream(lines[k]) /\ Len(lines[k]) = 6 /\ \A c \in 1..6 : lines[k][c] = R[c][k]
    BY <1>1, <1>2 DEF RowsOf
  <2>2. l = [c \in 1..6 |-> l[c]]
    BY RowLineCells DEF RowLineLaw
  <2>3. \A c \in 1..6 : R[c][k] = l[c]
    BY <1>1
  <2> HIDE DEF l
  <2>4. IsStream(l) /\ Len(l) = 6
    <3>1. 6 \in Nat
      OBVIOUS
    <3>2. QED
      BY <2>2, <3>1, StreamMade
  <2>5. lines[k] = l
    BY <2>1, <2>3, <2>4, SameStream
  <2>6. QED
    BY <2>5 DEF l
<1>5. IsStream(lines) /\ Len(lines) = n
  BY <1>2 DEF RowsOf
<1>6. /\ IsStream(all) /\ Len(all) = n + 0
      /\ \A i \in 1..n : all[i] = lines[i]
  BY <1>5, NoStream, StreamJoin
<1> HIDE DEF all
<1>7. RowLinesIn(all)
  BY <1>3, <1>4, <1>6 DEF RowLinesIn, n
<1>8. QED
  BY <1>2, <1>7 DEF R, lines, all

(* What paste makes of them and of all names.                              *)
LEMMA AllPasted ==
  ASSUME heap \in Heaps, RowsWhole(files.rows), NamesRight(files.names, files.rows),
         Len(files.names) = Len(heap.ids), NEW lines, RowLinesIn(lines),
         NEW out, PastedFrom(out, lines, files.names)
  PROVE  /\ IsStream(out) /\ Len(out) = Len(heap.ids)
         /\ \A k \in 1..Len(heap.ids) : out[k] = TopLine(k)
<1> DEFINE n == Len(heap.ids)
           names == files.names
<1>1. IsStream(lines) /\ Len(lines) = n /\ \A k \in 1..n : lines[k] = RowLine(Ranked(k))
  BY DEF RowLinesIn
<1>2. IsStream(names) /\ Len(names) = n /\ n \in Nat
  BY RankedRows DEF NamesRight
<1>3. PastedFrom(out, lines, names)
  OBVIOUS
<1>4. /\ IsStream(out) /\ Len(out) = n
      /\ \A k \in 1..n : out[k] = Line(lines[k], names[k])
  <2> HIDE DEF n, names
  <2>1. IsStream(out) /\ Len(out) = n
    BY <1>1, <1>2, <1>3 DEF PastedFrom
  <2>2. ASSUME NEW k \in 1..n PROVE out[k] = Line(lines[k], names[k])
    <3>1. k \in 1..Len(out) /\ k <= Len(lines) /\ k <= Len(names)
      BY <1>1, <1>2, <2>1
    <3>2. out[k] = Line(IF k <= Len(lines) THEN lines[k] ELSE << >>,
                        IF k <= Len(names) THEN names[k] ELSE NoName)
      BY <1>3, <3>1 DEF PastedFrom
    <3>3. QED
      BY <3>1, <3>2
  <2>3. QED
    BY <2>1, <2>2
<1>5. ASSUME NEW k \in 1..n PROVE names[k] = RowName(Ranked(k))
  <2>1. names[k] = NT!NameOf(heap.tables, files.rows[6][k])
    BY <1>2 DEF NamesRight
  <2>2. 6 \in 1..7
    OBVIOUS
  <2>3. files.rows[6][k] = Cell(Ranked(k), 6)
    BY <2>2 DEF RowsWhole
  <2>4. Cell(Ranked(k), 6) = heap.classOf[Ranked(k)]
    BY DEF Cell, HeapColumns
  <2>5. QED
    BY <2>1, <2>3, <2>4 DEF RowName
<1>6. QED
  BY <1>1, <1>4, <1>5 DEF TopLine

(* The fourth pipeline, if nothing is killed, reports the first rows in    *)
(* full (fhat.sh:84).                                                      *)
LEMMA AllReported ==
  ASSUME Flow, heap \in Heaps, pv, RowsRight(files.rows), RowsWhole(files.rows),
         NamesRight(files.names, files.rows), Len(files.names) = Len(heap.ids),
         programs = ReportPrograms, Orderly(Final), Gone(Final)
  PROVE  written[Final] = TopLines(Min({MaxRows, Len(heap.ids)}))
<1> DEFINE R == ReportColumns(files.rows)
           zipped == ZippedWords(R)
           lines == FullRows(zipped, 6) \o PartOfRow(zipped, 6)
           pasted == PastedLines(lines, files.names, TRUE)
           full == <<zipped, zipped, lines, pasted, pasted>>
           n == Len(heap.ids)
<1>1. ~ ZipFails(R) /\ IsStream(zipped) /\ RowLinesIn(lines)
  BY AllLines
<1>2. IsStream(pasted) /\ Len(pasted) = n /\ \A k \in 1..n : pasted[k] = TopLine(k)
  <2> DEFINE eof == TRUE
  <2>1. pasted = PastedLines(lines, files.names, eof)
    OBVIOUS
  <2>2. IsStream(lines) /\ IsStream(files.names)
    BY <1>1 DEF RowLinesIn, NamesRight
  <2> HIDE DEF lines, pasted, eof
  <2>3. PastedFrom(PastedLines(lines, files.names, eof), lines, files.names)
    BY <2>2, PastedLaws
  <2>4. PastedFrom(pasted, lines, files.names)
    BY <2>1, <2>3
  <2>5. QED
    BY <1>1, <2>4, AllPasted
<1>3. /\ full[1] = zipped /\ full[2] = zipped /\ full[3] = lines
      /\ full[4] = pasted /\ full[5] = pasted
  OBVIOUS
<1>4. /\ WholeInput(full, 1) = << >> /\ WholeInput(full, 2) = zipped
      /\ WholeInput(full, 3) = zipped /\ WholeInput(full, 4) = lines
      /\ WholeInput(full, 5) = pasted
  BY <1>3 DEF WholeInput
<1>5. /\ zipped = ZippedWords(R) /\ lines = FullRows(zipped, 6) \o PartOfRow(zipped, 6)
      /\ pasted = PastedLines(lines, files.names, TRUE)
  OBVIOUS
<1> HIDE DEF R, zipped, lines, pasted, full, n
<1>6. /\ Stages = 1..5 /\ Final = 5
      /\ programs[1].does = "zip" /\ programs[1].columns = R
      /\ programs[2].does = "copy"
      /\ programs[3].does = "rows" /\ programs[3].width = 6
      /\ programs[4].does = "paste" /\ programs[4].lines = files.names
      /\ programs[5].does = "head" /\ programs[5].count = MaxRows
  BY ReportProgramsAre DEF Pv, Copy, R
<1>7. IsStream(lines)
  BY <1>1 DEF RowLinesIn
<1>8. OutputOf(full, 5, 1)
  <2>1. Results(programs[1], << >>, TRUE) = zipped
    <3>1. programs[1].does = "zip"
      BY <1>6
    <3>2. Results(programs[1], << >>, TRUE) = ZippedWords(programs[1].columns)
      BY <3>1, ResultCases, Zenon
    <3>3. QED
      BY <1>5, <1>6, <3>2
  <2>2. Harmless(programs[1], << >>)
    BY <1>1, <1>6, MostAreHarmless
  <2>3. programs[1].does \notin {"sort", "unzip", "head"}
    BY <1>6
  <2>4. QED
    BY <1>1, <1>3, <1>4, <2>1, <2>2, <2>3, NoStream DEF OutputOf
<1>9. OutputOf(full, 5, 2)
  <2>1. Results(programs[2], zipped, TRUE) = zipped
    <3>1. programs[2].does \in {"copy", "unzip", "head"}
      BY <1>6
    <3>2. QED
      BY <3>1, ResultCases, Zenon
  <2>2. Harmless(programs[2], zipped)
    BY <1>6, MostAreHarmless
  <2>3. programs[2].does \notin {"sort", "unzip", "head"}
    BY <1>6
  <2>4. QED
    BY <1>1, <1>3, <1>4, <2>1, <2>2, <2>3 DEF OutputOf
<1>10. OutputOf(full, 5, 3)
  <2>1. Results(programs[3], zipped, TRUE) = lines
    <3> DEFINE program == programs[3]
               eof == TRUE
    <3>1. program.does = "rows" /\ eof
      BY <1>6
    <3> HIDE DEF program, eof
    <3>2. Results(program, zipped, eof)
            = FullRows(zipped, program.width) \o PartOfRow(zipped, program.width)
      BY <3>1, ResultCases, Zenon
    <3>3. Results(program, zipped, eof) = lines
      BY <1>5, <1>6, <3>2 DEF program
    <3>4. QED
      BY <3>3 DEF program, eof
  <2>2. Harmless(programs[3], zipped)
    BY <1>6, MostAreHarmless
  <2>3. programs[3].does \notin {"sort", "unzip", "head"}
    BY <1>6
  <2>4. QED
    BY <1>1, <1>3, <1>4, <1>7, <2>1, <2>2, <2>3 DEF OutputOf
<1>11. OutputOf(full, 5, 4)
  <2>1. Results(programs[4], lines, TRUE) = pasted
    <3> DEFINE program == programs[4]
               eof == TRUE
    <3>1. program.does = "paste"
      BY <1>6
    <3> HIDE DEF program, eof
    <3>2. Results(program, lines, eof) = PastedLines(lines, program.lines, eof)
      BY <3>1, ResultCases, Zenon
    <3>3. QED
      BY <1>5, <1>6, <3>2 DEF program, eof
  <2>2. Harmless(programs[4], lines)
    BY <1>6, MostAreHarmless
  <2>3. programs[4].does \notin {"sort", "unzip", "head"}
    BY <1>6
  <2>4. QED
    BY <1>2, <1>3, <1>4, <1>7, <2>1, <2>2, <2>3 DEF OutputOf
<1>12. OutputOf(full, 5, 5)
  <2>1. Results(programs[5], pasted, TRUE) = pasted
    <3>1. programs[5].does \in {"copy", "unzip", "head"}
      BY <1>6
    <3>2. QED
      BY <3>1, ResultCases, Zenon
  <2>2. Harmless(programs[5], pasted)
    BY <1>6, MostAreHarmless
  <2>3. programs[5].does # "sort" /\ ~ 5 < 5
    BY <1>6
  <2>4. QED
    BY <1>2, <1>3, <1>4, <2>1, <2>2, <2>3 DEF OutputOf
<1>13. Outputs(full, 5)
  <2>1. \A q \in 1..5 : q = 1 \/ q = 2 \/ q = 3 \/ q = 4 \/ q = 5
    OBVIOUS
  <2>2. ToFile(5) /\ 5 \in Stages
    BY <1>6 DEF ToFile
  <2>3. QED
    BY <1>8, <1>9, <1>10, <1>11, <1>12, <2>1, <2>2 DEF Outputs
<1>14. Delivered(full, 5)
  BY <1>6, <1>13, AllDelivered
<1> DEFINE out == written[5]
           m == Min({MaxRows, n})
<1>15. /\ Begins(out, pasted) /\ Len(out) <= MaxRows
       /\ out = pasted \/ Len(out) >= MaxRows
  BY <1>3, <1>6, <1>14 DEF Delivered
<1>16. MaxRows \in Nat /\ n \in Nat
  BY HeapsAssumption, RankedRows DEF n
<1>17. /\ IsStream(out) /\ Len(out) \in Nat /\ Len(out) <= n
       /\ \A k \in 1..Len(out) : out[k] = pasted[k]
  BY <1>2, <1>15, StreamLaws DEF Begins
<1> HIDE DEF out
<1>18. Len(out) = m
  <2>1. m = IF MaxRows <= n THEN MaxRows ELSE n
    BY <1>16, SmallerOf
  <2>2. CASE out = pasted
    BY <1>2, <1>15, <1>16, <2>1, <2>2
  <2>3. CASE Len(out) >= MaxRows
    BY <1>15, <1>16, <1>17, <2>1, <2>3
  <2>4. QED
    BY <1>15, <2>2, <2>3
<1> HIDE DEF m
<1>19. \A k \in 1..m : out[k] = TopLine(k)
  BY <1>2, <1>16, <1>17, <1>18
<1>20. m \in Nat
  BY <1>17, <1>18
<1>21. IsStream(TopLines(m)) /\ Len(TopLines(m)) = m /\ \A k \in 1..m : TopLines(m)[k] = TopLine(k)
  <2> DEFINE top == TopLines(m)
  <2>1. top = [k \in 1..m |-> top[k]] /\ \A k \in 1..m : top[k] = TopLine(k)
    BY DEF TopLines
  <2> HIDE DEF top
  <2>2. IsStream(top) /\ Len(top) = m
    BY <1>20, <2>1, StreamMade
  <2>3. QED
    BY <2>1, <2>2 DEF top
<1>22. out = TopLines(m)
  BY <1>17, <1>18, <1>19, <1>21, SameStream
<1>23. QED
  BY <1>6, <1>22 DEF out, m, n

------------------------------------------------------------------------------
(* Without pv *)

(* Nothing comes of nothing.                                               *)
LEMMA NothingComesIn ==
  ASSUME Flow, NEW p \in Stages, p > 1, programs[p - 1].does # "unzip",
         Len(written[p - 1]) = 0
  PROVE  Input(p) = << >>
<1>1. Begins(Input(p), written[p - 1])
  BY Passed
<1>2. IsStream(Input(p)) /\ Len(Input(p)) \in Nat /\ Len(Input(p)) <= 0
  BY <1>1, StreamLaws DEF Begins
<1>3. Len(Input(p)) = 0
  BY <1>2
<1>4. QED
  BY <1>2, <1>3, NoStream, SameStream

(* A program whose result is nothing has written nothing.                  *)
LEMMA NothingGoesOut ==
  ASSUME Flow, NEW p \in Stages, Len(Result(p)) = 0
  PROVE  Len(written[p]) = 0
<1>1. Begins(written[p], Result(p))
  BY DEF Flow, FlowWritten
<1>2. QED
  BY <1>1, StreamLaws DEF Begins

(* Where pv is not installed, nothing comes out of its place in the pipe.  *)
LEMMA NothingWithoutPv ==
  ASSUME Flow, 2 \in Stages, programs[2] = Pv, ~ pv
  PROVE  Len(written[2]) = 0
<1>1. programs[2].does = "absent"
  BY DEF Pv, Absent
<1>2. Result(2) = << >>
  BY <1>1, ResultCases DEF Result
<1>3. QED
  BY <1>2, NoStream, NothingGoesOut

(* Nothing is cut into no rows.                                            *)
LEMMA NoRows ==
  ASSUME NEW w \in Nat \ {0}
  PROVE  /\ IsStream(FullRows(<< >>, w)) /\ Len(FullRows(<< >>, w)) = 0
         /\ PartOfRow(<< >>, w) = << >>
<1>1. IsStream(<< >>) /\ Len(<< >>) = 0 * w /\ 0 \in Nat /\ Len(<< >>) = 0
  BY NoStream
<1>2. 0 * w \in Nat /\ (0 * w) \div w = 0
  BY <1>1, CutEvenly
<1>3. CutFrom(FullRows(<< >>, w), << >>, w)
  BY <1>1, FullRowsLaws
<1>4. IsStream(FullRows(<< >>, w)) /\ Len(FullRows(<< >>, w)) = 0
  BY <1>1, <1>2, <1>3 DEF CutFrom
<1>5. PartOfRow(<< >>, w) = << >>
  <2>1. (Len(<< >>) \div w) * w = Len(<< >>)
    BY <1>1, <1>2
  <2>2. QED
    BY <2>1 DEF PartOfRow
<1>6. QED
  BY <1>4, <1>5

(* Without pv nothing is sorted (fhat.sh:75).                              *)
LEMMA NothingSorted ==
  ASSUME Flow, ~ pv, programs = RowPrograms
  PROVE  \A c \in 1..7 : Len(UnzippedWords(written[4], 7, c)) = 0
<1>1. /\ 2 \in Stages /\ 3 \in Stages /\ 4 \in Stages
      /\ 3 > 1 /\ 4 > 1 /\ 3 - 1 = 2 /\ 4 - 1 = 3
      /\ programs[3].does = "sort" /\ programs[3].width = 7
      /\ programs[4].does \in {"copy", "unzip", "head"}
      /\ programs[2] = Pv /\ programs[2].does # "unzip"
  BY SortedPrograms
<1>2. Len(written[2]) = 0
  BY <1>1, NothingWithoutPv
<1>3. Input(3) = << >>
  BY <1>1, <1>2, NothingComesIn
<1> DEFINE none == << >>
           rows == FullRows(none, 7)
           out == FlattenSeq(SortedRows(rows))
<1>4. Len(out) = 0
  <2>1. 7 \in Nat \ {0} /\ IsStream(none) /\ Numbers(none)
    BY NoStream DEF Numbers
  <2>2. SortedInto(SortedRows(rows), out, rows, 7)
    BY <2>1, SortedWords
  <2>3. Len(rows) = 0
    BY <2>1, NoRows
  <2> DEFINE sorted == SortedRows(rows)
  <2>4. /\ Len(sorted) \in Nat /\ Len(out) = Len(sorted) * 7
        /\ \A k \in 1..Len(sorted) : \E i \in 1..Len(rows) : sorted[k] = rows[i]
    <3> HIDE DEF sorted, out, rows
    <3>1. SortedInto(sorted, out, rows, 7)
      BY <2>2 DEF sorted
    <3>2. QED
      BY <3>1, Zenon DEF SortedInto
  <2> HIDE DEF sorted, out, rows
  <2>5. Len(sorted) = 0
    BY <2>3, <2>4
  <2>6. QED
    BY <2>4, <2>5
<1>5. Len(Result(3)) = 0
  <2>1. CASE AtEof(3)
    <3>1. Result(3) = FlattenSeq(SortedRows(FullRows(Input(3), 7)))
      BY <1>1, <2>1, ResultCases DEF Result
    <3>2. QED
      BY <1>3, <1>4, <3>1
  <2>2. CASE ~ AtEof(3)
    <3>1. Result(3) = << >>
      BY <1>1, <2>2, ResultCases DEF Result
    <3>2. QED
      BY <3>1, NoStream
  <2>3. QED
    BY <2>1, <2>2
<1>6. Len(written[3]) = 0
  BY <1>1, <1>5, NothingGoesOut
<1>7. Len(written[4]) = 0 /\ IsStream(written[4])
  <2>1. Begins(written[4], written[4 - 1])
    BY <1>1, Copied
  <2>2. QED
    BY <1>1, <1>6, <2>1, StreamLaws DEF Begins
<1>8. ASSUME NEW c \in 1..7 PROVE Len(UnzippedWords(written[4], 7, c)) = 0
  <2>1. Len(UnzippedWords(written[4], 7, c)) = (0 - c + 7) \div 7
    BY <1>7, UnzippedLaws
  <2>2. (0 - c + 7) \div 7 = 0
    OBVIOUS
  <2>3. QED
    BY <2>1, <2>2
<1>9. QED
  BY <1>8

(* There are no names without rows.                                        *)
LEMMA NothingNamed ==
  ASSUME NEW names, NEW rows, NamesRight(names, rows), Len(rows[6]) = 0
  PROVE  Len(names) = 0
<1>1. IsStream(names) /\ \A k \in 1..Len(names) : k \in 1..Len(rows[6])
  BY DEF NamesRight
<1>2. Len(names) \in Nat
  BY <1>1, StreamLaws
<1>3. QED
  BY <1>1, <1>2

(* Nor is anything reported (fhat.sh:84).                                  *)
LEMMA NothingReported ==
  ASSUME Flow, ~ pv, programs = ReportPrograms, IsStream(files.names), Len(files.names) = 0
  PROVE  written[Final] = << >>
<1>1. /\ 2 \in Stages /\ 3 \in Stages /\ 4 \in Stages /\ 5 \in Stages /\ Final = 5
      /\ 3 > 1 /\ 4 > 1 /\ 5 > 1 /\ 3 - 1 = 2 /\ 4 - 1 = 3 /\ 5 - 1 = 4
      /\ programs[3].does = "rows" /\ programs[3].width = 6
      /\ programs[4].does = "paste" /\ programs[4].lines = files.names
      /\ programs[5].does \in {"copy", "unzip", "head"}
      /\ programs[2] = Pv /\ programs[2].does # "unzip"
  BY ReportProgramsAre
<1>2. Len(written[2]) = 0
  BY <1>1, NothingWithoutPv
<1>3. Input(3) = << >>
  BY <1>1, <1>2, NothingComesIn
<1>4. Len(Result(3)) = 0
  <2>1. /\ IsStream(FullRows(<< >>, 6)) /\ Len(FullRows(<< >>, 6)) = 0
        /\ PartOfRow(<< >>, 6) = << >>
    <3>1. 6 \in Nat \ {0}
      OBVIOUS
    <3>2. QED
      BY <3>1, NoRows
  <2>2. Len(FullRows(<< >>, 6) \o << >>) = 0 + 0
    BY <2>1, NoStream, StreamJoin
  <2>3. Result(3) = FullRows(<< >>, 6) \o << >>
    <3>1. CASE AtEof(3)
      <4> DEFINE program == programs[3]
                 in == Input(3)
                 eof == AtEof(3)
      <4>1. program.does = "rows" /\ eof
        BY <1>1, <3>1
      <4> HIDE DEF program, in, eof
      <4>2. Results(program, in, eof) = FullRows(in, program.width) \o PartOfRow(in, program.width)
        BY <4>1, ResultCases, Zenon
      <4>3. Result(3) = Results(program, in, eof)
        BY DEF Result, program, in, eof
      <4>4. in = << >> /\ program.width = 6
        BY <1>1, <1>3 DEF in, program
      <4>5. QED
        BY <2>1, <4>2, <4>3, <4>4
    <3>2. CASE ~ AtEof(3)
      BY <1>1, <1>3, <3>2, ResultCases DEF Result
    <3>3. QED
      BY <3>1, <3>2
  <2>4. QED
    BY <2>2, <2>3
<1>5. Len(written[3]) = 0
  BY <1>1, <1>4, NothingGoesOut
<1>6. Input(4) = << >>
  BY <1>1, <1>5, NothingComesIn
<1>7. Len(Result(4)) = 0
  <2> DEFINE program == programs[4]
             in == Input(4)
             eof == AtEof(4)
             names == files.names
  <2>1. program.does = "paste" /\ program.lines = names /\ IsStream(names) /\ Len(names) = 0
    BY <1>1
  <2>2. Result(4) = Results(program, in, eof)
    BY DEF Result
  <2>3. IsStream(in) /\ Len(in) = 0
    BY <1>6, NoStream
  <2> HIDE DEF program, in, eof, names
  <2>4. Results(program, in, eof) = PastedLines(in, names, eof)
    BY <2>1, ResultCases, Zenon
  <2>5. PastedFrom(PastedLines(in, names, eof), in, names)
    BY <2>1, <2>3, PastedLaws
  <2>6. Len(PastedLines(in, names, eof)) = 0
    BY <2>1, <2>3, <2>5 DEF PastedFrom
  <2>7. QED
    BY <2>2, <2>4, <2>6
<1>8. Len(written[4]) = 0
  BY <1>1, <1>7, NothingGoesOut
<1>9. IsStream(written[5]) /\ Len(written[5]) = 0
  <2>1. programs[4].does # "unzip"
    BY <1>1
  <2>2. Begins(written[5], written[5 - 1])
    BY <1>1, <2>1, Copied
  <2>3. QED
    BY <1>1, <1>8, <2>2, StreamLaws DEF Begins
<1>10. QED
  BY <1>1, <1>9, NoStream, SameStream

------------------------------------------------------------------------------
(* The script, if nothing is killed *)

(* The program of the pipeline that runs whose output the script goes on   *)
(* with.                                                                   *)
LastOne == IF command = "rows" THEN 4 ELSE Final

(* The pipeline that runs is orderly up to that program.                   *)
OrderlyNow == \A last : last = LastOne => Orderly(last)

(* Without pv there is nothing in the files behind it.                     *)
NothingFound ==
  ~ pv => /\ command \in {"names", "report"} => Len(files.rows[6]) = 0
          /\ command = "report" => Len(files.names) = 0
          /\ command = "done" => files.report = << >>

(* With it the files are complete.                                         *)
FilesWhole ==
  pv => /\ command = "rows" => Len(files.dominators) = Len(heap.dominators)
        /\ command \in {"names", "report"} => RowsWhole(files.rows)
        /\ ClassesKnown =>
             /\ command = "report" => Len(files.names) = Len(heap.ids)
             /\ command = "done" => files.report = TopLines(Min({MaxRows, Len(heap.ids)}))

(* As long as nothing is killed, the pipelines lose nothing.               *)
NothingKilled ==
  kills = 0 => /\ command \notin {"done", "stopped"} => OrderlyNow
               /\ FilesWhole

(* The invariant, beside ReportInv, for what the report is.                *)
TopInv == kills \in Nat /\ HeadReads /\ NothingFound /\ NothingKilled

(* A pipeline that starts is orderly, to any of its programs.              *)
LEMMA OrderlyBegins == FlowBegins => HeadReads /\ OrderlyNow
BY StartIsOrderly DEF OrderlyNow

LEMMA OrderlyBeginsNext == FlowBegins' => HeadReads' /\ OrderlyNow'
BY OrderlyBegins, PTL

(* Ranks depend on the heap only.                                          *)
LEMMA SameRanks ==
  ASSUME heap' = heap
  PROVE  /\ ClassesKnown' <=> ClassesKnown
         /\ \A rows : RowsWhole(rows)' <=> RowsWhole(rows)
         /\ \A n : TopLines(n)' = TopLines(n)
<1>1. HeapRows' = HeapRows /\ \A row, c : Cell(row, c)' = Cell(row, c)
  BY DEF HeapRows, Cell, HeapColumns
<1>2. \A row : RowLine(row)' = RowLine(row) /\ RowName(row)' = RowName(row)
  BY DEF RowLine, RowName
<1>3. \A row : Key(row)' = Key(row)
  BY <1>2 DEF Key
<1>4. \A row : Above(row)' = Above(row)
  BY <1>1, <1>3 DEF Above
<1>5. \A k : Ranked(k)' = Ranked(k)
  BY <1>1, <1>4 DEF Ranked
<1>6. ClassesKnown' <=> ClassesKnown
  BY <1>1 DEF ClassesKnown
<1>7. \A rows : RowsWhole(rows)' <=> RowsWhole(rows)
  BY <1>1, <1>5 DEF RowsWhole
<1>8. \A k : TopLine(k)' = TopLine(k)
  BY <1>2, <1>5 DEF TopLine
<1>9. \A n : TopLines(n)' = TopLines(n)
  BY <1>8 DEF TopLines
<1>10. QED
  BY <1>6, <1>7, <1>9

(* The next pipeline starts in order.                                      *)
LEMMA NextBegins ==
  ASSUME ReportInv', command' \in {"rows", "names", "report"},
         Started(programs', read', written', status')
  PROVE  HeadReads' /\ OrderlyNow'
<1>1. ScriptTypes' /\ FilesRight' /\ Running'
  BY DEF ReportInv
<1>2. PipelinesOK'
  BY <1>1, PipelinesAreNext
<1>3. FlowBegins'
  BY <1>1, <1>2 DEF FlowBegins, PipelinesOK, Running
<1>4. QED
  BY <1>3, OrderlyBeginsNext

LEMMA OverIsGone ==
  ASSUME Flow, Over
  PROVE  Gone(Final) /\ \A p \in Stages : Gone(p)
<1>1. Final \in Stages
  BY StagesAre DEF Flow
<1>2. QED
  BY <1>1 DEF Over

(* What each step of the script takes over is whole, if nothing is killed. *)
LEMMA SortTheRowsWhole ==
  ASSUME ReportInv, TopInv, SortTheRows, ReportInv'
  PROVE  TopInv'
<1>1. ScriptTypes /\ FilesRight /\ Running /\ Flow
  BY DEF ReportInv
<1>2. /\ command = "dominators" /\ programs = DominatorPrograms /\ heap \in Heaps /\ Over
      /\ files' = [files EXCEPT !.dominators = written[Final]] /\ command' = "rows"
      /\ heap' = heap /\ pv' = pv /\ kills' = kills
      /\ Started(programs', read', written', status')
  BY <1>1 DEF SortTheRows, Finished, Run, Running, ScriptTypes, inputs
<1>3. HeadReads' /\ OrderlyNow'
  BY <1>2, NextBegins
<1>4. ASSUME kills = 0, pv PROVE Len(written[Final]) = Len(heap.dominators)
  <2>1. Orderly(Final)
    BY <1>2, <1>4 DEF TopInv, NothingKilled, OrderlyNow, LastOne
  <2>2. QED
    BY <1>1, <1>2, <2>1, OverIsGone, EveryDominator
<1>5. files'.dominators = written[Final]
  BY <1>1, <1>2 DEF FilesRight
<1>6. kills = 0 => FilesWhole'
  BY <1>2, <1>4, <1>5 DEF FilesWhole
<1>7. NothingFound'
  BY <1>2 DEF NothingFound
<1>8. QED
  BY <1>2, <1>3, <1>6, <1>7 DEF TopInv, NothingKilled

LEMMA NameTheRowsWhole ==
  ASSUME ReportInv, TopInv, NameTheRows, ReportInv'
  PROVE  TopInv'
<1> DEFINE r == [c \in 1..7 |-> UnzippedWords(written[4], 7, c)]
<1>1. ScriptTypes /\ FilesRight /\ Running /\ Flow
  BY DEF ReportInv
<1>2. /\ command = "rows" /\ programs = RowPrograms /\ heap \in Heaps /\ Over
      /\ files' = [files EXCEPT !.rows = r] /\ command' = "names"
      /\ heap' = heap /\ pv' = pv /\ kills' = kills
      /\ Started(programs', read', written', status')
  BY <1>1 DEF NameTheRows, Finished, Run, Running, ScriptTypes, inputs
<1>3. HeadReads' /\ OrderlyNow'
  BY <1>2, NextBegins
<1>4. ASSUME kills = 0, pv PROVE RowsWhole(r)
  <2>1. Orderly(4)
    BY <1>2, <1>4 DEF TopInv, NothingKilled, OrderlyNow, LastOne
  <2>2. Gone(4)
    BY <1>1, <1>2, OverIsGone, SortedPrograms
  <2>3. Len(files.dominators) = Len(heap.dominators)
    BY <1>2, <1>4 DEF TopInv, NothingKilled, FilesWhole
  <2>4. DominatorsRight(files.dominators)
    BY <1>1 DEF FilesRight
  <2>5. QED
    BY <1>1, <1>2, <1>4, <2>1, <2>2, <2>3, <2>4, AllRows
<1>5. ~ pv => Len(r[6]) = 0
  BY <1>1, <1>2, NothingSorted
<1> HIDE DEF r
<1>6. files'.rows = r
  BY <1>1, <1>2 DEF FilesRight
<1>7. kills = 0 /\ pv => RowsWhole(files.rows)'
  <2> DEFINE rows == files.rows
  <2>1. \A s : RowsWhole(s)' <=> RowsWhole(s)
    BY <1>2, SameRanks
  <2>2. kills = 0 /\ pv => RowsWhole(rows')
    BY <1>4, <1>6
  <2>3. QED
    BY <2>1, <2>2
<1>8. kills = 0 => FilesWhole'
  BY <1>2, <1>7 DEF FilesWhole
<1>9. NothingFound'
  BY <1>2, <1>5, <1>6 DEF NothingFound
<1>10. QED
  BY <1>2, <1>3, <1>8, <1>9 DEF TopInv, NothingKilled

LEMMA WriteReportWhole ==
  ASSUME ReportInv, TopInv, WriteReport, ReportInv'
  PROVE  TopInv'
<1>1. ScriptTypes /\ FilesRight /\ Running /\ Flow
  BY DEF ReportInv
<1>2. /\ command = "names" /\ programs = NamePrograms /\ heap \in Heaps /\ Over
      /\ files' = [files EXCEPT !.names = written[Final]] /\ command' = "report"
      /\ heap' = heap /\ pv' = pv /\ kills' = kills
      /\ Started(programs', read', written', status')
  BY <1>1 DEF WriteReport, Finished, Run, Running, ScriptTypes, inputs
<1>3. HeadReads' /\ OrderlyNow'
  BY <1>2, NextBegins
<1>4. RowsRight(files.rows) /\ NamesRight(written[Final], files.rows)
  BY <1>1, <1>2, TheNames DEF FilesRight
<1>5. ASSUME kills = 0, pv PROVE RowsWhole(files.rows)
  BY <1>2, <1>5 DEF TopInv, NothingKilled, FilesWhole
<1>6. ASSUME kills = 0, pv, ClassesKnown PROVE Len(written[Final]) = Len(heap.ids)
  <2>1. Orderly(Final)
    BY <1>2, <1>6 DEF TopInv, NothingKilled, OrderlyNow, LastOne
  <2>2. QED
    BY <1>1, <1>2, <1>4, <1>5, <1>6, <2>1, OverIsGone, AllNames
<1>7. ~ pv => Len(files.rows[6]) = 0 /\ Len(written[Final]) = 0
  <2>1. ~ pv => Len(files.rows[6]) = 0
    BY <1>2 DEF TopInv, NothingFound
  <2>2. QED
    BY <1>4, <2>1, NothingNamed
<1>8. files'.names = written[Final] /\ files'.rows = files.rows
  BY <1>1, <1>2 DEF FilesRight
<1>9. kills = 0 => FilesWhole'
  <2>1. kills = 0 /\ pv => RowsWhole(files.rows)'
    <3> DEFINE rows == files.rows
    <3>1. kills = 0 /\ pv => RowsWhole(rows)
      BY <1>5
    <3>2. rows' = rows
      BY <1>8
    <3>3. \A s : RowsWhole(s)' <=> RowsWhole(s)
      BY <1>2, SameRanks
    <3>4. QED
      BY <3>1, <3>2, <3>3
  <2>2. kills = 0 /\ pv /\ ClassesKnown' => Len(files'.names) = Len(heap'.ids)
    BY <1>2, <1>6, <1>8, SameRanks
  <2>3. QED
    BY <1>2, <2>1, <2>2 DEF FilesWhole
<1>10. NothingFound'
  BY <1>2, <1>7, <1>8 DEF NothingFound
<1>11. QED
  BY <1>2, <1>3, <1>9, <1>10 DEF TopInv, NothingKilled

LEMMA DoneWhole ==
  ASSUME ReportInv, TopInv, Done, ReportInv'
  PROVE  TopInv'
<1>1. ScriptTypes /\ FilesRight /\ Running /\ Flow
  BY DEF ReportInv
<1>2. /\ command = "report" /\ programs = ReportPrograms /\ heap \in Heaps /\ Over
      /\ files' = [files EXCEPT !.report = written[Final]] /\ command' = "done"
      /\ heap' = heap /\ pv' = pv /\ kills' = kills
      /\ programs' = programs /\ read' = read
  BY <1>1 DEF Done, Finished, Running, ScriptTypes, inputs, pipeVars, streams
<1>3. HeadReads'
  BY <1>2 DEF TopInv, HeadReads, Stages
<1>4. /\ RowsRight(files.rows) /\ NamesRight(files.names, files.rows)
      /\ IsStream(files.names)
  BY <1>1 DEF FilesRight, NamesRight
<1>5. ASSUME kills = 0, pv, ClassesKnown
      PROVE  written[Final] = TopLines(Min({MaxRows, Len(heap.ids)}))
  <2>1. Orderly(Final)
    BY <1>2, <1>5 DEF TopInv, NothingKilled, OrderlyNow, LastOne
  <2>2. RowsWhole(files.rows) /\ Len(files.names) = Len(heap.ids)
    BY <1>2, <1>5 DEF TopInv, NothingKilled, FilesWhole
  <2>3. QED
    BY <1>1, <1>2, <1>4, <1>5, <2>1, <2>2, OverIsGone, AllReported
<1>6. ASSUME ~ pv PROVE written[Final] = << >>
  <2>1. Len(files.names) = 0
    BY <1>2, <1>6 DEF TopInv, NothingFound
  <2>2. QED
    BY <1>1, <1>2, <1>4, <1>6, <2>1, NothingReported
<1>7. files'.report = written[Final]
  BY <1>1, <1>2 DEF FilesRight
<1>8. kills = 0 => FilesWhole'
  <2> DEFINE n == Min({MaxRows, Len(heap.ids)})
  <2>1. TopLines(n)' = TopLines(n) /\ (ClassesKnown' <=> ClassesKnown)
    <3>1. n' = n
      BY <1>2 DEF Min
    <3>2. \A m : TopLines(m)' = TopLines(m)
      BY <1>2, SameRanks
    <3>3. QED
      BY <1>2, <3>1, <3>2, SameRanks
  <2>2. kills = 0 /\ pv /\ ClassesKnown' => files'.report = TopLines(n)'
    BY <1>5, <1>7, <2>1
  <2>3. QED
    BY <1>2, <2>2 DEF FilesWhole
<1>9. NothingFound'
  BY <1>2, <1>6, <1>7 DEF NothingFound
<1>10. QED
  BY <1>2, <1>3, <1>8, <1>9 DEF TopInv, NothingKilled

(* A script that has stopped promises nothing.                             *)
LEMMA StopWhole ==
  ASSUME ReportInv, TopInv, StopScript
  PROVE  TopInv'
<1>1. /\ command' = "stopped" /\ kills' = kills /\ programs' = programs /\ read' = read
  BY DEF StopScript, pipeVars, streams
<1>2. HeadReads'
  BY <1>1 DEF TopInv, HeadReads, Stages
<1>3. NothingFound' /\ NothingKilled'
  BY <1>1 DEF NothingFound, NothingKilled, FilesWhole
<1>4. QED
  BY <1>1, <1>2, <1>3 DEF TopInv

(* Files stay whole while nobody writes them.                              *)
LEMMA FilesStayWhole ==
  ASSUME heap' = heap, pv' = pv, files' = files, command' = command, FilesWhole
  PROVE  FilesWhole'
<1> DEFINE rows == files.rows
           n == Min({MaxRows, Len(heap.ids)})
<1>1. ClassesKnown' <=> ClassesKnown
  BY SameRanks
<1>2. RowsWhole(rows)' <=> RowsWhole(rows)
  <2>1. \A s : RowsWhole(s)' <=> RowsWhole(s)
    BY SameRanks
  <2>2. rows' = rows
    OBVIOUS
  <2>3. QED
    BY <2>1, <2>2
<1>3. TopLines(n)' = TopLines(n)
  <2>1. \A m : TopLines(m)' = TopLines(m)
    BY SameRanks
  <2>2. n' = n
    BY DEF Min
  <2>3. QED
    BY <2>1, <2>2
<1>4. QED
  BY <1>1, <1>2, <1>3 DEF FilesWhole

(* Order does not depend on the script.                                    *)
LEMMA SameOrder ==
  ASSUME programs' = programs, written' = written, status' = status, NEW last, Orderly(last)
  PROVE  Orderly(last)'
<1>1. Gone(last)' <=> Gone(last)
  BY DEF Gone
<1>2. Undisturbed(last)' <=> Undisturbed(last)
  BY DEF Undisturbed, Gone
<1>3. \A full : Delivered(full, last)' <=> Delivered(full, last)
  BY DEF Delivered
<1>4. \A full : Outputs(full, last)' <=> Outputs(full, last)
  BY SameOutputs
<1>5. QED
  BY <1>1, <1>2, <1>3, <1>4 DEF Orderly

(* While nothing is killed, the programs stay in order.                    *)
LEMMA RunProgramsWhole ==
  ASSUME ReportInv, TopInv, RunPrograms
  PROVE  TopInv'
<1>1. ScriptTypes /\ FilesRight /\ Running /\ Flow
  BY DEF ReportInv
<1>2. PICK p \in Stages : Step(p) \/ Kill(p)
  BY DEF RunPrograms
<1>3. heap' = heap /\ pv' = pv /\ files' = files /\ command' = command
  BY DEF RunPrograms, inputs
<1>4. programs' = programs
  BY <1>2 DEF Step, Kill, Read, Write, WriteToNobody, Fail, End
<1>5. HeadReads'
  BY <1>1, <1>2, HeadReadsKept DEF TopInv
<1>6. kills \in Nat /\ ((kills' = kills /\ Step(p)) \/ kills' = kills + 1)
  BY <1>2 DEF Step, Kill, Read, Write, WriteToNobody, Fail, End, TopInv
<1>7. NothingFound'
  BY <1>3 DEF TopInv, NothingFound
<1>8. FilesWhole => FilesWhole'
  BY <1>3, FilesStayWhole
<1>9. LastOne' = LastOne
  BY <1>3, <1>4 DEF LastOne, Final
<1>10. ASSUME OrderlyNow, Step(p) PROVE OrderlyNow'
  <2> SUFFICES ASSUME NEW last, last = LastOne' PROVE Orderly(last)'
    BY DEF OrderlyNow
  <2>1. Orderly(last)
    BY <1>9, <1>10 DEF OrderlyNow
  <2>2. QED
    BY <1>1, <1>10, <2>1, OrderIsKept DEF TopInv
<1>11. kills' \in Nat /\ (kills' = 0 => kills = 0 /\ Step(p))
  BY <1>6
<1>12. NothingKilled'
  BY <1>3, <1>8, <1>10, <1>11 DEF TopInv, NothingKilled
<1>13. QED
  BY <1>5, <1>7, <1>11, <1>12 DEF TopInv

(* TopInv holds at the start.                                              *)
LEMMA TopBegins == Init => TopInv
<1> SUFFICES ASSUME Init PROVE TopInv
  OBVIOUS
<1>1. command = "dominators" /\ kills = 0
  BY DEF Init
<1>2. ScriptTypes /\ FilesRight /\ Running
  BY ReportBegins DEF ReportInv
<1>3. FlowBegins
  BY <1>2, PipelinesAre DEF Init, FlowBegins, PipelinesOK
<1>4. HeadReads /\ OrderlyNow
  BY <1>3, OrderlyBegins
<1>5. NothingFound /\ FilesWhole
  BY <1>1 DEF NothingFound, FilesWhole
<1>6. QED
  BY <1>1, <1>4, <1>5 DEF TopInv, NothingKilled

LEMMA OrderStays ==
  ASSUME UNCHANGED vars, TopInv
  PROVE  TopInv'
<1>1. /\ heap' = heap /\ pv' = pv /\ files' = files /\ command' = command /\ kills' = kills
      /\ programs' = programs /\ read' = read /\ written' = written /\ status' = status
  BY DEF vars, inputs, pipeVars, streams
<1>2. HeadReads'
  BY <1>1 DEF TopInv, HeadReads, Stages
<1>3. OrderlyNow => OrderlyNow'
  <2>1. \A last : Orderly(last) => Orderly(last)'
    BY <1>1, SameOrder
  <2>2. LastOne' = LastOne
    BY <1>1 DEF LastOne, Final
  <2>3. QED
    BY <2>1, <2>2 DEF OrderlyNow
<1>4. FilesWhole => FilesWhole'
  BY <1>1, FilesStayWhole
<1>5. NothingFound'
  BY <1>1 DEF TopInv, NothingFound
<1>6. QED
  BY <1>1, <1>2, <1>3, <1>4, <1>5 DEF TopInv, NothingKilled

(* TopInv is inductive, beside ReportInv.                                  *)
LEMMA TopInvariance == Spec => []TopInv
<1>1. ReportInv /\ ReportInv' /\ TopInv /\ [Next]_vars => TopInv'
  <2> SUFFICES ASSUME ReportInv, ReportInv', TopInv, [Next]_vars PROVE TopInv'
    OBVIOUS
  <2>1. CASE RunPrograms
    BY <2>1, RunProgramsWhole
  <2>2. CASE SortTheRows
    BY <2>2, SortTheRowsWhole
  <2>3. CASE NameTheRows
    BY <2>3, NameTheRowsWhole
  <2>4. CASE WriteReport
    BY <2>4, WriteReportWhole
  <2>5. CASE Done
    BY <2>5, DoneWhole
  <2>6. CASE StopScript
    BY <2>6, StopWhole
  <2>7. CASE UNCHANGED vars
    BY <2>7, OrderStays
  <2>8. QED
    BY <2>1, <2>2, <2>3, <2>4, <2>5, <2>6, <2>7 DEF Next, Script
<1>2. QED
  BY TopBegins, ReportInvariance, <1>1, PTL DEF Spec

(* If nothing is killed and the script ends well, its report is of the     *)
(* instances that retain most, each on a line of its own that ends with    *)
(* the offset and not the class id, or is empty where pv is missing        *)
(* (fhat.sh:75-84).                                                        *)
THEOREM ReportWritten ==
  Spec => [](command = "done" /\ kills = 0 /\ ClassesKnown =>
               files.report = TopLines(IF pv THEN HowMany ELSE 0))
<1>1. ASSUME ReportInv, TopInv, command = "done", kills = 0, ClassesKnown
      PROVE  files.report = TopLines(IF pv THEN HowMany ELSE 0)
  <2>1. heap \in Heaps /\ pv \in BOOLEAN
    BY <1>1 DEF ReportInv, ScriptTypes
  <2>2. CASE pv
    <3>1. Cardinality(HeapRows) = Len(heap.ids)
      BY <2>1, RankedRows
    <3>2. files.report = TopLines(Min({MaxRows, Len(heap.ids)}))
      BY <1>1, <2>2 DEF TopInv, NothingKilled, FilesWhole
    <3>3. QED
      BY <2>2, <3>1, <3>2 DEF HowMany
  <2>3. CASE ~ pv
    <3>1. files.report = << >>
      BY <1>1, <2>3 DEF TopInv, NothingFound
    <3>2. TopLines(0) = << >>
      BY DEF TopLines
    <3>3. QED
      BY <2>3, <3>1, <3>2
  <2>4. QED
    BY <2>1, <2>2, <2>3
<1>2. QED
  BY ReportInvariance, TopInvariance, <1>1, PTL

(* If nothing is killed, pv is there and the script ends well, the report  *)
(* is of the instances that retain most, by rank, each with the columns in *)
(* which README.markdown:47 and the script agree.                          *)
THEOREM ReportIsTopRows == Spec => []ReportsTopRows
<1>1. ASSUME heap \in Heaps,
             command = "done" /\ kills = 0 /\ ClassesKnown =>
               files.report = TopLines(IF pv THEN HowMany ELSE 0)
      PROVE  ReportsTopRows
  <2>1. HowMany \in Nat
    <3>1. Len(heap.ids) \in Nat /\ HowMany = Min({MaxRows, Len(heap.ids)})
      BY <1>1, RankedRows DEF HowMany
    <3>2. MaxRows \in Nat
      BY HeapsAssumption
    <3>3. Min({MaxRows, Len(heap.ids)}) \in Nat
      BY <3>1, <3>2, SmallerOf
    <3>4. QED
      BY <3>1, <3>3
  <2> SUFFICES ASSUME files.report = TopLines(HowMany)
               PROVE  /\ Len(files.report) = HowMany
                      /\ \A k \in 1..HowMany :
                           /\ SubSeq(files.report[k].row, 1, 5) = SubSeq(RowLine(Ranked(k)), 1, 5)
                           /\ files.report[k].name = RowName(Ranked(k))
    BY <1>1 DEF ReportsTopRows
  <2>2. Len(files.report) = HowMany
    BY <2>1 DEF TopLines
  <2>3. \A k \in 1..HowMany : files.report[k] = Line(RowLine(Ranked(k)), RowName(Ranked(k)))
    BY <2>1 DEF TopLines, TopLine
  <2>4. QED
    BY <2>2, <2>3 DEF Line
<1>2. ReportInv => heap \in Heaps
  BY DEF ReportInv, ScriptTypes
<1>3. QED
  BY ReportInvariance, ReportWritten, <1>1, <1>2, PTL

==============================================================================
