------------------------ MODULE PortableBundleProofs ------------------------
(***************************************************************************)
(* Theorems about PortableBundle and the CSV profile, for every set of     *)
(* concurrent exports, all schemas, tables, foreign bundles and limits,    *)
(* texts of any length, and any number of faults, writes and garblings.    *)
(*                                                                         *)
(* What the reader of CsvProfile computes is proved by induction over the  *)
(* text: a set of positions without a least member is empty.  SheetParsed  *)
(* says what it makes of every legal spelling of a table, FloatIsNumber    *)
(* what the scanner of decimals accepts.  The three theorems join these to *)
(* the invariants Inv and Sealing of the protocol.                         *)
(***************************************************************************)
EXTENDS PortableBundle, TLAPS, WellFoundedInduction, SequenceTheorems

-----------------------------------------------------------------------------
(* Induction over numbers, and what FlattenSeq computes.                   *)

\* A set of naturals that is not empty has a least member.
LEMMA LeastNatural ==
    ASSUME NEW T \in SUBSET Nat, T # {}
    PROVE  \E m \in T : \A k \in T : m <= k
  <1> DEFINE R == OpToRel(<, Nat)
  <1>1. \A x, y \in Nat : <<y, x>> \in R <=> y < x
    BY DEF OpToRel
  <1>2. IsWellFoundedOn(R, Nat)
    BY NatLessThanWellFounded
  <1> HIDE DEF R
  <1>3. PICK x \in T : \A y \in T : ~ (<<y, x>> \in R)
    BY <1>2, WFMin
  <1>4. \A y \in T : ~(y < x)
    BY <1>1, <1>3
  <1> QED
    BY <1>4

\* A set of naturals that has 0 and the successor of each of its members
\* up to n has all of 0 .. n.
LEMMA UpTo ==
    ASSUME NEW n \in Nat, NEW T, 0 \in T, \A k \in 0 .. n - 1 : k \in T => k + 1 \in T
    PROVE  \A k \in 0 .. n : k \in T
  <1> SUFFICES ASSUME {k \in 0 .. n : k \notin T} # {} PROVE FALSE
    OBVIOUS
  <1>1. PICK m \in {k \in 0 .. n : k \notin T} : \A k \in {j \in 0 .. n : j \notin T} : m <= k
    <2>1. {k \in 0 .. n : k \notin T} \in SUBSET Nat
      OBVIOUS
    <2> QED
      BY <2>1, LeastNatural
  <1>2. m # 0 /\ m - 1 \in 0 .. n - 1
    BY <1>1
  <1>3. m - 1 \in T
    BY <1>1, <1>2
  <1>4. (m - 1) + 1 = m
    BY <1>1
  <1> QED
    BY <1>1, <1>2, <1>3, <1>4

\* The recursive function inside FlattenSeq exists.
LEMMA FlattenDefined ==
    ASSUME NEW S, NEW ss \in Seq(Seq(S)), Len(ss) > 0
    PROVE  \E f : f = [i \in 1..Len(ss) |-> IF i = 1 THEN ss[i] ELSE f[i-1] \o ss[i]]
  <1> DEFINE Good(f, n) == f = [i \in 1..n |-> IF i = 1 THEN ss[i] ELSE f[i-1] \o ss[i]]
             T == {n \in Nat : \E f : Good(f, n)}
  <1>1. 0 \in T
    <2>1. Good([i \in 1..0 |-> 0], 0)
      OBVIOUS
    <2> QED
      BY <2>1
  <1>2. ASSUME NEW k \in Nat, k \in T
        PROVE  k + 1 \in T
    <2>1. PICK f : Good(f, k)
      BY <1>2
    <2> DEFINE g == [i \in 1..(k+1) |-> IF i <= k THEN f[i] ELSE IF i = 1 THEN ss[i] ELSE f[i-1] \o ss[i]]
    <2>2. \A i \in 1..k : f[i] = IF i = 1 THEN ss[i] ELSE f[i-1] \o ss[i]
      BY <2>1
    <2>3. ASSUME NEW i \in 1..(k+1)
          PROVE  g[i] = IF i = 1 THEN ss[i] ELSE g[i-1] \o ss[i]
      <3>1. CASE i <= k
        <4>1. g[i] = f[i] /\ (i # 1 => g[i-1] = f[i-1])
          BY <3>1
        <4> QED
          BY <4>1, <2>2, <3>1
      <3>2. CASE i = k + 1
        <4>1. i # 1 => g[i-1] = f[i-1]
          BY <3>2
        <4>2. g[i] = IF i = 1 THEN ss[i] ELSE f[i-1] \o ss[i]
          BY <3>2
        <4> QED
          BY <4>1, <4>2
      <3> QED
        BY <3>1, <3>2
    <2>4. Good(g, k + 1)
      <3>1. g = [i \in 1..(k+1) |-> g[i]]
        OBVIOUS
      <3> HIDE DEF g
      <3> QED
        BY <2>3, <3>1
    <2> HIDE DEF Good
    <2> QED
      BY <2>4
  <1> HIDE DEF T
  <1>3. Len(ss) \in Nat /\ \A k \in 0 .. Len(ss) - 1 : k \in T => k + 1 \in T
    BY <1>2
  <1>4. \A k \in 0 .. Len(ss) : k \in T
    BY ONLY <1>1, <1>3, UpTo
  <1>5. Len(ss) \in T
    BY <1>3, <1>4
  <1> QED
    BY <1>5 DEF T

\* f[i] is the concatenation of the first i parts of ss.
JoinedSoFar(f, ss, S) ==
    /\ f[0] = <<>>
    /\ \A i \in 0..Len(ss) : f[i] \in Seq(S)
    /\ \A i \in 1..Len(ss) : f[i] = f[i-1] \o ss[i]

\* FlattenSeq, prefix by prefix.
LEMMA FlattenPrefixes ==
    ASSUME NEW S, NEW ss \in Seq(Seq(S))
    PROVE  \E f : JoinedSoFar(f, ss, S) /\ f[Len(ss)] = FlattenSeq(ss)
  <1> DEFINE n == Len(ss)
             Def(f) == f = [i \in 1..n |-> IF i = 1 THEN ss[i] ELSE f[i-1] \o ss[i]]
             flat == CHOOSE f : Def(f)
             g == [i \in 0..n |-> IF i = 0 THEN <<>> ELSE flat[i]]
  <1>0. n \in Nat /\ \A i \in 1..n : ss[i] \in Seq(S)
    OBVIOUS
  <1>1. CASE n = 0
    <2>1. ss = <<>> /\ FlattenSeq(ss) = <<>>
      BY <1>1 DEF FlattenSeq
    <2>2. <<>> \in Seq(S)
      OBVIOUS
    <2>3. /\ g[0] = <<>> /\ g[n] = <<>> /\ \A i \in 0..n : g[i] = <<>>
      BY <1>1
    <2>4. \A i \in 1..n : g[i] = g[i-1] \o ss[i]
      BY <1>1
    <2> HIDE DEF g
    <2> QED
      BY <2>1, <2>2, <2>3, <2>4, <1>1 DEF JoinedSoFar
  <1>2. CASE n # 0
    <2>1. Def(flat)
      <3>1. \E f : Def(f)
        <4>1. Len(ss) > 0
          BY <1>0, <1>2
        <4> QED
          BY <4>1, FlattenDefined
      <3> QED
        BY <3>1, Zenon
    <2>2. FlattenSeq(ss) = flat[n]
      BY <1>2 DEF FlattenSeq
    <2> HIDE DEF flat
    <2>3. \A i \in 1..n : flat[i] = IF i = 1 THEN ss[i] ELSE flat[i-1] \o ss[i]
      BY <2>1
    <2>4. g[0] = <<>> /\ \A i \in 1..n : g[i] = flat[i]
      BY <1>0
    <2> HIDE DEF g
    <2>5. ASSUME NEW i \in 1..n
          PROVE  g[i] = g[i-1] \o ss[i]
      <3>1. CASE i = 1
        <4>1. g[i] = ss[i] /\ ss[i] \in Seq(S) /\ g[i-1] = <<>>
          BY <2>3, <2>4, <3>1
        <4>2. <<>> \o ss[i] = ss[i]
          BY <4>1
        <4> QED
          BY <4>1, <4>2
      <3>2. CASE i # 1
        <4>1. i - 1 \in 1..n
          BY <3>2, <1>0
        <4>2. g[i] = flat[i] /\ g[i-1] = flat[i-1]
          BY <4>1, <2>4
        <4>3. flat[i] = flat[i-1] \o ss[i]
          BY <3>2, <2>3
        <4> QED
          BY <4>2, <4>3
      <3> QED
        BY <3>1, <3>2
    <2>6. \A i \in 0..n : g[i] \in Seq(S)
      <3> DEFINE T == {i \in Nat : i <= n => g[i] \in Seq(S)}
      <3>1. 0 \in T
        <4>1. <<>> \in Seq(S)
          OBVIOUS
        <4> QED
          BY <2>4, <4>1
      <3>2. ASSUME NEW k \in 0..n-1, k \in T
            PROVE  k + 1 \in T
        <4>1. k + 1 \in 1..n /\ (k + 1) - 1 = k /\ g[k] \in Seq(S)
          BY <3>2, <1>0
        <4>2. g[k+1] = g[k] \o ss[k+1]
          BY <4>1, <2>5
        <4>3. g[k] \o ss[k+1] \in Seq(S)
          BY <4>1, <1>0
        <4>4. k + 1 \in Nat
          BY <1>0
        <4> QED
          BY <4>2, <4>3, <4>4
      <3> HIDE DEF T
      <3>3. \A k \in 0..n : k \in T
        BY <3>1, <3>2, <1>0, UpTo
      <3> QED
        BY <3>3, <1>0 DEF T
    <2>7. g[n] = FlattenSeq(ss)
      BY <2>2, <2>4, <1>0, <1>2
    <2> QED
      BY <2>4, <2>5, <2>6, <2>7, Zenon DEF JoinedSoFar
  <1> QED
    BY <1>1, <1>2

-----------------------------------------------------------------------------
(* Runs of the reader, and parts of a text.                                *)

\* states is what the loop of parse_csv goes through on text.
IsRun(states, text, s, lim) ==
    /\ states[0] = ReaderStart
    /\ \A i \in 1 .. Len(text) :
          states[i] = ReadCharacter(states[i - 1], text[i],
                                    IF i < Len(text) THEN text[i + 1] ELSE "end", s, lim)

\* ReaderStates is such a run.
LEMMA ReaderRuns ==
    ASSUME NEW C, NEW text \in Seq(C), NEW s, NEW lim
    PROVE  IsRun(ReaderStates(text, s, lim), text, s, lim)
  <1> DEFINE n == Len(text)
             step(z, i) == ReadCharacter(z, text[i], IF i < n THEN text[i + 1] ELSE "end", s, lim)
             Upto(f, k) == f = [i \in 0 .. k |-> IF i = 0 THEN ReaderStart ELSE step(f[i - 1], i)]
             T == {k \in Nat : \E f : Upto(f, k)}
  <1>0. n \in Nat
    OBVIOUS
  <1>r. ReaderStates(text, s, lim) = CHOOSE f : Upto(f, n)
    BY DEF ReaderStates
  <1> HIDE DEF step
  <1>1. 0 \in T
    <2> DEFINE g == [i \in 0 .. 0 |-> ReaderStart]
    <2>1. g = [i \in 0 .. 0 |-> IF i = 0 THEN ReaderStart ELSE step(g[i - 1], i)]
      OBVIOUS
    <2> QED
      BY <2>1
  <1>2. ASSUME NEW k \in 0 .. n - 1, k \in T
        PROVE  k + 1 \in T
    <2>1. PICK f : Upto(f, k)
      BY <1>2
    <2> DEFINE g == [i \in 0 .. (k + 1) |-> IF i <= k THEN f[i] ELSE step(f[i - 1], i)]
    <2>0. k \in Nat
      BY <1>0
    <2>2. \A i \in 0 .. k : f[i] = IF i = 0 THEN ReaderStart ELSE step(f[i - 1], i)
      BY <2>1
    <2>3. ASSUME NEW i \in 0 .. (k + 1)
          PROVE  g[i] = IF i = 0 THEN ReaderStart ELSE step(g[i - 1], i)
      <3>1. CASE i <= k
        <4>1. g[i] = f[i] /\ (i # 0 => g[i - 1] = f[i - 1])
          BY <3>1, <2>0
        <4> QED
          BY <4>1, <2>2, <3>1, <2>0
      <3>2. CASE i = k + 1
        <4>1. i # 0 /\ g[i - 1] = f[i - 1] /\ g[i] = step(f[i - 1], i)
          BY <3>2, <2>0
        <4> QED
          BY <4>1
      <3> QED
        BY <3>1, <3>2, <2>0
    <2>4. Upto(g, k + 1)
      <3>1. g = [i \in 0 .. (k + 1) |-> g[i]]
        OBVIOUS
      <3> HIDE DEF g
      <3> QED
        BY <2>3, <3>1
    <2> HIDE DEF Upto
    <2> QED
      BY <2>4, <2>0
  <1> HIDE DEF T
  <1>3. \A k \in 0 .. n : k \in T
    BY ONLY <1>0, <1>1, <1>2, UpTo
  <1>4. \E f : Upto(f, n)
    BY <1>0, <1>3 DEF T
  <1> DEFINE states == ReaderStates(text, s, lim)
  <1>5. Upto(states, n)
    BY <1>4, <1>r
  <1> HIDE DEF states
  <1>6. /\ states[0] = ReaderStart
        /\ \A i \in 1 .. n : states[i] = step(states[i - 1], i)
    BY <1>5, <1>0
  <1> QED
    BY <1>6 DEF IsRun, step, states

\* seg stands in text behind position p.
Occurs(seg, text, p) ==
    p + Len(seg) <= Len(text) /\ \A i \in 1 .. Len(seg) : text[p + i] = seg[i]

\* A concatenation stands where its two parts stand one behind the other.
LEMMA OccursConcat ==
    ASSUME NEW C, NEW a \in Seq(C), NEW b \in Seq(C), NEW text \in Seq(C), NEW p \in Nat
    PROVE  Occurs(a \o b, text, p) <=> Occurs(a, text, p) /\ Occurs(b, text, p + Len(a))
  <1> DEFINE ab == a \o b
  <1>1. /\ Len(ab) = Len(a) + Len(b) /\ Len(a) \in Nat /\ Len(b) \in Nat /\ Len(text) \in Nat
        /\ \A i \in 1 .. Len(a) : ab[i] = a[i]
        /\ \A i \in 1 .. Len(b) : ab[Len(a) + i] = b[i]
    OBVIOUS
  <1> HIDE DEF ab
  <1>2. ASSUME Occurs(ab, text, p)
        PROVE  Occurs(a, text, p) /\ Occurs(b, text, p + Len(a))
    <2>1. ASSUME NEW i \in 1 .. Len(b)
          PROVE  text[(p + Len(a)) + i] = b[i]
      <3>1. Len(a) + i \in 1 .. Len(ab) /\ p + (Len(a) + i) = (p + Len(a)) + i
        BY <1>1
      <3> QED
        BY <3>1, <1>1, <1>2 DEF Occurs
    <2>2. ASSUME NEW i \in 1 .. Len(a)
          PROVE  text[p + i] = a[i]
      <3>1. i \in 1 .. Len(ab)
        BY <1>1
      <3> QED
        BY <3>1, <1>1, <1>2 DEF Occurs
    <2> QED
      BY <2>1, <2>2, <1>1, <1>2 DEF Occurs
  <1>3. ASSUME Occurs(a, text, p), Occurs(b, text, p + Len(a))
        PROVE  Occurs(ab, text, p)
    <2>1. ASSUME NEW i \in 1 .. Len(ab)
          PROVE  text[p + i] = ab[i]
      <3>1. CASE i <= Len(a)
        BY <3>1, <1>1, <1>3 DEF Occurs
      <3>2. CASE i > Len(a)
        <4>1. i - Len(a) \in 1 .. Len(b)
          BY <3>2, <1>1
        <4>2. text[(p + Len(a)) + (i - Len(a))] = b[i - Len(a)]
          BY <4>1, <1>3 DEF Occurs
        <4>3. (p + Len(a)) + (i - Len(a)) = p + i /\ Len(a) + (i - Len(a)) = i
          BY <1>1
        <4>4. ab[Len(a) + (i - Len(a))] = b[i - Len(a)]
          BY <4>1, <1>1
        <4> QED
          BY <4>2, <4>3, <4>4
      <3> QED
        BY <3>1, <3>2, <1>1
    <2> QED
      BY <2>1, <1>1, <1>3 DEF Occurs
  <1> QED
    BY <1>2, <1>3 DEF ab

\* The parts ss stand in text one behind the other, from p on.
LaidOut(f, ss, text, p) ==
    \A i \in 1 .. Len(ss) : /\ Occurs(ss[i], text, p + Len(f[i - 1]))
                            /\ Len(f[i]) = Len(f[i - 1]) + Len(ss[i])

\* Where the parts of a concatenation stand.
LEMMA OccursFlatten ==
    ASSUME NEW C, NEW ss \in Seq(Seq(C)), NEW text \in Seq(C), NEW p \in Nat, NEW f,
           JoinedSoFar(f, ss, C), Occurs(f[Len(ss)], text, p)
    PROVE  LaidOut(f, ss, text, p)
  <1> DEFINE n == Len(ss)
             T == {k \in Nat : k <= n => Occurs(f[n - k], text, p)}
  <1> USE DEF JoinedSoFar
  <1>0. n \in Nat /\ \A i \in 1 .. n : ss[i] \in Seq(C)
    OBVIOUS
  <1>1. 0 \in T
    BY <1>0
  <1>2. ASSUME NEW k \in 0 .. n - 1, k \in T
        PROVE  k + 1 \in T
    <2>1. /\ n - k \in 1 .. n /\ (n - k) - 1 = n - (k + 1) /\ n - (k + 1) \in 0 .. n
          /\ Occurs(f[n - k], text, p)
      BY <1>0, <1>2
    <2>2. f[n - k] = f[n - (k + 1)] \o ss[n - k]
      BY <2>1
    <2>3. Occurs(f[n - (k + 1)], text, p)
      <3>1. f[n - (k + 1)] \in Seq(C) /\ ss[n - k] \in Seq(C)
        BY <2>1, <1>0
      <3> QED
        BY <2>1, <2>2, <3>1, OccursConcat, SMTT(30)
    <2> QED
      BY <2>3, <1>0
  <1> HIDE DEF T
  <1>3. \A k \in 0 .. n : k \in T
    BY ONLY <1>0, <1>1, <1>2, UpTo
  <1>4. ASSUME NEW i \in 0 .. n
        PROVE  Occurs(f[i], text, p)
    <2>1. n - i \in 0 .. n /\ n - (n - i) = i /\ n - i <= n
      BY <1>0
    <2>2. n - i \in T
      BY <2>1, <1>3
    <2> QED
      BY <2>1, <2>2 DEF T
  <1>5. ASSUME NEW i \in 1 .. n
        PROVE  /\ Occurs(ss[i], text, p + Len(f[i - 1]))
               /\ Len(f[i]) = Len(f[i - 1]) + Len(ss[i])
    <2>1. i - 1 \in 0 .. n /\ i \in 0 .. n
      BY <1>0
    <2>2. f[i] = f[i - 1] \o ss[i] /\ f[i - 1] \in Seq(C) /\ ss[i] \in Seq(C)
      BY <2>1, <1>0
    <2>3. Occurs(f[i - 1] \o ss[i], text, p)
      BY <1>4, <2>1, <2>2
    <2> QED
      BY <2>2, <2>3, OccursConcat
  <1> QED
    BY <1>5 DEF LaidOut

-----------------------------------------------------------------------------
(* Single characters.                                                      *)

\* The reader has read the records rows, and the fields row and the text field
\* of the next one; part tells whether that is the header, mode how the field
\* stands, and last whether the text could end here.
Reading(rows, part, row, field, mode, last) ==
    [rows |-> rows, row |-> row, field |-> field, quoted |-> mode = "quoted",
     started |-> mode # "fresh", ended |-> last = "ended", header |-> part = "rows",
     skip |-> FALSE, why |-> "none"]

\* One character of a field that stands without quotes.
LEMMA PlainCharacter ==
    ASSUME NEW rows, NEW part, NEW row, NEW field, NEW mode \in {"fresh", "plain"}, NEW last,
           NEW c, NEW next, NEW s, NEW lim, c \notin Special
    PROVE  ReadCharacter(Reading(rows, part, row, field, mode, last), c, next, s, lim)
             = Reading(rows, part, row, Append(field, c), "plain", "open")
  BY DEF ReadCharacter, Reading, Special, Newline

\* The quote that opens a field.
LEMMA OpeningQuote ==
    ASSUME NEW rows, NEW part, NEW row, NEW field, NEW last, NEW next, NEW s, NEW lim
    PROVE  ReadCharacter(Reading(rows, part, row, field, "fresh", last), "DQUOTE", next, s, lim)
             = Reading(rows, part, row, field, "quoted", last)
  BY DEF ReadCharacter, Reading

\* A character of a field in quotes.
LEMMA QuotedCharacter ==
    ASSUME NEW rows, NEW part, NEW row, NEW field, NEW last, NEW c, NEW next, NEW s, NEW lim,
           c \notin Newline, c # "DQUOTE"
    PROVE  ReadCharacter(Reading(rows, part, row, field, "quoted", last), c, next, s, lim)
             = Reading(rows, part, row, Append(field, c), "quoted", last)
  BY DEF ReadCharacter, Reading, Newline

\* A line break in quotes is refused.
LEMMA QuotedNewline ==
    ASSUME NEW rows, NEW part, NEW row, NEW field, NEW last, NEW c, NEW next, NEW s, NEW lim,
           c \in Newline
    PROVE  ReadCharacter(Reading(rows, part, row, field, "quoted", last), c, next, s, lim).why
             = "newline"
  BY DEF ReadCharacter, Reading, Newline

\* A doubled quote in quotes is one quote of the field.
LEMMA DoubledQuote ==
    ASSUME NEW rows, NEW part, NEW row, NEW field, NEW last, NEW next, NEW s, NEW lim
    PROVE  ReadCharacter(ReadCharacter(Reading(rows, part, row, field, "quoted", last),
                                       "DQUOTE", "DQUOTE", s, lim), "DQUOTE", next, s, lim)
             = Reading(rows, part, row, Append(field, "DQUOTE"), "quoted", last)
  BY DEF ReadCharacter, Reading, Newline

\* The quote that closes a field.
LEMMA ClosingQuote ==
    ASSUME NEW rows, NEW part, NEW row, NEW field, NEW last, NEW next, NEW s, NEW lim,
           next # "DQUOTE"
    PROVE  ReadCharacter(Reading(rows, part, row, field, "quoted", last), "DQUOTE", next, s, lim)
             = Reading(rows, part, row, field, "plain", last)
  BY DEF ReadCharacter, Reading, Newline

\* The comma that ends a field.
LEMMA Comma ==
    ASSUME NEW rows, NEW part, NEW row, NEW field, NEW mode \in {"fresh", "plain"}, NEW last,
           NEW next, NEW s, NEW lim
    PROVE  ReadCharacter(Reading(rows, part, row, field, mode, last), "COMMA", next, s, lim)
             = Reading(rows, part, Append(row, field), <<>>, "fresh", last)
  BY DEF ReadCharacter, Reading

\* A text once refused stays refused.
LEMMA RefusalStays ==
    ASSUME NEW z, NEW c, NEW next, NEW s, NEW lim, z.why # "none"
    PROVE  ReadCharacter(z, c, next, s, lim) = z
  BY DEF ReadCharacter

\* The reader is between two records.
Between(rows) == Reading(rows, "rows", <<>>, <<>>, "fresh", "ended")

\* The line break behind the header: cr and lf are the states behind CR and LF.
LEMMA HeaderEnds ==
    ASSUME NEW rows, NEW row, NEW field, NEW mode \in {"fresh", "plain"}, NEW last,
           NEW next, NEW s, NEW lim, NEW cr, NEW lf,
           cr = ReadCharacter(Reading(rows, "header", row, field, mode, last), "CR", "LF", s, lim),
           lf = ReadCharacter(cr, "LF", next, s, lim),
           Append(row, field) = Names(s), Len(Names(s)) = Len(s.columns)
    PROVE  lf = Between(rows)
  <1> DEFINE z == Reading(rows, "header", row, field, mode, last)
  <1>1. cr = EndRecord(z, s, lim)
    BY DEF ReadCharacter, Reading
  <1>2. Len(Append(z.row, z.field)) = Len(s.columns) /\ Append(z.row, z.field) = Names(s)
    BY DEF Reading
  <1>3. cr = [z EXCEPT !.row = <<>>, !.field = <<>>, !.started = FALSE,
                       !.ended = TRUE, !.skip = TRUE, !.header = TRUE]
    BY <1>1, <1>2 DEF Reading, EndRecord
  <1> QED
    BY <1>3 DEF ReadCharacter, Reading, Between

\* As many rows are read as may be.
Full(rows, lim) == Len(rows) >= lim.rows

\* The line break behind a good row that there is room for.
LEMMA RowAccepted ==
    ASSUME NEW rows, NEW row, NEW field, NEW mode \in {"fresh", "plain"}, NEW last,
           NEW next, NEW s, NEW lim, NEW cr, NEW lf,
           cr = ReadCharacter(Reading(rows, "rows", row, field, mode, last), "CR", "LF", s, lim),
           lf = ReadCharacter(cr, "LF", next, s, lim),
           NEW values, Append(row, field) = values, Len(values) = Len(s.columns),
           ValidateValues(values, s), ~Full(rows, lim)
    PROVE  lf = Between(Append(rows, values))
  <1> DEFINE z == Reading(rows, "rows", row, field, mode, last)
  <1>1. cr = EndRecord(z, s, lim)
    BY DEF ReadCharacter, Reading
  <1>2. /\ Len(Append(z.row, z.field)) = Len(s.columns) /\ Append(z.row, z.field) = values
        /\ z.header /\ z.rows = rows
    BY DEF Reading
  <1>3. cr = [z EXCEPT !.row = <<>>, !.field = <<>>, !.started = FALSE,
                       !.ended = TRUE, !.skip = TRUE, !.rows = Append(rows, values)]
    BY <1>1, <1>2 DEF Reading, EndRecord, Full
  <1> QED
    BY <1>3 DEF ReadCharacter, Reading, Between

\* The line break behind a row with a bad value, or one too many.
LEMMA RowRefused ==
    ASSUME NEW rows, NEW row, NEW field, NEW mode \in {"fresh", "plain"}, NEW last,
           NEW s, NEW lim, NEW cr,
           cr = ReadCharacter(Reading(rows, "rows", row, field, mode, last), "CR", "LF", s, lim),
           NEW values, Append(row, field) = values, Len(values) = Len(s.columns),
           ~ValidateValues(values, s) \/ Full(rows, lim)
    PROVE  cr.why # "none"
  <1> DEFINE z == Reading(rows, "rows", row, field, mode, last)
  <1>1. cr = EndRecord(z, s, lim)
    BY DEF ReadCharacter, Reading
  <1>2. /\ Len(Append(z.row, z.field)) = Len(s.columns) /\ Append(z.row, z.field) = values
        /\ z.header /\ z.rows = rows
    BY DEF Reading
  <1> QED
    BY <1>1, <1>2 DEF Reading, EndRecord, Full

-----------------------------------------------------------------------------
(* Fields.                                                                 *)

\* One more character of a value.
LEMMA SubSeqStep ==
    ASSUME NEW C, NEW v \in Seq(C), NEW k \in 0 .. Len(v) - 1
    PROVE  /\ SubSeq(v, 1, k + 1) = Append(SubSeq(v, 1, k), v[k + 1])
           /\ SubSeq(v, 1, 0) = <<>> /\ SubSeq(v, 1, Len(v)) = v
           /\ Len(SubSeq(v, 1, k)) = k
  OBVIOUS

\* None and all characters of a value.
LEMMA SubSeqEnds ==
    ASSUME NEW C, NEW v \in Seq(C)
    PROVE  SubSeq(v, 1, 0) = <<>> /\ SubSeq(v, 1, Len(v)) = v
  OBVIOUS

\* One turn of the loop.
LEMMA RunStep ==
    ASSUME NEW C, NEW text \in Seq(C), NEW s, NEW lim, NEW st, IsRun(st, text, s, lim),
           NEW p \in Nat, p < Len(text)
    PROVE  /\ st[p + 1] = ReadCharacter(st[p], text[p + 1],
                              IF p + 1 < Len(text) THEN text[p + 2] ELSE "end", s, lim)
           /\ p + 1 < Len(text) =>
                st[p + 1] = ReadCharacter(st[p], text[p + 1], text[p + 2], s, lim)
  <1>1. p + 1 \in 1 .. Len(text) /\ (p + 1) - 1 = p /\ (p + 1) + 1 = p + 2
    OBVIOUS
  <1> QED
    BY <1>1 DEF IsRun

\* A refusal is final.
LEMMA Stuck ==
    ASSUME NEW C, NEW text \in Seq(C), NEW s, NEW lim, NEW st, IsRun(st, text, s, lim),
           NEW p \in 0 .. Len(text), st[p].why # "none"
    PROVE  st[Len(text)] = st[p]
  <1> DEFINE n == Len(text) - p
             T == {k \in Nat : k <= n => st[p + k] = st[p]}
  <1>0. n \in Nat /\ p \in Nat /\ p + n = Len(text) /\ p + 0 = p
    OBVIOUS
  <1>1. 0 \in T
    BY <1>0
  <1>2. ASSUME NEW k \in 0 .. n - 1, k \in T
        PROVE  k + 1 \in T
    <2>1. st[p + k] = st[p] /\ p + k \in Nat /\ p + k < Len(text) /\ (p + k) + 1 = p + (k + 1)
      BY <1>0, <1>2
    <2>2. st[(p + k) + 1] = ReadCharacter(st[p + k], text[(p + k) + 1],
                              IF (p + k) + 1 < Len(text) THEN text[(p + k) + 2] ELSE "end", s, lim)
      BY <2>1, RunStep
    <2>3. st[p + (k + 1)] = st[p]
      BY <2>1, <2>2, RefusalStays
    <2> QED
      BY <2>3, <1>0
  <1> HIDE DEF T
  <1>3. \A k \in 0 .. n : k \in T
    BY ONLY <1>0, <1>1, <1>2, UpTo
  <1>4. n \in T
    BY <1>0, <1>3
  <1> QED
    BY <1>0, <1>4 DEF T

\* No line break in value.
Clean(value) == ToSet(value) \cap Newline = {}

\* A field without quotes.
LEMMA PlainField ==
    ASSUME NEW C, NEW text \in Seq(C), NEW s, NEW lim, NEW st, IsRun(st, text, s, lim),
           NEW value \in Seq(C), ToSet(value) \cap Special = {},
           NEW p \in Nat, Occurs(value, text, p),
           NEW rows, NEW part, NEW row, NEW last,
           st[p] = Reading(rows, part, row, <<>>, "fresh", last)
    PROVE  \E mode \in {"fresh", "plain"} : \E ending :
              st[p + Len(value)] = Reading(rows, part, row, value, mode, ending)
  <1> DEFINE n == Len(value)
             T == {k \in Nat : k <= n => \E mode \in {"fresh", "plain"} : \E ending :
                      st[p + k] = Reading(rows, part, row, SubSeq(value, 1, k), mode, ending)}
  <1>0. n \in Nat /\ p + 0 = p
    OBVIOUS
  <1>1. 0 \in T
    BY <1>0, SubSeqEnds
  <1>2. ASSUME NEW k \in 0 .. n - 1, k \in T
        PROVE  k + 1 \in T
    <2>0. PICK mode \in {"fresh", "plain"} : \E ending :
             st[p + k] = Reading(rows, part, row, SubSeq(value, 1, k), mode, ending)
      BY <1>0, <1>2
    <2>1. PICK ending : st[p + k] = Reading(rows, part, row, SubSeq(value, 1, k), mode, ending)
      BY ONLY <2>0, Zenon
    <2>2. k + 1 \in 1 .. n /\ (p + k) + 1 = p + (k + 1) /\ p + k \in Nat
      BY <1>0
    <2>3. p + k < Len(text) /\ text[(p + k) + 1] = value[k + 1]
      BY <2>2, <1>0 DEF Occurs
    <2>4. value[k + 1] \notin Special
      BY <2>2 DEF ToSet
    <2>5. PICK next : st[(p + k) + 1] = ReadCharacter(st[p + k], value[k + 1], next, s, lim)
      BY <2>2, <2>3, RunStep
    <2>6. st[(p + k) + 1] = Reading(rows, part, row, Append(SubSeq(value, 1, k), value[k + 1]),
                                    "plain", "open")
      <3>1. mode \in {"fresh", "plain"}
        OBVIOUS
      <3>2. \A F, c : c \notin Special =>
               ReadCharacter(Reading(rows, part, row, F, mode, ending), c, next, s, lim)
                 = Reading(rows, part, row, Append(F, c), "plain", "open")
        BY ONLY <3>1, PlainCharacter
      <3>3. ReadCharacter(Reading(rows, part, row, SubSeq(value, 1, k), mode, ending),
                          value[k + 1], next, s, lim)
                 = Reading(rows, part, row, Append(SubSeq(value, 1, k), value[k + 1]), "plain", "open")
        BY ONLY <2>4, <3>2, Zenon
      <3> QED
        BY ONLY <2>1, <2>5, <3>3, Zenon
    <2>7. st[p + (k + 1)] = Reading(rows, part, row, SubSeq(value, 1, k + 1), "plain", "open")
      BY <2>2, <2>6, <1>0, SubSeqStep
    <2>8. k + 1 \in Nat
      BY <1>0
    <2> QED
      BY <2>7, <2>8
  <1> HIDE DEF T
  <1>3. \A k \in 0 .. n : k \in T
    BY ONLY <1>0, <1>1, <1>2, UpTo
  <1>4. n \in T
    BY <1>0, <1>3
  <1>5. \E mode \in {"fresh", "plain"} : \E ending :
           st[p + n] = Reading(rows, part, row, SubSeq(value, 1, n), mode, ending)
    BY <1>0, <1>4 DEF T
  <1> QED
    BY <1>5, SubSeqEnds

\* What Doubled concatenates.
Pairs(value) ==
    [i \in DOMAIN value |-> IF value[i] = "DQUOTE" THEN <<value[i], value[i]>> ELSE <<value[i]>>]

\* Characters, quotes doubled, in their order.
LEMMA PairsType ==
    ASSUME NEW C, NEW value \in Seq(C)
    PROVE  /\ Pairs(value) \in Seq(Seq(C)) /\ Len(Pairs(value)) = Len(value)
           /\ \A i \in 1 .. Len(value) :
                 Pairs(value)[i] = IF value[i] = "DQUOTE" THEN <<"DQUOTE", "DQUOTE">> ELSE <<value[i]>>
           /\ Doubled(value) = FlattenSeq(Pairs(value))
  <1>1. \A i \in 1 .. Len(value) : value[i] \in C
    OBVIOUS
  <1>2. Pairs(value) \in [1 .. Len(value) -> Seq(C)]
    BY <1>1 DEF Pairs
  <1>3. Pairs(value) \in Seq(Seq(C)) /\ Len(Pairs(value)) = Len(value)
    BY <1>2
  <1>4. ASSUME NEW i \in 1 .. Len(value)
        PROVE  Pairs(value)[i] = IF value[i] = "DQUOTE" THEN <<"DQUOTE", "DQUOTE">> ELSE <<value[i]>>
    BY <1>4 DEF Pairs
  <1>5. Doubled(value) = FlattenSeq(Pairs(value))
    BY DEF Pairs, Doubled
  <1> QED
    BY <1>3, <1>4, <1>5

\* What stands between the quotes of a field is read without its doubling.
LEMMA QuotedBody ==
    ASSUME NEW C, NEW text \in Seq(C), NEW s, NEW lim, NEW st, IsRun(st, text, s, lim),
           NEW value \in Seq(C), NEW p \in Nat, NEW f,
           JoinedSoFar(f, Pairs(value), C), LaidOut(f, Pairs(value), text, p),
           NEW rows, NEW part, NEW row, NEW last,
           st[p] = Reading(rows, part, row, <<>>, "quoted", last),
           NEW n \in 0 .. Len(value),
           \A i \in 1 .. n : value[i] \notin Newline
    PROVE  st[p + Len(f[n])] = Reading(rows, part, row, SubSeq(value, 1, n), "quoted", last)
  <1> DEFINE T == {k \in Nat : k <= n =>
                      st[p + Len(f[k])] = Reading(rows, part, row, SubSeq(value, 1, k), "quoted", last)}
  <1>0. n \in Nat /\ Len(value) \in Nat /\ n <= Len(value) /\ Len(text) \in Nat
    OBVIOUS
  <1>p. /\ f[0] = <<>>
        /\ \A i \in 0 .. Len(value) : f[i] \in Seq(C)
        /\ \A i \in 1 .. Len(value) : /\ Occurs(Pairs(value)[i], text, p + Len(f[i - 1]))
                                      /\ Len(f[i]) = Len(f[i - 1]) + Len(Pairs(value)[i])
    BY PairsType DEF JoinedSoFar, LaidOut
  <1>1. 0 \in T
    <2>1. Len(f[0]) = 0 /\ p + 0 = p
      BY <1>p
    <2> QED
      BY <2>1, <1>0, SubSeqEnds
  <1>2. ASSUME NEW k \in 0 .. n - 1, k \in T
        PROVE  k + 1 \in T
    <2> DEFINE c == value[k + 1]
               q == p + Len(f[k])
    <2>1. /\ k \in Nat /\ k + 1 \in 1 .. n /\ k + 1 \in 1 .. Len(value) /\ (k + 1) - 1 = k
          /\ k \in 0 .. Len(value) /\ k \in 0 .. Len(value) - 1
      BY <1>0
    <2>2. q \in Nat
      BY <2>1, <1>p
    <2>3. st[q] = Reading(rows, part, row, SubSeq(value, 1, k), "quoted", last)
      BY <1>2, <2>1, <1>0
    <2>4. /\ Occurs(Pairs(value)[k + 1], text, q)
          /\ Len(f[k + 1]) = Len(f[k]) + Len(Pairs(value)[k + 1])
      BY <2>1, <1>p
    <2>5. Pairs(value)[k + 1] = IF c = "DQUOTE" THEN <<"DQUOTE", "DQUOTE">> ELSE <<c>>
      BY <2>1, PairsType
    <2>6. c \notin Newline
      BY <2>1
    <2>7. SubSeq(value, 1, k + 1) = Append(SubSeq(value, 1, k), c)
      BY <2>1, SubSeqStep
    <2> HIDE DEF c, q
    <2>8. ASSUME c = "DQUOTE"
          PROVE  st[p + Len(f[k + 1])] = Reading(rows, part, row, SubSeq(value, 1, k + 1), "quoted", last)
      <3>1. /\ q + 2 <= Len(text) /\ text[q + 1] = "DQUOTE" /\ text[q + 2] = "DQUOTE"
            /\ Len(f[k + 1]) = Len(f[k]) + 2
        BY <2>4, <2>5, <2>8 DEF Occurs
      <3>2. st[q + 1] = ReadCharacter(st[q], "DQUOTE", "DQUOTE", s, lim)
        <4>1. q \in Nat /\ q < Len(text) /\ q + 1 < Len(text)
          BY <3>1, <2>2, <1>0
        <4>2. st[q + 1] = ReadCharacter(st[q], text[q + 1], text[q + 2], s, lim)
          BY <4>1, RunStep
        <4> QED
          BY <3>1, <4>2
      <3>3. PICK next : st[(q + 1) + 1] = ReadCharacter(st[q + 1], "DQUOTE", next, s, lim)
        <4>1. q + 1 \in Nat /\ q + 1 < Len(text) /\ (q + 1) + 1 = q + 2
          BY <3>1, <2>2, <1>0
        <4>2. PICK r \in Nat : r = q + 1
          BY <4>1
        <4>3. r < Len(text) /\ text[r + 1] = "DQUOTE"
          BY <4>1, <4>2, <3>1
        <4>4. \E next : st[r + 1] = ReadCharacter(st[r], text[r + 1], next, s, lim)
          BY <4>3, RunStep
        <4> QED
          BY <4>2, <4>3, <4>4
      <3>4. \A F : ReadCharacter(ReadCharacter(Reading(rows, part, row, F, "quoted", last),
                                       "DQUOTE", "DQUOTE", s, lim), "DQUOTE", next, s, lim)
                     = Reading(rows, part, row, Append(F, "DQUOTE"), "quoted", last)
        BY ONLY DoubledQuote
      <3>5. st[(q + 1) + 1] = Reading(rows, part, row, Append(SubSeq(value, 1, k), "DQUOTE"), "quoted", last)
        BY ONLY <2>3, <3>2, <3>3, <3>4, Zenon
      <3>6. (q + 1) + 1 = p + Len(f[k + 1])
        BY <3>1, <2>1, <1>p DEF q
      <3> QED
        BY ONLY <2>7, <2>8, <3>5, <3>6, Zenon
    <2>9. ASSUME c # "DQUOTE"
          PROVE  st[p + Len(f[k + 1])] = Reading(rows, part, row, SubSeq(value, 1, k + 1), "quoted", last)
      <3>1. q < Len(text) /\ text[q + 1] = c /\ Len(f[k + 1]) = Len(f[k]) + 1
        BY <2>4, <2>5, <2>9, <2>2, <1>0 DEF Occurs
      <3>2. PICK next : st[q + 1] = ReadCharacter(st[q], c, next, s, lim)
        BY <3>1, <2>2, RunStep
      <3>3. \A F : ReadCharacter(Reading(rows, part, row, F, "quoted", last), c, next, s, lim)
                     = Reading(rows, part, row, Append(F, c), "quoted", last)
        BY ONLY <2>6, <2>9, QuotedCharacter
      <3>4. st[q + 1] = Reading(rows, part, row, Append(SubSeq(value, 1, k), c), "quoted", last)
        BY ONLY <2>3, <3>2, <3>3, Zenon
      <3>5. q + 1 = p + Len(f[k + 1])
        BY <3>1, <2>1, <1>p DEF q
      <3> QED
        BY ONLY <2>7, <3>4, <3>5, Zenon
    <2>10. st[p + Len(f[k + 1])] = Reading(rows, part, row, SubSeq(value, 1, k + 1), "quoted", last)
      BY ONLY <2>8, <2>9
    <2> QED
      BY <2>10, <2>1
  <1> HIDE DEF T
  <1>3. \A k \in 0 .. n : k \in T
    BY ONLY <1>0, <1>1, <1>2, UpTo
  <1>4. n \in T
    BY <1>0, <1>3
  <1> QED
    BY <1>0, <1>4 DEF T

\* Where quotes and characters of a quoted field stand.
LEMMA QuotedParts ==
    ASSUME NEW C, "DQUOTE" \in C, NEW text \in Seq(C), NEW value \in Seq(C), NEW p \in Nat,
           Occurs(InQuotes(value), text, p)
    PROVE  /\ Doubled(value) \in Seq(C) /\ InQuotes(value) \in Seq(C)
           /\ Len(InQuotes(value)) = Len(Doubled(value)) + 2
           /\ p + Len(Doubled(value)) + 2 <= Len(text)
           /\ text[p + 1] = "DQUOTE" /\ text[p + Len(Doubled(value)) + 2] = "DQUOTE"
           /\ \E f : /\ f[Len(value)] = Doubled(value) /\ JoinedSoFar(f, Pairs(value), C)
                     /\ LaidOut(f, Pairs(value), text, p + 1)
  <1> DEFINE quote == <<"DQUOTE">>
             body == Doubled(value)
             ss == Pairs(value)
  <1>1. ss \in Seq(Seq(C)) /\ Len(ss) = Len(value) /\ body = FlattenSeq(ss)
    BY PairsType
  <1> HIDE DEF ss
  <1>2. PICK f : JoinedSoFar(f, ss, C) /\ f[Len(ss)] = body
    BY <1>1, FlattenPrefixes
  <1>3. body \in Seq(C) /\ quote \in Seq(C) /\ Len(quote) = 1
    <2>1. Len(ss) \in 0 .. Len(ss)
      BY <1>1
    <2> QED
      BY <1>2, <2>1 DEF JoinedSoFar
  <1> HIDE DEF body
  <1>4. /\ InQuotes(value) = quote \o body \o quote
        /\ quote \o body \o quote \in Seq(C)
        /\ Len(quote \o body \o quote) = Len(body) + 2
    BY <1>3 DEF InQuotes, body
  <1>5. /\ Occurs(quote \o body, text, p) /\ Occurs(quote, text, p + Len(quote \o body))
    <2>1. quote \o body \in Seq(C)
      BY <1>3
    <2> HIDE DEF quote
    <2> QED
      BY <1>3, <1>4, <2>1, OccursConcat
  <1>6. Occurs(quote, text, p) /\ Occurs(body, text, p + Len(quote)) /\ Len(quote \o body) = Len(body) + 1
    <2>1. Occurs(quote, text, p) /\ Occurs(body, text, p + Len(quote))
      <3> HIDE DEF quote
      <3> QED
        BY <1>3, <1>5, OccursConcat
    <2> QED
      BY <2>1, <1>3
  <1>7. /\ text[p + 1] = "DQUOTE"
        /\ text[p + Len(body) + 2] = "DQUOTE" /\ p + Len(body) + 2 <= Len(text)
    <2>1. /\ p + Len(quote \o body) + 1 <= Len(text)
          /\ text[p + Len(quote \o body) + 1] = "DQUOTE"
      BY <1>5, <1>3 DEF Occurs
    <2>2. Len(body) \in Nat /\ p + (Len(body) + 1) + 1 = p + Len(body) + 2
      BY <1>3
    <2>3. text[p + 1] = "DQUOTE"
      BY <1>6, <1>3 DEF Occurs
    <2> QED
      BY <2>1, <2>2, <2>3, <1>6
  <1>8. Occurs(f[Len(ss)], text, p + 1)
    BY <1>2, <1>3, <1>6
  <1>9. LaidOut(f, ss, text, p + 1)
    <2>1. PICK r \in Nat : r = p + 1
      OBVIOUS
    <2>2. Occurs(f[Len(ss)], text, r)
      BY <1>8, <2>1
    <2>3. LaidOut(f, ss, text, r)
      BY <1>1, <1>2, <2>2, OccursFlatten
    <2> QED
      BY <2>1, <2>3
  <1> QED
    BY <1>1, <1>2, <1>3, <1>4, <1>7, <1>9 DEF body, ss

\* The reader is at the end of a field, which it has read as value.
AtField(z, rows, part, row, value) ==
    \E mode \in {"fresh", "plain"} : \E last : z = Reading(rows, part, row, value, mode, last)

\* A field in quotes.
LEMMA QuotedField ==
    ASSUME NEW C, "DQUOTE" \in C, NEW text \in Seq(C), NEW s, NEW lim,
           NEW st, IsRun(st, text, s, lim),
           NEW value \in Seq(C), NEW p \in Nat, Occurs(InQuotes(value), text, p),
           NEW rows, NEW part, NEW row, NEW last,
           st[p] = Reading(rows, part, row, <<>>, "fresh", last)
    PROVE  /\ /\ Clean(value) /\ p + Len(InQuotes(value)) < Len(text)
              /\ text[p + Len(InQuotes(value)) + 1] # "DQUOTE"
              => AtField(st[p + Len(InQuotes(value))], rows, part, row, value)
           /\ ~Clean(value) => \E j \in 0 .. Len(text) : st[j].why # "none"
  <1> DEFINE body == Doubled(value)
             n == Len(value)
  <1>1. /\ body \in Seq(C)
        /\ Len(InQuotes(value)) = Len(body) + 2
        /\ p + Len(body) + 2 <= Len(text)
        /\ text[p + 1] = "DQUOTE" /\ text[p + Len(body) + 2] = "DQUOTE"
    BY QuotedParts
  <1>2. PICK f : /\ f[n] = body /\ JoinedSoFar(f, Pairs(value), C)
                 /\ LaidOut(f, Pairs(value), text, p + 1)
    BY QuotedParts
  <1> HIDE DEF body
  <1>3. Len(body) \in Nat /\ Len(text) \in Nat /\ n \in Nat
    BY <1>1
  <1>4. PICK r \in Nat : r = p + 1
    OBVIOUS
  <1>5. st[r] = Reading(rows, part, row, <<>>, "quoted", last)
    <2>1. p < Len(text)
      BY <1>1, <1>3
    <2>2. PICK next : st[p + 1] = ReadCharacter(st[p], "DQUOTE", next, s, lim)
      BY <1>1, <2>1, RunStep
    <2>3. st[p + 1] = Reading(rows, part, row, <<>>, "quoted", last)
      BY ONLY <2>2, OpeningQuote, st[p] = Reading(rows, part, row, <<>>, "fresh", last)
    <2> QED
      BY <2>3, <1>4
  <1>6. LaidOut(f, Pairs(value), text, r)
    BY <1>2, <1>4
  <1>7. ASSUME NEW m \in 0 .. n, \A i \in 1 .. m : value[i] \notin Newline
        PROVE  st[r + Len(f[m])] = Reading(rows, part, row, SubSeq(value, 1, m), "quoted", last)
    BY <1>2, <1>5, <1>6, <1>7, QuotedBody
  <1>8. ASSUME Clean(value), p + Len(InQuotes(value)) < Len(text),
               text[p + Len(InQuotes(value)) + 1] # "DQUOTE"
        PROVE  AtField(st[p + Len(InQuotes(value))], rows, part, row, value)
    <2>1. \A i \in 1 .. n : value[i] \notin Newline
      BY <1>8 DEF Clean, ToSet
    <2>2. n \in 0 .. n
      BY <1>3
    <2>3. st[r + Len(body)] = Reading(rows, part, row, value, "quoted", last)
      <3>1. st[r + Len(f[n])] = Reading(rows, part, row, SubSeq(value, 1, n), "quoted", last)
        BY <2>1, <2>2, <1>7
      <3>2. SubSeq(value, 1, n) = value
        BY SubSeqEnds
      <3> QED
        BY <3>1, <3>2, <1>2
    <2>4. PICK q \in Nat : q = r + Len(body)
      BY <1>3
    <2>5. /\ q + 1 < Len(text) /\ q < Len(text) /\ q + 1 = p + Len(InQuotes(value))
          /\ q + 1 = p + Len(body) + 2 /\ q + 2 = p + Len(InQuotes(value)) + 1
      BY <2>4, <1>1, <1>3, <1>4, <1>8
    <2>6. text[q + 1] = "DQUOTE" /\ text[q + 2] # "DQUOTE"
      BY <2>5, <1>1, <1>8
    <2>7. st[q + 1] = ReadCharacter(st[q], text[q + 1], text[q + 2], s, lim)
      BY <2>5, RunStep
    <2>8. st[q] = Reading(rows, part, row, value, "quoted", last)
      BY <2>3, <2>4
    <2>9. st[q + 1] = Reading(rows, part, row, value, "plain", last)
      BY ONLY <2>6, <2>7, <2>8, ClosingQuote
    <2> QED
      BY <2>5, <2>9 DEF AtField
  <1>9. ASSUME ~Clean(value)
        PROVE  \E j \in 0 .. Len(text) : st[j].why # "none"
    <2> DEFINE bad == {i \in 1 .. n : value[i] \in Newline}
    <2>1. bad # {} /\ bad \in SUBSET Nat
      BY <1>9 DEF Clean, ToSet
    <2>2. PICK m \in bad : \A i \in bad : m <= i
      BY <2>1, LeastNatural
    <2>3. /\ m \in 1 .. n /\ value[m] \in Newline /\ m - 1 \in 0 .. n
          /\ \A i \in 1 .. m - 1 : value[i] \notin Newline
      BY <2>2, <1>3
    <2>4. st[r + Len(f[m - 1])] = Reading(rows, part, row, SubSeq(value, 1, m - 1), "quoted", last)
      BY <2>3, <1>7
    <2>5. PICK q \in Nat : q = r + Len(f[m - 1])
      <3>1. f[m - 1] \in Seq(C)
        BY <2>3, <1>2, PairsType DEF JoinedSoFar
      <3> QED
        BY <3>1
    <2>6. Occurs(Pairs(value)[m], text, q)
      BY <2>3, <2>5, <1>6, PairsType DEF LaidOut
    <2>7. Pairs(value)[m] = <<value[m]>>
      BY <2>3, PairsType DEF Newline
    <2>8. q < Len(text) /\ text[q + 1] = value[m]
      BY <2>6, <2>7, <1>3 DEF Occurs
    <2>9. PICK next : st[q + 1] = ReadCharacter(st[q], value[m], next, s, lim)
      BY <2>8, RunStep
    <2>10. \A F : ReadCharacter(Reading(rows, part, row, F, "quoted", last), value[m], next, s, lim).why
                    = "newline"
      BY ONLY <2>3, QuotedNewline
    <2>11. st[q + 1].why = "newline"
      BY ONLY <2>4, <2>5, <2>9, <2>10, Zenon
    <2>12. q + 1 \in 0 .. Len(text)
      BY <2>8, <1>3
    <2> QED
      BY <2>11, <2>12
  <1> QED
    BY <1>8, <1>9

\* A field in any legal spelling.
LEMMA SpelledField ==
    ASSUME NEW C, "DQUOTE" \in C, NEW text \in Seq(C), NEW s, NEW lim,
           NEW st, IsRun(st, text, s, lim),
           NEW value \in Seq(C), NEW style, NEW p \in Nat,
           Occurs(Spelling(value, style), text, p),
           NEW rows, NEW part, NEW row, NEW last,
           st[p] = Reading(rows, part, row, <<>>, "fresh", last)
    PROVE  /\ /\ Clean(value) /\ p + Len(Spelling(value, style)) < Len(text)
              /\ text[p + Len(Spelling(value, style)) + 1] # "DQUOTE"
              => AtField(st[p + Len(Spelling(value, style))], rows, part, row, value)
           /\ ~Clean(value) => \E j \in 0 .. Len(text) : st[j].why # "none"
  <1>1. CASE Spelling(value, style) = InQuotes(value)
    BY <1>1, QuotedField
  <1>2. CASE Spelling(value, style) # InQuotes(value)
    <2>1. Spelling(value, style) = value /\ ToSet(value) \cap Special = {}
      BY <1>2 DEF Spelling, EncodeCsvField
    <2>2. Clean(value)
      BY <2>1 DEF Clean, Special
    <2>3. Occurs(value, text, p)
      BY <2>1
    <2>4. \E mode \in {"fresh", "plain"} : \E ending :
             st[p + Len(value)] = Reading(rows, part, row, value, mode, ending)
      BY <2>1, <2>3, PlainField
    <2>5. AtField(st[p + Len(value)], rows, part, row, value)
      BY <2>4 DEF AtField
    <2> QED
      BY <2>1, <2>2, <2>5
  <1> QED
    BY <1>1, <1>2

-----------------------------------------------------------------------------
(* Records.                                                                *)

\* The writer's quotes and doubled quotes are characters of the text.
LEMMA SpellingType ==
    ASSUME NEW C, "DQUOTE" \in C, NEW value \in Seq(C), NEW style
    PROVE  Spelling(value, style) \in Seq(C)
  <1>1. PICK f : JoinedSoFar(f, Pairs(value), C) /\ f[Len(Pairs(value))] = FlattenSeq(Pairs(value))
    BY PairsType, FlattenPrefixes
  <1>2. Len(Pairs(value)) \in 0 .. Len(Pairs(value))
    BY PairsType
  <1>3. Doubled(value) \in Seq(C)
    BY <1>1, <1>2, PairsType DEF JoinedSoFar
  <1>4. InQuotes(value) \in Seq(C)
    <2>1. <<"DQUOTE">> \in Seq(C)
      OBVIOUS
    <2>2. \A a, b : a \in Seq(C) /\ b \in Seq(C) => a \o b \in Seq(C)
      OBVIOUS
    <2> QED
      BY ONLY <1>3, <2>1, <2>2, Zenon DEF InQuotes
  <1> QED
    BY <1>4 DEF Spelling, EncodeCsvField

\* Where the spelling of the k-th field begins.
FieldAt(f, k, p) == p + Len(f[k - 1]) + (IF k = 1 THEN 0 ELSE 1)

\* The characters a text of the profile may need beside its values.
Marks == {"DQUOTE", "COMMA", "CR", "LF"}

\* Where the fields of a record stand, and what stands behind each.
Ruled(f, values, styles, text, p) ==
    /\ f[0] = <<>> /\ Len(f[Len(values)]) \in Nat
    /\ p + Len(f[Len(values)]) + 2 <= Len(text)
    /\ text[p + Len(f[Len(values)]) + 1] = "CR" /\ text[p + Len(f[Len(values)]) + 2] = "LF"
    /\ \A k \in 1 .. Len(values) :
          /\ FieldAt(f, k, p) \in Nat /\ p + Len(f[k]) \in Nat
          /\ Occurs(Spelling(values[k], styles[k]), text, FieldAt(f, k, p))
          /\ FieldAt(f, k, p) + Len(Spelling(values[k], styles[k])) = p + Len(f[k])
          /\ p + Len(f[k]) < Len(text)
          /\ k < Len(values) => text[p + Len(f[k]) + 1] = "COMMA"
          /\ k = Len(values) => text[p + Len(f[k]) + 1] = "CR"

\* Fields and what separates them are texts.
LEMMA FieldsType ==
    ASSUME NEW C, Marks \subseteq C, NEW values \in Seq(Seq(C)), NEW styles
    PROVE  /\ Fields(values, styles) \in Seq(Seq(C))
           /\ Len(Fields(values, styles)) = Len(values)
           /\ \A k \in 1 .. Len(values) :
                 /\ values[k] \in Seq(C) /\ Spelling(values[k], styles[k]) \in Seq(C)
                 /\ Fields(values, styles)[k]
                      = Separator(k) \o Spelling(values[k], styles[k])
  <1>0. "DQUOTE" \in C /\ "COMMA" \in C
    BY DEF Marks
  <1>1. \A k \in 1 .. Len(values) : values[k] \in Seq(C)
    OBVIOUS
  <1>2. \A k \in 1 .. Len(values) : Spelling(values[k], styles[k]) \in Seq(C)
    BY <1>0, <1>1, SpellingType
  <1>3. ASSUME NEW k \in 1 .. Len(values)
        PROVE  Separator(k) \o Spelling(values[k], styles[k]) \in Seq(C)
    <2>1. PICK sp \in Seq(C) : sp = Spelling(values[k], styles[k])
      BY <1>2
    <2>2. Separator(k) \in Seq(C)
      BY <1>0 DEF Separator
    <2>3. Separator(k) \o sp \in Seq(C)
      BY <2>2
    <2> QED
      BY <2>1, <2>3
  <1>4. DOMAIN values = 1 .. Len(values) /\ Len(values) \in Nat
    OBVIOUS
  <1>5. Fields(values, styles) \in [1 .. Len(values) -> Seq(C)]
    BY <1>3, <1>4 DEF Fields
  <1>6. Fields(values, styles) \in Seq(Seq(C)) /\ Len(Fields(values, styles)) = Len(values)
    BY ONLY <1>4, <1>5
  <1>7. \A k \in 1 .. Len(values) : Fields(values, styles)[k]
                      = Separator(k) \o Spelling(values[k], styles[k])
    BY <1>4 DEF Fields
  <1> QED
    BY <1>1, <1>2, <1>6, <1>7

\* A record is ruled into its fields.
LEMMA RecordIsRuled ==
    ASSUME NEW C, Marks \subseteq C, NEW values \in Seq(Seq(C)), NEW styles, Len(values) > 0,
           NEW text \in Seq(C), NEW p \in Nat, Occurs(RecordText(values, styles), text, p)
    PROVE  /\ RecordText(values, styles) \in Seq(C)
           /\ \E f : /\ Ruled(f, values, styles, text, p)
                     /\ Len(RecordText(values, styles)) = Len(f[Len(values)]) + 2
  <1> DEFINE ss == Fields(values, styles)
             n == Len(values)
             flat == FlattenSeq(ss)
             Sp(k) == Spelling(values[k], styles[k])
  <1>0. /\ "COMMA" \in C /\ "CR" \in C /\ "LF" \in C /\ n \in Nat /\ n > 0 /\ Len(text) \in Nat
    BY DEF Marks
  <1>1. /\ ss \in Seq(Seq(C)) /\ Len(ss) = n
        /\ \A k \in 1 .. n : /\ Sp(k) \in Seq(C)
                             /\ ss[k] = Separator(k) \o Sp(k)
    BY FieldsType
  <1>2. PICK f : JoinedSoFar(f, ss, C) /\ f[n] = flat
    <2> HIDE DEF ss
    <2> QED
      BY <1>1, FlattenPrefixes
  <1>3. /\ f[0] = <<>> /\ \A i \in 0 .. n : f[i] \in Seq(C) /\ Len(f[i]) \in Nat
        /\ flat \in Seq(C)
    <2>1. /\ f[0] = <<>> /\ \A i \in 0 .. n : f[i] \in Seq(C)
      BY <1>1, <1>2 DEF JoinedSoFar
    <2>2. \A q \in Seq(C) : Len(q) \in Nat
      OBVIOUS
    <2>3. n \in 0 .. n
      BY <1>0
    <2> QED
      BY ONLY <2>1, <2>2, <2>3, <1>2
  <1>4. CRLF \in Seq(C) /\ Len(CRLF) = 2 /\ CRLF[1] = "CR" /\ CRLF[2] = "LF"
    BY <1>0 DEF CRLF
  <1> HIDE DEF flat, ss, Sp
  <1>5. RecordText(values, styles) = flat \o CRLF
    BY DEF RecordText, flat, ss
  <1>6. /\ Occurs(flat, text, p) /\ Occurs(CRLF, text, p + Len(flat))
        /\ flat \o CRLF \in Seq(C) /\ Len(flat \o CRLF) = Len(flat) + 2
    <2>1. Occurs(flat, text, p) /\ Occurs(CRLF, text, p + Len(flat))
      BY <1>3, <1>4, <1>5, OccursConcat
    <2>2. flat \o CRLF \in Seq(C) /\ Len(flat \o CRLF) = Len(flat) + 2
      <3>1. \A a, b \in Seq(C) : a \o b \in Seq(C) /\ Len(a \o b) = Len(a) + Len(b)
        OBVIOUS
      <3>2. flat \in Seq(C)
        BY <1>3
      <3> QED
        BY ONLY <3>1, <3>2, <1>4
    <2> QED
      BY <2>1, <2>2
  <1>7. LaidOut(f, ss, text, p)
    <2>1. Occurs(f[Len(ss)], text, p)
      BY <1>1, <1>2, <1>6
    <2> QED
      BY <1>1, <1>2, <2>1, OccursFlatten
  <1>8. /\ p + Len(flat) + 2 <= Len(text) /\ Len(flat) \in Nat
        /\ text[p + Len(flat) + 1] = "CR" /\ text[p + Len(flat) + 2] = "LF"
    <2>1. Len(flat) \in Nat
      BY <1>3
    <2>2. 1 \in 1 .. 2 /\ 2 \in 1 .. 2
      OBVIOUS
    <2> QED
      BY ONLY <1>4, <1>6, <2>1, <2>2, p \in Nat DEF Occurs
  <1>9. ASSUME NEW k \in 1 .. n
        PROVE  /\ FieldAt(f, k, p) \in Nat /\ p + Len(f[k]) \in Nat
               /\ Occurs(Sp(k), text, FieldAt(f, k, p))
               /\ FieldAt(f, k, p) + Len(Sp(k)) = p + Len(f[k])
               /\ k > 1 => text[p + Len(f[k - 1]) + 1] = "COMMA"
    <2>0. k \in Nat
      BY <1>0
    <2>1. /\ Len(f[k - 1]) \in Nat /\ Len(f[k]) \in Nat
          /\ Occurs(ss[k], text, p + Len(f[k - 1]))
          /\ Len(f[k]) = Len(f[k - 1]) + Len(ss[k])
      <3>1. k - 1 \in 0 .. n /\ k \in 0 .. n /\ k \in 1 .. Len(ss)
        BY <1>0, <1>1
      <3>2. Len(f[k - 1]) \in Nat /\ Len(f[k]) \in Nat
        BY ONLY <1>3, <3>1
      <3>3. /\ Occurs(ss[k], text, p + Len(f[k - 1]))
            /\ Len(f[k]) = Len(f[k - 1]) + Len(ss[k])
        BY ONLY <1>7, <3>1 DEF LaidOut
      <3> QED
        BY ONLY <3>2, <3>3
    <2>2. PICK q \in Nat : q = p + Len(f[k - 1])
      BY <2>1
    <2>3. Sp(k) \in Seq(C) /\ Len(Sp(k)) \in Nat
      BY <1>1
    <2>4. CASE k = 1
      <3>1. ss[k] = Sp(k)
        <4>1. \A b \in Seq(C) : <<>> \o b = b
          OBVIOUS
        <4>2. ss[k] = <<>> \o Sp(k)
          BY <1>1, <2>4 DEF Separator
        <4> QED
          BY ONLY <4>1, <4>2, <2>3
      <3>2. FieldAt(f, k, p) = q
        BY ONLY <2>1, <2>2, <2>4, p \in Nat DEF FieldAt
      <3>3. q + Len(Sp(k)) = p + Len(f[k])
        BY ONLY <2>1, <2>2, <2>3, <3>1, p \in Nat
      <3> QED
        BY ONLY <2>1, <2>2, <2>4, <3>1, <3>2, <3>3, p \in Nat, SMTT(30)
    <2>5. CASE k > 1
      <3>1. ss[k] = <<"COMMA">> \o Sp(k)
        BY <1>1, <2>5, SMTT(30) DEF Separator
      <3>2. <<"COMMA">> \in Seq(C) /\ Len(<<"COMMA">>) = 1
        BY <1>0
      <3>3. Occurs(<<"COMMA">>, text, q) /\ Occurs(Sp(k), text, q + 1)
        <4>1. PICK comma \in Seq(C) : comma = <<"COMMA">> /\ Len(comma) = 1
          BY <3>2
        <4>2. Occurs(comma \o Sp(k), text, q)
          BY <2>1, <2>2, <3>1, <4>1
        <4>3. Occurs(comma, text, q) /\ Occurs(Sp(k), text, q + Len(comma))
          BY <2>3, <4>2, OccursConcat
        <4> QED
          BY <4>1, <4>3
      <3>4. FieldAt(f, k, p) = q + 1
        <4>1. k # 1
          BY ONLY <2>0, <2>5
        <4>2. FieldAt(f, k, p) = p + Len(f[k - 1]) + 1
          BY ONLY <4>1 DEF FieldAt
        <4> QED
          BY ONLY <4>2, <2>2
      <3>5. Len(ss[k]) = Len(Sp(k)) + 1
        <4>1. \A a, b \in Seq(C) : Len(a \o b) = Len(a) + Len(b)
          OBVIOUS
        <4> QED
          BY ONLY <4>1, <3>1, <3>2, <2>3
      <3>6. text[q + 1] = "COMMA"
        BY <3>3 DEF Occurs
      <3>7. (q + 1) + Len(Sp(k)) = p + Len(f[k])
        <4>1. PICK a \in Nat, b \in Nat, c \in Nat :
                 a = Len(f[k - 1]) /\ b = Len(f[k]) /\ c = Len(Sp(k))
          BY ONLY <2>1, <2>3
        <4>2. b = a + (c + 1) /\ q = p + a
          BY ONLY <4>1, <2>1, <2>2, <3>5
        <4>3. (q + 1) + c = p + b
          BY ONLY <4>2, p \in Nat, q \in Nat, a \in Nat, b \in Nat, c \in Nat
        <4> QED
          BY ONLY <4>1, <4>3
      <3> QED
        <4>1. q + 1 \in Nat /\ p + Len(f[k]) \in Nat
          <5>1. PICK b \in Nat : b = Len(f[k])
            BY ONLY <2>1
          <5>2. q + 1 \in Nat /\ p + b \in Nat
            BY ONLY p \in Nat, q \in Nat, b \in Nat
          <5> QED
            BY ONLY <5>1, <5>2
        <4> QED
          BY ONLY <2>2, <3>3, <3>4, <3>6, <3>7, <4>1
    <2> QED
      BY <2>4, <2>5
  <1>10. ASSUME NEW k \in 1 .. n
         PROVE  /\ p + Len(f[k]) < Len(text)
                /\ k < n => text[p + Len(f[k]) + 1] = "COMMA"
                /\ k = n => text[p + Len(f[k]) + 1] = "CR"
    <2>1. CASE k = n
      BY <2>1, <1>2, <1>8, <1>0
    <2>2. CASE k < n
      <3>1. PICK j \in 1 .. n : j = k + 1 /\ j > 1 /\ j - 1 = k
        BY <2>2, <1>0
      <3>2. text[p + Len(f[k]) + 1] = "COMMA"
        BY <3>1, <1>9
      <3>3. /\ Occurs(Sp(j), text, FieldAt(f, j, p)) /\ FieldAt(f, j, p) = p + Len(f[k]) + 1
            /\ Len(Sp(j)) \in Nat /\ Len(f[k]) \in Nat
        <4>1. Len(f[k]) \in Nat
          BY <1>3, <1>0, SMTT(30)
        <4>2. FieldAt(f, j, p) = p + Len(f[k]) + 1
          <5>1. j # 1
            BY <3>1, <1>0
          <5> QED
            BY ONLY <5>1, <3>1, <4>1, p \in Nat DEF FieldAt
        <4>3. Occurs(Sp(j), text, FieldAt(f, j, p)) /\ Sp(j) \in Seq(C)
          BY ONLY <3>1, <1>9, <1>1
        <4> QED
          BY ONLY <4>1, <4>2, <4>3
      <3>4. p + Len(f[k]) < Len(text)
        BY <3>3, <1>0, SMTT(30) DEF Occurs
      <3> QED
        BY <2>2, <3>2, <3>4, <1>0
    <2> QED
      BY <2>1, <2>2, <1>0
  <1>11. Ruled(f, values, styles, text, p)
    BY <1>2, <1>3, <1>8, <1>9, <1>10 DEF Ruled, Sp
  <1> QED
    BY <1>2, <1>5, <1>6, <1>11

\* The reader is before a field.
BeforeField(z, rows, part, row) ==
    \E last : z = Reading(rows, part, row, <<>>, "fresh", last)

\* The comma behind a field.
LEMMA CommaBehind ==
    ASSUME NEW C, NEW text \in Seq(C), NEW s, NEW lim, NEW st, IsRun(st, text, s, lim),
           NEW q \in Nat, q < Len(text), text[q + 1] = "COMMA",
           NEW rows, NEW part, NEW row, NEW value, AtField(st[q], rows, part, row, value)
    PROVE  BeforeField(st[q + 1], rows, part, Append(row, value))
  <1>0. PICK mode \in {"fresh", "plain"} : \E last : st[q] = Reading(rows, part, row, value, mode, last)
    BY DEF AtField
  <1>1. PICK last : st[q] = Reading(rows, part, row, value, mode, last)
    BY ONLY <1>0, Zenon
  <1>2. PICK next : st[q + 1] = ReadCharacter(st[q], "COMMA", next, s, lim)
    BY RunStep
  <1>3. ReadCharacter(Reading(rows, part, row, value, mode, last), "COMMA", next, s, lim)
          = Reading(rows, part, Append(row, value), <<>>, "fresh", last)
    BY ONLY mode \in {"fresh", "plain"}, Comma
  <1> QED
    BY ONLY <1>1, <1>2, <1>3, Zenon DEF BeforeField

\* No value has a line break in it.
AllClean(values) == \A i \in 1 .. Len(values) : Clean(values[i])

\* The reader is at the end of the last of the fields values.
LastField(z, rows, part, values) ==
    AtField(z, rows, part, SubSeq(values, 1, Len(values) - 1), values[Len(values)])

\* The text is refused at some character.
IsRefused(st, text) == \E j \in 0 .. Len(text) : st[j].why # "none"

\* The fields of a record, read one after the other.
LEMMA FieldsRead ==
    ASSUME NEW C, Marks \subseteq C, NEW text \in Seq(C), NEW s, NEW lim,
           NEW st, IsRun(st, text, s, lim),
           NEW values \in Seq(Seq(C)), NEW styles, Len(values) > 0,
           NEW p \in Nat, NEW f, Ruled(f, values, styles, text, p),
           NEW rows, NEW part, NEW last,
           st[p] = Reading(rows, part, <<>>, <<>>, "fresh", last)
    PROVE  /\ AllClean(values) => LastField(st[p + Len(f[Len(values)])], rows, part, values)
           /\ ~AllClean(values) => IsRefused(st, text)
  <1> DEFINE n == Len(values)
             Before(k) == BeforeField(st[FieldAt(f, k, p)], rows, part, SubSeq(values, 1, k - 1))
             T == {k \in Nat : k < n /\ (\A i \in 1 .. k : Clean(values[i])) => Before(k + 1)}
  <1>0. n \in Nat /\ n > 0 /\ "DQUOTE" \in C /\ Len(text) \in Nat
    BY DEF Marks
  <1>r. ASSUME NEW k \in 1 .. n
        PROVE  /\ FieldAt(f, k, p) \in Nat /\ p + Len(f[k]) \in Nat
               /\ Occurs(Spelling(values[k], styles[k]), text, FieldAt(f, k, p))
               /\ FieldAt(f, k, p) + Len(Spelling(values[k], styles[k])) = p + Len(f[k])
               /\ p + Len(f[k]) < Len(text)
               /\ k < n => text[p + Len(f[k]) + 1] = "COMMA"
               /\ k = n => text[p + Len(f[k]) + 1] = "CR"
               /\ values[k] \in Seq(C)
    BY DEF Ruled
  <1>1. 0 \in T
    <2>1. FieldAt(f, 1, p) = p
      BY DEF FieldAt, Ruled
    <2>2. SubSeq(values, 1, 0) = <<>>
      BY SubSeqEnds
    <2>3. Before(1)
      <3>1. SubSeq(values, 1, 1 - 1) = <<>>
        BY <2>2
      <3> QED
        BY ONLY <2>1, <3>1, st[p] = Reading(rows, part, <<>>, <<>>, "fresh", last), Zenon DEF BeforeField
    <2> HIDE DEF Before
    <2> QED
      BY <2>3
  <1>2. ASSUME NEW k \in 1 .. n, Before(k)
        PROVE  /\ Clean(values[k]) =>
                     AtField(st[p + Len(f[k])], rows, part, SubSeq(values, 1, k - 1), values[k])
               /\ ~Clean(values[k]) => \E j \in 0 .. Len(text) : st[j].why # "none"
    <2>1. PICK ending : st[FieldAt(f, k, p)] =
                           Reading(rows, part, SubSeq(values, 1, k - 1), <<>>, "fresh", ending)
      BY ONLY <1>2, Zenon DEF BeforeField
    <2>0. PICK style, row : style = styles[k] /\ row = SubSeq(values, 1, k - 1)
      OBVIOUS
    <2>2. PICK q \in Nat, r \in Nat, value \in Seq(C) :
             /\ q = FieldAt(f, k, p) /\ r = p + Len(f[k]) /\ value = values[k]
             /\ style = styles[k] /\ row = SubSeq(values, 1, k - 1)
      BY <1>r, <2>0
    <2>3. /\ Occurs(Spelling(value, style), text, q) /\ q + Len(Spelling(value, style)) = r
          /\ r < Len(text) /\ text[r + 1] # "DQUOTE"
      <3>1. text[p + Len(f[k]) + 1] \in {"COMMA", "CR"}
        BY <1>r, <1>0
      <3> QED
        BY <3>1, <2>2, <1>r
    <2>4. st[q] = Reading(rows, part, row, <<>>, "fresh", ending)
      BY ONLY <2>1, <2>2, Zenon
    <2>5. /\ Clean(value) => AtField(st[r], rows, part, row, value)
          /\ ~Clean(value) => \E j \in 0 .. Len(text) : st[j].why # "none"
      BY <1>0, <2>3, <2>4, SpelledField, SMTT(30)
    <2> QED
      BY ONLY <2>2, <2>5, Zenon
  <1>3. ASSUME NEW k \in 0 .. n - 1, k \in T
        PROVE  k + 1 \in T
    <2>0. k \in Nat /\ k + 1 \in Nat
      BY <1>0
    <2> SUFFICES ASSUME k + 1 < n, \A i \in 1 .. k + 1 : Clean(values[i]) PROVE Before((k + 1) + 1)
      BY <2>0 DEF T
    <2>1. PICK m \in 1 .. n : m = k + 1 /\ m < n
      BY <1>0, <2>0
    <2>2. Before(m) /\ Clean(values[m])
      <3>1. k < n /\ \A i \in 1 .. k : Clean(values[i])
        BY <2>0, <1>0
      <3>2. Before(k + 1)
        BY <3>1, <1>3
      <3>3. Clean(values[m])
        BY <2>0, <2>1
      <3> HIDE DEF Before
      <3> QED
        BY <2>1, <3>2, <3>3
    <2>3. AtField(st[p + Len(f[m])], rows, part, SubSeq(values, 1, m - 1), values[m])
      <3> HIDE DEF Before
      <3> QED
        BY ONLY <2>2, <1>2, m \in 1 .. n
    <2>4. PICK q \in Nat : q = p + Len(f[m]) /\ q < Len(text) /\ text[q + 1] = "COMMA"
      BY <2>1, <1>r
    <2>5. BeforeField(st[q + 1], rows, part, Append(SubSeq(values, 1, m - 1), values[m]))
      <3>1. PICK row, value : row = SubSeq(values, 1, m - 1) /\ value = values[m]
        OBVIOUS
      <3>2. AtField(st[q], rows, part, row, value)
        BY ONLY <2>3, <2>4, <3>1, Zenon
      <3>3. BeforeField(st[q + 1], rows, part, Append(row, value))
        BY ONLY <2>4, <3>2, CommaBehind, text \in Seq(C), IsRun(st, text, s, lim), q \in Nat
      <3> QED
        BY ONLY <3>1, <3>3, Zenon
    <2>6. SubSeq(values, 1, m) = Append(SubSeq(values, 1, m - 1), values[m])
      <3>1. k \in 0 .. Len(values) - 1 /\ m - 1 = k
        BY <2>1, <1>0, <2>0
      <3>2. SubSeq(values, 1, k + 1) = Append(SubSeq(values, 1, k), values[k + 1])
        BY <3>1, SubSeqStep
      <3> QED
        BY <3>1, <3>2, <2>1
    <2>7. FieldAt(f, m + 1, p) = q + 1 /\ (m + 1) - 1 = m
      <3>1. m + 1 # 1 /\ (m + 1) - 1 = m
        BY <2>0, <2>1
      <3> QED
        BY <3>1, <2>4 DEF FieldAt
    <2>8. Before(m + 1)
      BY ONLY <2>5, <2>6, <2>7, Zenon
    <2> HIDE DEF Before
    <2> QED
      BY <2>1, <2>8
  <1> HIDE DEF T
  <1>4. \A k \in 0 .. n : k \in T
    BY ONLY <1>0, <1>1, <1>3, UpTo
  <1>5. ASSUME NEW k \in 1 .. n, \A i \in 1 .. k - 1 : Clean(values[i])
        PROVE  Before(k)
    <2>1. k - 1 \in 0 .. n /\ k - 1 < n /\ (k - 1) + 1 = k
      BY <1>0
    <2>2. PICK m : m = k - 1 /\ m \in 0 .. n /\ m < n /\ m + 1 = k
      BY <2>1
    <2> HIDE DEF Before
    <2>3. m \in T /\ \A i \in 1 .. m : Clean(values[i])
      BY <1>4, <1>5, <2>2
    <2> QED
      BY <2>2, <2>3 DEF T
  <1>6. ASSUME \A i \in 1 .. n : Clean(values[i])
        PROVE  AtField(st[p + Len(f[n])], rows, part, SubSeq(values, 1, n - 1), values[n])
    <2>1. n \in 1 .. n /\ \A i \in 1 .. n - 1 : Clean(values[i])
      BY <1>0, <1>6
    <2> HIDE DEF Before
    <2>2. Before(n)
      BY <2>1, <1>5
    <2> QED
      BY ONLY <1>2, <1>6, <2>1, <2>2
  <1>7. ASSUME \E i \in 1 .. n : ~Clean(values[i])
        PROVE  \E j \in 0 .. Len(text) : st[j].why # "none"
    <2> DEFINE bad == {i \in 1 .. n : ~Clean(values[i])}
    <2>1. bad # {} /\ bad \in SUBSET Nat
      <3>1. PICK i \in 1 .. n : ~Clean(values[i])
        BY <1>7
      <3>2. i \in bad
        BY <3>1
      <3>3. 1 .. n \in SUBSET Nat
        BY <1>0
      <3> QED
        BY ONLY <3>2, <3>3, Zenon
    <2>2. PICK m \in bad : \A i \in bad : m <= i
      BY <2>1, LeastNatural
    <2>3. m \in 1 .. n /\ ~Clean(values[m]) /\ \A i \in 1 .. m - 1 : Clean(values[i])
      BY <2>2, <1>0
    <2> HIDE DEF Before
    <2>4. Before(m)
      BY <2>3, <1>5
    <2> QED
      BY ONLY <1>2, <2>3, <2>4
  <1> QED
    BY <1>6, <1>7 DEF AllClean, LastField, IsRefused

\* Behind the fields values the reader has met CR and LF, and is at e.
RecordEnds(st, text, e, s, lim, rows, part, values) ==
    \E row, field, mode, ending, next, q :
        /\ Append(row, field) = values /\ mode \in {"fresh", "plain"} /\ q \in 0 .. Len(text)
        /\ st[q] = ReadCharacter(Reading(rows, part, row, field, mode, ending), "CR", "LF", s, lim)
        /\ st[e] = ReadCharacter(st[q], "LF", next, s, lim)

\* What the line break behind a record finds.
LEMMA RecordEnd ==
    ASSUME NEW C, Marks \subseteq C, NEW text \in Seq(C), NEW s, NEW lim,
           NEW st, IsRun(st, text, s, lim),
           NEW values \in Seq(Seq(C)), NEW styles, Len(values) > 0,
           NEW p \in Nat, Occurs(RecordText(values, styles), text, p),
           NEW rows, NEW part, NEW last,
           st[p] = Reading(rows, part, <<>>, <<>>, "fresh", last)
    PROVE  /\ AllClean(values) =>
                 RecordEnds(st, text, p + Len(RecordText(values, styles)), s, lim, rows, part, values)
           /\ ~AllClean(values) => IsRefused(st, text)
  <1> DEFINE n == Len(values)
  <1>0. n \in Nat /\ n > 0 /\ Len(text) \in Nat
    OBVIOUS
  <1>1. PICK f : /\ Ruled(f, values, styles, text, p)
                 /\ Len(RecordText(values, styles)) = Len(f[n]) + 2
    BY RecordIsRuled, SMTT(30)
  <1>2. /\ AllClean(values) => LastField(st[p + Len(f[n])], rows, part, values)
        /\ ~AllClean(values) => IsRefused(st, text)
    BY <1>1, FieldsRead
  <1>3. ASSUME AllClean(values)
        PROVE RecordEnds(st, text, p + Len(RecordText(values, styles)), s, lim, rows, part, values)
    <2>1. PICK r \in Nat : r = p + Len(f[n])
      BY <1>1 DEF Ruled
    <2>2. /\ r + 2 <= Len(text) /\ text[r + 1] = "CR" /\ text[r + 2] = "LF"
          /\ p + Len(RecordText(values, styles)) = r + 2
      BY <1>1, <2>1 DEF Ruled
    <2>0. PICK mode \in {"fresh", "plain"} : \E ending :
             st[r] = Reading(rows, part, SubSeq(values, 1, n - 1), values[n], mode, ending)
      BY ONLY <1>2, <1>3, <2>1, Zenon DEF AtField, LastField
    <2>3. PICK ending :
             st[r] = Reading(rows, part, SubSeq(values, 1, n - 1), values[n], mode, ending)
      BY ONLY <2>0, Zenon
    <2>4. st[r + 1] = ReadCharacter(st[r], "CR", "LF", s, lim)
      <3>1. r < Len(text) /\ r + 1 < Len(text)
        BY <1>0, <2>2
      <3>2. st[r + 1] = ReadCharacter(st[r], text[r + 1], text[r + 2], s, lim)
        BY <3>1, RunStep
      <3> QED
        BY <2>2, <3>2
    <2>5. PICK q \in Nat : q = r + 1 /\ q + 1 = r + 2 /\ q < Len(text) /\ q \in 0 .. Len(text)
      BY <1>0, <2>2
    <2>6. PICK next : st[r + 2] = ReadCharacter(st[q], "LF", next, s, lim)
      <3>1. \E next : st[q + 1] = ReadCharacter(st[q], text[q + 1], next, s, lim)
        BY <2>5, RunStep
      <3> QED
        BY <2>2, <2>5, <3>1
    <2>7. Append(SubSeq(values, 1, n - 1), values[n]) = values
      <3>1. PICK k \in 0 .. n - 1 : k = n - 1 /\ k + 1 = n
        <4>1. n - 1 \in 0 .. n - 1 /\ (n - 1) + 1 = n
          BY <1>0
        <4> QED
          BY ONLY <4>1, Zenon
      <3>2. SubSeq(values, 1, k + 1) = Append(SubSeq(values, 1, k), values[k + 1])
        BY <3>1, SubSeqStep
      <3>3. SubSeq(values, 1, n) = values
        BY SubSeqEnds
      <3> QED
        BY <3>1, <3>2, <3>3
    <2>8. st[q] = ReadCharacter(Reading(rows, part, SubSeq(values, 1, n - 1), values[n], mode, ending),
                                "CR", "LF", s, lim)
      BY ONLY <2>3, <2>4, <2>5, Zenon
    <2>9. st[p + Len(RecordText(values, styles))] = ReadCharacter(st[q], "LF", next, s, lim)
      BY ONLY <2>2, <2>6, Zenon
    <2> QED
      BY ONLY <2>5, <2>7, <2>8, <2>9, mode \in {"fresh", "plain"}, Zenon DEF RecordEnds
  <1> QED
    BY ONLY <1>2, <1>3, Zenon

\* The header.
LEMMA HeaderRead ==
    ASSUME NEW C, Marks \subseteq C, NEW text \in Seq(C), NEW s, NEW lim,
           NEW st, IsRun(st, text, s, lim),
           Names(s) \in Seq(Seq(C)), Len(Names(s)) > 0, Len(Names(s)) = Len(s.columns),
           NEW styles, NEW p \in Nat, Occurs(RecordText(Names(s), styles), text, p),
           NEW rows, NEW last, st[p] = Reading(rows, "header", <<>>, <<>>, "fresh", last)
    PROVE  /\ AllClean(Names(s)) => st[p + Len(RecordText(Names(s), styles))] = Between(rows)
           /\ ~AllClean(Names(s)) => IsRefused(st, text)
  <1> SUFFICES ASSUME AllClean(Names(s))
               PROVE  st[p + Len(RecordText(Names(s), styles))] = Between(rows)
    BY RecordEnd
  <1>1. PICK row, field, mode, ending, next, q :
           /\ Append(row, field) = Names(s) /\ mode \in {"fresh", "plain"}
           /\ st[q] = ReadCharacter(Reading(rows, "header", row, field, mode, ending),
                                    "CR", "LF", s, lim)
           /\ st[p + Len(RecordText(Names(s), styles))] = ReadCharacter(st[q], "LF", next, s, lim)
    <2>1. PICK values \in Seq(Seq(C)) : values = Names(s)
      OBVIOUS
    <2>2. RecordEnds(st, text, p + Len(RecordText(values, styles)), s, lim, rows, "header", values)
      BY <2>1, RecordEnd
    <2> QED
      BY ONLY <2>1, <2>2, Zenon DEF RecordEnds
  <1>2. /\ mode \in {"fresh", "plain"} /\ Append(row, field) = Names(s)
        /\ Len(Names(s)) = Len(s.columns)
    BY <1>1
  <1>3. PICK lf : lf = st[p + Len(RecordText(Names(s), styles))]
    OBVIOUS
  <1>4. PICK cr : cr = st[q]
    OBVIOUS
  <1>5. /\ cr = ReadCharacter(Reading(rows, "header", row, field, mode, ending), "CR", "LF", s, lim)
        /\ lf = ReadCharacter(cr, "LF", next, s, lim)
    BY ONLY <1>1, <1>3, <1>4, Zenon
  <1>6. lf = Between(rows)
    BY ONLY <1>2, <1>5, HeaderEnds
  <1> QED
    BY <1>3, <1>6

\* What the reader, at e, has made of the row values behind rows.
RowOutcome(st, text, e, s, lim, rows, values) ==
    /\ AllClean(values) /\ ValidateValues(values, s) /\ ~Full(rows, lim) =>
          st[e] = Between(Append(rows, values))
    /\ ~AllClean(values) \/ ~ValidateValues(values, s) \/ Full(rows, lim) =>
          IsRefused(st, text)

\* A row.
LEMMA RowRead ==
    ASSUME NEW C, Marks \subseteq C, NEW text \in Seq(C), NEW s, NEW lim,
           NEW st, IsRun(st, text, s, lim),
           NEW values \in Seq(Seq(C)), Len(values) > 0, Len(values) = Len(s.columns),
           NEW styles, NEW p \in Nat, Occurs(RecordText(values, styles), text, p),
           NEW rows, st[p] = Between(rows)
    PROVE  RowOutcome(st, text, p + Len(RecordText(values, styles)), s, lim, rows, values)
  <1>0. st[p] = Reading(rows, "rows", <<>>, <<>>, "fresh", "ended")
    BY DEF Between
  <1>1. ~AllClean(values) => IsRefused(st, text)
    BY <1>0, RecordEnd
  <1> SUFFICES ASSUME AllClean(values)
               PROVE  /\ ValidateValues(values, s) /\ ~Full(rows, lim) =>
                            st[p + Len(RecordText(values, styles))] = Between(Append(rows, values))
                      /\ ~ValidateValues(values, s) \/ Full(rows, lim) => IsRefused(st, text)
    BY <1>1 DEF RowOutcome
  <1>2. PICK row, field, mode, ending, next, q :
           /\ Append(row, field) = values /\ mode \in {"fresh", "plain"}
           /\ q \in 0 .. Len(text)
           /\ st[q] = ReadCharacter(Reading(rows, "rows", row, field, mode, ending),
                                    "CR", "LF", s, lim)
           /\ st[p + Len(RecordText(values, styles))] = ReadCharacter(st[q], "LF", next, s, lim)
    <2>1. RecordEnds(st, text, p + Len(RecordText(values, styles)), s, lim, rows, "rows", values)
      BY <1>0, RecordEnd
    <2> QED
      BY ONLY <2>1, Zenon DEF RecordEnds
  <1>3. /\ mode \in {"fresh", "plain"} /\ Append(row, field) = values
        /\ Len(values) = Len(s.columns)
    BY <1>2
  <1>4. PICK lf : lf = st[p + Len(RecordText(values, styles))]
    OBVIOUS
  <1>5. PICK cr : cr = st[q]
    OBVIOUS
  <1>6. /\ cr = ReadCharacter(Reading(rows, "rows", row, field, mode, ending), "CR", "LF", s, lim)
        /\ lf = ReadCharacter(cr, "LF", next, s, lim)
    BY ONLY <1>2, <1>4, <1>5, Zenon
  <1>7. /\ ValidateValues(values, s) /\ ~Full(rows, lim) =>
              lf = Between(Append(rows, values))
        /\ ~ValidateValues(values, s) \/ Full(rows, lim) => cr.why # "none"
    <2>1. ASSUME ValidateValues(values, s), ~Full(rows, lim)
          PROVE  lf = Between(Append(rows, values))
      BY ONLY <1>3, <1>6, <2>1, RowAccepted
    <2>2. ASSUME ~ValidateValues(values, s) \/ Full(rows, lim)
          PROVE  cr.why # "none"
      BY ONLY <1>3, <1>6, <2>2, RowRefused
    <2> QED
      BY ONLY <2>1, <2>2, Zenon
  <1>8. ~ValidateValues(values, s) \/ Full(rows, lim) => IsRefused(st, text)
    BY ONLY <1>2, <1>5, <1>7, Zenon DEF IsRefused
  <1>9. ValidateValues(values, s) /\ ~Full(rows, lim) =>
           st[p + Len(RecordText(values, styles))] = Between(Append(rows, values))
    BY ONLY <1>4, <1>7, Zenon
  <1> QED
    BY ONLY <1>8, <1>9, Zenon

-----------------------------------------------------------------------------
(* Sheets.                                                                 *)

\* A concatenation of texts is a text.
LEMMA FlattenType ==
    ASSUME NEW C, NEW ss \in Seq(Seq(C))
    PROVE  FlattenSeq(ss) \in Seq(C)
  <1>1. PICK f : JoinedSoFar(f, ss, C) /\ f[Len(ss)] = FlattenSeq(ss)
    BY FlattenPrefixes
  <1>2. Len(ss) \in 0 .. Len(ss)
    OBVIOUS
  <1> QED
    BY <1>1, <1>2 DEF JoinedSoFar

\* A record is a text.
LEMMA RecordType ==
    ASSUME NEW C, Marks \subseteq C, NEW values \in Seq(Seq(C)), NEW styles
    PROVE  RecordText(values, styles) \in Seq(C)
  <1>1. Fields(values, styles) \in Seq(Seq(C))
    BY FieldsType
  <1>2. FlattenSeq(Fields(values, styles)) \in Seq(C)
    BY <1>1, FlattenType
  <1>3. CRLF \in Seq(C)
    BY DEF Marks, CRLF
  <1>4. \A a, b \in Seq(C) : a \o b \in Seq(C)
    OBVIOUS
  <1> QED
    BY ONLY <1>2, <1>3, <1>4, Zenon DEF RecordText

\* A row the reader takes when it has read i - 1 before it.
Readable(row, i, s, lim) ==
    AllClean(row) /\ ValidateValues(row, s) /\ ~(i - 1 >= lim.rows)

\* The lines of a sheet are texts.
LEMMA LinesType ==
    ASSUME NEW C, Marks \subseteq C, NEW rows \in Seq(Seq(Seq(C))), NEW styles
    PROVE  /\ Lines(rows, styles) \in Seq(Seq(C)) /\ Len(Lines(rows, styles)) = Len(rows)
           /\ \A i \in 1 .. Len(rows) : /\ rows[i] \in Seq(Seq(C))
                                        /\ Lines(rows, styles)[i] = RecordText(rows[i], styles[i])
  <1>1. \A i \in 1 .. Len(rows) : rows[i] \in Seq(Seq(C))
    OBVIOUS
  <1>2. \A i \in 1 .. Len(rows) : RecordText(rows[i], styles[i]) \in Seq(C)
    BY <1>1, RecordType
  <1>3. DOMAIN rows = 1 .. Len(rows) /\ Len(rows) \in Nat
    OBVIOUS
  <1>4. Lines(rows, styles) \in [1 .. Len(rows) -> Seq(C)]
    BY <1>2, <1>3 DEF Lines
  <1>5. Lines(rows, styles) \in Seq(Seq(C)) /\ Len(Lines(rows, styles)) = Len(rows)
    BY ONLY <1>3, <1>4
  <1>6. \A i \in 1 .. Len(rows) : Lines(rows, styles)[i] = RecordText(rows[i], styles[i])
    BY <1>3 DEF Lines
  <1> QED
    BY <1>1, <1>5, <1>6

\* Rows, read one after the other.
LEMMA RowsRead ==
    ASSUME NEW C, Marks \subseteq C, NEW text \in Seq(C), NEW s, NEW lim,
           NEW st, IsRun(st, text, s, lim), Len(s.columns) > 0,
           NEW rows \in Seq(Seq(Seq(C))), \A i \in 1 .. Len(rows) : Len(rows[i]) = Len(s.columns),
           NEW styles, NEW p \in Nat, Occurs(FlattenSeq(Lines(rows, styles)), text, p),
           st[p] = Between(<<>>)
    PROVE  /\ (\A i \in 1 .. Len(rows) : Readable(rows[i], i, s, lim)) =>
                 st[p + Len(FlattenSeq(Lines(rows, styles)))] = Between(rows)
           /\ (\E i \in 1 .. Len(rows) : ~Readable(rows[i], i, s, lim)) => IsRefused(st, text)
  <1> DEFINE n == Len(rows)
             ss == Lines(rows, styles)
  <1>0. n \in Nat
    OBVIOUS
  <1>1. /\ ss \in Seq(Seq(C)) /\ Len(ss) = n
        /\ \A i \in 1 .. n : rows[i] \in Seq(Seq(C)) /\ ss[i] = RecordText(rows[i], styles[i])
    BY LinesType
  <1> HIDE DEF ss
  <1>2. PICK f : JoinedSoFar(f, ss, C) /\ f[n] = FlattenSeq(ss)
    BY <1>1, FlattenPrefixes
  <1>3. LaidOut(f, ss, text, p)
    <2>1. Occurs(f[Len(ss)], text, p)
      BY <1>1, <1>2 DEF ss
    <2> QED
      BY <1>1, <1>2, <2>1, OccursFlatten
  <1>4. f[0] = <<>> /\ \A i \in 0 .. n : f[i] \in Seq(C) /\ Len(f[i]) \in Nat
    <2>1. f[0] = <<>> /\ \A i \in 0 .. n : f[i] \in Seq(C)
      BY <1>1, <1>2 DEF JoinedSoFar
    <2>2. \A q \in Seq(C) : Len(q) \in Nat
      OBVIOUS
    <2> QED
      BY ONLY <2>1, <2>2
  <1> DEFINE After(k) == st[p + Len(f[k])] = Between(SubSeq(rows, 1, k))
  <1>5. ASSUME NEW k \in 0 .. n - 1, After(k)
        PROVE  /\ Readable(rows[k + 1], k + 1, s, lim) => After(k + 1)
               /\ ~Readable(rows[k + 1], k + 1, s, lim) => IsRefused(st, text)
    <2>0. /\ k \in Nat /\ k + 1 \in 1 .. n /\ (k + 1) - 1 = k /\ k \in 0 .. n /\ k + 1 \in 0 .. n
          /\ k \in 0 .. Len(rows) - 1
      BY <1>0
    <2>a. PICK q \in Nat : q = p + Len(f[k])
      <3>1. PICK a \in Nat : a = Len(f[k])
        BY ONLY <2>0, <1>4
      <3>2. p + a \in Nat
        OBVIOUS
      <3> QED
        BY ONLY <3>1, <3>2
    <2>b. PICK values \in Seq(Seq(C)) : values = rows[k + 1]
      BY <2>0, <1>1
    <2>c. PICK style, before : style = styles[k + 1] /\ before = SubSeq(rows, 1, k)
      OBVIOUS
    <2>d. PICK m \in 1 .. n : m = k + 1
      BY <2>0
    <2>1. /\ q = p + Len(f[k]) /\ values = rows[k + 1] /\ style = styles[k + 1]
          /\ before = SubSeq(rows, 1, k) /\ m = k + 1
      BY <2>a, <2>b, <2>c, <2>d
    <2>2. st[q] = Between(before)
      BY ONLY <1>5, <2>1, Zenon
    <2>3. /\ Occurs(RecordText(values, style), text, q)
          /\ p + Len(f[m]) = q + Len(RecordText(values, style))
      <3>1. /\ Occurs(ss[m], text, p + Len(f[m - 1]))
            /\ Len(f[m]) = Len(f[m - 1]) + Len(ss[m])
        BY <1>1, <1>3 DEF LaidOut
      <3>2. ss[m] = RecordText(values, style) /\ m - 1 = k
        BY <1>1, <2>0, <2>1
      <3>3. PICK a \in Nat, b \in Nat : a = Len(f[k]) /\ b = Len(RecordText(values, style))
        <4>1. Len(f[k]) \in Nat
          BY <1>4, <2>0
        <4>2. Len(RecordText(values, style)) \in Nat
          BY RecordType
        <4> QED
          BY ONLY <4>1, <4>2, Zenon
      <3>4. p + (a + b) = q + b
        BY ONLY <2>a, <3>3, p \in Nat, q \in Nat, a \in Nat, b \in Nat
      <3> QED
        BY ONLY <3>1, <3>2, <3>3, <3>4, <2>1
    <2>4. /\ Len(values) = Len(s.columns) /\ Len(values) > 0
      BY <2>1
    <2>5. /\ AllClean(values) /\ ValidateValues(values, s) /\ ~Full(before, lim) =>
                st[q + Len(RecordText(values, style))] = Between(Append(before, values))
          /\ ~AllClean(values) \/ ~ValidateValues(values, s) \/ Full(before, lim) =>
                IsRefused(st, text)
      <3>1. RowOutcome(st, text, q + Len(RecordText(values, style)), s, lim, before, values)
        BY <2>2, <2>3, <2>4, RowRead
      <3> QED
        BY ONLY <3>1, Zenon DEF RowOutcome
    <2>6. SubSeq(rows, 1, k + 1) = Append(before, values) /\ Len(before) = k
      BY <2>0, <2>1, SubSeqStep
    <2>7. Full(before, lim) <=> (k + 1) - 1 >= lim.rows
      BY <2>0, <2>6 DEF Full
    <2>8. Readable(rows[k + 1], k + 1, s, lim) <=>
             AllClean(values) /\ ValidateValues(values, s) /\ ~Full(before, lim)
      BY <2>1, <2>7 DEF Readable
    <2>9. ASSUME AllClean(values) /\ ValidateValues(values, s) /\ ~Full(before, lim)
          PROVE  After(k + 1)
      BY ONLY <2>1, <2>3, <2>5, <2>6, <2>9, Zenon
    <2> QED
      BY ONLY <2>5, <2>8, <2>9, Zenon
  <1> HIDE DEF After
  <1> DEFINE T == {k \in Nat : k <= n /\ (\A i \in 1 .. k : Readable(rows[i], i, s, lim)) => After(k)}
  <1>6. 0 \in T
    <2>1. After(0)
      <3>1. Len(f[0]) = 0 /\ p + 0 = p /\ SubSeq(rows, 1, 0) = <<>>
        BY <1>4, SubSeqEnds
      <3> QED
        BY <3>1 DEF After
    <2> QED
      BY <2>1
  <1>7. ASSUME NEW k \in 0 .. n - 1, k \in T
        PROVE  k + 1 \in T
    <2>0. k \in Nat /\ k + 1 \in Nat /\ k <= n
      BY <1>0
    <2> SUFFICES ASSUME \A i \in 1 .. k + 1 : Readable(rows[i], i, s, lim) PROVE After(k + 1)
      BY <2>0
    <2>1. (\A i \in 1 .. k : Readable(rows[i], i, s, lim)) /\ Readable(rows[k + 1], k + 1, s, lim)
      BY <2>0
    <2> QED
      BY <1>5, <1>7, <2>0, <2>1
  <1> HIDE DEF T
  <1>8. \A k \in 0 .. n : k \in T
    BY ONLY <1>0, <1>6, <1>7, UpTo
  <1>9. ASSUME \A i \in 1 .. n : Readable(rows[i], i, s, lim)
        PROVE  st[p + Len(FlattenSeq(ss))] = Between(rows)
    <2>1. After(n)
      BY <1>0, <1>8, <1>9 DEF T
    <2>2. SubSeq(rows, 1, n) = rows
      BY SubSeqEnds
    <2> QED
      BY ONLY <1>2, <2>1, <2>2, Zenon DEF After
  <1>10. ASSUME \E i \in 1 .. n : ~Readable(rows[i], i, s, lim)
         PROVE  IsRefused(st, text)
    <2> DEFINE bad == {i \in 1 .. n : ~Readable(rows[i], i, s, lim)}
    <2>1. bad # {} /\ bad \in SUBSET Nat
      <3>1. PICK i \in 1 .. n : ~Readable(rows[i], i, s, lim)
        BY <1>10
      <3>2. i \in bad
        BY <3>1
      <3>3. 1 .. n \in SUBSET Nat
        BY <1>0
      <3> QED
        BY ONLY <3>2, <3>3, Zenon
    <2>2. PICK m \in bad : \A i \in bad : m <= i
      BY <2>1, LeastNatural
    <2>3. /\ m \in 1 .. n /\ ~Readable(rows[m], m, s, lim)
          /\ \A i \in 1 .. m - 1 : Readable(rows[i], i, s, lim)
      BY <2>2, <1>0
    <2>4. PICK k \in 0 .. n - 1 : k = m - 1 /\ k + 1 = m
      <3>1. m - 1 \in 0 .. n - 1 /\ (m - 1) + 1 = m
        BY <1>0, <2>3
      <3> QED
        BY ONLY <3>1, Zenon
    <2>5. k \in Nat /\ k <= n /\ k \in 0 .. n
      BY <1>0
    <2>6. After(k)
      BY <1>8, <2>3, <2>4, <2>5 DEF T
    <2> QED
      BY <1>5, <2>3, <2>4, <2>6
  <1> QED
    BY <1>9, <1>10 DEF ss

\* What the reader takes: no line breaks, valid values, no more rows than the limit.
CanRead(s, rows, lim) ==
    /\ AllClean(Names(s)) /\ Len(rows) <= lim.rows
    /\ \A i \in 1 .. Len(rows) : AllClean(rows[i]) /\ ValidateValues(rows[i], s)

\* rows is a table of texts over C that fits the columns of s.
TableOver(rows, s, C) ==
    /\ rows \in Seq(Seq(Seq(C))) /\ \A i \in 1 .. Len(rows) : Len(rows[i]) = Len(s.columns)

\* A schema with columns and names that are texts over C.
NamesOver(s, C) ==
    Names(s) \in Seq(Seq(C)) /\ Len(Names(s)) = Len(s.columns) /\ Len(s.columns) > 0

\* Where the loop ends on a sheet.
LEMMA SheetRead ==
    ASSUME NEW C, Marks \subseteq C, NEW s, NEW lim, lim.rows \in Nat, NamesOver(s, C),
           NEW rows, TableOver(rows, s, C), NEW top, NEW styles, NEW text,
           text = Sheet(s, rows, top, styles)
    PROVE  /\ text \in Seq(C)
           /\ CanRead(s, rows, lim) => ReaderStates(text, s, lim)[Len(text)] = Between(rows)
           /\ ~CanRead(s, rows, lim) => ReaderStates(text, s, lim)[Len(text)].why # "none"
  <1> DEFINE head == RecordText(Names(s), top)
             body == FlattenSeq(Lines(rows, styles))
  <1> USE DEF NamesOver, TableOver
  <1>1. head \in Seq(C) /\ body \in Seq(C)
    BY RecordType, LinesType, FlattenType
  <1>2. text = head \o body
    BY DEF Sheet
  <1> HIDE DEF head, body
  <1>3. /\ text \in Seq(C) /\ Len(text) = Len(head) + Len(body)
        /\ Len(head) \in Nat /\ Len(body) \in Nat /\ Len(text) \in Nat
    BY <1>1, <1>2
  <1>4. PICK st : st = ReaderStates(text, s, lim)
    OBVIOUS
  <1>5. IsRun(st, text, s, lim)
    BY <1>3, <1>4, ReaderRuns
  <1>6. Occurs(head, text, 0) /\ Occurs(body, text, Len(head))
    <2>1. PICK z \in Nat : z = 0
      OBVIOUS
    <2>2. Occurs(head \o body, text, z)
      <3>1. Occurs(text, text, z)
        BY <1>3, <2>1 DEF Occurs
      <3> QED
        BY <1>2, <3>1
    <2>3. Occurs(head, text, z) /\ Occurs(body, text, z + Len(head))
      BY <1>1, <1>3, <2>2, OccursConcat
    <2> QED
      BY <1>3, <2>1, <2>3
  <1>7. st[0] = Reading(<<>>, "header", <<>>, <<>>, "fresh", "open")
    BY <1>5 DEF IsRun, ReaderStart, Reading
  <1>8. /\ AllClean(Names(s)) => st[Len(head)] = Between(<<>>)
        /\ ~AllClean(Names(s)) => IsRefused(st, text)
    <2>1. PICK z \in Nat : z = 0 /\ z + Len(head) = Len(head)
      BY <1>3
    <2>2. Occurs(RecordText(Names(s), top), text, z)
      BY <1>6, <2>1 DEF head
    <2>3. PICK none : none = <<>>
      OBVIOUS
    <2>4. st[z] = Reading(none, "header", <<>>, <<>>, "fresh", "open")
      BY ONLY <1>7, <2>1, <2>3, Zenon
    <2>5. Len(Names(s)) > 0
      OBVIOUS
    <2>6. /\ AllClean(Names(s)) => st[z + Len(RecordText(Names(s), top))] = Between(none)
          /\ ~AllClean(Names(s)) => IsRefused(st, text)
      <3>1. Names(s) \in Seq(Seq(C)) /\ Len(Names(s)) = Len(s.columns)
        OBVIOUS
      <3> QED
        BY ONLY <1>3, <1>5, <2>2, <2>4, <2>5, <3>1, Marks \subseteq C, z \in Nat, HeaderRead
    <2> QED
      BY ONLY <2>1, <2>3, <2>6, Zenon DEF head
  <1>9. CanRead(s, rows, lim) <=>
           AllClean(Names(s)) /\ \A i \in 1 .. Len(rows) : Readable(rows[i], i, s, lim)
    <2>1. Len(rows) \in Nat
      OBVIOUS
    <2>2. Len(rows) <= lim.rows <=> \A i \in 1 .. Len(rows) : ~(i - 1 >= lim.rows)
      <3>1. PICK n \in Nat, l \in Nat : n = Len(rows) /\ l = lim.rows
        BY <2>1
      <3>2. n <= l <=> \A i \in 1 .. n : ~(i - 1 >= l)
        <4>1. ASSUME \A i \in 1 .. n : ~(i - 1 >= l)
              PROVE  n <= l
          <5>1. CASE n = 0
            BY <5>1
          <5>2. CASE n # 0
            <6>1. n \in 1 .. n
              BY <5>2
            <6>2. ~(n - 1 >= l)
              BY <4>1, <6>1
            <6> QED
              BY ONLY <6>2, n \in Nat, l \in Nat
          <5> QED
            BY <5>1, <5>2
        <4>2. ASSUME n <= l, NEW i \in 1 .. n
              PROVE  ~(i - 1 >= l)
          BY <4>2
        <4> QED
          BY <4>1, <4>2
      <3> QED
        BY <3>1, <3>2
    <2> QED
      BY <2>2 DEF CanRead, Readable
  <1>10. ASSUME AllClean(Names(s))
         PROVE  /\ (\A i \in 1 .. Len(rows) : Readable(rows[i], i, s, lim)) =>
                     st[Len(text)] = Between(rows)
                /\ (\E i \in 1 .. Len(rows) : ~Readable(rows[i], i, s, lim)) =>
                     IsRefused(st, text)
    <2>1. PICK p \in Nat : p = Len(head)
      BY <1>3
    <2>2. st[p] = Between(<<>>) /\ Occurs(FlattenSeq(Lines(rows, styles)), text, p)
      BY <1>6, <1>8, <1>10, <2>1 DEF body
    <2>3. p + Len(FlattenSeq(Lines(rows, styles))) = Len(text)
      BY <1>3, <2>1 DEF body
    <2>4. Len(s.columns) > 0
      OBVIOUS
    <2>5. /\ (\A i \in 1 .. Len(rows) : Readable(rows[i], i, s, lim)) =>
               st[p + Len(FlattenSeq(Lines(rows, styles)))] = Between(rows)
          /\ (\E i \in 1 .. Len(rows) : ~Readable(rows[i], i, s, lim)) =>
               IsRefused(st, text)
      <3>1. rows \in Seq(Seq(Seq(C))) /\ \A i \in 1 .. Len(rows) : Len(rows[i]) = Len(s.columns)
        OBVIOUS
      <3> QED
        BY ONLY <1>3, <1>5, <2>2, <2>4, <3>1, Marks \subseteq C, p \in Nat, RowsRead
    <2> QED
      BY <2>3, <2>5
  <1>11. IsRefused(st, text) => st[Len(text)].why # "none"
    <2> SUFFICES ASSUME IsRefused(st, text) PROVE st[Len(text)].why # "none"
      OBVIOUS
    <2>1. PICK j \in 0 .. Len(text) : st[j].why # "none"
      BY DEF IsRefused
    <2>2. st[Len(text)] = st[j]
      BY ONLY <1>3, <1>5, <2>1, Stuck, j \in 0 .. Len(text)
    <2> QED
      BY <2>1, <2>2
  <1> QED
    BY ONLY <1>3, <1>4, <1>8, <1>9, <1>10, <1>11, Zenon

\* What parse_csv makes of a sheet: the rows that were written, or nothing.
LEMMA SheetParsed ==
    ASSUME NEW C, Marks \subseteq C, NEW s, NEW lim, lim.rows \in Nat, NamesOver(s, C),
           NEW rows, TableOver(rows, s, C), NEW top, NEW styles, NEW text,
           text = Sheet(s, rows, top, styles)
    PROVE  /\ text \in Seq(C)
           /\ ParseCsv(text, s, lim).ok => CanRead(s, rows, lim) /\ ParseCsv(text, s, lim).rows = rows
           /\ (/\ CanRead(s, rows, lim) /\ "not-utf8" \notin ToSet(text)
               /\ ~(text # <<>> /\ Head(text) = "BOM")) => ParseCsv(text, s, lim).ok
  <1>1. PICK final : final = ReaderStates(text, s, lim)[Len(text)]
    OBVIOUS
  <1>2. /\ text \in Seq(C)
        /\ CanRead(s, rows, lim) => final = Between(rows)
        /\ ~CanRead(s, rows, lim) => final.why # "none"
    BY <1>1, SheetRead
  <1>3. ParseCsv(text, s, lim) =
          IF text # <<>> /\ Head(text) = "BOM" THEN Refused("bom")
          ELSE IF "not-utf8" \in ToSet(text) THEN Refused("utf8")
          ELSE IF final.why # "none" THEN Refused(final.why)
          ELSE IF final.quoted \/ ~final.ended \/ final.row # <<>> \/ final.field # <<>>
          THEN Refused("end")
          ELSE Read(final.rows)
    BY <1>1 DEF ParseCsv
  <1>4. ASSUME final = Between(rows)
        PROVE  /\ final.why = "none" /\ ~final.quoted /\ final.ended /\ final.row = <<>>
               /\ final.field = <<>> /\ final.rows = rows
    BY <1>4 DEF Between, Reading
  <1>5. (\A w : ~Refused(w).ok) /\ (\A r : Read(r).ok /\ Read(r).rows = r)
    BY DEF Refused, Read
  <1>6. ASSUME ~CanRead(s, rows, lim)
        PROVE  ~ParseCsv(text, s, lim).ok
    BY ONLY <1>2, <1>3, <1>5, <1>6
  <1>7. ASSUME CanRead(s, rows, lim)
        PROVE  /\ ParseCsv(text, s, lim).ok => ParseCsv(text, s, lim).rows = rows
               /\ ("not-utf8" \notin ToSet(text) /\ ~(text # <<>> /\ Head(text) = "BOM"))
                     => ParseCsv(text, s, lim).ok
    <2>1. \/ ParseCsv(text, s, lim) = Read(rows)
          \/ /\ \E w : ParseCsv(text, s, lim) = Refused(w)
             /\ "not-utf8" \in ToSet(text) \/ (text # <<>> /\ Head(text) = "BOM")
      <3>1. /\ final.why = "none" /\ ~final.quoted /\ final.ended /\ final.row = <<>>
            /\ final.field = <<>> /\ final.rows = rows
        BY ONLY <1>2, <1>4, <1>7
      <3>2. CASE text # <<>> /\ Head(text) = "BOM"
        BY ONLY <1>3, <3>2
      <3>3. CASE ~(text # <<>> /\ Head(text) = "BOM") /\ "not-utf8" \in ToSet(text)
        BY ONLY <1>3, <3>3
      <3>4. CASE ~(text # <<>> /\ Head(text) = "BOM") /\ "not-utf8" \notin ToSet(text)
        <4>1. ParseCsv(text, s, lim) = Read(final.rows)
          BY ONLY <1>3, <3>1, <3>4
        <4> QED
          BY ONLY <3>1, <4>1
      <3> QED
        BY ONLY <3>2, <3>3, <3>4
    <2>2. CASE ParseCsv(text, s, lim) = Read(rows)
      BY ONLY <2>2, <1>5
    <2>3. CASE ParseCsv(text, s, lim) # Read(rows)
      <3>1. ~ParseCsv(text, s, lim).ok
        BY ONLY <2>1, <2>3, <1>5
      <3>2. "not-utf8" \in ToSet(text) \/ (text # <<>> /\ Head(text) = "BOM")
        BY ONLY <2>1, <2>3
      <3> QED
        BY ONLY <3>1, <3>2
    <2> QED
      BY ONLY <2>2, <2>3
  <1> QED
    BY ONLY <1>2, <1>6, <1>7

\* A sheet begins with a byte order mark only if its first name does.
LEMMA SheetHead ==
    ASSUME NEW C, Marks \subseteq C, NEW s, NamesOver(s, C),
           \A i \in 1 .. Len(Names(s)) : "BOM" \notin ToSet(Names(s)[i]),
           NEW rows, TableOver(rows, s, C), NEW top, NEW styles, NEW text,
           text = Sheet(s, rows, top, styles)
    PROVE  ~(text # <<>> /\ Head(text) = "BOM")
  <1> DEFINE head == RecordText(Names(s), top)
             body == FlattenSeq(Lines(rows, styles))
  <1> USE DEF NamesOver, TableOver
  <1>1. head \in Seq(C) /\ body \in Seq(C)
    BY RecordType, LinesType, FlattenType
  <1>2. text = head \o body
    BY DEF Sheet
  <1> HIDE DEF head, body
  <1>3. text \in Seq(C) /\ Len(text) \in Nat
    BY <1>1, <1>2
  <1>4. PICK p \in Nat : p = 0
    OBVIOUS
  <1>5. Occurs(head, text, p)
    <2>1. Occurs(head \o body, text, p)
      <3>1. Occurs(text, text, p)
        BY <1>3, <1>4 DEF Occurs
      <3> QED
        BY <1>2, <3>1
    <2> QED
      BY ONLY <1>1, <1>3, <2>1, OccursConcat, p \in Nat
  <1>6. PICK values \in Seq(Seq(C)) : values = Names(s) /\ Len(values) > 0 /\ 1 \in 1 .. Len(values)
    OBVIOUS
  <1>7. PICK f : Ruled(f, values, top, text, p)
    <2>1. Occurs(RecordText(values, top), text, p)
      BY <1>5, <1>6 DEF head
    <2> QED
      BY ONLY <1>3, <1>6, <2>1, RecordIsRuled, Marks \subseteq C, p \in Nat, values \in Seq(Seq(C))
  <1>8. PICK value \in Seq(C) : value = values[1]
    BY <1>6
  <1>8a. PICK style : style = top[1]
    OBVIOUS
  <1>9. /\ Occurs(Spelling(value, style), text, p)
        /\ p + Len(Spelling(value, style)) = p + Len(f[1])
        /\ p + Len(f[1]) < Len(text)
        /\ text[p + Len(f[1]) + 1] \in {"COMMA", "CR"}
    <2>1. FieldAt(f, 1, p) = p
      <3>1. f[0] = <<>>
        BY ONLY <1>7 DEF Ruled
      <3>2. f[1 - 1] = <<>> /\ Len(<<>>) = 0
        BY ONLY <3>1
      <3> QED
        BY ONLY <3>2, p \in Nat DEF FieldAt
    <2>2. 1 < Len(values) \/ 1 = Len(values)
      <3>1. Len(values) \in Nat
        BY ONLY values \in Seq(Seq(C))
      <3>2. Len(values) > 0
        BY ONLY <1>6
      <3>3. \A n \in Nat : n > 0 => 1 < n \/ n = 1
        OBVIOUS
      <3> QED
        BY ONLY <3>1, <3>2, <3>3, Zenon
    <2> QED
      BY ONLY <1>6, <1>7, <1>8, <1>8a, <2>1, <2>2 DEF Ruled
  <1>10. "DQUOTE" \in C
    BY DEF Marks
  <1>11. Spelling(value, style) \in Seq(C)
    BY <1>10, SpellingType
  <1>12. text[1] # "BOM" /\ 1 <= Len(text)
    <2>1. CASE Len(Spelling(value, style)) = 0
      <3>1. PICK l \in Nat : l = Len(Spelling(value, style)) /\ l = 0
        BY <2>1
      <3>2. PICK r : r = Len(f[1])
        OBVIOUS
      <3>3. text[p + Len(Spelling(value, style)) + 1] \in {"COMMA", "CR"}
        BY ONLY <1>9
      <3>4. text[0 + 0 + 1] \in {"COMMA", "CR"}
        BY ONLY <3>1, <3>3, <1>4
      <3>5. p + Len(Spelling(value, style)) < Len(text)
        BY ONLY <1>9
      <3>6. 0 < Len(text)
        BY ONLY <3>5, <3>1, <1>4
      <3> QED
        BY ONLY <1>3, <3>4, <3>6
    <2>2. CASE Len(Spelling(value, style)) # 0 /\ Spelling(value, style) = InQuotes(value)
      <3>1. text[p + 1] = "DQUOTE" /\ p + Len(Doubled(value)) + 2 <= Len(text) /\ Doubled(value) \in Seq(C)
        BY <1>3, <1>9, <1>10, <2>2, QuotedParts
      <3>2. Len(Doubled(value)) \in Nat
        BY <3>1
      <3> QED
        BY ONLY <1>3, <1>4, <3>1, <3>2
    <2>3. CASE Len(Spelling(value, style)) # 0 /\ Spelling(value, style) # InQuotes(value)
      <3>1. Spelling(value, style) = value
        BY <2>3 DEF Spelling, EncodeCsvField
      <3>2. Len(value) \in Nat /\ Len(value) > 0 /\ 1 \in 1 .. Len(value) /\ 1 \in DOMAIN value
        BY <2>3, <3>1
      <3>3. text[p + 1] = value[1] /\ p + Len(value) <= Len(text)
        BY ONLY <3>1, <3>2, <1>9 DEF Occurs
      <3>4. value[1] # "BOM"
        <4>1. "BOM" \notin ToSet(value)
          BY ONLY <1>6, <1>8, \A i \in 1 .. Len(Names(s)) : "BOM" \notin ToSet(Names(s)[i])
        <4> QED
          BY <4>1, <3>2 DEF ToSet
      <3> QED
        BY ONLY <1>3, <1>4, <3>2, <3>3, <3>4
    <2> QED
      BY <2>1, <2>2, <2>3
  <1> QED
    BY <1>3, <1>12

-----------------------------------------------------------------------------
(* Texts of the model's tables, read and written.                          *)

\* The names of a host's schema are texts without a byte order mark.
LEMMA NamesAreTexts ==
    ASSUME NEW s \in Schemas
    PROVE  /\ Names(s) \in Seq(Seq(Characters)) /\ Len(Names(s)) = Len(s.columns)
           /\ Len(s.columns) \in Nat /\ DOMAIN s.columns = 1 .. Len(s.columns)
           /\ \A i \in 1 .. Len(Names(s)) : "BOM" \notin ToSet(Names(s)[i])
           /\ \A i \in DOMAIN s.columns : s.columns[i].type \in ColumnTypes
  <1>1. PICK T : T = [name : Seq(Characters \ {"BOM"}), type : ColumnTypes]
    OBVIOUS
  <1>2. s.columns \in Seq(T)
    BY <1>1, TableAssumptions
  <1>3. PICK n \in Nat : n = Len(s.columns) /\ DOMAIN s.columns = 1 .. n
    BY <1>2
  <1>4. \A i \in 1 .. n : s.columns[i] \in T
    BY <1>2, <1>3
  <1>5. \A i \in 1 .. n : s.columns[i].name \in Seq(Characters \ {"BOM"}) /\ s.columns[i].type \in ColumnTypes
    BY <1>1, <1>4
  <1>6. \A v \in Seq(Characters \ {"BOM"}) : v \in Seq(Characters) /\ "BOM" \notin ToSet(v)
    <2> SUFFICES ASSUME NEW v \in Seq(Characters \ {"BOM"})
                 PROVE  v \in Seq(Characters) /\ "BOM" \notin ToSet(v)
      OBVIOUS
    <2>1. \A i \in 1 .. Len(v) : v[i] \in Characters /\ v[i] # "BOM"
      OBVIOUS
    <2>2. Len(v) \in Nat /\ v = [i \in 1 .. Len(v) |-> v[i]] /\ DOMAIN v = 1 .. Len(v)
      OBVIOUS
    <2>3. v \in Seq(Characters)
      BY <2>1, <2>2, SeqDef
    <2> QED
      BY <2>1, <2>2, <2>3 DEF ToSet
  <1>7. /\ Names(s) \in [1 .. n -> Seq(Characters)]
        /\ \A i \in 1 .. n : Names(s)[i] = s.columns[i].name
    BY <1>3, <1>5, <1>6 DEF Names
  <1>8. Names(s) \in Seq(Seq(Characters)) /\ Len(Names(s)) = n
    BY <1>7, SeqDef, SMTT(30)
  <1> QED
    BY <1>3, <1>5, <1>6, <1>7, <1>8

\* What the reader makes of a legal text of a table.
LEMMA SheetOutcome ==
    ASSUME NEW s \in Schemas, NEW rows, IsTable(rows, s), Len(s.columns) > 0,
           NEW text \in Sheets(s, rows)
    PROVE  /\ text \in Seq(Characters)
           /\ ParseCsv(text, s, Limits).ok <=> CanRead(s, rows, Limits)
           /\ ParseCsv(text, s, Limits).ok => ParseCsv(text, s, Limits).rows = rows
  <1>1. PICK top, styles : text = Sheet(s, rows, top, styles)
    BY DEF Sheets
  <1>2. PICK C : C = Characters
    OBVIOUS
  <1>3. Marks \subseteq C /\ "not-utf8" \notin C
    BY <1>2, CharacterAssumptions DEF Marks, Special, Newline
  <1>4. NamesOver(s, C) /\ \A i \in 1 .. Len(Names(s)) : "BOM" \notin ToSet(Names(s)[i])
    BY <1>2, NamesAreTexts DEF NamesOver
  <1>5. TableOver(rows, s, C)
    <2>1. rows \in Seq(Seq(Seq(Characters))) /\ \A i \in DOMAIN rows : Len(rows[i]) = Len(s.columns)
      BY DEF IsTable
    <2>2. DOMAIN rows = 1 .. Len(rows)
      BY <2>1
    <2> QED
      BY <1>2, <2>1, <2>2 DEF TableOver
  <1>6. Limits.rows \in Nat
    BY LimitsAssumptions
  <1>7. /\ text \in Seq(C)
        /\ ParseCsv(text, s, Limits).ok => CanRead(s, rows, Limits) /\ ParseCsv(text, s, Limits).rows = rows
        /\ (/\ CanRead(s, rows, Limits) /\ "not-utf8" \notin ToSet(text)
            /\ ~(text # <<>> /\ Head(text) = "BOM")) => ParseCsv(text, s, Limits).ok
    BY ONLY <1>1, <1>3, <1>4, <1>5, <1>6, SheetParsed
  <1>8. ~(text # <<>> /\ Head(text) = "BOM")
    BY ONLY <1>1, <1>3, <1>4, <1>5, SheetHead
  <1>9. "not-utf8" \notin ToSet(text)
    <2>1. \A i \in DOMAIN text : text[i] \in C
      BY <1>7
    <2> QED
      BY <1>3, <2>1 DEF ToSet
  <1> QED
    BY ONLY <1>2, <1>7, <1>8, <1>9

\* The writer's way: quotes where they are needed.
AsNeeded(s) == [i \in DOMAIN s.columns |-> "needed"]

\* encode_record writes one of the spellings of a record.
LEMMA EncodedRecord ==
    ASSUME NEW s, NEW values, DOMAIN values = DOMAIN s.columns
    PROVE  EncodeRecord(values) = RecordText(values, AsNeeded(s))
  <1>1. \A v : EncodeCsvField(v) = Spelling(v, "needed")
    BY DEF Spelling
  <1>2. \A i \in DOMAIN values : AsNeeded(s)[i] = "needed"
    BY DEF AsNeeded
  <1>3. [i \in DOMAIN values |-> Separator(i) \o EncodeCsvField(values[i])]
          = [i \in DOMAIN values |-> Separator(i) \o Spelling(values[i], AsNeeded(s)[i])]
    BY ONLY <1>1, <1>2
  <1> QED
    BY ONLY <1>3, Zenon DEF EncodeRecord, RecordText, Fields

\* The texts of a JSON row that can be written are those of the SQL row: a
\* double that JSON cannot say has none.
LEMMA JsonTexts ==
    ASSUME NEW s \in Schemas, IsInjective(Names(s)),
           NEW row \in Seq(Seq(Characters)), Len(row) = Len(s.columns),
           \A i \in DOMAIN s.columns :
               ValueHasText(RowToJson(s, row)[s.columns[i].name], s.columns[i].type)
    PROVE  [i \in DOMAIN s.columns |-> RowToJson(s, row)[s.columns[i].name].text] = row
  <1>1. ASSUME NEW i \in DOMAIN s.columns
        PROVE  RowToJson(s, row)[s.columns[i].name].text = row[i]
    <2>1. \A j \in DOMAIN s.columns : Names(s)[j] = s.columns[j].name /\ j \in DOMAIN Names(s)
      BY DEF Names
    <2>2. \A j \in DOMAIN s.columns : s.columns[j].name = s.columns[i].name => j = i
      BY <2>1 DEF IsInjective
    <2>3. (CHOOSE j \in DOMAIN s.columns : s.columns[j].name = s.columns[i].name) = i
      BY <2>2
    <2>4. s.columns[i].name \in ToSet(Names(s))
      BY <2>1 DEF ToSet
    <2>5. RowToJson(s, row)[s.columns[i].name] = CellToJson(row[i], s.columns[i].type)
      BY <2>3, <2>4 DEF RowToJson
    <2>6. ValueHasText(CellToJson(row[i], s.columns[i].type), s.columns[i].type)
      BY <2>5
    <2>7. row[i] # NaN
      BY <2>6 DEF ValueHasText, CellToJson
    <2> QED
      BY <2>5, <2>7 DEF CellToJson
  <1>2. DOMAIN row = DOMAIN s.columns
    BY NamesAreTexts
  <1>3. row = [i \in DOMAIN row |-> row[i]]
    OBVIOUS
  <1> QED
    BY ONLY <1>1, <1>2, <1>3

\* What write_tabular_csv makes of a table is a legal text of it, and the
\* schema and the values have passed its checks.
LEMMA WriterWrites ==
    ASSUME NEW s \in Schemas, NEW rows, IsTable(rows, s), ReadingsCsv(s, rows).ok
    PROVE  /\ ReadingsCsv(s, rows).text \in Sheets(s, rows)
           /\ ValidateSchema(s, Limits.columns) /\ Len(rows) <= Limits.rows
           /\ \A i \in 1 .. Len(rows) : ValidateValues(rows[i], s)
  <1> DEFINE json == [i \in DOMAIN rows |-> RowToJson(s, rows[i])]
             texts(row) == [i \in DOMAIN s.columns |-> row[s.columns[i].name].text]
             writable(row) ==
                /\ DOMAIN row = ToSet(Names(s))
                /\ \A i \in DOMAIN s.columns :
                     ValueHasText(row[s.columns[i].name], s.columns[i].type)
                /\ ValidateValues(texts(row), s)
             styles == [i \in DOMAIN rows |-> AsNeeded(s)]
  <1>1. rows \in Seq(Seq(Seq(Characters))) /\ \A i \in DOMAIN rows : Len(rows[i]) = Len(s.columns)
    BY DEF IsTable
  <1>2. DOMAIN rows = 1 .. Len(rows) /\ Len(rows) \in Nat /\ DOMAIN json = DOMAIN rows
        /\ \A i \in DOMAIN rows : rows[i] \in Seq(Seq(Characters))
    BY <1>1
  <1>3. Len(json) = Len(rows)
    BY <1>2
  <1>4. /\ ValidateSchema(s, Limits.columns) /\ Len(json) <= Limits.rows
        /\ \A row \in ToSet(json) : writable(row)
        /\ ReadingsCsv(s, rows) =
              Written(EncodeRecord(Names(s)) \o
                      FlattenSeq([i \in DOMAIN json |-> EncodeRecord(texts(json[i]))]))
    <2>1. ReadingsCsv(s, rows) =
             IF /\ ValidateSchema(s, Limits.columns)
                /\ Len(json) <= Limits.rows
                /\ \A row \in ToSet(json) : writable(row)
             THEN Written(EncodeRecord(Names(s)) \o
                          FlattenSeq([i \in DOMAIN json |-> EncodeRecord(texts(json[i]))]))
             ELSE Refused("row")
      BY DEF ReadingsCsv, WriteTabularCsv
    <2>2. ~Refused("row").ok
      BY DEF Refused
    <2> QED
      BY ONLY <2>1, <2>2, ReadingsCsv(s, rows).ok
  <1>5. ASSUME NEW i \in DOMAIN rows
        PROVE  texts(json[i]) = rows[i] /\ ValidateValues(rows[i], s)
    <2>1. json[i] = RowToJson(s, rows[i]) /\ json[i] \in ToSet(json)
      BY <1>2 DEF ToSet
    <2>2. writable(json[i])
      BY ONLY <1>4, <2>1
    <2>3. IsInjective(Names(s))
      BY <1>4 DEF ValidateSchema
    <2>4. \A j \in DOMAIN s.columns :
              ValueHasText(RowToJson(s, rows[i])[s.columns[j].name], s.columns[j].type)
      BY ONLY <2>1, <2>2
    <2>5. [j \in DOMAIN s.columns |-> RowToJson(s, rows[i])[s.columns[j].name].text] = rows[i]
      BY <1>1, <1>2, <2>3, <2>4, JsonTexts
    <2>6. texts(json[i]) = rows[i]
      BY ONLY <2>1, <2>5
    <2> QED
      BY ONLY <2>2, <2>6
  <1> HIDE DEF json, texts, writable
  <1>6. \A i \in DOMAIN rows : DOMAIN rows[i] = DOMAIN s.columns
    BY <1>1, <1>2, NamesAreTexts
  <1>7. DOMAIN Names(s) = DOMAIN s.columns
    BY DEF Names
  <1>8. EncodeRecord(Names(s)) = RecordText(Names(s), AsNeeded(s))
    BY <1>7, EncodedRecord
  <1>9. [i \in DOMAIN json |-> EncodeRecord(texts(json[i]))] = Lines(rows, styles)
    <2>1. \A i \in DOMAIN rows : EncodeRecord(texts(json[i])) = RecordText(rows[i], AsNeeded(s))
      BY <1>5, <1>6, EncodedRecord
    <2>2. \A i \in DOMAIN rows : styles[i] = AsNeeded(s)
      OBVIOUS
    <2>3. [i \in DOMAIN json |-> EncodeRecord(texts(json[i]))]
            = [i \in DOMAIN rows |-> RecordText(rows[i], styles[i])]
      BY ONLY <1>2, <2>1, <2>2
    <2> QED
      BY ONLY <2>3, Zenon DEF Lines
  <1>10. AsNeeded(s) \in [DOMAIN s.columns -> Styles]
    BY DEF AsNeeded, Styles
  <1>11. styles \in [DOMAIN rows -> [DOMAIN s.columns -> Styles]]
    BY <1>10
  <1> HIDE DEF styles
  <1>12. ReadingsCsv(s, rows).text = Sheet(s, rows, AsNeeded(s), styles)
    <2>1. \A t : Written(t).text = t
      BY DEF Written
    <2>2. ReadingsCsv(s, rows) = Written(Sheet(s, rows, AsNeeded(s), styles))
      BY ONLY <1>4, <1>8, <1>9, Zenon DEF Sheet
    <2> QED
      BY ONLY <2>1, <2>2
  <1>13. ReadingsCsv(s, rows).text \in Sheets(s, rows)
    BY ONLY <1>10, <1>11, <1>12 DEF Sheets
  <1> QED
    BY <1>2, <1>3, <1>4, <1>5, <1>13

-----------------------------------------------------------------------------
(* The invariant.                                                          *)

\* The fields of the records the model keeps.
Shape ==
    /\ DOMAIN export = Exports
    /\ \A e \in Exports : DOMAIN export[e] = {"pc", "at", "csv", "rows", "sealed"}
    /\ DOMAIN carried = {"bundle", "artifact", "digest", "revision"}

\* What the canonical document doc describes, if it is one table of this
\* schema, reads as rows.
Yields(doc, rows) ==
    LET artifacts == doc["artifacts"]
        manifest  == Head(artifacts)
        parsed    == ParseCsv(manifest.contentHash[2], schema, Limits)
    IN  Len(artifacts) = 1 /\ manifest.schema = schema /\ TypedDigest(manifest.contentHash)
            /\ ValidateSchema(schema, Limits.columns) /\ parsed.ok
        => parsed.rows = rows

\* The digest in m is that of a document which describes m's rows.
Means(m) ==
    /\ m = [digest |-> m.digest, rows |-> m.rows]
    /\ m.digest = Digest(m.digest[2])
    /\ "artifacts" \in DOMAIN m.digest[2]
    /\ Yields(m.digest[2], m.rows)

\* The handler holds the CSV of the rows it queried.
HasCsv(e) ==
    /\ export[e].rows \in Tables(schema)
    /\ ReadingsCsv(schema, export[e].rows).ok
    /\ export[e].csv = ReadingsCsv(schema, export[e].rows).text

\* What the handler has sealed is known as its rows.
HasSealed(e) ==
    [digest |-> Digest(Canonical(export[e].sealed)), rows |-> export[e].rows] \in meant

\* The handlers between query and answer.
Exporting ==
    \A e \in Exports :
        /\ export[e].pc \in {"csv", "build"} => HasCsv(e)
        /\ export[e].pc \in {"bundle", "anchor", "done"} => HasSealed(e)

\* A digest that the target takes for one is a producer's.
DigestIsMeant ==
    TypedDigest(carried.digest) => \E m \in meant : m.digest = carried.digest

\* The invariant of ImportedAsExported.
Inv ==
    /\ schema \in Schemas
    /\ table \in Tables(schema)
    /\ Shape
    /\ Exporting
    /\ \A m \in meant : Means(m)
    /\ DigestIsMeant
    /\ ImportedAsExported

-----------------------------------------------------------------------------
(* Digests and documents.                                                  *)

\* BLAKE3 tells contents apart and its digests are typed.
LEMMA DigestFacts ==
    ASSUME NEW c
    PROVE  /\ TypedDigest(Digest(c))
           /\ Digest(c)[2] = c
           /\ \A d : Digest(d) = Digest(c) => d = c
  BY DEF Digest, TypedDigest, Absent

\* A typed digest without its type is none.
LEMMA HexIsUntyped == ASSUME NEW c PROVE ~TypedDigest(<<"hex", c>>)
  BY DEF TypedDigest

\* Documents with the same canonical text have the same members.
LEMMA CanonicalMember ==
    ASSUME NEW w, NEW key
    PROVE  /\ DOMAIN Canonical(w) = Keys(w)
           /\ key \in Keys(w) => Canonical(w)[key] = Member(w, key)
  BY DEF Canonical

\* The one artifact of an exported bundle.
LEMMA ImportBundleArtifacts ==
    ASSUME NEW at, NEW manifest
    PROVE  /\ "artifacts" \in Keys(ImportBundle(at, manifest))
           /\ Member(ImportBundle(at, manifest), "artifacts") = <<manifest>>
  <1> DEFINE wire == ImportBundle(at, manifest)
  <1>1. /\ DOMAIN wire = 1..4
        /\ wire[1][1] = "exportBundle" /\ wire[2][1] = "metadata"
        /\ wire[3][1] = "provenance" /\ wire[4][1] = "artifacts"
        /\ wire[4][2] = <<manifest>>
    BY DEF ImportBundle
  <1> HIDE DEF wire
  <1>2. \A j \in DOMAIN wire : wire[j][1] = "artifacts" <=> j = 4
    BY <1>1
  <1>3. (CHOOSE j \in DOMAIN wire : wire[j][1] = "artifacts") = 4
    BY <1>1, <1>2
  <1>4. "artifacts" \in Keys(wire)
    BY <1>1 DEF Keys
  <1>5. Member(wire, "artifacts") = <<manifest>>
    BY <1>1, <1>3 DEF Member
  <1> QED
    BY <1>4, <1>5 DEF wire

\* A schema that passes has columns.
LEMMA HasColumns ==
    ASSUME NEW s \in Schemas, ValidateSchema(s, Limits.columns)
    PROVE  Len(s.columns) > 0
  BY NamesAreTexts, LimitsAssumptions DEF ValidateSchema

\* What the handler seals describes the rows it queried.
LEMMA SealedMeans ==
    ASSUME schema \in Schemas, NEW e \in Exports, HasCsv(e), NEW wire,
           wire = ImportBundle(export[e].at, Manifest(export[e].csv, Len(export[e].rows)))
    PROVE  Means([digest |-> Digest(Canonical(wire)), rows |-> export[e].rows])
  <1> DEFINE manifest == Manifest(export[e].csv, Len(export[e].rows))
             m == [digest |-> Digest(Canonical(wire)), rows |-> export[e].rows]
  <1>1. "artifacts" \in Keys(wire) /\ Member(wire, "artifacts") = <<manifest>>
    BY ImportBundleArtifacts
  <1>2. m.digest[2] = Canonical(wire) /\ m.rows = export[e].rows
    BY DigestFacts
  <1>3. manifest.contentHash = Digest(export[e].csv)
    BY DEF Manifest
  <1> HIDE DEF manifest
  <1>4. /\ "artifacts" \in DOMAIN Canonical(wire)
        /\ Canonical(wire)["artifacts"] = <<manifest>>
    BY <1>1, CanonicalMember
  <1>5. Head(<<manifest>>) = manifest /\ manifest.contentHash[2] = export[e].csv
    BY <1>3, DigestFacts
  <1>6. LET parsed == ParseCsv(export[e].csv, schema, Limits)
        IN  parsed.ok => parsed.rows = export[e].rows
    <2>1. IsTable(export[e].rows, schema)
      BY TableAssumptions DEF HasCsv
    <2>2. export[e].csv \in Sheets(schema, export[e].rows) /\ ValidateSchema(schema, Limits.columns)
      BY <2>1, WriterWrites DEF HasCsv
    <2> QED
      BY <2>1, <2>2, SheetOutcome, HasColumns
  <1>7. Yields(Canonical(wire), export[e].rows)
    BY <1>4, <1>5, <1>6 DEF Yields
  <1> QED
    BY <1>2, <1>4, <1>7 DEF Means

\* What another producer announces describes that producer's rows.
LEMMA ForeignMeans ==
    ASSUME schema \in Schemas, NEW f \in Foreign(schema)
    PROVE  Means([digest |-> Digest(Canonical(f.wire)), rows |-> f.rows])
  <1> DEFINE m == [digest |-> Digest(Canonical(f.wire)), rows |-> f.rows]
             artifacts == Member(f.wire, "artifacts")
             parsed == ParseCsv(f.artifact, schema, Limits)
  <1>1. m.digest[2] = Canonical(f.wire) /\ m.rows = f.rows
    BY DigestFacts
  <1>2. /\ "artifacts" \in Keys(f.wire)
        /\ Len(artifacts) = 1 /\ Head(artifacts).schema = schema =>
              /\ TypedDigest(Head(artifacts).contentHash)
                    => Head(artifacts).contentHash = Digest(f.artifact)
              /\ \/ IsTable(f.rows, schema) /\ f.artifact \in Sheets(schema, f.rows)
                 \/ parsed.ok => parsed.rows = f.rows
    BY ForeignAssumptions
  <1>3. /\ "artifacts" \in DOMAIN Canonical(f.wire)
        /\ Canonical(f.wire)["artifacts"] = artifacts
    BY <1>2, CanonicalMember
  <1>4. Head(artifacts).contentHash = Digest(f.artifact)
            => Head(artifacts).contentHash[2] = f.artifact
    BY DigestFacts
  <1>5. Len(artifacts) = 1 /\ Head(artifacts).schema = schema /\ parsed.ok
            /\ ValidateSchema(schema, Limits.columns) => parsed.rows = f.rows
    BY <1>2, SheetOutcome, HasColumns
  <1>6. Yields(Canonical(f.wire), f.rows)
    <2> HIDE DEF parsed
    <2> QED
      BY <1>2, <1>3, <1>4, <1>5 DEF Yields, parsed
  <1> QED
    BY <1>1, <1>3, <1>6 DEF Means

-----------------------------------------------------------------------------
(* Validation.                                                             *)

\* A text that is not read was refused for a reason.
LEMMA RefusedForReason ==
    ASSUME NEW text, NEW s, ParseCsv(text, s, Limits).why = "none"
    PROVE  ParseCsv(text, s, Limits).ok
  BY DEF ParseCsv, Refused, Read

\* An accepted bundle has the expected digest and describes one table of the
\* target's schema, and the artifact is the one it describes.
LEMMA Accepted ==
    ASSUME NEW c, PrepareImport(c) = "none"
    PROVE  LET artifacts == Member(c.bundle, "artifacts")
               manifest  == Head(artifacts)
               parsed    == ParseCsv(c.artifact, schema, Limits)
           IN  /\ TypedDigest(c.digest) /\ Digest(Canonical(c.bundle)) = c.digest
               /\ Len(artifacts) = 1 /\ manifest.schema = schema
               /\ manifest.contentHash = Digest(c.artifact)
               /\ parsed.ok /\ Len(parsed.rows) = manifest.rowCount
               /\ ValidateSchema(schema, Limits.columns)
  <1>1. /\ ValidateImportBundle(c.bundle, c.digest) = "none"
        /\ PlanTabularImport(c.bundle, c.artifact, c.revision) = "none"
    BY DEF PrepareImport
  <1>2. TypedDigest(c.digest) /\ Digest(Canonical(c.bundle)) = c.digest
    BY <1>1 DEF ValidateImportBundle
  <1>3. /\ Len(Member(c.bundle, "artifacts")) = 1
        /\ Head(Member(c.bundle, "artifacts")).schema = schema
        /\ ValidateSchema(schema, Limits.columns)
        /\ ArtifactMatches(Head(Member(c.bundle, "artifacts")), c.artifact)
    BY <1>1 DEF PlanTabularImport
  <1>4. \/ ~ParseCsv(c.artifact, schema, Limits).ok
           /\ ParseCsv(c.artifact, schema, Limits).why = "none"
        \/ /\ ParseCsv(c.artifact, schema, Limits).ok
           /\ Len(ParseCsv(c.artifact, schema, Limits).rows)
                 = Head(Member(c.bundle, "artifacts")).rowCount
    BY <1>1, <1>3 DEF PlanTabularImport
  <1> QED
    BY <1>2, <1>3, <1>4, RefusedForReason DEF ArtifactMatches

\* What a dry-run decodes is what the producer of the announced digest meant.
LEMMA DryRunMeant ==
    ASSUME Inv, PrepareImport(carried) = "none"
    PROVE  [digest |-> carried.digest,
            rows |-> DecodeTabularCsv(carried.artifact, schema, Limits).rows] \in meant
  <1> DEFINE artifacts == Member(carried.bundle, "artifacts")
             manifest  == Head(artifacts)
             parsed    == ParseCsv(carried.artifact, schema, Limits)
  <1>1. /\ TypedDigest(carried.digest)
        /\ Digest(Canonical(carried.bundle)) = carried.digest
        /\ Len(artifacts) = 1 /\ manifest.schema = schema
        /\ manifest.contentHash = Digest(carried.artifact)
        /\ parsed.ok /\ Len(parsed.rows) = manifest.rowCount
        /\ ValidateSchema(schema, Limits.columns)
    BY Accepted
  <1>2. PICK m \in meant : m.digest = carried.digest
    BY <1>1 DEF Inv, DigestIsMeant
  <1>3. Means(m)
    BY DEF Inv
  <1>4. m.digest[2] = Canonical(carried.bundle)
    BY <1>1, <1>2, DigestFacts
  <1>5. "artifacts" \in Keys(carried.bundle)
    BY <1>3, <1>4, CanonicalMember DEF Means
  <1>6. Canonical(carried.bundle)["artifacts"] = artifacts
    BY <1>5, CanonicalMember
  <1>7. TypedDigest(manifest.contentHash) /\ manifest.contentHash[2] = carried.artifact
    BY <1>1, DigestFacts
  <1>8. parsed.rows = m.rows
    BY <1>1, <1>3, <1>4, <1>6, <1>7 DEF Means, Yields
  <1>9. DecodeTabularCsv(carried.artifact, schema, Limits).rows = m.rows
    BY <1>1, <1>8 DEF DecodeTabularCsv
  <1> QED
    BY <1>2, <1>3, <1>9 DEF Means

-----------------------------------------------------------------------------
(* Steps.                                                                  *)

\* Growing the history keeps what was known of it.
LEMMA MeansFrame ==
    ASSUME UNCHANGED schema
    PROVE  \A m : Means(m)' <=> Means(m)
  BY DEF Means, Yields

\* A step of export e that leaves the operator and the target alone.
LEMMA ExportFrame ==
    ASSUME Inv, NEW e \in Exports, UNCHANGED <<schema, carried, imported, table>>,
           meant \subseteq meant', \A m \in meant' \ meant : Means(m),
           DOMAIN export' = Exports,
           \A d \in Exports \ {e} : export'[d] = export[d],
           DOMAIN export'[e] = {"pc", "at", "csv", "rows", "sealed"},
           export'[e].pc \in {"csv", "build"} => HasCsv(e)',
           export'[e].pc \in {"bundle", "anchor", "done"} => HasSealed(e)'
    PROVE  Inv'
  <1>1. Shape'
    BY DEF Inv, Shape
  <1>2. ASSUME NEW d \in Exports \ {e}
        PROVE  /\ export'[d].pc \in {"csv", "build"} => HasCsv(d)'
               /\ export'[d].pc \in {"bundle", "anchor", "done"} => HasSealed(d)'
    BY <1>2 DEF Inv, Exporting, HasCsv, HasSealed
  <1>3. Exporting'
    BY <1>2 DEF Exporting
  <1>4. \A m \in meant' : Means(m)'
    BY MeansFrame DEF Inv
  <1>5. DigestIsMeant' /\ ImportedAsExported'
    BY DEF Inv, DigestIsMeant, ImportedAsExported
  <1> QED
    BY <1>1, <1>3, <1>4, <1>5 DEF Inv

\* The export handler seals the CSV of the rows it queried, whatever the
\* other exports and the host do to the table and the store meanwhile.
LEMMA ExportStep ==
    ASSUME Inv, NEW e \in Exports,
           Query(e) \/ PutCsv(e) \/ Build(e) \/ PutBundle(e) \/ Anchor(e) \/ ExportFails(e)
    PROVE  Inv'
  <1> USE DEF Quiet, At
  <1>0. /\ DOMAIN export = Exports
        /\ DOMAIN export[e] = {"pc", "at", "csv", "rows", "sealed"}
    BY DEF Inv, Shape
  <1>1. CASE Query(e)
    <2> DEFINE csv == ReadingsCsv(schema, table)
               new == [export[e] EXCEPT !.pc = IF csv.ok THEN "csv" ELSE "failed",
                                        !.at = clock, !.csv = csv.text, !.rows = table]
    <2>1. export' = [export EXCEPT ![e] = new]
      BY <1>1 DEF Query
    <2>2. /\ new.pc = (IF csv.ok THEN "csv" ELSE "failed")
          /\ new.csv = csv.text /\ new.rows = table
          /\ DOMAIN new = {"pc", "at", "csv", "rows", "sealed"}
      BY <1>0
    <2>3. UNCHANGED <<schema, carried, imported, table, meant>>
      BY <1>1 DEF Query
    <2> HIDE DEF new
    <2>4. /\ DOMAIN export' = Exports /\ export'[e] = new
          /\ \A d \in Exports \ {e} : export'[d] = export[d]
      BY <1>0, <2>1
    <2>5. export'[e].pc = "csv" => HasCsv(e)'
      BY <2>2, <2>3, <2>4 DEF HasCsv, Inv
    <2>6. export'[e].pc \in {"csv", "failed"}
      BY <2>2, <2>4
    <2> QED
      BY <2>2, <2>3, <2>4, <2>5, <2>6, ExportFrame
  <1>2. ASSUME NEW pc, export' = [export EXCEPT ![e].pc = pc],
               UNCHANGED <<schema, carried, imported, table, meant>>,
               pc \in {"csv", "build"} => export[e].pc \in {"csv", "build"},
               pc \in {"bundle", "anchor", "done"} =>
                   export[e].pc \in {"bundle", "anchor", "done"}
        PROVE  Inv'
    <2>1. /\ DOMAIN export' = Exports
          /\ \A d \in Exports \ {e} : export'[d] = export[d]
          /\ DOMAIN export'[e] = {"pc", "at", "csv", "rows", "sealed"}
          /\ export'[e].pc = pc /\ export'[e].csv = export[e].csv
          /\ export'[e].rows = export[e].rows /\ export'[e].sealed = export[e].sealed
      BY <1>0, <1>2
    <2>2. (HasCsv(e) => HasCsv(e)') /\ (HasSealed(e) => HasSealed(e)')
      BY <1>2, <2>1 DEF HasCsv, HasSealed
    <2>3. /\ pc \in {"csv", "build"} => HasCsv(e)'
          /\ pc \in {"bundle", "anchor", "done"} => HasSealed(e)'
      BY <1>2, <2>2 DEF Inv, Exporting
    <2> QED
      BY <1>2, <2>1, <2>3, ExportFrame
  <1>3. CASE PutCsv(e)
    BY <1>2, <1>3 DEF PutCsv
  <1>4. CASE Build(e)
    <2> DEFINE wire == ImportBundle(export[e].at, Manifest(export[e].csv, Len(export[e].rows)))
               new  == [export[e] EXCEPT !.pc = "bundle", !.sealed = wire]
               m    == [digest |-> Digest(Canonical(wire)), rows |-> export[e].rows]
    <2>1. /\ export[e].pc = "build" /\ export' = [export EXCEPT ![e] = new]
          /\ meant' = meant \cup {m}
          /\ UNCHANGED <<schema, carried, imported, table>>
      BY <1>4 DEF Build
    <2>2. /\ new.pc = "bundle" /\ new.sealed = wire /\ new.rows = export[e].rows
          /\ DOMAIN new = {"pc", "at", "csv", "rows", "sealed"}
      BY <1>0
    <2>3. Means(m)
      BY <2>1, SealedMeans DEF Inv, Exporting
    <2> HIDE DEF new, wire
    <2>4. /\ DOMAIN export' = Exports /\ export'[e] = new
          /\ \A d \in Exports \ {e} : export'[d] = export[d]
      BY <1>0, <2>1
    <2>5. HasSealed(e)'
      BY <2>1, <2>2, <2>4 DEF HasSealed
    <2> HIDE DEF m
    <2> QED
      BY <2>1, <2>2, <2>3, <2>4, <2>5, ExportFrame
  <1>5. CASE PutBundle(e)
    BY <1>2, <1>5 DEF PutBundle
  <1>6. CASE Anchor(e)
    BY <1>2, <1>6 DEF Anchor
  <1>7. CASE ExportFails(e)
    BY <1>2, <1>7 DEF ExportFails
  <1> QED
    BY <1>1, <1>3, <1>4, <1>5, <1>6, <1>7

\* The operator holds no digest of the right type but a producer's.
LEMMA CarryFrame ==
    ASSUME Inv, UNCHANGED <<schema, table, export, imported>>,
           meant \subseteq meant', \A m \in meant' \ meant : Means(m),
           DOMAIN carried' = {"bundle", "artifact", "digest", "revision"},
           TypedDigest(carried'.digest) => \E m \in meant' : m.digest = carried'.digest
    PROVE  Inv'
  <1>1. Shape' /\ Exporting'
    BY DEF Inv, Shape, Exporting, HasCsv, HasSealed
  <1>2. \A m \in meant' : Means(m)'
    BY MeansFrame DEF Inv
  <1>3. DigestIsMeant' /\ ImportedAsExported'
    BY DEF Inv, DigestIsMeant, ImportedAsExported
  <1> QED
    BY <1>1, <1>2, <1>3 DEF Inv

\* Fetching, noting, garbling and receiving copies.
LEMMA CarryStep ==
    ASSUME Inv,
           \/ FetchBundle \/ FetchArtifact \/ Garble \/ CarryForeign
           \/ \E e \in Exports : NoteDigest(e)
    PROVE  Inv'
  <1> USE DEF Carry, source
  <1>0. DOMAIN carried = {"bundle", "artifact", "digest", "revision"}
    BY DEF Inv, Shape
  <1>1. ASSUME NEW c, carried' = c, UNCHANGED <<schema, table, export, imported, meant>>,
               DOMAIN c = {"bundle", "artifact", "digest", "revision"},
               c.digest = carried.digest \/ ~TypedDigest(c.digest)
        PROVE  Inv'
    <2>1. TypedDigest(carried'.digest) => \E m \in meant' : m.digest = carried'.digest
      BY <1>1 DEF Inv, DigestIsMeant
    <2> QED
      BY <1>1, <2>1, CarryFrame
  <1>2. CASE FetchBundle
    BY <1>0, <1>1, <1>2 DEF FetchBundle
  <1>3. CASE FetchArtifact
    BY <1>0, <1>1, <1>3 DEF FetchArtifact
  <1>4. ASSUME NEW e \in Exports, NoteDigest(e)
        PROVE  Inv'
    <2>1. /\ export[e].pc = "done"
          /\ carried' = [carried EXCEPT !.digest = Digest(Canonical(export[e].sealed))]
          /\ UNCHANGED <<schema, table, export, imported, meant>>
      BY <1>4 DEF NoteDigest, At
    <2>2. /\ DOMAIN carried' = {"bundle", "artifact", "digest", "revision"}
          /\ carried'.digest = Digest(Canonical(export[e].sealed))
      BY <1>0, <2>1
    <2>3. \E m \in meant : m.digest = carried'.digest
      BY <2>1, <2>2 DEF Inv, Exporting, HasSealed
    <2> QED
      BY <2>1, <2>2, <2>3, CarryFrame
  <1>5. CASE Garble
    <2>1. PICK c \in Garbled(carried) : carried' = c
      BY <1>5 DEF Garble
    <2>2. UNCHANGED <<schema, table, export, imported, meant>>
      BY <1>5 DEF Garble
    <2>3. \/ \E b : c = [carried EXCEPT !.bundle = b]
          \/ \E a : c = [carried EXCEPT !.artifact = a]
          \/ \E h : c = [carried EXCEPT !.digest = <<"hex", h>>]
          \/ c = [carried EXCEPT !.revision = "blank"]
      BY DEF Garbled
    <2>4. /\ DOMAIN c = {"bundle", "artifact", "digest", "revision"}
          /\ c.digest = carried.digest \/ \E h : c.digest = <<"hex", h>>
      BY <1>0, <2>3
    <2> QED
      BY <1>1, <2>1, <2>2, <2>4, HexIsUntyped
  <1>6. CASE CarryForeign
    <2>1. PICK f \in Foreign(schema) :
              /\ carried' = [bundle |-> f.wire, artifact |-> f.artifact,
                             digest |-> Digest(Canonical(f.wire)), revision |-> "snapshot"]
              /\ meant' = meant \cup {[digest |-> Digest(Canonical(f.wire)), rows |-> f.rows]}
              /\ UNCHANGED <<schema, table, export, imported>>
      BY <1>6 DEF CarryForeign
    <2> DEFINE m == [digest |-> Digest(Canonical(f.wire)), rows |-> f.rows]
    <2>2. /\ DOMAIN carried' = {"bundle", "artifact", "digest", "revision"}
          /\ m \in meant' /\ m.digest = carried'.digest
      BY <2>1
    <2>3. Means(m)
      BY ForeignMeans DEF Inv
    <2> HIDE DEF m
    <2>4. \A n \in meant' \ meant : n = m
      BY <2>1 DEF m
    <2> QED
      BY <2>1, <2>2, <2>3, <2>4, CarryFrame
  <1> QED
    BY <1>2, <1>3, <1>4, <1>5, <1>6

\* Every step keeps the invariant.
LEMMA InvStep == Inv /\ [Next]_vars => Inv'
  <1> SUFFICES ASSUME Inv, [Next]_vars PROVE Inv'
    OBVIOUS
  <1>1. CASE UNCHANGED <<schema, export, carried, meant>> /\ table' \in Tables(schema)
             /\ imported' \subseteq meant
    BY <1>1, MeansFrame
    DEF Inv, Shape, Exporting, HasCsv, HasSealed, DigestIsMeant, ImportedAsExported
  <1>2. CASE WriteTable \/ Erase
    BY <1>1, <1>2 DEF WriteTable, Erase, Quiet, Inv, Shape, ImportedAsExported
  <1>3. CASE DryRun
    <2>1. /\ PrepareImport(carried) = "none"
          /\ imported' = imported \cup
                {[digest |-> carried.digest,
                  rows |-> DecodeTabularCsv(carried.artifact, schema, Limits).rows]}
          /\ UNCHANGED <<schema, export, carried, meant, table>>
      BY <1>3 DEF DryRun, source
    <2> QED
      BY <1>1, <2>1, DryRunMeant DEF Inv, ImportedAsExported
  <1>4. CASE UNCHANGED vars
    BY <1>1, <1>4 DEF vars, Inv, ImportedAsExported
  <1> QED
    BY <1>2, <1>3, <1>4, ExportStep, CarryStep DEF Next

\* The initial state satisfies the invariant.
LEMMA InvInit == Init => Inv
  BY DEF Init, Inv, Shape, Exporting, DigestIsMeant, ImportedAsExported, TypedDigest, Absent

\* Rows enter the target only as some producer's query returned them, under
\* the digest of the bundle that producer sealed: no interleaving of exports
\* that overwrite each other's objects, no write of the table in between, no
\* failed call and no garbled copy lets a dry-run of import.rs accept others.
THEOREM ImportedAsExportedCorrect == Spec => []ImportedAsExported
  <1>1. Inv => ImportedAsExported
    BY DEF Inv
  <1> QED
    BY <1>1, InvInit, InvStep, PTL DEF Spec

-----------------------------------------------------------------------------
(* Sealed bundles.                                                         *)

\* Entries of the provenance.
Entries == [at : Nat, activity : Exports \cup {"created", "deleted"}, longest : Nat]

\* The members of a bundle as a host seals it.
SealedAs(wire, csv, count) ==
    /\ {"exportBundle", "metadata", "provenance", "artifacts"} \subseteq Keys(wire)
    /\ Member(wire, "exportBundle").version = "2.0"
    /\ Member(wire, "metadata") = [depth |-> 2, longest |-> 1, bytes |-> 1]
    /\ Len(Member(wire, "provenance")) \in Nat
    /\ Member(wire, "artifacts") = <<Manifest(csv, count)>>

\* What a handler has sealed goes with the CSV and the rows it still holds.
SealedFits(e) ==
    /\ export[e].at \in Nat
    /\ export[e].pc = "idle" => export[e].sealed = <<>>
    /\ export[e].sealed # <<>> =>
          HasCsv(e) /\ SealedAs(export[e].sealed, export[e].csv, Len(export[e].rows))

\* The invariant of HonestCopyIsAccepted.
Sealing ==
    /\ provenance \in Seq(Entries) /\ clock \in Nat
    /\ \A e \in Exports : SealedFits(e)

\* Sorting keeps the number of entries.
LEMMA HistoryLength == ASSUME provenance \in Seq(Entries) PROVE Len(History) \in Nat
  <1>1. PICK n \in Nat : DOMAIN provenance = 1 .. n
    OBVIOUS
  <1>2. DOMAIN History = 1 .. n
    BY <1>1 DEF History
  <1>3. History = [k \in 1 .. n |-> History[k]]
    BY <1>1 DEF History
  <1> HIDE DEF History
  <1>4. Len([k \in 1 .. n |-> History[k]]) = n
    OBVIOUS
  <1> QED
    BY ONLY <1>3, <1>4, n \in Nat

\* The members of an exported bundle.
LEMMA ImportBundleMembers ==
    ASSUME provenance \in Seq(Entries), NEW at, NEW csv, NEW count
    PROVE  SealedAs(ImportBundle(at, Manifest(csv, count)), csv, count)
  <1> DEFINE manifest == Manifest(csv, count)
             wire == ImportBundle(at, manifest)
             top == [version |-> "2.0", at |-> at]
             free == [depth |-> 2, longest |-> 1, bytes |-> 1]
  <1>0. top.version = "2.0"
    OBVIOUS
  <1> HIDE DEF manifest, top, free
  <1>1. wire = << <<"exportBundle", top>>, <<"metadata", free>>, <<"provenance", History>>,
                  <<"artifacts", <<manifest>> >> >>
    BY DEF ImportBundle, top, free
  <1>2. /\ DOMAIN wire = 1..4
        /\ wire[1][1] = "exportBundle" /\ wire[2][1] = "metadata"
        /\ wire[3][1] = "provenance" /\ wire[4][1] = "artifacts"
        /\ wire[1][2] = top /\ wire[2][2] = free /\ wire[3][2] = History
        /\ wire[4][2] = <<manifest>>
    BY ONLY <1>1
  <1> HIDE DEF wire
  <1>3. /\ (CHOOSE j \in DOMAIN wire : wire[j][1] = "exportBundle") = 1
        /\ (CHOOSE j \in DOMAIN wire : wire[j][1] = "metadata") = 2
        /\ (CHOOSE j \in DOMAIN wire : wire[j][1] = "provenance") = 3
        /\ (CHOOSE j \in DOMAIN wire : wire[j][1] = "artifacts") = 4
    <2>1. /\ \A j \in DOMAIN wire : wire[j][1] = "exportBundle" <=> j = 1
          /\ \A j \in DOMAIN wire : wire[j][1] = "metadata" <=> j = 2
          /\ \A j \in DOMAIN wire : wire[j][1] = "provenance" <=> j = 3
          /\ \A j \in DOMAIN wire : wire[j][1] = "artifacts" <=> j = 4
      BY <1>2
    <2> QED
      BY <1>2, <2>1
  <1>4. /\ Member(wire, "exportBundle") = top /\ Member(wire, "metadata") = free
        /\ Member(wire, "provenance") = History /\ Member(wire, "artifacts") = <<manifest>>
    BY <1>2, <1>3 DEF Member
  <1>5. {"exportBundle", "metadata", "provenance", "artifacts"} \subseteq Keys(wire)
    BY <1>2 DEF Keys
  <1> QED
    BY <1>0, <1>4, <1>5, HistoryLength DEF SealedAs, wire, manifest, free

\* A step of the handler e of a host that leaves its schema alone.
LEMMA SealingFrame ==
    ASSUME Sealing, NEW e \in Exports, UNCHANGED schema,
           provenance' \in Seq(Entries), clock' \in Nat,
           \A d \in Exports \ {e} : export'[d] = export[d], SealedFits(e)'
    PROVE  Sealing'
  <1>1. ASSUME NEW d \in Exports \ {e}
        PROVE  SealedFits(d)'
    <2>1. SealedFits(d)
      BY DEF Sealing
    <2> QED
      BY <1>1, <2>1 DEF SealedFits, HasCsv, SealedAs, Manifest
  <1> QED
    BY <1>1 DEF Sealing

\* No step parts a sealed bundle from the CSV it describes.
LEMMA SealingStep == Inv /\ Sealing /\ [Next]_vars => Sealing'
  <1> SUFFICES ASSUME Inv, Sealing, [Next]_vars PROVE Sealing'
    OBVIOUS
  <1> USE DEF Quiet, At
  <1>1. CASE UNCHANGED <<schema, export, provenance, clock>>
    BY <1>1 DEF Sealing, SealedFits, HasCsv, SealedAs, Manifest
  <1>2. ASSUME NEW e \in Exports,
               Query(e) \/ PutCsv(e) \/ Build(e) \/ PutBundle(e) \/ Anchor(e) \/ ExportFails(e)
        PROVE  Sealing'
    <2>0. /\ DOMAIN export = Exports
          /\ DOMAIN export[e] = {"pc", "at", "csv", "rows", "sealed"}
          /\ SealedFits(e) /\ provenance \in Seq(Entries) /\ clock \in Nat
          /\ schema \in Schemas /\ table \in Tables(schema)
      BY DEF Inv, Shape, Sealing
    <2>1. ASSUME NEW pc, pc # "idle", export' = [export EXCEPT ![e].pc = pc],
                 UNCHANGED <<schema, clock>>, provenance' \in Seq(Entries)
          PROVE  Sealing'
      <3>1. /\ \A d \in Exports \ {e} : export'[d] = export[d]
            /\ export'[e].pc = pc /\ export'[e].at = export[e].at
            /\ export'[e].csv = export[e].csv
            /\ export'[e].rows = export[e].rows /\ export'[e].sealed = export[e].sealed
        BY <2>0, <2>1
      <3>2. SealedFits(e)'
        BY <2>0, <2>1, <3>1 DEF SealedFits, HasCsv, SealedAs, Manifest
      <3> QED
        BY <2>0, <2>1, <3>1, <3>2, SealingFrame
    <2>2. CASE Query(e)
      <3> DEFINE csv == ReadingsCsv(schema, table)
                 pc  == IF csv.ok THEN "csv" ELSE "failed"
                 new == [export[e] EXCEPT !.pc = pc, !.at = clock, !.csv = csv.text, !.rows = table]
      <3>1. /\ export' = [export EXCEPT ![e] = new] /\ export[e].pc = "idle"
            /\ UNCHANGED <<schema, provenance>> /\ clock' = clock + 1
        BY <2>2 DEF Query
      <3>2. new.pc = pc /\ new.at = clock /\ new.sealed = export[e].sealed
        BY <2>0
      <3>3. pc # "idle"
        OBVIOUS
      <3> HIDE DEF new, pc
      <3>4. export'[e] = new /\ \A d \in Exports \ {e} : export'[d] = export[d]
        BY <2>0, <3>1
      <3>5. SealedFits(e)'
        BY <2>0, <3>1, <3>2, <3>3, <3>4 DEF SealedFits
      <3> QED
        BY <2>0, <3>1, <3>4, <3>5, SealingFrame
    <2>3. CASE PutCsv(e)
      BY <2>0, <2>1, <2>3 DEF PutCsv
    <2>4. CASE Build(e)
      <3> DEFINE wire == ImportBundle(export[e].at, Manifest(export[e].csv, Len(export[e].rows)))
                 new  == [export[e] EXCEPT !.pc = "bundle", !.sealed = wire]
      <3>1. /\ export' = [export EXCEPT ![e] = new] /\ export[e].pc = "build"
            /\ UNCHANGED <<schema, provenance, clock>>
        BY <2>4 DEF Build
      <3>2. /\ new.pc = "bundle" /\ new.at = export[e].at /\ new.sealed = wire
            /\ new.csv = export[e].csv /\ new.rows = export[e].rows
        BY <2>0
      <3>3. SealedAs(wire, export[e].csv, Len(export[e].rows))
        BY <2>0, ImportBundleMembers
      <3>4. HasCsv(e)
        BY <3>1 DEF Inv, Exporting
      <3> HIDE DEF new, wire
      <3>5. export'[e] = new /\ \A d \in Exports \ {e} : export'[d] = export[d]
        BY <2>0, <3>1
      <3>6. SealedFits(e)'
        <4>1. HasCsv(e)'
          BY <3>1, <3>2, <3>4, <3>5 DEF HasCsv
        <4>2. SealedAs(export'[e].sealed, export'[e].csv, Len(export'[e].rows))
          BY <3>2, <3>3, <3>5
        <4>3. (\A w, c, n : SealedAs(w, c, n)' <=> SealedAs(w, c, n))
          BY <3>1 DEF SealedAs, Manifest
        <4>4. export'[e].at \in Nat /\ export'[e].pc # "idle"
          BY <2>0, <3>2, <3>5 DEF SealedFits
        <4> QED
          BY <3>1, <4>1, <4>2, <4>4 DEF SealedFits, SealedAs, Manifest
      <3> QED
        BY <2>0, <3>1, <3>5, <3>6, SealingFrame
    <2>5. CASE PutBundle(e)
      BY <2>0, <2>1, <2>5 DEF PutBundle
    <2>6. CASE Anchor(e)
      <3>1. [at |-> export[e].at, activity |-> e, longest |-> 1] \in Entries
        BY <2>0 DEF SealedFits, Entries
      <3>2. provenance' \in Seq(Entries)
        BY <2>0, <2>6, <3>1 DEF Anchor
      <3> QED
        BY <2>1, <2>6, <3>2 DEF Anchor
    <2>7. CASE ExportFails(e)
      BY <2>0, <2>1, <2>7 DEF ExportFails
    <2> QED
      BY <1>2, <2>2, <2>3, <2>4, <2>5, <2>6, <2>7
  <1>3. CASE WriteTable
    BY <1>1, <1>3 DEF WriteTable
  <1>7. CASE Erase
    <2>1. PICK n \in Reasons :
              provenance' = Append(provenance, [at |-> clock, activity |-> "deleted", longest |-> n])
      BY <1>7 DEF Erase
    <2>2. clock' = clock + 1 /\ UNCHANGED <<schema, export>>
      BY <1>7 DEF Erase
    <2>3. clock \in Nat /\ provenance \in Seq(Entries) /\ n \in Nat
      BY EventsAssumption DEF Sealing
    <2>4. [at |-> clock, activity |-> "deleted", longest |-> n] \in Entries
      BY <2>3 DEF Entries
    <2>5. provenance' \in Seq(Entries) /\ clock' \in Nat
      BY <2>1, <2>2, <2>3, <2>4
    <2> QED
      BY <2>2, <2>5 DEF Sealing, SealedFits, HasCsv, SealedAs, Manifest
  <1>4. CASE FetchBundle \/ FetchArtifact \/ Garble \/ CarryForeign \/ \E e \in Exports : NoteDigest(e)
    BY <1>1, <1>4 DEF FetchBundle, FetchArtifact, Garble, CarryForeign, NoteDigest, Carry, source
  <1>5. CASE DryRun
    BY <1>1, <1>5 DEF DryRun, source
  <1>6. CASE UNCHANGED vars
    BY <1>1, <1>6 DEF vars
  <1> QED
    BY <1>2, <1>3, <1>4, <1>5, <1>6, <1>7 DEF Next

\* Nothing is sealed at first.
LEMMA SealingInit == Init => Sealing
  <1> SUFFICES ASSUME Init PROVE Sealing
    OBVIOUS
  <1>1. [at |-> 0, activity |-> "created", longest |-> 1] \in Entries
    BY DEF Entries
  <1>2. provenance \in Seq(Entries)
    BY <1>1 DEF Init
  <1> QED
    BY <1>2 DEF Init, Sealing, SealedFits

-----------------------------------------------------------------------------
(* Honest copies.                                                          *)

\* No line break in a table: none in any of its fields.
LEMMA UnbrokenClean ==
    ASSUME schema \in Schemas, NEW rows, IsTable(rows, schema)
    PROVE  Unbroken(rows) <=>
             /\ AllClean(Names(schema))
             /\ \A i \in 1 .. Len(rows) : AllClean(rows[i])
  <1> DEFINE all == <<Names(schema)>> \o rows
  <1>1. /\ Names(schema) \in Seq(Seq(Characters)) /\ rows \in Seq(Seq(Seq(Characters)))
        /\ Len(rows) \in Nat
    BY NamesAreTexts DEF IsTable
  <1>2. \A r \in Seq(Seq(Characters)) : DOMAIN r = 1 .. Len(r)
    OBVIOUS
  <1>3. ToSet(all) = {Names(schema)} \cup {rows[i] : i \in 1 .. Len(rows)}
    <2>1. /\ DOMAIN all = 1 .. Len(rows) + 1 /\ all[1] = Names(schema)
          /\ \A i \in 1 .. Len(rows) : all[i + 1] = rows[i]
      BY <1>1
    <2> HIDE DEF all
    <2>2. \A i \in DOMAIN all : i = 1 \/ \E k \in 1 .. Len(rows) : i = k + 1
      <3>1. PICK n \in Nat : n = Len(rows)
        BY <1>1
      <3>2. ASSUME NEW i \in 1 .. n + 1, i # 1
            PROVE  \E k \in 1 .. n : i = k + 1
        <4>1. i - 1 \in 1 .. n /\ i = (i - 1) + 1
          BY <3>2
        <4> QED
          BY ONLY <4>1
      <3> QED
        BY ONLY <2>1, <3>1, <3>2
    <2>3. \A k \in 1 .. Len(rows) : k + 1 \in DOMAIN all
      BY <1>1, <2>1
    <2>4. 1 \in DOMAIN all
      BY <1>1, <2>1
    <2> QED
      BY <2>1, <2>2, <2>3, <2>4, SMTT(30) DEF ToSet
  <1>4. Unbroken(rows) <=>
           \A record \in ToSet(all) : \A i \in DOMAIN record : Clean(record[i])
    BY DEF Unbroken, Clean
  <1> HIDE DEF all
  <1>5. \A i \in 1 .. Len(rows) : rows[i] \in Seq(Seq(Characters))
    BY <1>1
  <1>6. \A r \in Seq(Seq(Characters)) : AllClean(r) <=> \A i \in DOMAIN r : Clean(r[i])
    BY <1>2 DEF AllClean
  <1>7. Unbroken(rows) <=> \A r \in ToSet(all) : AllClean(r)
    <2>1. ToSet(all) \subseteq Seq(Seq(Characters))
      BY <1>1, <1>3, <1>5
    <2> QED
      BY ONLY <1>4, <1>6, <2>1
  <1> QED
    BY ONLY <1>3, <1>7

\* Nothing is announced before the first manifest.
LEMMA NothingAnnounced == AnnouncedBytes(<<>>) = 0
  <1> DEFINE G(f) == [i \in 0 .. Len(<<>>) |-> IF i = 0 THEN 0 ELSE f[i - 1] + <<>>[i].byteCount]
             sum == CHOOSE f : f = G(f)
             z == [i \in 0 .. 0 |-> 0]
  <1>1. Len(<<>>) = 0 /\ \A i \in 0 .. 0 : i = 0
    OBVIOUS
  <1>2. z = G(z)
    BY <1>1
  <1>3. sum = G(sum)
    BY <1>2
  <1> HIDE DEF sum
  <1>4. sum[0] = 0
    BY <1>1, <1>3
  <1> QED
    BY <1>1, <1>4 DEF AnnouncedBytes, sum

\* A host's manifest of an artifact that is not too large is in order.
LEMMA ManifestInOrder ==
    ASSUME NEW csv, Len(csv) \in Nat, Len(csv) <= Limits.artifact, Len(csv) <= Limits.total,
           NEW count, ValidateSchema(schema, Limits.columns),
           ~(SchemaBytes(schema) > Limits.extension)
    PROVE  ManifestRefusal(Manifest(csv, count), <<>>) = "none"
  <1> DEFINE m == Manifest(csv, count)
  <1>1. /\ m.kind = "table_export" /\ m.format = "csv" /\ m.byteCount = Len(csv)
        /\ m.contentHash = Digest(csv) /\ m.fingerprint = Digest(schema)
        /\ m.uri = "relative" /\ m.schema = schema
    BY DEF Manifest
  <1> HIDE DEF m
  <1>2. Limits.artifact \in Nat /\ Limits.total \in Nat
    BY LimitsAssumptions
  <1>3. m.byteCount # NoCount /\ ~(m.byteCount > Limits.artifact)
        /\ ~(AnnouncedBytes(<<>>) + m.byteCount > Limits.total)
    BY <1>1, <1>2, NothingAnnounced DEF NoCount
  <1>4. TypedDigest(m.contentHash) /\ TypedDigest(m.fingerprint)
    BY <1>1, DigestFacts
  <1>5. ~ \E n \in ToSet(<<>>) : n.uri = m.uri
    BY DEF ToSet
  <1>6. ManifestRefusal(m, <<>>) = "none"
    BY <1>1, <1>3, <1>4, <1>5 DEF ManifestRefusal
  <1> QED
    BY <1>6 DEF m

\* A bundle with the members of a sealed one passes validation under its digest.
LEMMA SealedIsValid ==
    ASSUME NEW wire, NEW csv, NEW count, SealedAs(wire, csv, count),
           Len(csv) \in Nat, Len(csv) <= Limits.artifact, Len(csv) <= Limits.total,
           ValidateSchema(schema, Limits.columns), BundleBytes(wire) <= Limits.bundle,
           NoDuplicateKeys(wire), ~(SchemaBytes(schema) > Limits.extension),
           \A length \in StringLengths(wire) : length <= Limits.string
    PROVE  ValidateImportBundle(wire, Digest(Canonical(wire))) = "none"
  <1> DEFINE manifest  == Manifest(csv, count)
             artifacts == Member(wire, "artifacts")
             refusals  == {i \in DOMAIN artifacts :
                              ManifestRefusal(artifacts[i], SubSeq(artifacts, 1, i - 1)) # "none"}
  <1>1. \A limit \in {"bundle", "fixedBytes", "entryBytes", "depth", "string", "extension", "artifacts"} :
            Limits[limit] \in Nat
    BY LimitsAssumptions
  <1>2. ~(BundleBytes(wire) > Limits.bundle)
    <2>1. PICK n \in Nat : n = Len(Member(wire, "provenance"))
      BY DEF SealedAs
    <2>2. BundleBytes(wire) \in Nat
      BY <1>1, <2>1, SMTT(30) DEF BundleBytes
    <2> QED
      BY <1>1, <2>2
  <1>3. WithinJsonLimits(wire)
    <2>1. Member(wire, "metadata").depth = 2
      BY DEF SealedAs
    <2>2. Limits.depth >= 6
      BY LimitsAssumptions
    <2> QED
      BY <1>1, <2>1, <2>2 DEF WithinJsonLimits, SchemaDepth
  <1>4. Member(wire, "exportBundle").version = "2.0" /\ ~(Member(wire, "metadata").bytes > Limits.extension)
    BY <1>1, LimitsAssumptions DEF SealedAs
  <1>5. TypedDigest(Digest(Canonical(wire)))
    BY DigestFacts
  <1>6. artifacts = <<manifest>>
    BY DEF SealedAs
  <1>7. Len(artifacts) \in 1 .. Limits.artifacts
    <2>1. Len(<<manifest>>) = 1
      OBVIOUS
    <2>2. Limits.artifacts \in Nat /\ Limits.artifacts >= 1
      BY LimitsAssumptions
    <2> HIDE DEF manifest, artifacts
    <2>3. 1 \in 1 .. Limits.artifacts
      BY <2>2
    <2> QED
      BY <1>6, <2>1, <2>3
  <1>8. refusals = {}
    <2>1. ManifestRefusal(manifest, <<>>) = "none"
      BY ManifestInOrder
    <2> HIDE DEF manifest
    <2>2. DOMAIN <<manifest>> = {1} /\ <<manifest>>[1] = manifest
      OBVIOUS
    <2>3. SubSeq(<<manifest>>, 1, 1 - 1) = <<>>
      OBVIOUS
    <2> QED
      BY ONLY <1>6, <2>1, <2>2, <2>3
  <1> HIDE DEF refusals, artifacts
  <1> QED
    BY ONLY <1>2, <1>3, <1>4, <1>5, <1>7, <1>8, NoDuplicateKeys(wire)
    DEF ValidateImportBundle, artifacts, refusals

\* A schema has a size.
LEMMA SchemaHasBytes ==
    ASSUME NEW s \in Schemas
    PROVE  SchemaBytes(s) \in Nat
  <1>1. Names(s) \in Seq(Seq(Characters))
    BY NamesAreTexts
  <1>2. FlattenSeq(Names(s)) \in Seq(Characters)
    BY <1>1, FlattenType
  <1> QED
    BY <1>2 DEF SchemaBytes

\* Bundles with the same canonical text are sealed alike and of one size.
LEMMA SealedByCanonical ==
    ASSUME NEW w, NEW v, Canonical(w) = Canonical(v), NEW csv, NEW count, SealedAs(v, csv, count)
    PROVE  /\ SealedAs(w, csv, count) /\ BundleBytes(w) = BundleBytes(v)
           /\ StringLengths(w) = StringLengths(v)
  <1>1. Keys(w) = Keys(v)
    BY CanonicalMember
  <1>2. \A key \in Keys(v) : Member(w, key) = Member(v, key)
    BY <1>1, CanonicalMember
  <1> QED
    BY <1>1, <1>2 DEF SealedAs, BundleBytes, StringLengths

\* An unbroken artifact of the writer is read back.
LEMMA WrittenIsRead ==
    ASSUME schema \in Schemas, NEW rows \in Tables(schema), ReadingsCsv(schema, rows).ok,
           Unbroken(rows)
    PROVE  LET parsed == ParseCsv(ReadingsCsv(schema, rows).text, schema, Limits)
           IN  parsed.ok /\ parsed.rows = rows
  <1>1. IsTable(rows, schema)
    BY TableAssumptions
  <1>2. /\ ReadingsCsv(schema, rows).text \in Sheets(schema, rows)
        /\ ValidateSchema(schema, Limits.columns) /\ Len(rows) <= Limits.rows
        /\ \A i \in 1 .. Len(rows) : ValidateValues(rows[i], schema)
    BY <1>1, WriterWrites
  <1>3. Len(schema.columns) > 0
    BY <1>2, HasColumns
  <1>4. CanRead(schema, rows, Limits)
    BY <1>1, <1>2, UnbrokenClean DEF CanRead
  <1> QED
    BY <1>1, <1>2, <1>3, <1>4, SheetOutcome

\* A written text has a length.
LEMMA WrittenLength ==
    ASSUME schema \in Schemas, NEW rows \in Tables(schema), ReadingsCsv(schema, rows).ok
    PROVE  Len(ReadingsCsv(schema, rows).text) \in Nat
  <1>1. IsTable(rows, schema)
    BY TableAssumptions
  <1>2. ReadingsCsv(schema, rows).text \in Sheets(schema, rows) /\ Len(schema.columns) > 0
    BY <1>1, WriterWrites, HasColumns
  <1>3. PICK text : text = ReadingsCsv(schema, rows).text
    OBVIOUS
  <1>4. text \in Seq(Characters)
    BY <1>1, <1>2, <1>3, SheetOutcome
  <1> QED
    BY <1>3, <1>4

\* The invariant makes honest copies pass.
LEMMA HonestCopies == Inv /\ Sealing => HonestCopyIsAccepted
  <1> SUFFICES ASSUME Inv, Sealing, NEW e \in Exports,
                      export[e].sealed # <<>>,
                      carried.artifact = export[e].csv,
                      NoDuplicateKeys(carried.bundle), carried.revision # "blank",
                      Canonical(carried.bundle) = Canonical(export[e].sealed),
                      carried.digest = Digest(Canonical(export[e].sealed)),
                      Unbroken(export[e].rows),
                      Len(export[e].csv) <= Limits.artifact, Len(export[e].csv) <= Limits.total,
                      BundleBytes(export[e].sealed) <= Limits.bundle,
                      \A length \in StringLengths(export[e].sealed) : length <= Limits.string,
                      SchemaBytes(schema) <= Limits.extension
               PROVE  PrepareImport(carried) = "none"
    BY Zenon DEF HonestCopyIsAccepted
  <1> DEFINE csv == export[e].csv
             rows == export[e].rows
             bundle == carried.bundle
             manifest == Manifest(csv, Len(rows))
             parsed == ParseCsv(csv, schema, Limits)
  <1>1. schema \in Schemas /\ HasCsv(e) /\ SealedAs(export[e].sealed, csv, Len(rows))
    BY DEF Inv, Sealing, SealedFits
  <1>2. /\ SealedAs(bundle, csv, Len(rows)) /\ BundleBytes(bundle) <= Limits.bundle
        /\ \A length \in StringLengths(bundle) : length <= Limits.string
    BY <1>1, SealedByCanonical
  <1>3. /\ rows \in Tables(schema) /\ ReadingsCsv(schema, rows).ok
        /\ csv = ReadingsCsv(schema, rows).text
    BY <1>1 DEF HasCsv
  <1>4. ValidateSchema(schema, Limits.columns)
    BY <1>1, <1>3, WriterWrites, TableAssumptions
  <1>5. Len(csv) \in Nat
    BY <1>1, <1>3, WrittenLength
  <1>6. parsed.ok /\ parsed.rows = rows
    BY <1>1, <1>3, WrittenIsRead
  <1>14. ~(SchemaBytes(schema) > Limits.extension)
    BY <1>1, SchemaHasBytes, LimitsAssumptions
  <1>7. ValidateImportBundle(bundle, carried.digest) = "none"
    BY <1>2, <1>4, <1>5, <1>14, SealedIsValid
  <1>8. Member(bundle, "artifacts") = <<manifest>>
    BY <1>2 DEF SealedAs
  <1>9. /\ manifest.schema = schema /\ manifest.rowCount = Len(rows)
        /\ manifest.contentHash = Digest(csv) /\ manifest.byteCount = Len(csv)
    BY DEF Manifest
  <1> HIDE DEF manifest
  <1>10. Len(<<manifest>>) = 1 /\ Head(<<manifest>>) = manifest
    OBVIOUS
  <1>11. ~(Len(csv) > Limits.artifact)
    BY <1>5, LimitsAssumptions
  <1>12. ArtifactMatches(manifest, csv)
    BY <1>9 DEF ArtifactMatches
  <1>13. PlanTabularImport(bundle, csv, carried.revision) = "none"
    BY <1>4, <1>6, <1>8, <1>9, <1>10, <1>11, <1>12 DEF PlanTabularImport
  <1> QED
    BY <1>7, <1>13 DEF PrepareImport

\* A bundle and the artifact of one export are accepted whatever order their
\* members are in and whatever other exports did to the objects in between:
\* validate_import_bundle, plan_tabular_import and parse_csv (import.rs) refuse
\* nothing that write_tabular_csv and build_import_bundle make, unless a
\* field holds a line break or a limit of the target is exceeded.
THEOREM HonestCopyIsAcceptedCorrect == Spec => []HonestCopyIsAccepted
  BY InvInit, InvStep, SealingInit, SealingStep, HonestCopies, PTL DEF Spec

-----------------------------------------------------------------------------
(* Numerals.                                                               *)

\* Part of a text.
LEMMA PartOfText ==
    ASSUME NEW C, NEW v \in Seq(C), NEW a \in Nat, NEW b \in Nat,
           1 <= a, a <= b + 1, b <= Len(v)
    PROVE  /\ SubSeq(v, a, b) \in Seq(C) /\ Len(SubSeq(v, a, b)) = b + 1 - a
           /\ SubSeq(v, a, b) = <<>> <=> a = b + 1
           /\ \A k \in 1 .. b + 1 - a : SubSeq(v, a, b)[k] = v[a + k - 1]
           /\ a <= b => /\ Head(SubSeq(v, a, b)) = v[a]
                        /\ Tail(SubSeq(v, a, b)) = SubSeq(v, a + 1, b)
  <1> DEFINE s == SubSeq(v, a, b)
  <1>1. s \in Seq(C) /\ Len(s) = b + 1 - a /\ \A k \in 1 .. b + 1 - a : s[k] = v[a + k - 1]
    OBVIOUS
  <1>2. s = <<>> <=> a = b + 1
    BY <1>1
  <1>3. ASSUME a <= b
        PROVE  Head(s) = v[a] /\ Tail(s) = SubSeq(v, a + 1, b)
    <2>1. Head(s) = v[a]
      BY <1>1, <1>3
    <2>2. /\ SubSeq(v, a + 1, b) \in Seq(C) /\ Len(SubSeq(v, a + 1, b)) = b - a
          /\ \A k \in 1 .. b - a : SubSeq(v, a + 1, b)[k] = v[a + k]
      BY <1>3
    <2>3. /\ Tail(s) \in Seq(C) /\ Len(Tail(s)) = b - a
          /\ \A k \in 1 .. b - a : Tail(s)[k] = v[a + k]
      BY <1>1, <1>3
    <2>4. Tail(s) = SubSeq(v, a + 1, b)
      BY ONLY <2>2, <2>3
    <2> QED
      BY <2>1, <2>4
  <1> QED
    BY <1>1, <1>2, <1>3

\* Digits from a to b.
DigitsIn(v, a, b) == \A k \in a .. b : v[k] \in Digits

\* Part of a text that consists of digits.
LEMMA DigitPart ==
    ASSUME NEW C, NEW v \in Seq(C), NEW a \in Nat, NEW b \in Nat,
           1 <= a, a <= b + 1, b <= Len(v)
    PROVE  ToSet(SubSeq(v, a, b)) \subseteq Digits <=> DigitsIn(v, a, b)
  <1> DEFINE s == SubSeq(v, a, b)
  <1>1. s \in Seq(C) /\ Len(s) = b + 1 - a /\ \A k \in 1 .. b + 1 - a : s[k] = v[a + k - 1]
    BY PartOfText
  <1>2. DOMAIN s = 1 .. b + 1 - a
    BY <1>1
  <1> HIDE DEF s
  <1>3. ASSUME ToSet(s) \subseteq Digits, NEW k \in a .. b
        PROVE  v[k] \in Digits
    <2>1. k + 1 - a \in 1 .. b + 1 - a /\ a + (k + 1 - a) - 1 = k
      OBVIOUS
    <2>2. s[k + 1 - a] = v[k] /\ s[k + 1 - a] \in ToSet(s)
      BY <1>1, <1>2, <2>1 DEF ToSet
    <2> QED
      BY <1>3, <2>2
  <1>4. ASSUME DigitsIn(v, a, b), NEW k \in DOMAIN s
        PROVE  s[k] \in Digits
    <2>1. k \in 1 .. b + 1 - a /\ a + k - 1 \in a .. b
      BY <1>2, <1>4
    <2> QED
      BY <1>1, <1>4, <2>1 DEF DigitsIn
  <1> QED
    BY <1>3, <1>4 DEF ToSet, DigitsIn, s

\* Index k ends the digits from b on.
EndsDigits(v, b, k) ==
    /\ k \in b .. Len(v) + 1 /\ \A j \in b .. k - 1 : v[j] \in Digits
    /\ k <= Len(v) => v[k] \notin Digits

\* There is one such index, and skip_digits finds it.
LEMMA SkipDigitsEnds ==
    ASSUME NEW C, NEW v \in Seq(C), NEW b \in Nat, 1 <= b, b <= Len(v) + 1
    PROVE  \A k : k = SkipDigits(v, b) <=> EndsDigits(v, b, k)
  <1> DEFINE n == Len(v)
             T == {k \in Nat : b <= k /\ (k = n + 1 \/ (k <= n /\ v[k] \notin Digits))}
  <1>0. n \in Nat
    OBVIOUS
  <1>1. n + 1 \in T /\ T \subseteq Nat
    BY <1>0
  <1>2. PICK k \in T : \A m \in T : k <= m
    <2> HIDE DEF T
    <2> QED
      BY <1>1, LeastNatural
  <1>3. EndsDigits(v, b, k)
    <2>1. k \in Nat /\ b <= k /\ k <= n + 1 /\ (k <= n => v[k] \notin Digits)
      BY <1>0, <1>2
    <2>2. ASSUME NEW j \in b .. k - 1
          PROVE  v[j] \in Digits
      <3>1. j \in Nat /\ b <= j /\ j <= n /\ ~(k <= j)
        BY <1>0, <2>1
      <3>2. j \notin T
        BY <1>2, <3>1
      <3> QED
        BY <3>1, <3>2
    <2> QED
      BY <1>0, <2>1, <2>2 DEF EndsDigits
  <1>4. \A l, m : EndsDigits(v, b, l) /\ EndsDigits(v, b, m) => l = m
    <2> SUFFICES ASSUME NEW l, NEW m, EndsDigits(v, b, l), EndsDigits(v, b, m)
                 PROVE  l = m
      OBVIOUS
    <2>1. l \in Nat /\ m \in Nat /\ b <= l /\ b <= m /\ l <= n + 1 /\ m <= n + 1
      BY <1>0 DEF EndsDigits
    <2>2. ~(l < m)
      <3> SUFFICES ASSUME l < m PROVE FALSE
        OBVIOUS
      <3>1. l \in b .. m - 1 /\ l <= n
        BY <1>0, <2>1
      <3> QED
        BY <3>1 DEF EndsDigits
    <2>3. ~(m < l)
      <3> SUFFICES ASSUME m < l PROVE FALSE
        OBVIOUS
      <3>1. m \in b .. l - 1 /\ m <= n
        BY <1>0, <2>1
      <3> QED
        BY <3>1 DEF EndsDigits
    <2> QED
      BY <2>1, <2>2, <2>3
  <1>5. SkipDigits(v, b) =
          CHOOSE m \in b .. Len(v) + 1 : EndsDigits(v, b, m)
    <2>1. \A m \in b .. Len(v) + 1 : EndsDigits(v, b, m) <=>
              /\ \A j \in b .. m - 1 : v[j] \in Digits
              /\ m <= Len(v) => v[m] \notin Digits
      BY DEF EndsDigits
    <2> QED
      BY <2>1 DEF SkipDigits
  <1>6. k \in b .. Len(v) + 1
    BY <1>3 DEF EndsDigits
  <1>7. EndsDigits(v, b, SkipDigits(v, b))
    BY ONLY <1>3, <1>5, <1>6
  <1> QED
    BY ONLY <1>4, <1>7

\* Where the digits of the integer part begin.
First(v) == IF v # <<>> /\ Head(v) = "-" THEN 2 ELSE 1

\* Where the digits of the exponent behind position j begin.
ExponentAt(v, j) == IF j + 2 <= Len(v) /\ v[j + 2] \in {"+", "-"} THEN j + 3 ELSE j + 2

\* The integer part of v ends at i.
IntegerEnds(v, i) ==
    /\ First(v) <= i /\ DigitsIn(v, First(v), i)
    /\ First(v) < i => v[First(v)] # "0"

\* The fraction behind the integer part ends at j.
FractionEnds(v, i, j) ==
    i = j \/ (i + 2 <= j /\ v[i + 1] = "." /\ DigitsIn(v, i + 2, j))

\* What is behind the fraction is an exponent, or nothing.
ExponentEnds(v, j) ==
    \/ j = Len(v)
    \/ /\ j < Len(v) /\ v[j + 1] = "e" /\ ExponentAt(v, j) <= Len(v)
       /\ DigitsIn(v, ExponentAt(v, j), Len(v))

\* Integer part, fraction and exponent of v end at i, at j and at the end.
Decimal(v, i, j) == IntegerEnds(v, i) /\ FractionEnds(v, i, j) /\ ExponentEnds(v, j)

\* Where things can begin.
LEMMA FirstAt ==
    ASSUME NEW C, NEW v \in Seq(C)
    PROVE  /\ First(v) \in {1, 2} /\ First(v) <= Len(v) + 1
           /\ First(v) = 2 => 1 <= Len(v) /\ v[1] = "-"
           /\ First(v) = 1 /\ 1 <= Len(v) => v[1] # "-"
  BY DEF First

\* The head of a text up to i is an integer of JSON.
LEMMA IntegerText ==
    ASSUME NEW C, NEW v \in Seq(C), NEW i \in Nat, 1 <= i, i <= Len(v)
    PROVE  JsonInteger(SubSeq(v, 1, i)) <=> IntegerEnds(v, i)
  <1> DEFINE s == SubSeq(v, 1, i)
             b == First(v)
             d == SubSeq(v, b, i)
  <1>0. Len(v) \in Nat
    OBVIOUS
  <1>1. s \in Seq(C) /\ s # <<>> /\ Head(s) = v[1] /\ Tail(s) = SubSeq(v, 2, i) /\ v # <<>>
    BY PartOfText
  <1>2. b \in {1, 2} /\ (b = 2 <=> v[1] = "-")
    BY <1>0, FirstAt
  <1>3. Unsigned(s) = d
    BY <1>1, <1>2 DEF Unsigned
  <1>4. /\ d \in Seq(C) /\ Len(d) = i + 1 - b
        /\ d = <<>> <=> b = i + 1
        /\ b <= i => Head(d) = v[b]
    BY <1>2, PartOfText
  <1>5. ToSet(d) \subseteq Digits <=> DigitsIn(v, b, i)
    BY <1>2, DigitPart
  <1> HIDE DEF s, b, d
  <1>6. (d # <<>> <=> b <= i) /\ (Len(d) > 1 <=> b < i)
    BY <1>2, <1>4
  <1>7. JsonInteger(s) <=> d # <<>> /\ ToSet(d) \subseteq Digits /\ (Len(d) > 1 => Head(d) # "0")
    BY <1>3 DEF JsonInteger, AllDigits
  <1>8. b < i => b <= i
    BY <1>2
  <1> QED
    BY <1>4, <1>5, <1>6, <1>7, <1>8 DEF IntegerEnds, b, s

\* A fraction between i and j.
LEMMA FractionText ==
    ASSUME NEW C, NEW v \in Seq(C), NEW i \in Nat, NEW j \in Nat, i <= j, j <= Len(v)
    PROVE  LET fraction == SubSeq(v, i + 1, j) IN
           (\/ fraction = <<>>
            \/ /\ Head(fraction) = "."
               /\ Tail(fraction) # <<>> /\ ToSet(Tail(fraction)) \subseteq Digits)
           <=> FractionEnds(v, i, j)
  <1>0. PICK a \in Nat, c \in Nat : a = i + 1 /\ c = a + 1 /\ c = i + 2 /\ Len(v) \in Nat
    OBVIOUS
  <1> DEFINE f == SubSeq(v, a, j)
             t == SubSeq(v, c, j)
  <1>1. /\ f = <<>> <=> a = j + 1
        /\ a <= j => Head(f) = v[a] /\ Tail(f) = t
    BY <1>0, PartOfText
  <1>2. ASSUME i < j
        PROVE  (t = <<>> <=> c = j + 1) /\ (ToSet(t) \subseteq Digits <=> DigitsIn(v, c, j))
    <2>1. 1 <= c /\ c <= j + 1
      BY <1>0, <1>2
    <2>2. t = <<>> <=> c = j + 1
      BY <2>1, PartOfText
    <2>3. ToSet(t) \subseteq Digits <=> DigitsIn(v, c, j)
      BY <2>1, DigitPart
    <2> QED
      BY <2>2, <2>3
  <1> HIDE DEF f, t
  <1>3. /\ a = j + 1 <=> i = j
        /\ a <= j <=> i < j
        /\ i # j <=> i < j
        /\ i < j => (c <= j <=> c # j + 1)
        /\ c <= j => i < j
    BY ONLY <1>0, i \in Nat, j \in Nat, i <= j
  <1>4. (f = <<>> \/ (Head(f) = "." /\ Tail(f) # <<>> /\ ToSet(Tail(f)) \subseteq Digits)) <=>
        (i = j \/ (c <= j /\ v[a] = "." /\ DigitsIn(v, c, j)))
    BY ONLY <1>1, <1>2, <1>3
  <1> QED
    BY <1>0, <1>4 DEF FractionEnds, f

\* When a part of a text is empty.
LEMMA PartIsEmpty ==
    ASSUME NEW C, NEW v \in Seq(C), NEW a \in Nat, NEW b \in Nat,
           1 <= a, a <= b + 1, b <= Len(v)
    PROVE  SubSeq(v, a, b) = <<>> <=> a = b + 1
  BY PartOfText

\* The first character of a part and what stands behind it.
LEMMA PartHead ==
    ASSUME NEW C, NEW v \in Seq(C), NEW a \in Nat, NEW b \in Nat,
           1 <= a, a <= b, b <= Len(v)
    PROVE  Head(SubSeq(v, a, b)) = v[a] /\ Tail(SubSeq(v, a, b)) = SubSeq(v, a + 1, b)
  <1>1. a <= b + 1
    OBVIOUS
  <1> QED
    BY <1>1, PartOfText

\* An exponent behind j.
LEMMA ExponentText ==
    ASSUME NEW C, NEW v \in Seq(C), NEW j \in Nat, j <= Len(v)
    PROVE  JsonExponent(SubSeq(v, j + 1, Len(v))) <=> ExponentEnds(v, j)
  <1>0. PICK n \in Nat : n = Len(v) /\ j <= n
    OBVIOUS
  <1>1. PICK a \in Nat, c \in Nat, d \in Nat :
            a = j + 1 /\ c = a + 1 /\ c = j + 2 /\ d = c + 1 /\ d = j + 3
    OBVIOUS
  <1> DEFINE x == SubSeq(v, a, n)
             t == SubSeq(v, c, n)
             u == SubSeq(v, d, n)
             w == SubSeq(x, 3, Len(x))
  <1>x. /\ 1 <= a /\ a <= n + 1 /\ n <= Len(v) /\ 1 <= c /\ 1 <= d
        /\ a <= n => c <= n + 1
        /\ c <= n => d <= n + 1
    BY <1>0, <1>1
  <1>2. /\ x \in Seq(C) /\ Len(x) = n + 1 - a /\ (x = <<>> <=> a = n + 1)
        /\ a <= n => Head(x) = v[a] /\ Tail(x) = t
        /\ \A k \in 1 .. n + 1 - a : x[k] = v[a + k - 1]
    <2>1. c = a + 1
      BY <1>1
    <2>2. x = <<>> <=> a = n + 1
      BY ONLY <1>x, PartIsEmpty, v \in Seq(C), a \in Nat, n \in Nat
    <2>3. x \in Seq(C) /\ Len(x) = n + 1 - a /\ \A k \in 1 .. n + 1 - a : x[k] = v[a + k - 1]
      <3>1. 1 <= a /\ a <= n + 1 /\ n <= Len(v)
        BY <1>x
      <3> QED
        BY ONLY <3>1, v \in Seq(C), a \in Nat, n \in Nat
    <2>4. a <= n => Head(x) = v[a] /\ Tail(x) = SubSeq(v, a + 1, n)
      BY ONLY <1>x, PartHead, v \in Seq(C), a \in Nat, n \in Nat
    <2> QED
      BY ONLY <2>1, <2>2, <2>3, <2>4, Zenon
  <1>3. ASSUME a <= n
        PROVE  (t = <<>> <=> c = n + 1) /\ (ToSet(t) \subseteq Digits <=> DigitsIn(v, c, n))
    <2>1. t = <<>> <=> c = n + 1
      BY ONLY <1>x, <1>3, PartIsEmpty, v \in Seq(C), c \in Nat, n \in Nat
    <2>2. ToSet(t) \subseteq Digits <=> DigitsIn(v, c, n)
      BY ONLY <1>x, <1>3, DigitPart, v \in Seq(C), c \in Nat, n \in Nat
    <2> QED
      BY <2>1, <2>2
  <1>4. ASSUME c <= n
        PROVE  (u = <<>> <=> d = n + 1) /\ (ToSet(u) \subseteq Digits <=> DigitsIn(v, d, n))
    <2>1. u = <<>> <=> d = n + 1
      BY ONLY <1>x, <1>4, PartIsEmpty, v \in Seq(C), d \in Nat, n \in Nat
    <2>2. ToSet(u) \subseteq Digits <=> DigitsIn(v, d, n)
      BY ONLY <1>x, <1>4, DigitPart, v \in Seq(C), d \in Nat, n \in Nat
    <2> QED
      BY <2>1, <2>2
  <1>5. c <= n => Tail(t) = u /\ x[2] = v[c] /\ t # <<>>
    <2>1. ASSUME c <= n
          PROVE  Tail(t) = u /\ t # <<>>
      <3>1. c <= n + 1 /\ c # n + 1 /\ d = c + 1
        BY <1>1, <2>1
      <3> QED
        BY ONLY <1>x, <2>1, <3>1, PartOfText, v \in Seq(C), c \in Nat, n \in Nat
    <2>2. c <= n => 2 \in 1 .. n + 1 - a /\ a + 2 - 1 = c
      BY <1>0, <1>1
    <2> QED
      BY <1>2, <2>1, <2>2
  <1>6. c <= n => w = u
    <2> SUFFICES ASSUME c <= n PROVE w = u
      OBVIOUS
    <2>1. PICK l \in Nat : l = Len(x) /\ l = n + 1 - a /\ l >= 2
      BY <1>0, <1>1, <1>2
    <2>2. /\ w \in Seq(C) /\ Len(w) = l + 1 - 3
          /\ \A k \in 1 .. l + 1 - 3 : w[k] = x[3 + k - 1]
      BY <1>2, <2>1, PartOfText
    <2>3. /\ u \in Seq(C) /\ Len(u) = n + 1 - d
          /\ \A k \in 1 .. n + 1 - d : u[k] = v[d + k - 1]
      BY <1>0, <1>1, PartOfText
    <2>4. l + 1 - 3 = n + 1 - d
      BY <1>1, <2>1
    <2>5. ASSUME NEW k \in 1 .. n + 1 - d
          PROVE  w[k] = u[k]
      <3>1. k \in 1 .. l + 1 - 3 /\ 3 + k - 1 \in 1 .. n + 1 - a /\ a + (3 + k - 1) - 1 = d + k - 1
        BY <1>1, <2>1
      <3>2. w[k] = x[3 + k - 1] /\ u[k] = v[d + k - 1]
        BY <2>2, <2>3, <3>1
      <3>3. x[3 + k - 1] = v[a + (3 + k - 1) - 1]
        BY <1>2, <3>1
      <3> QED
        BY <3>1, <3>2, <3>3
    <2> HIDE DEF w, u
    <2>6. w \in Seq(C) /\ u \in Seq(C) /\ Len(w) = Len(u)
      BY ONLY <2>2, <2>3, <2>4
    <2>7. \A k \in 1 .. Len(w) : w[k] = u[k]
      BY ONLY <2>3, <2>5, <2>6
    <2> QED
      BY ONLY <2>6, <2>7, SeqEqual, Zenon
  <1> HIDE DEF x, t, u, w
  <1>7. /\ a = n + 1 <=> j = n
        /\ j # n <=> a <= n
        /\ j < n <=> a <= n
        /\ Len(x) > 1 <=> c <= n
        /\ c <= n => a <= n
        /\ c <= n => c # n + 1
        /\ c <= n => (d = n + 1 <=> ~(d <= n))
        /\ d <= n => c <= n
    BY ONLY <1>0, <1>1, <1>2, n \in Nat, j \in Nat, a \in Nat, c \in Nat, d \in Nat
  <1> DEFINE y == IF c <= n /\ v[c] \in {"+", "-"} THEN d ELSE c
             Left == \/ x = <<>>
                     \/ /\ Head(x) = "e" /\ Len(x) > 1
                        /\ \/ Tail(x) # <<>> /\ ToSet(Tail(x)) \subseteq Digits
                           \/ /\ x[2] \in {"+", "-"}
                              /\ w # <<>> /\ ToSet(w) \subseteq Digits
             Right == \/ j = n
                      \/ /\ j < n /\ v[a] = "e" /\ y <= n /\ DigitsIn(v, y, n)
  <1>8. DigitsIn(v, c, n) /\ c <= n => v[c] \notin {"+", "-"}
    BY DEF DigitsIn, Digits
  <1>9. ASSUME j = n
        PROVE  Left <=> Right
    <2>1. x = <<>>
      BY ONLY <1>2, <1>7, <1>9
    <2> QED
      BY ONLY <1>9, <2>1
  <1>10. ASSUME j # n, ~(c <= n)
         PROVE  Left <=> Right
    <2>1. ~(Len(x) > 1) /\ x # <<>> /\ y = c
      BY ONLY <1>2, <1>7, <1>10
    <2> HIDE DEF y
    <2> QED
      BY ONLY <1>10, <2>1
  <1>11. ASSUME c <= n, v[c] \in {"+", "-"}
         PROVE  Left <=> Right
    <2>1. y = d /\ x # <<>> /\ Len(x) > 1 /\ j # n /\ j < n /\ Head(x) = v[a] /\ Tail(x) = t
      BY ONLY <1>2, <1>7, <1>11
    <2>2. ~(ToSet(t) \subseteq Digits)
      BY ONLY <1>3, <1>7, <1>8, <1>11
    <2>3. (w # <<>> /\ ToSet(w) \subseteq Digits) <=> (d <= n /\ DigitsIn(v, d, n))
      BY ONLY <1>4, <1>6, <1>7, <1>11
    <2>4. x[2] = v[c]
      BY ONLY <1>5, <1>11
    <2> HIDE DEF y
    <2>6. Left <=> v[a] = "e" /\ d <= n /\ DigitsIn(v, d, n)
      BY ONLY <1>11, <2>1, <2>2, <2>3, <2>4
    <2> QED
      BY ONLY <2>1, <2>6
  <1>12. ASSUME c <= n, v[c] \notin {"+", "-"}
         PROVE  Left <=> Right
    <2>1. y = c /\ x # <<>> /\ Len(x) > 1 /\ j # n /\ j < n /\ Head(x) = v[a] /\ Tail(x) = t
      BY ONLY <1>2, <1>7, <1>12
    <2>2. x[2] = v[c] /\ t # <<>>
      BY ONLY <1>5, <1>12
    <2>3. ToSet(t) \subseteq Digits <=> DigitsIn(v, c, n)
      BY ONLY <1>3, <1>7, <1>12
    <2> HIDE DEF y
    <2> QED
      BY ONLY <1>12, <2>1, <2>2, <2>3
  <1>13. Left <=> Right
    <2> HIDE DEF Left, Right
    <2> QED
      BY ONLY <1>9, <1>10, <1>11, <1>12
  <1>14. Right <=> ExponentEnds(v, j)
    BY ONLY <1>0, <1>1 DEF ExponentEnds, ExponentAt
  <1>15. Left <=> JsonExponent(x)
    BY ONLY DEF JsonExponent, AllDigits, w
  <1>16. x = SubSeq(v, j + 1, Len(v))
    BY ONLY <1>0, <1>1 DEF x
  <1> HIDE DEF Left, Right
  <1> QED
    BY ONLY <1>13, <1>14, <1>15, <1>16

\* A number of JSON, told by positions.
LEMMA NumberText ==
    ASSUME NEW C, NEW v \in Seq(C)
    PROVE  JsonNumber(v) <=> \E i \in 1 .. Len(v) : \E j \in i .. Len(v) : Decimal(v, i, j)
  <1>0. PICK n \in Nat : n = Len(v)
    OBVIOUS
  <1>1. ASSUME NEW i \in 1 .. n, NEW j \in i .. n
        PROVE  Decimal(v, i, j) <=>
                  /\ JsonInteger(SubSeq(v, 1, i)) /\ JsonFraction(SubSeq(v, i + 1, j))
                  /\ JsonExponent(SubSeq(v, j + 1, Len(v)))
    <2>1. i \in Nat /\ j \in Nat /\ 1 <= i /\ i <= Len(v) /\ i <= j /\ j <= Len(v)
      BY <1>0
    <2>2. JsonInteger(SubSeq(v, 1, i)) <=> IntegerEnds(v, i)
      BY <2>1, IntegerText
    <2>3. JsonFraction(SubSeq(v, i + 1, j)) <=> FractionEnds(v, i, j)
      BY ONLY <2>1, FractionText, v \in Seq(C) DEF JsonFraction, AllDigits
    <2>4. JsonExponent(SubSeq(v, j + 1, Len(v))) <=> ExponentEnds(v, j)
      BY ONLY <2>1, ExponentText, v \in Seq(C)
    <2> QED
      BY ONLY <2>2, <2>3, <2>4 DEF Decimal
  <1> QED
    BY ONLY <1>0, <1>1 DEF JsonNumber

-----------------------------------------------------------------------------
(* The scanner of valid_float.                                             *)

\* integer_part finds where the integer ends.
LEMMA IntegerScan ==
    ASSUME NEW C, NEW v \in Seq(C), NEW i \in Nat,
           i <= Len(v), i + 1 <= Len(v) => v[i + 1] \notin Digits, 1 <= i
    PROVE  IntegerEnds(v, i) <=> IntegerPart(v, First(v)) = i + 1
  <1>1. PICK n \in Nat : n = Len(v)
    OBVIOUS
  <1>2. PICK b \in Nat : b = First(v) /\ b \in {1, 2} /\ b <= n + 1
    BY <1>1, FirstAt
  <1>3. PICK k : k = SkipDigits(v, b)
    OBVIOUS
  <1>4. EndsDigits(v, b, k) /\ \A m : EndsDigits(v, b, m) => m = k
    BY <1>1, <1>2, <1>3, SkipDigitsEnds
  <1>5. k \in Nat /\ b <= k /\ k <= n + 1
    BY <1>1, <1>2, <1>4 DEF EndsDigits
  <1>6. IntegerPart(v, b) = IF k = b \/ (k - b > 1 /\ v[b] = "0") THEN 0 ELSE k
    BY <1>3 DEF IntegerPart
  <1>7. ASSUME IntegerEnds(v, i)
        PROVE  IntegerPart(v, b) = i + 1
    <2>1. b <= i /\ DigitsIn(v, b, i) /\ (b < i => v[b] # "0")
      BY <1>2, <1>7 DEF IntegerEnds
    <2>2. EndsDigits(v, b, i + 1)
      <3>1. i + 1 \in b .. Len(v) + 1 /\ (i + 1) - 1 = i
        BY <1>1, <1>2, <2>1
      <3> QED
        BY <2>1, <3>1 DEF EndsDigits, DigitsIn
    <2>3. k = i + 1
      BY <1>4, <2>2
    <2>4. k # b /\ (k - b > 1 => b < i)
      BY <1>2, <2>1, <2>3
    <2> QED
      BY <1>6, <2>1, <2>3, <2>4
  <1>8. ASSUME IntegerPart(v, b) = i + 1
        PROVE  IntegerEnds(v, i)
    <2>1. k = i + 1 /\ k # b /\ ~(k - b > 1 /\ v[b] = "0")
      BY <1>6, <1>8
    <2>2. b <= i /\ (b < i => k - b > 1) /\ k - 1 = i
      BY <1>2, <1>5, <2>1
    <2>3. DigitsIn(v, b, i)
      BY <1>4, <2>2 DEF EndsDigits, DigitsIn
    <2> QED
      BY <1>2, <2>1, <2>2, <2>3 DEF IntegerEnds
  <1> QED
    BY <1>2, <1>7, <1>8

\* What integer_part answers is no more than the position behind the text,
\* and no digit is there.
LEMMA IntegerBound ==
    ASSUME NEW C, NEW v \in Seq(C), IntegerPart(v, First(v)) # 0
    PROVE  \E i \in 1 .. Len(v) : /\ IntegerPart(v, First(v)) = i + 1
                                  /\ i + 1 <= Len(v) => v[i + 1] \notin Digits
  <1>1. PICK n \in Nat : n = Len(v)
    OBVIOUS
  <1>2. PICK b \in Nat : b = First(v) /\ b \in {1, 2} /\ b <= n + 1
    BY <1>1, FirstAt
  <1>3. PICK k : k = SkipDigits(v, b)
    OBVIOUS
  <1>4. EndsDigits(v, b, k)
    BY <1>1, <1>2, <1>3, SkipDigitsEnds
  <1>5. IntegerPart(v, b) = k /\ k # b
    BY <1>2, <1>3 DEF IntegerPart
  <1>6. k \in Nat /\ b <= k /\ k <= n + 1 /\ (k <= n => v[k] \notin Digits)
    BY <1>1, <1>2, <1>4 DEF EndsDigits
  <1>7. PICK i \in 1 .. n : k = i + 1
    <2>1. k - 1 \in 1 .. n /\ k = (k - 1) + 1
      BY <1>2, <1>5, <1>6
    <2> QED
      BY ONLY <2>1
  <1> QED
    BY <1>1, <1>2, <1>5, <1>6, <1>7

\* fraction_part finds where the fraction ends.
LEMMA FractionScan ==
    ASSUME NEW C, NEW v \in Seq(C), NEW i \in Nat, 1 <= i, i <= Len(v),
           NEW j \in Nat, i <= j, j <= Len(v), j + 1 <= Len(v) => v[j + 1] = "e"
    PROVE  FractionEnds(v, i, j) <=> FractionPart(v, i + 1) = j + 1
  <1>1. PICK n \in Nat, a \in Nat, c \in Nat : n = Len(v) /\ a = i + 1 /\ c = a + 1 /\ c = i + 2
    OBVIOUS
  <1>2. CASE a > n \/ v[a] # "."
    <2>1. FractionPart(v, a) = a
      BY <1>1, <1>2 DEF FractionPart
    <2>2. FractionEnds(v, i, j) <=> i = j
      BY <1>1, <1>2 DEF FractionEnds
    <2>3. i = j <=> a = j + 1
      BY <1>1
    <2> QED
      BY <1>1, <2>1, <2>2, <2>3
  <1>3. CASE ~(a > n \/ v[a] # ".")
    <2>0. a <= n /\ v[a] = "." /\ 1 <= c /\ c <= n + 1
      BY <1>1, <1>3
    <2>1. PICK k : k = SkipDigits(v, c)
      OBVIOUS
    <2>2. FractionPart(v, a) = IF k = c THEN 0 ELSE k
      BY <1>1, <1>3, <2>1 DEF FractionPart
    <2>3. EndsDigits(v, c, k) /\ \A m : EndsDigits(v, c, m) => m = k
      BY <1>1, <2>0, <2>1, SkipDigitsEnds
    <2>4. k \in Nat /\ c <= k /\ k <= n + 1
      BY <1>1, <2>3 DEF EndsDigits
    <2>5. i # j
      <3>1. i = j => v[a] = "e"
        BY <1>1, <2>0
      <3> QED
        BY <2>0, <3>1
    <2>6. ASSUME FractionEnds(v, i, j)
          PROVE  FractionPart(v, a) = j + 1
      <3>1. c <= j /\ DigitsIn(v, c, j)
        BY <1>1, <2>5, <2>6 DEF FractionEnds
      <3>2. j + 1 \in c .. n + 1 /\ (j + 1) - 1 = j
        BY <1>1, <3>1
      <3>3. j + 1 <= Len(v) => v[j + 1] \notin Digits
        BY DEF Digits
      <3>4. EndsDigits(v, c, j + 1)
        BY <1>1, <3>1, <3>2, <3>3 DEF EndsDigits, DigitsIn
      <3>5. k = j + 1 /\ k # c
        BY <1>1, <2>3, <3>1, <3>4
      <3> QED
        BY <2>2, <3>5
    <2>7. ASSUME FractionPart(v, a) = j + 1
          PROVE  FractionEnds(v, i, j)
      <3>1. k = j + 1 /\ k # c
        BY <2>2, <2>7
      <3>2. c <= j /\ k - 1 = j
        BY <1>1, <2>4, <3>1
      <3>3. DigitsIn(v, c, j)
        BY <2>3, <3>2 DEF EndsDigits, DigitsIn
      <3> QED
        BY <1>1, <2>0, <3>2, <3>3 DEF FractionEnds
    <2> QED
      BY <1>1, <2>6, <2>7
  <1> QED
    BY <1>2, <1>3

\* What fraction_part answers is no more than the position behind the text.
LEMMA FractionBound ==
    ASSUME NEW C, NEW v \in Seq(C), NEW i \in Nat, 1 <= i, i <= Len(v),
           FractionPart(v, i + 1) # 0
    PROVE  \E j \in i .. Len(v) : FractionPart(v, i + 1) = j + 1
  <1>1. PICK n \in Nat, a \in Nat, c \in Nat : n = Len(v) /\ a = i + 1 /\ c = a + 1 /\ c = i + 2
    OBVIOUS
  <1>2. CASE a > n \/ v[a] # "."
    <2>1. FractionPart(v, a) = a /\ i \in i .. n
      BY <1>1, <1>2 DEF FractionPart
    <2> QED
      BY <1>1, <2>1
  <1>3. CASE ~(a > n \/ v[a] # ".")
    <2>0. 1 <= c /\ c <= n + 1
      BY <1>1, <1>3
    <2>1. PICK k : k = SkipDigits(v, c)
      OBVIOUS
    <2>2. FractionPart(v, a) = k /\ k # c
      BY <1>1, <1>3, <2>1 DEF FractionPart
    <2>3. EndsDigits(v, c, k)
      BY <1>1, <2>0, <2>1, SkipDigitsEnds
    <2>4. k \in Nat /\ c <= k /\ k <= n + 1
      BY <1>1, <2>3 DEF EndsDigits
    <2>5. k - 1 \in i .. n /\ k = (k - 1) + 1
      BY <1>1, <2>4
    <2> QED
      BY <1>1, <2>2, <2>5
  <1> QED
    BY <1>2, <1>3

\* exponent_part finds the exponent.
LEMMA ExponentScan ==
    ASSUME NEW C, NEW v \in Seq(C), NEW j \in Nat, j <= Len(v)
    PROVE  ExponentPart(v, j + 1) = Len(v) + 1 <=> ExponentEnds(v, j)
  <1>1. PICK n \in Nat, a \in Nat, c \in Nat, d \in Nat :
            n = Len(v) /\ a = j + 1 /\ c = a + 1 /\ c = j + 2 /\ d = a + 2 /\ d = j + 3
    OBVIOUS
  <1>2. ASSUME a > n \/ v[a] # "e"
        PROVE  ExponentPart(v, a) = n + 1 <=> ExponentEnds(v, j)
    <2>1. ExponentPart(v, a) = a
      BY <1>1, <1>2 DEF ExponentPart
    <2>2. a = n + 1 <=> j = n
      BY <1>1
    <2>3. ExponentEnds(v, j) <=> j = n
      BY <1>1, <1>2 DEF ExponentEnds
    <2> QED
      BY <2>1, <2>2, <2>3
  <1>3. ASSUME ~(a > n \/ v[a] # "e")
        PROVE  ExponentPart(v, a) = n + 1 <=> ExponentEnds(v, j)
    <2>0. j < n /\ v[a] = "e" /\ j # n
      BY <1>1, <1>3
    <2>1. PICK b \in Nat : /\ b = (IF c <= n /\ v[c] \in {"+", "-"} THEN d ELSE c)
                           /\ 1 <= b /\ b <= n + 1
      <3>1. CASE c <= n /\ v[c] \in {"+", "-"}
        <4>1. 1 <= d /\ d <= n + 1
          BY <1>1, <3>1
        <4> QED
          BY <3>1, <4>1
      <3>2. CASE ~(c <= n /\ v[c] \in {"+", "-"})
        <4>1. 1 <= c /\ c <= n + 1
          BY <1>1, <2>0
        <4> QED
          BY <3>2, <4>1
      <3> QED
        BY <3>1, <3>2
    <2>2. b = ExponentAt(v, j)
      BY ONLY <1>1, <2>1 DEF ExponentAt
    <2>3. PICK k : k = SkipDigits(v, b)
      OBVIOUS
    <2>4. ExponentPart(v, a) = IF k = b THEN 0 ELSE k
      <3>1. b = (IF a + 1 <= Len(v) /\ v[a + 1] \in {"+", "-"} THEN a + 2 ELSE a + 1)
        BY ONLY <1>1, <2>1
      <3>2. ~(a > Len(v) \/ v[a] # "e")
        BY ONLY <1>1, <1>3
      <3> QED
        BY ONLY <2>3, <3>1, <3>2 DEF ExponentPart
    <2>5. EndsDigits(v, b, k) /\ \A m : EndsDigits(v, b, m) => m = k
      BY <1>1, <2>1, <2>3, SkipDigitsEnds
    <2>6. ExponentEnds(v, j) <=> b <= n /\ DigitsIn(v, b, n)
      BY ONLY <1>1, <2>0, <2>2 DEF ExponentEnds
    <2>7. ASSUME b <= n, DigitsIn(v, b, n)
          PROVE  ExponentPart(v, a) = n + 1
      <3>1. n + 1 \in b .. n + 1 /\ (n + 1) - 1 = n /\ ~(n + 1 <= n) /\ n + 1 # b
        BY <2>1, <2>7
      <3>2. EndsDigits(v, b, n + 1)
        BY ONLY <1>1, <2>7, <3>1 DEF EndsDigits, DigitsIn
      <3> QED
        BY ONLY <2>4, <2>5, <3>1, <3>2
    <2>8. ASSUME ExponentPart(v, a) = n + 1
          PROVE  b <= n /\ DigitsIn(v, b, n)
      <3>0. n + 1 # 0
        OBVIOUS
      <3>1. k = n + 1 /\ k # b
        BY ONLY <2>4, <2>8, <3>0
      <3>2. b <= n /\ k - 1 = n
        BY <2>1, <3>1
      <3> QED
        BY ONLY <2>5, <3>2 DEF EndsDigits, DigitsIn
    <2> QED
      BY ONLY <2>6, <2>7, <2>8
  <1> QED
    BY ONLY <1>1, <1>2, <1>3

\* valid_float accepts the numbers of JSON that are finite.
LEMMA FloatIsNumber ==
    ASSUME NEW C, NEW v \in Seq(C)
    PROVE  ValidFloat(v) <=> JsonNumber(v) /\ Finite(v)
  <1>1. PICK n \in Nat : n = Len(v)
    OBVIOUS
  <1> DEFINE integer  == IntegerPart(v, First(v))
             fraction == IF integer = 0 THEN 0 ELSE FractionPart(v, integer)
             exponent == IF fraction = 0 THEN 0 ELSE ExponentPart(v, fraction)
  <1>2. ValidFloat(v) <=> exponent # 0 /\ exponent = Len(v) + 1 /\ Finite(v)
    BY DEF ValidFloat, First
  <1>4. ASSUME ValidFloat(v)
        PROVE  Finite(v) /\ \E i \in 1 .. n : \E j \in i .. n : Decimal(v, i, j)
    <2>0. exponent # 0 /\ exponent = Len(v) + 1 /\ Finite(v)
      BY ONLY <1>2, <1>4
    <2>1. integer # 0 /\ fraction # 0
      BY ONLY <2>0
    <2>2. PICK i \in 1 .. n : integer = i + 1 /\ (i + 1 <= Len(v) => v[i + 1] \notin Digits)
      BY <1>1, <2>1, IntegerBound
    <2>3. i \in Nat /\ 1 <= i /\ i <= Len(v)
      BY <1>1
    <2>4. fraction = FractionPart(v, i + 1) /\ FractionPart(v, i + 1) # 0
      BY <2>1, <2>2
    <2>5. PICK j \in i .. n : FractionPart(v, i + 1) = j + 1
      BY <1>1, <2>3, <2>4, FractionBound
    <2>6. j \in Nat /\ i <= j /\ j <= Len(v)
      BY <1>1, <2>3
    <2>7. ExponentPart(v, j + 1) = Len(v) + 1
      BY ONLY <2>0, <2>4, <2>5
    <2>8. ExponentEnds(v, j)
      BY <2>6, <2>7, ExponentScan
    <2>9. j + 1 <= Len(v) => v[j + 1] = "e"
      BY <2>6, <2>8 DEF ExponentEnds
    <2>10. FractionEnds(v, i, j)
      BY <2>3, <2>5, <2>6, <2>9, FractionScan
    <2>11. IntegerEnds(v, i)
      BY <2>2, <2>3, IntegerScan
    <2>13. Decimal(v, i, j)
      BY ONLY <2>8, <2>10, <2>11 DEF Decimal
    <2> QED
      BY ONLY <2>0, <2>13, i \in 1 .. n, j \in i .. n
  <1>5. ASSUME NEW i \in 1 .. n, NEW j \in i .. n, Decimal(v, i, j), Finite(v)
        PROVE  ValidFloat(v)
    <2>1. i \in Nat /\ 1 <= i /\ i <= Len(v) /\ j \in Nat /\ i <= j /\ j <= Len(v)
      BY <1>1
    <2>2. IntegerEnds(v, i) /\ FractionEnds(v, i, j) /\ ExponentEnds(v, j)
      BY ONLY <1>5 DEF Decimal
    <2>3. j + 1 <= Len(v) => v[j + 1] = "e"
      BY <2>1, <2>2 DEF ExponentEnds
    <2>4. i + 1 <= Len(v) => v[i + 1] \notin Digits
      BY <2>1, <2>2, <2>3 DEF FractionEnds, Digits
    <2>5. integer = i + 1 /\ integer # 0
      BY <2>1, <2>2, <2>4, IntegerScan
    <2>6. FractionPart(v, i + 1) = j + 1
      BY <2>1, <2>2, <2>3, FractionScan
    <2>7. fraction = j + 1 /\ fraction # 0
      <3>1. j + 1 # 0
        BY <2>1
      <3> QED
        BY ONLY <2>5, <2>6, <3>1
    <2>8. exponent = Len(v) + 1
      <3>1. ExponentPart(v, j + 1) = Len(v) + 1
        BY <2>1, <2>2, ExponentScan
      <3> QED
        BY ONLY <2>7, <3>1
    <2>9. Len(v) + 1 # 0
      BY <1>1
    <2> QED
      BY ONLY <1>2, <1>5, <2>8, <2>9
  <1> HIDE DEF integer, fraction, exponent
  <1> QED
    BY ONLY <1>1, <1>4, <1>5, NumberText, v \in Seq(C)

\* No leading zero: the text is the zero or begins with another digit.
LEMMA LoneZero ==
    ASSUME NEW C, NEW d \in Seq(C), d # <<>>
    PROVE  (d = <<"0">> \/ Head(d) # "0") <=> (Len(d) > 1 => Head(d) # "0")
  <1>1. Len(d) \in Nat /\ Len(d) > 0 /\ Head(d) = d[1]
    OBVIOUS
  <1>2. ASSUME ~(Len(d) > 1), Head(d) = "0"
        PROVE  d = <<"0">>
    BY <1>1, <1>2, SMTT(30)
  <1>3. d = <<"0">> => ~(Len(d) > 1)
    OBVIOUS
  <1> QED
    BY <1>2, <1>3

\* valid_integer accepts the integers of JSON that are in range.
LEMMA IntegerIsInRange ==
    ASSUME NEW C, NEW v \in Seq(C)
    PROVE  ValidInteger(v) <=>
              /\ JsonInteger(v)
              /\ IF Head(v) = "-" THEN DigitsValue(Tail(v)) <= Int64Max + 1
                 ELSE DigitsValue(v) <= Int64Max
  <1>1. CASE v = <<>>
    BY <1>1 DEF ValidInteger, JsonInteger, AllDigits, Unsigned
  <1>2. ASSUME v # <<>>, Head(v) = "-"
        PROVE  ValidInteger(v) <=> JsonInteger(v) /\ DigitsValue(Tail(v)) <= Int64Max + 1
    <2>1. PICK d \in Seq(C) : d = Tail(v)
      <3>1. Tail(v) \in Seq(C)
        BY <1>2
      <3> QED
        BY ONLY <3>1
    <2>2. Unsigned(v) = d
      BY <1>2, <2>1 DEF Unsigned
    <2>3. ParsesAsI64(v) <=> d # <<>> /\ ToSet(d) \subseteq Digits /\ DigitsValue(d) <= Int64Max + 1
      BY <1>2, <2>1 DEF ParsesAsI64
    <2>4. d # <<>> => ((d = <<"0">> \/ Head(d) # "0") <=> (Len(d) > 1 => Head(d) # "0"))
      BY LoneZero
    <2> QED
      BY <1>2, <2>1, <2>2, <2>3, <2>4 DEF ValidInteger, JsonInteger, AllDigits
  <1>3. ASSUME v # <<>>, Head(v) # "-"
        PROVE  ValidInteger(v) <=> JsonInteger(v) /\ DigitsValue(v) <= Int64Max
    <2>1. Unsigned(v) = v
      BY <1>3 DEF Unsigned
    <2>2. JsonInteger(v) => Head(v) # "+"
      <3>1. Head(v) \in ToSet(v)
        BY <1>3 DEF ToSet
      <3> QED
        BY <2>1, <3>1 DEF JsonInteger, AllDigits, Digits
    <2>3. Head(v) # "+" => (ParsesAsI64(v) <=> ToSet(v) \subseteq Digits /\ DigitsValue(v) <= Int64Max)
      <3>1. Int64Max + 0 = Int64Max
        BY CsvAssumptions
      <3> QED
        BY <1>3, <3>1 DEF ParsesAsI64
    <2>4. (v = <<"0">> \/ Head(v) # "0") <=> (Len(v) > 1 => Head(v) # "0")
      BY <1>3, LoneZero
    <2> QED
      BY <1>3, <2>1, <2>2, <2>3, <2>4 DEF ValidInteger, JsonInteger, AllDigits
  <1> QED
    BY <1>1, <1>2, <1>3

\* The lexical rules of the reader are the grammar of the profile.
LEMMA ValidIsInGrammar ==
    ASSUME NEW C, NEW v \in Seq(C), NEW type \in ColumnTypes
    PROVE  ValidValue(v, type) <=> InGrammar(v, type) \/ Lenient(v, type)
  <1>1. CASE type = "Int64"
    BY <1>1, IntegerIsInRange DEF ValidValue, InGrammar, Lenient
  <1>2. CASE type = "Float64"
    BY <1>2, FloatIsNumber DEF ValidValue, InGrammar, Lenient
  <1>3. CASE type \in {"Boolean", "Uuid", "Timestamp", "String"}
    BY <1>3 DEF ValidValue, InGrammar, Lenient, UuidTexts
  <1> QED
    BY <1>1, <1>2, <1>3 DEF ColumnTypes

-----------------------------------------------------------------------------
(* The grammar decides.                                                    *)

\* A bundle that passes has no manifest that is refused.
LEMMA NoneRefused ==
    ASSUME NEW wire, NEW digest, NEW artifacts, artifacts = Member(wire, "artifacts"),
           NEW M, artifacts \in Seq(M), ValidateImportBundle(wire, digest) = "none"
    PROVE  /\ Len(artifacts) \in Nat /\ Len(artifacts) >= 1
           /\ \A i \in 1 .. Len(artifacts) :
                  ManifestRefusal(artifacts[i], SubSeq(artifacts, 1, i - 1)) = "none"
  <1> DEFINE refused(i) == ManifestRefusal(artifacts[i], SubSeq(artifacts, 1, i - 1))
             refusals == {i \in DOMAIN artifacts : refused(i) # "none"}
             first == CHOOSE j \in refusals : \A k \in refusals : j <= k
  <1>1. Len(artifacts) \in Nat /\ DOMAIN artifacts = 1 .. Len(artifacts)
    OBVIOUS
  <1>2. Len(artifacts) \in 1 .. Limits.artifacts /\ (refusals # {} => refused(first) = "none")
    BY DEF ValidateImportBundle
  <1>3. refusals \in SUBSET Nat
    <2>1. 1 .. Len(artifacts) \in SUBSET Nat
      OBVIOUS
    <2> QED
      BY <1>1, <2>1, Zenon
  <1>4. refusals = {}
    <2> SUFFICES ASSUME refusals # {} PROVE FALSE
      OBVIOUS
    <2>1. \E j \in refusals : \A k \in refusals : j <= k
      <3> HIDE DEF refusals
      <3> QED
        BY <1>3, LeastNatural
    <2>2. first \in refusals
      <3> HIDE DEF refusals
      <3> QED
        BY <2>1
    <2>3. refused(first) # "none"
      <3> HIDE DEF first, refused
      <3> QED
        BY <2>2
    <2> QED
      BY ONLY <1>2, <2>3, refusals # {}
  <1>5. Len(artifacts) >= 1
    BY <1>1, <1>2, LimitsAssumptions
  <1> QED
    BY <1>1, <1>4, <1>5

\* What the reader takes is what is in the grammar.
LEMMA ReadableIsInGrammar ==
    ASSUME schema \in Schemas, NEW rows, IsTable(rows, schema)
    PROVE  CanRead(schema, rows, Limits) <=>
              /\ Len(rows) <= Limits.rows /\ Unbroken(rows)
              /\ \A row \in ToSet(rows), i \in DOMAIN schema.columns :
                     \/ InGrammar(row[i], schema.columns[i].type)
                     \/ Lenient(row[i], schema.columns[i].type)
  <1>1. /\ rows \in Seq(Seq(Seq(Characters)))
        /\ \A k \in DOMAIN rows : Len(rows[k]) = Len(schema.columns)
    BY DEF IsTable
  <1>2. DOMAIN rows = 1 .. Len(rows) /\ \A k \in DOMAIN rows : rows[k] \in Seq(Seq(Characters))
    BY <1>1
  <1>3. /\ \A i \in DOMAIN schema.columns : schema.columns[i].type \in ColumnTypes
        /\ DOMAIN schema.columns = 1 .. Len(schema.columns)
    BY NamesAreTexts
  <1>4. ASSUME NEW k \in DOMAIN rows, NEW i \in DOMAIN schema.columns
        PROVE  ValidValue(rows[k][i], schema.columns[i].type)
                 <=> \/ InGrammar(rows[k][i], schema.columns[i].type)
                     \/ Lenient(rows[k][i], schema.columns[i].type)
    <2>1. i \in 1 .. Len(rows[k])
      BY <1>1, <1>3
    <2>2. rows[k][i] \in Seq(Characters)
      BY <1>2, <2>1
    <2> QED
      BY <1>3, <2>2, ValidIsInGrammar
  <1>5. ToSet(rows) = {rows[k] : k \in DOMAIN rows}
    BY DEF ToSet
  <1>6. (\A k \in 1 .. Len(rows) : ValidateValues(rows[k], schema)) <=>
        \A row \in ToSet(rows), i \in DOMAIN schema.columns :
            \/ InGrammar(row[i], schema.columns[i].type)
            \/ Lenient(row[i], schema.columns[i].type)
    BY ONLY <1>2, <1>4, <1>5 DEF ValidateValues
  <1>7. Unbroken(rows) <=>
             /\ AllClean(Names(schema))
             /\ \A i \in 1 .. Len(rows) : AllClean(rows[i])
    BY UnbrokenClean
  <1> QED
    BY ONLY <1>6, <1>7 DEF CanRead

\* The invariants make the grammar decide.
LEMMA GrammarDecides == Inv => AcceptedIffInGrammar
  <1> SUFFICES ASSUME Inv, NEW m \in meant, m.digest = carried.digest, carried.revision # "blank",
                      IsTable(m.rows, schema), carried.artifact \in Sheets(schema, m.rows),
                      ValidateImportBundle(carried.bundle, carried.digest) = "none",
                      Member(carried.bundle, "artifacts")
                          = <<Manifest(carried.artifact, Len(m.rows))>>
               PROVE  PrepareImport(carried) = "none" <=>
                        /\ Len(m.rows) <= Limits.rows /\ Unbroken(m.rows)
                        /\ \A row \in ToSet(m.rows), i \in DOMAIN schema.columns :
                               \/ InGrammar(row[i], schema.columns[i].type)
                               \/ Lenient(row[i], schema.columns[i].type)
    BY Zenon DEF AcceptedIffInGrammar
  <1>3. PICK artifacts : artifacts = Member(carried.bundle, "artifacts")
    OBVIOUS
  <1>4. PICK manifest : manifest = Manifest(carried.artifact, Len(m.rows))
    OBVIOUS
  <1>5. /\ manifest.schema = schema
        /\ manifest.rowCount = Len(m.rows) /\ manifest.byteCount = Len(carried.artifact)
        /\ manifest.contentHash = Digest(carried.artifact)
    BY <1>4 DEF Manifest
  <1>6. schema \in Schemas /\ artifacts = <<manifest>>
    BY <1>3, <1>4 DEF Inv
  <1>7. /\ Len(artifacts) = 1 /\ Head(artifacts) = manifest
        /\ ManifestRefusal(manifest, SubSeq(artifacts, 1, 1 - 1)) = "none"
    <2>1. /\ Len(<<manifest>>) = 1 /\ Head(<<manifest>>) = manifest /\ <<manifest>>[1] = manifest
          /\ <<manifest>> \in Seq({manifest}) /\ 1 \in 1 .. 1
      OBVIOUS
    <2>2. \A i \in 1 .. Len(artifacts) :
             ManifestRefusal(artifacts[i], SubSeq(artifacts, 1, i - 1)) = "none"
      BY <1>3, <1>6, <2>1, NoneRefused
    <2> QED
      BY ONLY <1>6, <2>1, <2>2
  <1>8. /\ ValidateSchema(schema, Limits.columns)
        /\ ~(Len(carried.artifact) > Limits.artifact)
    BY ONLY <1>5, <1>7 DEF ManifestRefusal
  <1>9. PICK parsed : parsed = ParseCsv(carried.artifact, schema, Limits)
    OBVIOUS
  <1>10. /\ parsed.ok <=> CanRead(schema, m.rows, Limits)
         /\ parsed.ok => parsed.rows = m.rows
    BY <1>6, <1>7, <1>8, <1>9, SheetOutcome, HasColumns
  <1>11. parsed.why = "none" => parsed.ok
    BY <1>9, RefusedForReason
  <1>12. ArtifactMatches(manifest, carried.artifact)
    BY <1>5 DEF ArtifactMatches
  <1>13. PlanTabularImport(carried.bundle, carried.artifact, carried.revision) = "none" <=> parsed.ok
    <2>1. PlanTabularImport(carried.bundle, carried.artifact, carried.revision) =
             IF ~parsed.ok THEN parsed.why
             ELSE IF Len(parsed.rows) # manifest.rowCount THEN "artifact mismatch"
             ELSE "none"
      BY <1>3, <1>5, <1>7, <1>8, <1>9, <1>12 DEF PlanTabularImport
    <2> QED
      BY ONLY <1>5, <1>10, <1>11, <2>1
  <1>14. PrepareImport(carried) = "none" <=> CanRead(schema, m.rows, Limits)
    BY ONLY <1>10, <1>13, ValidateImportBundle(carried.bundle, carried.digest) = "none"
    DEF PrepareImport
  <1> QED
    BY <1>6, <1>14, ReadableIsInGrammar

\* A legal text of a producer's rows, with a bundle in order that describes it,
\* is accepted exactly when its values are in the grammar of their columns or
\* spell a UUID in one of three other ways, are without line breaks, and are no
\* more rows than the limit: valid_integer, valid_float and parse_csv
\* (import.rs) neither refuse a number of JSON in range nor take another, for
\* texts of any length.
THEOREM AcceptedIffInGrammarCorrect == Spec => []AcceptedIffInGrammar
  BY InvInit, InvStep, GrammarDecides, PTL DEF Spec
=============================================================================
