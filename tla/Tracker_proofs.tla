---------------------------- MODULE Tracker_proofs ----------------------------
(***************************************************************************)
(* LogIsExact of Tracker, for any handlers, lengths of lines, capacity of  *)
(* the channel and length that forces a write.                             *)
(***************************************************************************)
EXTENDS Tracker, SequenceTheorems, FiniteSetTheorems, WellFoundedInduction, TLAPS

Entry == [id : 1..count, len : Line]

FileLine == [id : 1..count, whole : BOOLEAN]

Types ==
    /\ count \in Nat
    /\ entries \in Seq(Entry)
    /\ buf \in Seq(Entry)
    /\ file \in Seq(FileLine)

Ascending(lines) == \A i, j \in 1..Len(lines) : i < j => lines[i].id < lines[j].id

Before(lines, more) == \A i \in 1..Len(lines), j \in 1..Len(more) : lines[i].id < more[j].id

(* The pipeline is in order piece by piece. *)
InOrder ==
    /\ Ascending(file) /\ Ascending(buf) /\ Ascending(entries)
    /\ Before(file, buf) /\ Before(file, entries) /\ Before(buf, entries)

Exact == lost = 1..count \ (Whole(file) \cup Ids(buf) \cup Ids(entries))

IInv == Types /\ InOrder /\ Exact

(* A function on 1..n is a sequence of length n. *)
LEMMA FunctionIsSeq ==
    ASSUME NEW S, NEW n \in Nat, NEW g \in [1..n -> S]
    PROVE  g \in Seq(S) /\ Len(g) = n
<1>1. g \in Seq(S)
  BY SeqDef
<1>2. Len(g) \in Nat /\ 1..Len(g) = 1..n
  BY <1>1, LenProperties
<1> QED
  BY <1>1, <1>2

(* The numbers of the lines in each piece. *)
LEMMA Numbers ==
    ASSUME Types
    PROVE  /\ Len(file) \in Nat /\ DOMAIN file = 1..Len(file)
           /\ Len(buf) \in Nat /\ DOMAIN buf = 1..Len(buf)
           /\ Len(entries) \in Nat /\ DOMAIN entries = 1..Len(entries)
           /\ \A i \in 1..Len(file) : file[i].id \in 1..count /\ file[i].id \in Nat
           /\ \A i \in 1..Len(buf) : buf[i].id \in 1..count /\ buf[i].id \in Nat
           /\ \A i \in 1..Len(entries) : entries[i].id \in 1..count /\ entries[i].id \in Nat
<1>1. file \in Seq(FileLine) /\ buf \in Seq(Entry) /\ entries \in Seq(Entry) /\ count \in Nat
  BY DEF Types
<1>2. /\ \A i \in 1..Len(file) : file[i] \in FileLine
      /\ \A i \in 1..Len(buf) : buf[i] \in Entry
      /\ \A i \in 1..Len(entries) : entries[i] \in Entry
  BY <1>1, ElementOfSeq
<1>3. /\ \A x \in FileLine : x.id \in 1..count /\ x.id \in Nat
      /\ \A x \in Entry : x.id \in 1..count /\ x.id \in Nat
  BY <1>1 DEF FileLine, Entry
<1> QED
  BY <1>1, <1>2, <1>3, LenProperties

(* The pieces in order make a pipeline in order. *)
LEMMA OrderOfPieces ==
    ASSUME Types, InOrder
    PROVE  \A i, j \in DOMAIN Pipeline : i < j => Pipeline[i] < Pipeline[j]
<1> DEFINE F == [i \in DOMAIN file |-> file[i].id]
           B == [i \in DOMAIN buf |-> buf[i].id]
           E == [i \in DOMAIN entries |-> entries[i].id]
<1>1. /\ F \in Seq(Nat) /\ Len(F) = Len(file) /\ \A i \in 1..Len(file) : F[i] = file[i].id
  <2>1. F \in [1..Len(file) -> Nat] /\ Len(file) \in Nat
    BY Numbers
  <2>2. \A i \in 1..Len(file) : F[i] = file[i].id
    BY Numbers
  <2> HIDE DEF F
  <2> QED
    BY <2>1, <2>2, FunctionIsSeq
<1>2. /\ B \in Seq(Nat) /\ Len(B) = Len(buf) /\ \A i \in 1..Len(buf) : B[i] = buf[i].id
  <2>1. B \in [1..Len(buf) -> Nat] /\ Len(buf) \in Nat
    BY Numbers
  <2>2. \A i \in 1..Len(buf) : B[i] = buf[i].id
    BY Numbers
  <2> HIDE DEF B
  <2> QED
    BY <2>1, <2>2, FunctionIsSeq
<1>3. /\ E \in Seq(Nat) /\ Len(E) = Len(entries) /\ \A i \in 1..Len(entries) : E[i] = entries[i].id
  <2>1. E \in [1..Len(entries) -> Nat] /\ Len(entries) \in Nat
    BY Numbers
  <2>2. \A i \in 1..Len(entries) : E[i] = entries[i].id
    BY Numbers
  <2> HIDE DEF E
  <2> QED
    BY <2>1, <2>2, FunctionIsSeq
<1>4. Pipeline = (F \o B) \o E
  BY DEF Pipeline
<1> HIDE DEF F, B, E
<1>5. /\ F \o B \in Seq(Nat) /\ Len(F \o B) = Len(F) + Len(B)
      /\ \A i \in 1..Len(F) + Len(B) : (F \o B)[i] = IF i <= Len(F) THEN F[i] ELSE B[i - Len(F)]
  <2>1. F \in Seq(Nat) /\ B \in Seq(Nat)
    BY <1>1, <1>2
  <2> QED
    BY <2>1, ConcatProperties, Zenon
<1> DEFINE FB == F \o B
<1> HIDE DEF FB
<1>6. /\ DOMAIN (FB \o E) = 1..Len(FB) + Len(E)
      /\ \A i \in 1..Len(FB) + Len(E) : (FB \o E)[i] = IF i <= Len(FB) THEN FB[i] ELSE E[i - Len(FB)]
  <2>1. FB \in Seq(Nat) /\ E \in Seq(Nat)
    BY <1>3, <1>5 DEF FB
  <2>2. /\ FB \o E \in Seq(Nat) /\ Len(FB \o E) = Len(FB) + Len(E)
        /\ \A i \in 1..Len(FB) + Len(E) : (FB \o E)[i] = IF i <= Len(FB) THEN FB[i] ELSE E[i - Len(FB)]
    BY <2>1, ConcatProperties, Zenon
  <2>3. DOMAIN (FB \o E) = 1..Len(FB \o E)
    BY <2>2, LenProperties, Zenon
  <2> QED
    BY <2>2, <2>3, Zenon
<1> DEFINE f == Len(file)
           b == Len(buf)
           e == Len(entries)
<1>7. f \in Nat /\ b \in Nat /\ e \in Nat
  BY Numbers
<1>8. /\ DOMAIN Pipeline = 1..f + b + e
      /\ \A i \in 1..f + b + e :
            /\ i <= f => Pipeline[i] = file[i].id
            /\ f < i /\ i <= f + b => Pipeline[i] = buf[i - f].id
            /\ f + b < i => Pipeline[i] = entries[i - (f + b)].id
  <2>1. Pipeline = FB \o E /\ Len(FB) = f + b /\ Len(E) = e /\ Len(F) = f /\ Len(B) = b
    BY <1>1, <1>2, <1>3, <1>4, <1>5 DEF FB
  <2>2. \A i \in 1..f + b : FB[i] = IF i <= f THEN F[i] ELSE B[i - f]
    BY <1>5, <2>1 DEF FB
  <2> HIDE DEF f, b, e
  <2>3. DOMAIN Pipeline = 1..f + b + e
    BY <1>6, <2>1
  <2>4. \A i \in 1..f + b + e : Pipeline[i] = IF i <= f + b THEN FB[i] ELSE E[i - (f + b)]
    BY <1>6, <2>1
  <2> SUFFICES ASSUME NEW i \in 1..f + b + e
               PROVE  /\ i <= f => Pipeline[i] = file[i].id
                      /\ f < i /\ i <= f + b => Pipeline[i] = buf[i - f].id
                      /\ f + b < i => Pipeline[i] = entries[i - (f + b)].id
    BY <2>3
  <2>5. CASE i <= f
    <3>1. i \in 1..f /\ i \in 1..f + b /\ i <= f + b /\ ~(f < i) /\ ~(f + b < i)
      BY <1>7, <2>5
    <3> QED
      BY <1>1, <2>2, <2>4, <2>5, <3>1 DEF f
  <2>6. CASE f < i /\ i <= f + b
    <3>1. i - f \in 1..b /\ i \in 1..f + b /\ ~(i <= f) /\ ~(f + b < i)
      BY <1>7, <2>6
    <3> QED
      BY <1>2, <2>2, <2>4, <2>6, <3>1 DEF b
  <2>7. CASE f + b < i
    <3>1. i - (f + b) \in 1..e /\ ~(i <= f) /\ ~(i <= f + b)
      BY <1>7, <2>7
    <3> QED
      BY <1>3, <2>4, <2>7, <3>1 DEF e
  <2> QED
    BY <1>7, <2>5, <2>6, <2>7
<1> HIDE DEF f, b, e
<1> SUFFICES ASSUME NEW i \in 1..f + b + e, NEW j \in 1..f + b + e, i < j PROVE Pipeline[i] < Pipeline[j]
  BY <1>8
<1>9. CASE j <= f
  <2>1. i \in 1..f /\ j \in 1..f /\ i <= f
    BY <1>7, <1>9
  <2> QED
    BY <1>8, <1>9, <2>1 DEF InOrder, Ascending, f
<1>10. CASE f < j /\ j <= f + b
  <2>1. CASE i <= f
    <3>1. i \in 1..f /\ j - f \in 1..b
      BY <1>7, <1>10, <2>1
    <3> QED
      BY <1>8, <1>10, <2>1, <3>1 DEF InOrder, Before, f, b
  <2>2. CASE f < i
    <3>1. i - f \in 1..b /\ j - f \in 1..b /\ i - f < j - f /\ i <= f + b
      BY <1>7, <1>10, <2>2
    <3> QED
      BY <1>8, <1>10, <2>2, <3>1 DEF InOrder, Ascending, b
  <2> QED
    BY <1>7, <2>1, <2>2
<1>11. CASE f + b < j
  <2>1. CASE i <= f
    <3>1. i \in 1..f /\ j - (f + b) \in 1..e
      BY <1>7, <1>11, <2>1
    <3> QED
      BY <1>8, <1>11, <2>1, <3>1 DEF InOrder, Before, f, e
  <2>2. CASE f < i /\ i <= f + b
    <3>1. i - f \in 1..b /\ j - (f + b) \in 1..e
      BY <1>7, <1>11, <2>2
    <3> QED
      BY <1>8, <1>11, <2>2, <3>1 DEF InOrder, Before, b, e
  <2>3. CASE f + b < i
    <3>1. i - (f + b) \in 1..e /\ j - (f + b) \in 1..e /\ i - (f + b) < j - (f + b)
      BY <1>7, <1>11, <2>3
    <3> QED
      BY <1>8, <1>11, <2>3, <3>1 DEF InOrder, Ascending, e
  <2> QED
    BY <1>7, <2>1, <2>2, <2>3
<1> QED
  BY <1>7, <1>9, <1>10, <1>11

(* How many lines Appended adds. *)
Added(k, cut) == IF cut THEN k + 1 ELSE k

(* The lines that Appended adds. *)
LEMMA AppendedLines ==
    ASSUME Types, NEW k \in 0..Len(buf), NEW cut \in BOOLEAN, cut => k < Len(buf)
    PROVE  /\ Added(k, cut) \in 0..Len(buf)
           /\ Appended(k, cut) \in Seq(FileLine)
           /\ Len(Appended(k, cut)) = Len(file) + Added(k, cut)
           /\ \A i \in 1..Len(file) : Appended(k, cut)[i] = file[i]
           /\ \A i \in 1..Added(k, cut) :
                 Appended(k, cut)[Len(file) + i] = [id |-> buf[i].id, whole |-> i <= k]
<1> DEFINE n == Added(k, cut)
<1>1. n \in 0..Len(buf) /\ Len(buf) \in Nat /\ Len(file) \in Nat
  BY Numbers DEF Added
<1> DEFINE new == [i \in 1..n |-> [id |-> buf[i].id, whole |-> i <= k]]
<1>2. Appended(k, cut) = file \o new
  BY DEF Appended, Added
<1>3. \A i \in 1..n : new[i] \in FileLine
  <2> SUFFICES ASSUME NEW i \in 1..n PROVE new[i] \in FileLine
    OBVIOUS
  <2>1. i \in 1..Len(buf)
    BY <1>1
  <2>2. buf[i].id \in 1..count
    BY <2>1, Numbers
  <2>3. (i <= k) \in BOOLEAN
    BY <1>1
  <2> QED
    BY <2>2, <2>3 DEF FileLine
<1>4. new \in Seq(FileLine) /\ Len(new) = n
  <2>1. n \in Nat
    BY <1>1
  <2>2. new = [i \in 1..n |-> new[i]]
    OBVIOUS
  <2> HIDE DEF new
  <2>3. new \in [1..n -> FileLine]
    BY <1>3, <2>2
  <2> QED
    BY <2>1, <2>3, FunctionIsSeq
<1>5. \A i \in 1..n : new[i] = [id |-> buf[i].id, whole |-> i <= k]
  OBVIOUS
<1> HIDE DEF new
<1>6. /\ file \o new \in Seq(FileLine) /\ Len(file \o new) = Len(file) + n
      /\ \A i \in 1..Len(file) : (file \o new)[i] = file[i]
      /\ \A i \in 1..n : (file \o new)[Len(file) + i] = new[i]
  <2>1. file \in Seq(FileLine)
    BY DEF Types
  <2>2. /\ file \o new \in Seq(FileLine) /\ Len(file \o new) = Len(file) + n
        /\ \A i \in 1..Len(file) + n :
              (file \o new)[i] = IF i <= Len(file) THEN file[i] ELSE new[i - Len(file)]
    BY <1>4, <2>1, ConcatProperties
  <2>3. \A i \in 1..Len(file) : i \in 1..Len(file) + n /\ i <= Len(file)
    BY <1>1
  <2>4. \A i \in 1..n : /\ Len(file) + i \in 1..Len(file) + n
                        /\ ~(Len(file) + i <= Len(file)) /\ (Len(file) + i) - Len(file) = i
    BY <1>1
  <2> QED
    BY <2>2, <2>3, <2>4
<1> QED
  BY <1>1, <1>2, <1>5, <1>6

(* The lines of the buffer that are not written. *)
LEMMA UnwrittenLines ==
    ASSUME Types, NEW k \in 0..Len(buf)
    PROVE  Unwritten(k) = {buf[i].id : i \in k + 1..Len(buf)}
<1>1. Len(buf) \in Nat /\ buf \in Seq(Entry)
  BY DEF Types
<1> DEFINE rest == SubSeq(buf, k + 1, Len(buf))
<1>2. DOMAIN rest = 1..Len(buf) - k /\ \A i \in 1..Len(buf) - k : rest[i] = buf[k + i]
  BY <1>1
<1>3. Unwritten(k) = {rest[i].id : i \in 1..Len(buf) - k}
  BY <1>2, Zenon DEF Unwritten, Ids
<1> HIDE DEF rest
<1>4. ASSUME NEW x \in Unwritten(k) PROVE x \in {buf[i].id : i \in k + 1..Len(buf)}
  <2>1. PICK i \in 1..Len(buf) - k : x = rest[i].id
    BY <1>3, <1>4
  <2>2. k + i \in k + 1..Len(buf) /\ x = buf[k + i].id
    BY <1>1, <1>2, <2>1
  <2> QED
    BY <2>2
<1>5. ASSUME NEW i \in k + 1..Len(buf) PROVE buf[i].id \in Unwritten(k)
  <2>1. i - k \in 1..Len(buf) - k /\ k + (i - k) = i
    BY <1>1, <1>5
  <2>2. rest[i - k] = buf[i]
    BY <1>2, <2>1
  <2> QED
    BY <1>3, <2>1, <2>2
<1> QED
  BY <1>4, <1>5

(* However a write ends, with the process or not: some lines go to the file, and the others *)
(* are counted as lost.                                                                     *)
LEMMA WriteEnds ==
    ASSUME IInv, NEW k \in 0..Len(buf), NEW cut \in BOOLEAN, cut => k < Len(buf),
           file' = Appended(k, cut), buf' = <<>>, entries' \in {entries, <<>>}, count' = count,
           lost' = lost \cup Unwritten(k) \cup (Ids(entries) \ Ids(entries'))
    PROVE  IInv'
<1> DEFINE n == Added(k, cut)
           f == Len(file)
           b == Len(buf)
<1>1. Types /\ InOrder /\ Exact
  BY DEF IInv
<1>2. /\ n \in 0..b /\ file' \in Seq(FileLine) /\ Len(file') = f + n
      /\ \A i \in 1..f : file'[i] = file[i]
      /\ \A i \in 1..n : file'[f + i] = [id |-> buf[i].id, whole |-> i <= k]
  BY <1>1, AppendedLines, Zenon
<1>3. f \in Nat /\ b \in Nat /\ Len(entries) \in Nat /\ Len(<<>>) = 0
  BY <1>1, Numbers
<1>4. Types'
  <2>1. Entry' = Entry /\ FileLine' = FileLine
    BY DEF Entry, FileLine
  <2>2. <<>> \in Seq(Entry)
    BY EmptySeq
  <2> QED
    BY <1>1, <1>2, <2>1, <2>2, Zenon DEF Types
<1> HIDE DEF n
<1>5. \A i \in 1..n : i \in 1..b /\ file'[f + i].id = buf[i].id /\ (file'[f + i].whole <=> i <= k)
  <2> SUFFICES ASSUME NEW i \in 1..n
               PROVE  i \in 1..b /\ file'[f + i].id = buf[i].id /\ (file'[f + i].whole <=> i <= k)
    OBVIOUS
  <2>1. i \in 1..b
    BY <1>2, <1>3
  <2>2. file'[f + i] = [id |-> buf[i].id, whole |-> i <= k]
    BY <1>2
  <2>3. file'[f + i].id = buf[i].id
    BY <2>2
  <2>4. file'[f + i].whole <=> i <= k
    <3>1. \A w : [id |-> buf[i].id, whole |-> w].whole = w
      OBVIOUS
    <3>2. file'[f + i].whole = (i <= k)
      BY <2>2, <3>1, Zenon
    <3> QED
      BY <3>2, Zenon
  <2> QED
    BY <2>1, <2>3, <2>4
<1> HIDE DEF f, b
<1>6. \A i \in 1..f + n : i \in 1..f \/ (i - f \in 1..n /\ f + (i - f) = i)
  BY <1>2, <1>3
<1>7. Ascending(file')
  <2> SUFFICES ASSUME NEW i \in 1..f + n, NEW j \in 1..f + n, i < j PROVE file'[i].id < file'[j].id
    BY <1>2 DEF Ascending
  <2>1. CASE i \in 1..f /\ j \in 1..f
    BY <1>1, <1>2, <2>1 DEF InOrder, Ascending, f
  <2>2. CASE i \in 1..f /\ j - f \in 1..n /\ f + (j - f) = j
    <3>1. file'[j].id = buf[j - f].id /\ j - f \in 1..b
      BY <1>5, <2>2
    <3> QED
      BY <1>1, <1>2, <2>2, <3>1, SMTT(20) DEF InOrder, Before, f, b
  <2>3. CASE i - f \in 1..n /\ f + (i - f) = i /\ j - f \in 1..n /\ f + (j - f) = j
    <3>1. /\ file'[i].id = buf[i - f].id /\ i - f \in 1..b
          /\ file'[j].id = buf[j - f].id /\ j - f \in 1..b
      BY <1>5, <2>3
    <3>2. i - f < j - f
      BY <1>2, <1>3
    <3> QED
      BY <1>1, <3>1, <3>2 DEF InOrder, Ascending, b
  <2>4. ~(i - f \in 1..n /\ j \in 1..f)
    BY <1>2, <1>3
  <2> QED
    BY <1>6, <2>1, <2>2, <2>3, <2>4, SMTT(20)
<1>8. Before(file', entries)
  <2> SUFFICES ASSUME NEW i \in 1..f + n, NEW j \in 1..Len(entries) PROVE file'[i].id < entries[j].id
    BY <1>2 DEF Before
  <2>1. CASE i \in 1..f
    BY <1>1, <1>2, <2>1 DEF InOrder, Before, f
  <2>2. CASE i - f \in 1..n /\ f + (i - f) = i
    <3>1. file'[i].id = buf[i - f].id /\ i - f \in 1..b
      BY <1>5, <2>2
    <3> QED
      BY <1>1, <3>1 DEF InOrder, Before, b
  <2> QED
    BY <1>6, <2>1, <2>2
<1>9. InOrder'
  <2>1. Ascending(<<>>) /\ Before(file', <<>>) /\ Before(<<>>, entries) /\ Before(<<>>, <<>>)
    BY <1>3 DEF Ascending, Before
  <2>2. Ascending(entries)
    BY <1>1 DEF InOrder
  <2>3. CASE entries' = entries
    BY <1>7, <1>8, <2>1, <2>2, <2>3, SMTT(20) DEF InOrder, Ascending, Before
  <2>4. CASE entries' = <<>>
    BY <1>7, <2>1, <2>4 DEF InOrder, Ascending, Before
  <2> QED
    BY <2>3, <2>4
<1> DEFINE written == {buf[i].id : i \in 1..k}
           unwritten == {buf[i].id : i \in k + 1..b}
<1>10. Whole(file') = Whole(file) \cup written
  <2>1. DOMAIN file' = 1..f + n /\ DOMAIN file = 1..f
    BY <1>1, <1>2 DEF Types, f
  <2>2. ASSUME NEW x \in Whole(file') PROVE x \in Whole(file) \cup written
    <3>1. PICK i \in 1..f + n : file'[i].whole /\ x = file'[i].id
      BY <2>1, <2>2 DEF Whole
    <3>2. CASE i \in 1..f
      BY <1>2, <2>1, <3>1, <3>2 DEF Whole
    <3>3. CASE i - f \in 1..n /\ f + (i - f) = i
      <4>1. x = buf[i - f].id /\ i - f <= k
        BY <1>5, <3>1, <3>3
      <4>2. i - f \in 1..k
        BY <1>2, <1>3, <3>3, <4>1
      <4> QED
        BY <4>1, <4>2
    <3> QED
      BY <1>6, <3>2, <3>3
  <2>3. ASSUME NEW x \in Whole(file) PROVE x \in Whole(file')
    <3>1. PICK i \in 1..f : file[i].whole /\ x = file[i].id
      BY <2>1, <2>3 DEF Whole
    <3>2. i \in 1..f + n
      BY <1>2, <1>3
    <3> QED
      BY <1>2, <2>1, <3>1, <3>2 DEF Whole
  <2>4. ASSUME NEW i \in 1..k PROVE buf[i].id \in Whole(file')
    <3>1. i \in 1..n /\ i <= k
      BY <1>3, <2>4 DEF n, Added, b
    <3>2. f + i \in 1..f + n
      BY <1>2, <1>3, <3>1
    <3> QED
      BY <1>5, <2>1, <3>1, <3>2 DEF Whole
  <2> QED
    BY <2>2, <2>3, <2>4
<1>11. Ids(buf) = written \cup unwritten
  <2>1. Ids(buf) = {buf[i].id : i \in 1..b}
    BY <1>1 DEF Types, Ids, b
  <2>2. \A i \in 1..b : i \in 1..k \/ i \in k + 1..b
    BY <1>3 DEF b
  <2>3. \A i \in 1..k : i \in 1..b
    BY <1>3 DEF b
  <2>4. \A i \in k + 1..b : i \in 1..b
    BY <1>3 DEF b
  <2> QED
    BY <2>1, <2>2, <2>3, <2>4
<1>12. ASSUME NEW x \in unwritten
       PROVE  x \in 1..count /\ x \notin Whole(file) /\ x \notin written /\ x \notin Ids(entries)
  <2>1. PICK i \in k + 1..b : x = buf[i].id
    BY <1>12
  <2>2. i \in 1..b
    BY <1>3, <2>1 DEF b
  <2>3. x \in 1..count
    BY <1>1, <2>1, <2>2, Numbers DEF b
  <2>4. \A j \in 1..f : file[j].id < x
    BY <1>1, <2>1, <2>2 DEF InOrder, Before, f, b
  <2>5. \A j \in 1..k : j \in 1..b /\ buf[j].id < x
    <3> SUFFICES ASSUME NEW j \in 1..k PROVE j \in 1..b /\ buf[j].id < x
      OBVIOUS
    <3>1. j \in 1..b /\ j < i
      BY <1>3 DEF b
    <3> QED
      BY <1>1, <2>1, <2>2, <3>1 DEF InOrder, Ascending, b
  <2>6. \A j \in 1..Len(entries) : x < entries[j].id
    BY <1>1, <2>1, <2>2 DEF InOrder, Before, b
  <2>7. x \notin Whole(file)
    BY <1>1, <2>3, <2>4 DEF Whole, Types, f
  <2>8. x \notin written
    BY <2>3, <2>5
  <2>9. x \notin Ids(entries)
    BY <1>1, <2>3, <2>6 DEF Ids, Types
  <2> QED
    BY <2>3, <2>7, <2>8, <2>9
<1>13. Unwritten(k) = unwritten
  BY <1>1, UnwrittenLines DEF b
<1>14. Ids(<<>>) = {}
  BY DEF Ids
<1>15. Ids(entries) \subseteq 1..count /\ \A x \in Ids(entries) : x \notin Whole(file) /\ x \notin written
  <2> SUFFICES ASSUME NEW j \in 1..Len(entries)
               PROVE  /\ entries[j].id \in 1..count
                      /\ entries[j].id \notin Whole(file) /\ entries[j].id \notin written
    BY <1>1 DEF Ids, Types
  <2>1. entries[j].id \in 1..count
    BY <1>1, Numbers
  <2>2. \A i \in 1..f : file[i].id < entries[j].id
    BY <1>1 DEF InOrder, Before, f
  <2>3. \A i \in 1..k : buf[i].id < entries[j].id
    <3>1. \A i \in 1..k : i \in 1..b
      BY <1>3 DEF b
    <3> QED
      BY <1>1, <3>1 DEF InOrder, Before, b
  <2>4. entries[j].id \notin Whole(file)
    BY <1>1, <2>1, <2>2, Numbers DEF Whole, f
  <2> QED
    BY <2>1, <2>3, <2>4
<1> HIDE DEF written, unwritten
<1>16. lost' = 1..count \ (Whole(file') \cup Ids(entries'))
  <2>1. lost = 1..count \ (Whole(file) \cup written \cup unwritten \cup Ids(entries))
    BY <1>1, <1>11 DEF Exact
  <2>2. CASE entries' = entries
    BY <1>10, <1>12, <1>13, <2>1, <2>2
  <2>3. CASE entries' = <<>>
    BY <1>10, <1>12, <1>13, <1>14, <1>15, <2>1, <2>3, SMTT(20)
  <2> QED
    BY <2>2, <2>3
<1>17. Exact'
  <2>1. Ids(buf') = {}
    BY <1>14
  <2> QED
    BY <1>16, <2>1 DEF Exact, Whole, Ids
<1> QED
  BY <1>4, <1>9, <1>17 DEF IInv

(* A name is sent: its number is above all others. *)
LEMMA SendInv ==
    ASSUME IInv, NEW h \in Handler, SaveDomain(h)
    PROVE  IInv'
<1>1. Types /\ InOrder /\ Exact
  BY DEF IInv
<1>2. PICK len \in Line : entries' = Append(entries, [id |-> count + 1, len |-> len])
  BY DEF SaveDomain
<1>3. count' = count + 1 /\ UNCHANGED <<buf, writing, file, lost>> /\ count \in Nat
  BY <1>1 DEF SaveDomain, Types
<1> DEFINE new == [id |-> count + 1, len |-> len]
           e == Len(entries)
<1>4. Entry \subseteq Entry' /\ FileLine \subseteq FileLine' /\ new \in Entry' /\ new.id = count + 1
  <2>1. 1..count \subseteq 1..count + 1 /\ count + 1 \in 1..count + 1
    BY <1>3
  <2> QED
    BY <1>3, <2>1 DEF Entry, FileLine
<1>5. entries \in Seq(Entry') /\ buf \in Seq(Entry') /\ file \in Seq(FileLine')
  BY <1>1, <1>4, SeqMonotonic DEF Types
<1> HIDE DEF new
<1>6. /\ entries' \in Seq(Entry') /\ Len(entries') = e + 1
      /\ \A i \in 1..e : entries'[i] = entries[i]
      /\ entries'[e + 1] = new
  <2>1. entries' = Append(entries, new)
    BY <1>2 DEF new
  <2> QED
    BY <1>4, <1>5, <2>1, AppendProperties
<1>7. Types'
  BY <1>3, <1>5, <1>6 DEF Types
<1>8. e \in Nat /\ DOMAIN entries = 1..e /\ DOMAIN entries' = 1..e + 1
  BY <1>1, <1>6, Numbers, LenProperties
<1> HIDE DEF e
<1>9. \A i \in 1..e + 1 : i \in 1..e \/ i = e + 1
  BY <1>8
<1>10. InOrder'
  <2>1. \A i \in 1..e : entries'[i].id = entries[i].id /\ entries'[i].id < count + 1
    BY <1>1, <1>3, <1>6, Numbers DEF e
  <2>2. entries'[e + 1].id = count + 1
    BY <1>4, <1>6
  <2>3. Ascending(entries')
    <3> SUFFICES ASSUME NEW i \in 1..e + 1, NEW j \in 1..e + 1, i < j PROVE entries'[i].id < entries'[j].id
      BY <1>6 DEF Ascending
    <3>1. i \in 1..e
      BY <1>8
    <3>2. CASE j \in 1..e
      BY <1>1, <2>1, <3>1, <3>2 DEF InOrder, Ascending, e
    <3>3. CASE j = e + 1
      BY <2>1, <2>2, <3>1, <3>3
    <3> QED
      BY <1>9, <3>2, <3>3
  <2>4. Before(file, entries')
    <3> SUFFICES ASSUME NEW i \in 1..Len(file), NEW j \in 1..e + 1 PROVE file[i].id < entries'[j].id
      BY <1>6 DEF Before
    <3>1. CASE j \in 1..e
      BY <1>1, <2>1, <3>1 DEF InOrder, Before, e
    <3>2. CASE j = e + 1
      BY <1>1, <1>3, <2>2, <3>2, Numbers, SMTT(20)
    <3> QED
      BY <1>9, <3>1, <3>2
  <2>5. Before(buf, entries')
    <3> SUFFICES ASSUME NEW i \in 1..Len(buf), NEW j \in 1..e + 1 PROVE buf[i].id < entries'[j].id
      BY <1>6 DEF Before
    <3>1. CASE j \in 1..e
      BY <1>1, <2>1, <3>1 DEF InOrder, Before, e
    <3>2. CASE j = e + 1
      BY <1>1, <1>3, <2>2, <3>2, Numbers
    <3> QED
      BY <1>9, <3>1, <3>2
  <2> QED
    BY <1>1, <1>3, <2>3, <2>4, <2>5 DEF InOrder, Ascending, Before
<1>11. Exact'
  <2>1. Ids(entries') = Ids(entries) \cup {count + 1}
    <3>1. Ids(entries') = {entries'[i].id : i \in 1..e + 1} /\ Ids(entries) = {entries[i].id : i \in 1..e}
      BY <1>8 DEF Ids
    <3>2. \A i \in 1..e : i \in 1..e + 1 /\ entries'[i].id = entries[i].id
      BY <1>6, <1>8
    <3>3. e + 1 \in 1..e + 1 /\ entries'[e + 1].id = count + 1
      BY <1>4, <1>6, <1>8
    <3> QED
      BY <1>9, <3>1, <3>2, <3>3
  <2>2. 1..count + 1 = 1..count \cup {count + 1} /\ count + 1 \notin 1..count
    BY <1>3
  <2>3. Whole(file') = Whole(file) /\ Ids(buf') = Ids(buf)
    BY <1>3
  <2>4. lost' = 1..count' \ (Whole(file) \cup Ids(buf) \cup Ids(entries'))
    BY <1>1, <1>3, <2>1, <2>2 DEF Exact
  <2> QED
    BY <2>3, <2>4, SMTT(20) DEF Exact, Whole, Ids
<1> QED
  BY <1>7, <1>10, <1>11 DEF IInv

(* The first entry moves from the channel to the buffer. *)
LEMMA ReceiveInv ==
    ASSUME IInv, Receive
    PROVE  IInv'
<1>1. Types /\ InOrder /\ Exact
  BY DEF IInv
<1>2. /\ entries # <<>> /\ entries' = Tail(entries) /\ buf' = Append(buf, Head(entries))
      /\ UNCHANGED <<file, count, lost>>
  BY DEF Receive
<1> DEFINE e == Len(entries)
           b == Len(buf)
<1>3. entries \in Seq(Entry) /\ buf \in Seq(Entry)
  BY <1>1 DEF Types
<1>4. /\ Head(entries) \in Entry /\ entries' \in Seq(Entry) /\ Len(entries') = e - 1
      /\ \A i \in 1..Len(entries') : entries'[i] = entries[i + 1]
  BY <1>2, <1>3, HeadTailProperties
<1>5. e \in Nat \ {0} /\ b \in Nat /\ Head(entries) = entries[1]
  BY <1>2, <1>3, EmptySeq, LenProperties
<1>6. /\ buf' \in Seq(Entry) /\ Len(buf') = b + 1
      /\ \A i \in 1..b : buf'[i] = buf[i]
      /\ buf'[b + 1] = entries[1]
  BY <1>2, <1>3, <1>4, <1>5, AppendProperties
<1>7. Types'
  <2>1. Entry' = Entry /\ FileLine' = FileLine
    BY <1>2 DEF Entry, FileLine
  <2> QED
    BY <1>1, <1>2, <1>4, <1>6, <2>1 DEF Types
<1>8. /\ DOMAIN entries = 1..e /\ DOMAIN entries' = 1..e - 1
      /\ DOMAIN buf = 1..b /\ DOMAIN buf' = 1..b + 1
  BY <1>3, <1>4, <1>6, LenProperties
<1> HIDE DEF e, b
<1>9. /\ \A i \in 1..b + 1 : i \in 1..b \/ i = b + 1
      /\ \A i \in 1..e - 1 : i + 1 \in 1..e /\ 1 < i + 1 /\ entries'[i] = entries[i + 1]
      /\ 1 \in 1..e
  BY <1>4, <1>5
<1>10. InOrder'
  <2>1. Ascending(buf')
    <3> SUFFICES ASSUME NEW i \in 1..b + 1, NEW j \in 1..b + 1, i < j PROVE buf'[i].id < buf'[j].id
      BY <1>6 DEF Ascending
    <3>1. i \in 1..b
      BY <1>5
    <3>2. CASE j \in 1..b
      BY <1>1, <1>6, <3>1, <3>2 DEF InOrder, Ascending, b
    <3>3. CASE j = b + 1
      BY <1>1, <1>6, <1>9, <3>1, <3>3, SMTT(20) DEF InOrder, Before, b, e
    <3> QED
      BY <1>9, <3>2, <3>3
  <2>2. Ascending(entries')
    <3> SUFFICES ASSUME NEW i \in 1..e - 1, NEW j \in 1..e - 1, i < j PROVE entries'[i].id < entries'[j].id
      BY <1>4 DEF Ascending, e
    <3>1. i + 1 < j + 1
      BY <1>5
    <3> QED
      BY <1>1, <1>9, <3>1, Zenon DEF InOrder, Ascending, e
  <2>3. Before(file, buf')
    <3> SUFFICES ASSUME NEW i \in 1..Len(file), NEW j \in 1..b + 1 PROVE file[i].id < buf'[j].id
      BY <1>6 DEF Before
    <3>1. CASE j \in 1..b
      BY <1>1, <1>6, <3>1 DEF InOrder, Before, b
    <3>2. CASE j = b + 1
      BY <1>1, <1>6, <1>9, <3>2 DEF InOrder, Before, e
    <3> QED
      BY <1>9, <3>1, <3>2
  <2>4. Before(file, entries')
    <3> SUFFICES ASSUME NEW i \in 1..Len(file), NEW j \in 1..e - 1 PROVE file[i].id < entries'[j].id
      BY <1>4 DEF Before, e
    <3> QED
      BY <1>1, <1>9 DEF InOrder, Before, e
  <2>5. Before(buf', entries')
    <3> SUFFICES ASSUME NEW i \in 1..b + 1, NEW j \in 1..e - 1 PROVE buf'[i].id < entries'[j].id
      BY <1>4, <1>6, Zenon DEF Before, e
    <3>1. CASE i \in 1..b
      BY <1>1, <1>6, <1>9, <3>1 DEF InOrder, Before, b, e
    <3>2. CASE i = b + 1
      BY <1>1, <1>6, <1>9, <3>2 DEF InOrder, Ascending, e
    <3> QED
      BY <1>9, <3>1, <3>2
  <2> QED
    BY <1>1, <1>2, <2>1, <2>2, <2>3, <2>4, <2>5, SMTT(20) DEF InOrder, Ascending, Before
<1>11. Ids(buf') \cup Ids(entries') = Ids(buf) \cup Ids(entries)
  <2>1. /\ Ids(buf') = {buf'[i].id : i \in 1..b + 1} /\ Ids(buf) = {buf[i].id : i \in 1..b}
        /\ Ids(entries') = {entries'[i].id : i \in 1..e - 1} /\ Ids(entries) = {entries[i].id : i \in 1..e}
    BY <1>8 DEF Ids
  <2>2. \A i \in 1..b : i \in 1..b + 1 /\ buf'[i].id = buf[i].id
    BY <1>5, <1>6
  <2>3. b + 1 \in 1..b + 1 /\ buf'[b + 1].id = entries[1].id
    BY <1>5, <1>6
  <2>4. \A i \in 1..e : i = 1 \/ (i - 1 \in 1..e - 1 /\ entries'[i - 1].id = entries[i].id)
    <3> SUFFICES ASSUME NEW i \in 1..e, i # 1 PROVE i - 1 \in 1..e - 1 /\ entries'[i - 1].id = entries[i].id
      OBVIOUS
    <3>1. i - 1 \in 1..e - 1 /\ (i - 1) + 1 = i
      BY <1>5
    <3> QED
      BY <1>9, <3>1
  <2>5. ASSUME NEW x \in Ids(buf') \cup Ids(entries') PROVE x \in Ids(buf) \cup Ids(entries)
    BY <1>9, <2>1, <2>2, <2>3, <2>5, SMTT(20)
  <2>6. ASSUME NEW x \in Ids(buf) \cup Ids(entries) PROVE x \in Ids(buf') \cup Ids(entries')
    <3>1. CASE x \in Ids(buf)
      BY <2>1, <2>2, <3>1
    <3>2. CASE x \in Ids(entries)
      <4>1. PICK i \in 1..e : x = entries[i].id
        BY <2>1, <3>2
      <4> QED
        BY <2>1, <2>3, <2>4, <4>1
    <3> QED
      BY <2>6, <3>1, <3>2
  <2> QED
    BY <2>5, <2>6
<1>12. Exact'
  <2>1. lost = 1..count \ (Whole(file) \cup (Ids(buf) \cup Ids(entries)))
    BY <1>1 DEF Exact
  <2>2. lost = 1..count \ (Whole(file) \cup Ids(buf') \cup Ids(entries'))
    BY <1>11, <2>1
  <2> QED
    BY <1>2, <2>2 DEF Exact, Whole, Ids
<1> QED
  BY <1>7, <1>10, <1>12 DEF IInv

(* Every step keeps the invariant. *)
LEMMA StepInv == ASSUME IInv, [Next]_vars PROVE IInv'
<1>1. Len(buf) \in Nat /\ Types
  BY Numbers DEF IInv
<1>2. CASE WriteTo
  <2>1. Unwritten(Len(buf)) = {}
    <3>1. Len(buf) \in 0..Len(buf) /\ Len(buf) + 1..Len(buf) = {}
      BY <1>1
    <3> QED
      BY <1>1, <3>1, UnwrittenLines
  <2>2. /\ Len(buf) \in 0..Len(buf) /\ file' = Appended(Len(buf), FALSE) /\ buf' = <<>>
        /\ entries' \in {entries, <<>>} /\ count' = count
        /\ lost' = lost \cup Unwritten(Len(buf)) \cup (Ids(entries) \ Ids(entries'))
    BY <1>1, <1>2, <2>1 DEF WriteTo
  <2> QED
    BY <2>2, WriteEnds, Zenon
<1>3. CASE WriteFails
  <2>1. PICK k \in 0..Len(buf) - 1, cut \in BOOLEAN :
           file' = Appended(k, cut) /\ lost' = lost \cup Unwritten(k)
    BY <1>3 DEF WriteFails
  <2>2. k \in 0..Len(buf) /\ k < Len(buf)
    BY <1>1, <2>1
  <2>3. /\ buf' = <<>> /\ entries' \in {entries, <<>>} /\ count' = count
        /\ lost' = lost \cup Unwritten(k) \cup (Ids(entries) \ Ids(entries'))
    BY <1>3, <2>1 DEF WriteFails
  <2> QED
    BY <2>1, <2>2, <2>3, WriteEnds
<1>4. CASE Restart
  <2>1. PICK k \in 0..(IF writing THEN Len(buf) ELSE 0), cut \in BOOLEAN :
           /\ cut => writing /\ k < Len(buf)
           /\ file' = Appended(k, cut)
           /\ lost' = lost \cup Unwritten(k) \cup Ids(entries)
    BY <1>4 DEF Restart
  <2>2. k \in 0..Len(buf)
    BY <1>1, <2>1
  <2>3. Ids(<<>>) = {}
    BY DEF Ids
  <2>4. /\ buf' = <<>> /\ entries' \in {entries, <<>>} /\ count' = count
        /\ lost' = lost \cup Unwritten(k) \cup (Ids(entries) \ Ids(entries'))
    BY <1>4, <2>1, <2>3, SMTT(20) DEF Restart
  <2> QED
    BY <2>1, <2>2, <2>4, WriteEnds
<1>5. CASE UNCHANGED <<entries, buf, file, count, lost>>
  BY <1>5, Zenon DEF IInv, Types, Entry, FileLine, InOrder, Ascending, Before, Exact, Whole, Ids
<1>6. CASE \E h \in Handler : SaveDomain(h)
  BY <1>6, SendInv
<1>7. CASE Receive
  BY <1>7, ReceiveInv
<1> QED
  BY <1>2, <1>3, <1>4, <1>5, <1>6, <1>7, SMTT(20) DEF Next, vars, Track, Finish, Tick

(* Initially nothing has been sent. *)
LEMMA InitInv == ASSUME Init PROVE IInv
<1>1. Types
  BY EmptySeq DEF Init, Types
<1>2. InOrder
  BY DEF Init, InOrder, Ascending, Before
<1>3. Exact
  BY DEF Init, Exact, Whole, Ids
<1> QED
  BY <1>1, <1>2, <1>3 DEF IInv

(***************************************************************************)
(* Through write errors and restarts, entries reach the log in the order   *)
(* SaveDomain sent them, none twice, and exactly those that a failure      *)
(* dropped are missing.                                                    *)
(***************************************************************************)
THEOREM TheLogIsExact == Spec => []LogIsExact
<1>1. ASSUME IInv PROVE LogIsExact
  BY <1>1, OrderOfPieces DEF IInv, Exact, LogIsExact
<1> QED
  BY <1>1, InitInv, StepInv, PTL DEF Spec
-------------------------------------------------------------------------------
(* A set of numbers has a least element: induction, by the least counterexample. *)
LEMMA Least ==
    ASSUME NEW S \in SUBSET Nat, S # {}
    PROVE  \E m \in S : \A n \in S : m <= n
<1>1. PICK m \in S : \A n \in S : <<n, m>> \notin OpToRel(<, Nat)
  BY NatLessThanWellFounded, WFMin
<1>2. \A n \in S : ~(n < m)
  BY <1>1 DEF OpToRel
<1> QED
  BY <1>2

(* f gives the lengths of the first lines together, up to the n-th. *)
Adds(f, lines, n) ==
    /\ f = [i \in 0..n |-> f[i]]
    /\ f[0] = 0
    /\ \A i \in 1..n : f[i] = f[i - 1] + lines[i].len

(* There is such a function, and its values are numbers. *)
LEMMA LengthsExist ==
    ASSUME NEW lines, NEW n \in Nat, \A i \in 1..n : lines[i].len \in Nat
    PROVE  \E f \in [0..n -> Nat] : Adds(f, lines, n)
<1> DEFINE Found(m) == \E f \in [0..m -> Nat] : Adds(f, lines, m)
           Bad == {m \in 0..n : ~Found(m)}
<1> SUFFICES ASSUME Bad # {} PROVE FALSE
  BY DEF Bad
<1> HIDE DEF Found
<1>1. PICK m \in Bad : \A k \in Bad : m <= k
  <2>1. Bad \in SUBSET Nat
    OBVIOUS
  <2> HIDE DEF Bad
  <2> QED
    BY <2>1, Least
<1>2. m \in 0..n /\ m \in Nat /\ ~Found(m)
  BY <1>1
<1>3. CASE m = 0
  <2> DEFINE f == [i \in 0..0 |-> 0]
  <2>1. Adds(f, lines, 0) /\ f \in [0..0 -> Nat]
    BY DEF Adds
  <2> QED
    BY <1>2, <1>3, <2>1 DEF Found
<1>4. CASE m # 0
  <2>1. m - 1 \in 0..n /\ ~(m <= m - 1) /\ m \in 1..n
    BY <1>2, <1>4
  <2>2. m - 1 \notin Bad
    BY <1>1, <2>1
  <2>3. PICK f \in [0..m - 1 -> Nat] : Adds(f, lines, m - 1)
    BY <2>1, <2>2 DEF Found
  <2> DEFINE g == [i \in 0..m |-> IF i < m THEN f[i] ELSE f[m - 1] + lines[m].len]
  <2>4. f \in [0..m - 1 -> Nat] /\ f[0] = 0 /\ \A i \in 1..m - 1 : f[i] = f[i - 1] + lines[i].len
    BY <2>3 DEF Adds
  <2>5. lines[m].len \in Nat
    BY <2>1
  <2>6. g \in [0..m -> Nat]
    BY <1>2, <1>4, <2>4, <2>5
  <2>7. g[0] = 0 /\ \A i \in 1..m : g[i] = g[i - 1] + lines[i].len
    <3>1. g[0] = 0 /\ \A i \in 0..m - 1 : g[i] = f[i]
      BY <1>2, <1>4, <2>4
    <3>2. g[m] = f[m - 1] + lines[m].len
      BY <1>2
    <3> HIDE DEF g
    <3>3. ASSUME NEW i \in 1..m PROVE g[i] = g[i - 1] + lines[i].len
      <4>1. CASE i = m
        BY <1>2, <2>1, <3>1, <3>2, <4>1
      <4>2. CASE i # m
        <5>1. i \in 1..m - 1 /\ i \in 0..m - 1 /\ i - 1 \in 0..m - 1
          BY <1>2, <4>2
        <5> QED
          BY <2>4, <3>1, <5>1
      <4> QED
        BY <4>1, <4>2
    <3> QED
      BY <3>1, <3>3
  <2>8. Adds(g, lines, m)
    BY <2>6, <2>7 DEF Adds
  <2> QED
    BY <1>2, <2>6, <2>8 DEF Found
<1> QED
  BY <1>3, <1>4

(* There is only one. *)
LEMMA LengthsUnique ==
    ASSUME NEW lines, NEW more, NEW f, NEW g, NEW n \in Nat, NEW k \in Nat, n <= k,
           Adds(f, lines, n), Adds(g, more, k), \A i \in 1..n : lines[i] = more[i]
    PROVE  \A i \in 0..n : g[i] = f[i]
<1> DEFINE Bad == {m \in 0..n : g[m] # f[m]}
<1> SUFFICES ASSUME Bad # {} PROVE FALSE
  BY DEF Bad
<1>1. PICK m \in Bad : \A j \in Bad : m <= j
  <2>1. Bad \in SUBSET Nat
    OBVIOUS
  <2> HIDE DEF Bad
  <2> QED
    BY <2>1, Least
<1>2. m \in 0..n /\ m \in Nat /\ g[m] # f[m]
  BY <1>1
<1>3. m # 0
  BY <1>2 DEF Adds
<1>4. m \in 1..n /\ m \in 1..k /\ m - 1 \in 0..n /\ ~(m <= m - 1)
  BY <1>2, <1>3
<1>5. g[m - 1] = f[m - 1]
  BY <1>1, <1>4
<1>6. f[m] = f[m - 1] + lines[m].len /\ g[m] = g[m - 1] + more[m].len /\ lines[m] = more[m]
  BY <1>4 DEF Adds
<1> QED
  BY <1>2, <1>5, <1>6

(* Lengths is that function. *)
LEMMA LengthsAdd ==
    ASSUME NEW S, NEW lines \in Seq(S), \A i \in 1..Len(lines) : lines[i].len \in Nat
    PROVE  Adds(Lengths(lines), lines, Len(lines)) /\ Lengths(lines) \in [0..Len(lines) -> Nat]
<1> DEFINE n == Len(lines)
           Is(f) == f = [i \in 0..n |-> IF i = 0 THEN 0 ELSE f[i - 1] + lines[i].len]
<1>1. n \in Nat
  OBVIOUS
<1>2. PICK f \in [0..n -> Nat] : Adds(f, lines, n)
  BY <1>1, LengthsExist
<1>3. Is(f)
  <2>1. \A i \in 0..n : f[i] = IF i = 0 THEN 0 ELSE f[i - 1] + lines[i].len
    <3>1. f[0] = 0 /\ \A i \in 1..n : f[i] = f[i - 1] + lines[i].len
      BY <1>2 DEF Adds
    <3>2. \A i \in 0..n : i = 0 \/ (i # 0 /\ i \in 1..n)
      BY <1>1
    <3> HIDE DEF n
    <3> QED
      BY <3>1, <3>2
  <2>2. f = [i \in 0..n |-> f[i]]
    BY <1>2 DEF Adds
  <2> HIDE DEF n
  <2> QED
    BY <2>1, <2>2
<1>4. Lengths(lines) = CHOOSE g : Is(g)
  BY DEF Lengths
<1>5. Is(Lengths(lines))
  BY <1>3, <1>4, Zenon
<1> DEFINE g == Lengths(lines)
<1> HIDE DEF g
<1>6. Is(g)
  BY <1>5 DEF g
<1>7. Adds(g, lines, n)
  BY <1>1, <1>6 DEF Adds
<1> HIDE DEF Is, n
<1>8. \A i \in 0..n : g[i] = f[i]
  BY <1>1, <1>2, <1>7, LengthsUnique
<1>9. g = [i \in 0..n |-> g[i]]
  BY <1>7 DEF Adds
<1>10. g \in [0..n -> Nat]
  BY <1>2, <1>8, <1>9
<1> QED
  BY <1>7, <1>10 DEF g, n

(* The lengths of a buffer: none of an empty one, and one more line leaves the others alone. *)
LEMMA BufferLengths ==
    ASSUME Types
    PROVE  Adds(Lengths(buf), buf, Len(buf)) /\ Lengths(buf) \in [0..Len(buf) -> Nat]
<1>1. buf \in Seq(Entry)
  BY DEF Types
<1>2. ASSUME NEW i \in 1..Len(buf) PROVE buf[i].len \in Nat
  <2>1. buf[i] \in Entry
    BY <1>1, ElementOfSeq
  <2>2. Line \subseteq Nat
    BY TrackerAssumption
  <2> QED
    BY <2>1, <2>2 DEF Entry
<1> QED
  BY <1>1, <1>2, LengthsAdd

(* No lines, no length. *)
LEMMA NoLength == Length(<<>>) = 0
<1> DEFINE e == <<>>
<1>1. e \in Seq({}) /\ Len(e) = 0
  OBVIOUS
<1> HIDE DEF e
<1>2. \A i \in 1..Len(e) : e[i].len \in Nat
  BY <1>1
<1>3. Adds(Lengths(e), e, Len(e))
  BY <1>1, <1>2, LengthsAdd
<1> QED
  BY <1>1, <1>3 DEF Adds, Length, e

(* The buffer is emptied. *)
LEMMA EmptyIsBounded == ASSUME buf' = <<>> PROVE BufferIsBounded'
<1>1. Length(buf') = 0 /\ 0 < FlushLen
  BY NoLength, TrackerAssumption
<1> QED
  BY <1>1 DEF BufferIsBounded

(* A line is received: what was there was below FlushLen. *)
LEMMA ReceiveIsBounded ==
    ASSUME Types, Types', BufferIsBounded, Receive
    PROVE  BufferIsBounded'
<1> DEFINE b == Len(buf)
           L == Lengths(buf)
           M == Lengths(buf')
<1>1. buf \in Seq(Entry) /\ Head(entries) \in Entry
  <2>1. entries \in Seq(Entry) /\ entries # <<>> /\ buf \in Seq(Entry)
    BY DEF Types, Receive
  <2> QED
    BY <2>1, HeadTailProperties
<1>2. b \in Nat /\ Len(buf') = b + 1 /\ \A i \in 1..b : buf[i] = buf'[i]
  <2>1. buf' = Append(buf, Head(entries))
    BY DEF Receive
  <2> QED
    BY <1>1, <2>1, AppendProperties, LenProperties
<1>3. Adds(L, buf, b)
  BY BufferLengths
<1>4. Adds(M, buf', b + 1) /\ M \in [0..b + 1 -> Nat]
  <2>1. (Adds(Lengths(buf), buf, Len(buf)) /\ Lengths(buf) \in [0..Len(buf) -> Nat])'
    BY BufferLengths, PTL
  <2> QED
    BY <1>2, <2>1
<1>5. ~writing /\ L[b] < FlushLen
  BY DEF Receive, BufferIsBounded, Length
<1>6. ~writing' => ~(M[b + 1] >= FlushLen)
  <2>1. writing' = (M[Len(buf')] >= FlushLen)
    BY DEF Receive, Length
  <2> QED
    BY <1>2, <2>1, Zenon
<1> HIDE DEF b, L, M
<1>7. M[b] = L[b]
  <2>1. b + 1 \in Nat /\ b <= b + 1 /\ b \in 0..b
    BY <1>2
  <2> QED
    BY <1>2, <1>3, <1>4, <2>1, LengthsUnique
<1>8. M[b + 1] \in Nat /\ FlushLen \in Nat
  BY <1>2, <1>4, TrackerAssumption
<1>9. ~writing' => M[b + 1] < FlushLen
  BY <1>6, <1>8
<1>10. (b + 1) - 1 = b
  BY <1>2
<1> QED
  BY <1>2, <1>5, <1>7, <1>9, <1>10 DEF BufferIsBounded, Length, M

(***************************************************************************)
(* The goroutine never holds more than FlushLen and one line in memory,    *)
(* and less than FlushLen whenever it waits in select.                     *)
(***************************************************************************)
THEOREM TheBufferIsBounded == Spec => []BufferIsBounded
<1>1. ASSUME Init PROVE BufferIsBounded
  BY <1>1, NoLength, TrackerAssumption DEF Init, BufferIsBounded
<1>2. ASSUME IInv, IInv', BufferIsBounded, [Next]_vars PROVE BufferIsBounded'
  <2>1. CASE WriteTo \/ WriteFails \/ Restart
    BY <2>1, EmptyIsBounded DEF WriteTo, WriteFails, Restart
  <2>2. CASE Receive
    BY <1>2, <2>2, ReceiveIsBounded DEF IInv
  <2>3. CASE Tick
    BY <1>2, <2>3 DEF Tick, BufferIsBounded, Length
  <2>4. CASE UNCHANGED <<buf, writing>>
    BY <1>2, <2>4 DEF BufferIsBounded, Length
  <2> QED
    BY <1>2, <2>1, <2>2, <2>3, <2>4 DEF Next, vars, Track, SaveDomain, Finish
<1> QED
  BY <1>1, <1>2, InitInv, StepInv, PTL DEF Spec

(* The handlers that wait in SaveDomain. *)
Senders == {h \in Handler : pc[h] = "send"}

(* The channel is within its capacity, and every handler in SaveDomain has room for its entry *)
(* under the bound.                                                                           *)
Bounded ==
    /\ pc \in [Handler -> {"idle", "send", "query"}]
    /\ Len(entries) <= Capacity
    /\ writing \in BOOLEAN
    /\ count + Cardinality(Senders) <= MaxEntries

(* Some of the handlers are finitely many. *)
LEMMA SendersFinite ==
    ASSUME IsFiniteSet(Handler)
    PROVE  /\ IsFiniteSet(Senders) /\ Cardinality(Senders) \in Nat
           /\ \A h \in Handler :
                  /\ Cardinality(Senders \cup {h}) \in Nat
                  /\ Cardinality(Senders \cup {h}) <= Cardinality(Senders) + 1
                  /\ h \in Senders => Cardinality(Senders \ {h}) = Cardinality(Senders) - 1
<1> DEFINE S == Senders
<1>1. IsFiniteSet(S)
  BY FS_Subset DEF Senders
<1> HIDE DEF S
<1>2. Cardinality(S) \in Nat
  BY <1>1, FS_CardinalityType
<1> SUFFICES ASSUME NEW h \in Handler
             PROVE  /\ Cardinality(S \cup {h}) \in Nat
                    /\ Cardinality(S \cup {h}) <= Cardinality(S) + 1
                    /\ h \in S => Cardinality(S \ {h}) = Cardinality(S) - 1
  BY <1>1, <1>2 DEF S
<1>3. /\ IsFiniteSet(S \cup {h})
      /\ Cardinality(S \cup {h}) = IF h \in S THEN Cardinality(S) ELSE Cardinality(S) + 1
  BY <1>1, FS_AddElement, Zenon
<1>4. /\ IsFiniteSet(S \ {h})
      /\ Cardinality(S \ {h}) = IF h \in S THEN Cardinality(S) - 1 ELSE Cardinality(S)
  BY <1>1, FS_RemoveElement, Zenon
<1> QED
  BY <1>2, <1>3, <1>4

(* handlerFunc reaches the log. *)
LEMMA TrackBounded ==
    ASSUME IsFiniteSet(Handler), IInv, Bounded, NEW h \in Handler, MayTrack, Track(h)
    PROVE  Bounded'
<1>1. count \in Nat /\ MaxEntries \in Nat
  BY TrackerAssumption DEF IInv, Types
<1>2. PICK dnt \in BOOLEAN : pc' = [pc EXCEPT ![h] = IF dnt THEN "query" ELSE "send"]
  BY DEF Track
<1>3. UNCHANGED <<entries, writing, count>> /\ pc[h] = "idle"
  BY DEF Track
<1>4. Senders' = Senders \/ Senders' = Senders \cup {h}
  <2>1. CASE dnt
    BY <1>2, <1>3, <2>1 DEF Senders, Bounded
  <2>2. CASE ~dnt
    BY <1>2, <1>3, <2>2 DEF Senders, Bounded
  <2> QED
    BY <2>1, <2>2
<1>5. Cardinality(Senders') <= Cardinality(Senders) + 1 /\ Cardinality(Senders') \in Nat
  <2>1. /\ Cardinality(Senders) \in Nat /\ Cardinality(Senders \cup {h}) \in Nat
        /\ Cardinality(Senders \cup {h}) <= Cardinality(Senders) + 1
    BY SendersFinite
  <2>2. \/ Cardinality(Senders') = Cardinality(Senders)
        \/ Cardinality(Senders') = Cardinality(Senders \cup {h})
    BY <1>4
  <2> QED
    BY <2>1, <2>2
<1>6. count + Cardinality(Senders) < MaxEntries
  BY DEF MayTrack, Senders
<1>7. count' + Cardinality(Senders') <= MaxEntries
  BY <1>1, <1>3, <1>5, <1>6, SendersFinite
<1>8. pc' \in [Handler -> {"idle", "send", "query"}]
  BY <1>2 DEF Bounded
<1> QED
  BY <1>3, <1>7, <1>8 DEF Bounded

(* The send in SaveDomain. *)
LEMMA SendBounded ==
    ASSUME IsFiniteSet(Handler), IInv, Bounded, NEW h \in Handler, SaveDomain(h)
    PROVE  Bounded'
<1>1. count \in Nat /\ MaxEntries \in Nat /\ Capacity \in Nat /\ Len(entries) \in Nat
  BY TrackerAssumption, LenProperties DEF IInv, Types
<1>2. pc' = [pc EXCEPT ![h] = "query"] /\ count' = count + 1 /\ writing' = writing /\ h \in Senders
  BY DEF SaveDomain, Senders
<1>3. Senders' = Senders \ {h}
  BY <1>2 DEF Senders, Bounded
<1>4. Cardinality(Senders') = Cardinality(Senders) - 1
  BY <1>2, <1>3, SendersFinite
<1>5. count' + Cardinality(Senders') <= MaxEntries
  BY <1>1, <1>2, <1>4, SendersFinite DEF Bounded
<1>6. Len(entries') <= Capacity
  <2>1. PICK x : entries' = Append(entries, x)
    BY DEF SaveDomain
  <2>2. Len(entries') = Len(entries) + 1
    BY <2>1
  <2>3. Len(entries) < Capacity
    BY DEF SaveDomain
  <2> QED
    BY <1>1, <2>2, <2>3
<1>7. pc' \in [Handler -> {"idle", "send", "query"}]
  BY <1>2 DEF Bounded
<1> QED
  BY <1>2, <1>5, <1>6, <1>7 DEF Bounded

(* The handler returns. *)
LEMMA FinishBounded ==
    ASSUME Bounded, NEW h \in Handler, Finish(h)
    PROVE  Bounded'
<1>1. pc' = [pc EXCEPT ![h] = "idle"] /\ pc[h] = "query" /\ UNCHANGED <<entries, writing, count>>
  BY DEF Finish
<1>2. Senders' = Senders
  BY <1>1 DEF Senders, Bounded
<1>3. pc' \in [Handler -> {"idle", "send", "query"}]
  BY <1>1 DEF Bounded
<1> QED
  BY <1>1, <1>2, <1>3 DEF Bounded

(* The goroutine, and a restart. *)
LEMMA GoroutineBounded ==
    ASSUME IsFiniteSet(Handler), IInv, IInv', Bounded,
           Tick \/ Receive \/ WriteTo \/ WriteFails \/ Restart
    PROVE  Bounded'
<1>1. count \in Nat /\ MaxEntries \in Nat /\ Capacity \in Nat /\ Len(entries) \in Nat
  BY TrackerAssumption, LenProperties DEF IInv, Types
<1>2. count' = count /\ writing' \in BOOLEAN
  <2>1. CASE Receive
    <3>1. (Adds(Lengths(buf), buf, Len(buf)) /\ Lengths(buf) \in [0..Len(buf) -> Nat] /\ Len(buf) \in Nat)'
      BY BufferLengths, Numbers, PTL DEF IInv
    <3>2. Length(buf') \in Nat /\ FlushLen \in Nat
      BY <3>1, TrackerAssumption DEF Length
    <3>3. (Length(buf') >= FlushLen) \in BOOLEAN
      BY <3>2
    <3> QED
      BY <2>1, <3>3, Zenon DEF Receive
  <2>2. CASE Tick \/ WriteTo \/ WriteFails \/ Restart
    BY <2>2 DEF Tick, WriteTo, WriteFails, Restart
  <2> QED
    BY <2>1, <2>2
<1>3. Len(entries') <= Capacity
  <2>1. CASE entries' = entries
    BY <2>1 DEF Bounded
  <2>2. CASE entries' = <<>>
    BY <1>1, <2>2
  <2>3. CASE Receive
    <3>1. entries # <<>> /\ entries' = Tail(entries) /\ entries \in Seq(Entry)
      BY <2>3 DEF Receive, IInv, Types
    <3>2. Len(entries') = Len(entries) - 1
      BY <3>1, HeadTailProperties
    <3> QED
      BY <1>1, <3>2 DEF Bounded
  <2> QED
    BY <2>1, <2>2, <2>3 DEF Tick, WriteTo, WriteFails, Restart
<1>4. pc' \in [Handler -> {"idle", "send", "query"}] /\ (Senders' = Senders \/ Senders' = {})
  <2>1. CASE pc' = pc
    BY <2>1 DEF Bounded, Senders
  <2>2. CASE pc' = [h \in Handler |-> "idle"]
    BY <2>2 DEF Senders
  <2> QED
    BY <2>1, <2>2 DEF Tick, Receive, WriteTo, WriteFails, Restart
<1>5. Cardinality(Senders') <= Cardinality(Senders) /\ Cardinality(Senders') \in Nat
  <2>1. Cardinality({}) = 0
    BY FS_EmptySet
  <2> QED
    BY <1>4, <2>1, SendersFinite
<1>6. count' + Cardinality(Senders') <= MaxEntries
  BY <1>1, <1>2, <1>5, SendersFinite DEF Bounded
<1> QED
  BY <1>2, <1>3, <1>4, <1>6 DEF Bounded

(* Type correctness, with the channel's capacity and the bound on entries, for any finite *)
(* number of handlers of Tracker.                                                         *)
THEOREM TypeCorrect ==
    ASSUME IsFiniteSet(Handler)
    PROVE  Spec => []TypeOK
<1>1. ASSUME Init PROVE Bounded
  <2>1. Senders = {}
    BY <1>1 DEF Init, Senders
  <2>2. Cardinality({}) = 0
    BY FS_EmptySet
  <2> QED
    <3>1. count + Cardinality(Senders) <= MaxEntries
      BY <1>1, <2>1, <2>2, TrackerAssumption DEF Init
    <3>2. Len(entries) <= Capacity
      BY <1>1, TrackerAssumption DEF Init
    <3> QED
      BY <1>1, <3>1, <3>2 DEF Init, Bounded
<1>2. ASSUME IInv, IInv', Bounded, [Next]_vars PROVE Bounded'
  <2>1. CASE UNCHANGED vars
    BY <1>2, <2>1 DEF vars, Bounded, Senders
  <2>2. CASE Next
    BY <1>2, <2>2, TrackBounded, SendBounded, FinishBounded, GoroutineBounded DEF Next
  <2> QED
    BY <1>2, <2>1, <2>2
<1>3. ASSUME IInv, Bounded PROVE TypeOK
  <2>1. count \in Nat /\ MaxEntries \in Nat
    BY <1>3, TrackerAssumption DEF IInv, Types
  <2>2. count \in 0..MaxEntries
    BY <1>3, <2>1, SendersFinite DEF Bounded
  <2>3. lost \subseteq 1..count
    BY <1>3 DEF IInv, Exact
  <2> QED
    BY <1>3, <2>2, <2>3 DEF TypeOK, Bounded, IInv, Types, Entry, FileLine
<1> QED
  BY <1>1, <1>2, <1>3, InitInv, StepInv, PTL DEF Spec
===============================================================================
