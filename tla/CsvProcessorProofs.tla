-------------------------- MODULE CsvProcessorProofs --------------------------
(***************************************************************************)
(* Proofs about CsvProcessor, for files of any length, any header, rules and *)
(* sampling limit, and both duplicate detectors.                           *)
(***************************************************************************)
EXTENDS CsvProcessor, FiniteSetTheorems, SequenceTheorems, WellFoundedInduction, TLAPS

(* What one more row does to the set of valid rows and to their digests.    *)
LEMMA NextRow ==
  ASSUME TypeOK, position < Len(file), position' = position + 1, file' = file
  PROVE  LET line == file[position + 1] IN
         /\ Rejected(line) => ValidSoFar' = ValidSoFar
         /\ ~Rejected(line) => ValidSoFar' = ValidSoFar \cup {position + 1}
<1>. DEFINE line == file[position + 1]
            next == position + 1
<1>1. position \in Nat
  BY DEF TypeOK
<1>2. 1 .. next = (1 .. position) \cup {next}
  BY <1>1
<1>3. ValidSoFar' = {i \in 1 .. next : ~Rejected(file[i])}
  BY DEF ValidSoFar, Rejected, Row, Filled, KeyAt
<1>4. line = file[next]
  OBVIOUS
<1>. HIDE DEF next, line
<1>5. ValidSoFar' = ValidSoFar \cup {i \in {next} : ~Rejected(file[i])}
  BY <1>2, <1>3 DEF ValidSoFar
<1>. QED  BY <1>4, <1>5 DEF next, line

LEMMA DigestsFinite ==
  ASSUME TypeOK
  PROVE  /\ IsFiniteSet(DigestsSoFar)
         /\ Cardinality(DigestsSoFar) \in Nat
         /\ DigestsSoFar \subseteq Digests
<1>1. position \in Nat /\ Len(file) \in Nat /\ DOMAIN file = 1 .. Len(file)
  BY CsvAssumption DEF TypeOK, CsvAssumption
<1>2. IsFiniteSet(1 .. position)
  BY <1>1, FS_Interval
<1>3. IsFiniteSet(ValidSoFar)
  BY <1>2, FS_Subset DEF ValidSoFar
<1>4. IsFiniteSet(DigestsSoFar)
  <2>. DEFINE S == ValidSoFar
              T == DigestsSoFar
              f == [i \in S |-> hashRow(file[i])]
  <2>1. /\ \A i \in S : f[i] \in T
        /\ \A d \in T : \E i \in S : f[i] = d
    BY DEF DigestsSoFar
  <2>2. f \in [S -> T]
    BY <2>1
  <2>. HIDE DEF S, T, f
  <2>3. f \in Surjection(S, T)
    BY <2>1, <2>2 DEF Surjection
  <2>. QED  BY <1>3, <2>3, FS_Surjection DEF S, T
<1>5. DigestsSoFar \subseteq Digests
  BY <1>1 DEF DigestsSoFar, Digests, ValidSoFar, TypeOK
<1>. QED  BY <1>4, <1>5, FS_CardinalityType

LEMMA InitCsv == Init => CsvInv
<1>. SUFFICES ASSUME Init PROVE CsvInv
  OBVIOUS
<1>1. Len(file) \in Nat
  BY CsvAssumption DEF Init, CsvAssumption
<1>2. TypeOK
  <2>1. /\ position = 0 /\ 0 <= Len(file)
        /\ errorDetails = <<>> /\ <<>> \in Seq(Nat)
    BY <1>1 DEF Init
  <2>2. totalRows = 0 /\ validRows = 0 /\ invalidRows = 0 /\ duplicateRows = 0
    BY DEF Init
  <2>3. present \subseteq Digests
    BY DEF Init
  <2>4. position \in Nat /\ position <= Len(file) /\ errorDetails \in Seq(Nat)
    BY <2>1
  <2>5. totalRows \in Nat /\ validRows \in Nat /\ invalidRows \in Nat /\ duplicateRows \in Nat
    BY <2>2
  <2>6. /\ source \in {"open", "ended", "failed"} /\ parser \in {"open", "ended", "failed"}
        /\ headersInitialized \in BOOLEAN /\ promise \in {"pending", "resolved", "rejected"}
        /\ file \in Files /\ fileSize \in FileSizes
    BY DEF Init
  <2>. QED  BY <2>3, <2>4, <2>5, <2>6 DEF TypeOK
<1>3. RowsInv
  BY DEF Init, RowsInv
<1>4. ValidSoFar = {} /\ DigestsSoFar = {}
  BY DEF Init, ValidSoFar, DigestsSoFar
<1>5. DetectorInv
  BY <1>4, FS_EmptySet DEF DetectorInv, Init
<1>. QED  BY <1>2, <1>3, <1>5 DEF CsvInv

(* A step that emits no row leaves the detector's part alone.              *)
LEMMA DetectorKept ==
  ASSUME DetectorInv, UNCHANGED <<file, fileSize, position, validRows, present>>
  PROVE  DetectorInv'
<1>1. ValidSoFar' = ValidSoFar
  BY DEF ValidSoFar, Rejected, Row, Filled, KeyAt
<1>2. DigestsSoFar' = DigestsSoFar
  <2>1. \A i : hashRow(file[i])' = hashRow(file[i])
    OBVIOUS
  <2>. QED  BY <1>1, <2>1 DEF DigestsSoFar
<1>3. strategy' = strategy
  BY DEF strategy
<1>. QED  BY <1>1, <1>2, <1>3 DEF DetectorInv


(* A new digest is one more valid row; a known one is not counted.          *)
LEMMA AddStep ==
  ASSUME TypeOK, DetectorInv, OnData, ~Rejected(file[position + 1]),
         hashRow(file[position + 1]) \notin present
  PROVE  DetectorInv' /\ present' \subseteq Digests
<1>. DEFINE digest == hashRow(file[position + 1])
<1>1. /\ position < Len(file) /\ position' = position + 1 /\ file' = file
      /\ validRows' = validRows + 1 /\ fileSize' = fileSize
      /\ Add(digest)
  BY DEF OnData
<1>2. ValidSoFar' = ValidSoFar \cup {position + 1}
  BY <1>1, NextRow
<1>3. DigestsSoFar' = DigestsSoFar \cup {digest}
  <2>1. \A i : hashRow(file[i])' = hashRow(file[i])
    BY <1>1
  <2>. QED  BY <1>2, <2>1 DEF DigestsSoFar
<1>4. digest \in Digests
  <2>1. position \in Nat /\ Len(file) \in Nat /\ DOMAIN file = 1 .. Len(file)
    BY CsvAssumption DEF TypeOK, CsvAssumption
  <2>2. position + 1 \in DOMAIN file
    BY <1>1, <2>1
  <2>. QED  BY <2>2 DEF Digests
<1>. HIDE DEF digest
<1>5. strategy' = strategy
  BY <1>1 DEF strategy
<1>6. /\ present \cup {digest} \subseteq present' /\ present' \subseteq Digests
      /\ strategy = "hash" => present' = present \cup {digest}
  BY <1>1, <1>4 DEF Add, TypeOK
<1>7. digest \notin DigestsSoFar
  BY DEF DetectorInv, digest
<1>8. /\ Cardinality(DigestsSoFar') = Cardinality(DigestsSoFar) + 1
      /\ Cardinality(DigestsSoFar) \in Nat
  BY <1>3, <1>7, DigestsFinite, FS_AddElement
<1>9. validRows \in Nat
  BY DEF TypeOK
<1>10. DigestsSoFar' \subseteq present'
  BY <1>3, <1>6 DEF DetectorInv
<1>11. validRows' <= Cardinality(DigestsSoFar')
  BY <1>1, <1>8, <1>9 DEF DetectorInv
<1>12. strategy = "hash" => present' = DigestsSoFar' /\ validRows' = Cardinality(present')
  BY <1>1, <1>3, <1>6, <1>8 DEF DetectorInv
<1>13. validRows' >= 1
  BY <1>1, <1>9
<1>. QED  BY <1>5, <1>6, <1>10, <1>11, <1>12, <1>13 DEF DetectorInv

LEMMA DuplicateStep ==
  ASSUME TypeOK, DetectorInv, OnData, ~Rejected(file[position + 1]),
         hashRow(file[position + 1]) \in present, validRows' = validRows, present' = present
  PROVE  DetectorInv'
<1>. DEFINE digest == hashRow(file[position + 1])
<1>1. /\ position < Len(file) /\ position' = position + 1 /\ file' = file
      /\ fileSize' = fileSize
  BY DEF OnData
<1>2. ValidSoFar' = ValidSoFar \cup {position + 1}
  BY <1>1, NextRow
<1>3. DigestsSoFar' = DigestsSoFar \cup {digest}
  <2>1. \A i : hashRow(file[i])' = hashRow(file[i])
    BY <1>1
  <2>. QED  BY <1>2, <2>1 DEF DigestsSoFar
<1>. HIDE DEF digest
<1>4. strategy' = strategy
  BY <1>1 DEF strategy
<1>5. digest \in present /\ validRows' = validRows /\ present' = present
  BY DEF digest
<1>6. DigestsSoFar \subseteq present /\ DigestsSoFar' \subseteq present'
  BY <1>3, <1>5 DEF DetectorInv
<1>7. validRows >= 1
  BY <1>5 DEF DetectorInv
<1>8. validRows <= Cardinality(DigestsSoFar')
  <2>1. IsFiniteSet(DigestsSoFar') /\ DigestsSoFar \subseteq DigestsSoFar'
    BY <1>3, DigestsFinite, FS_AddElement
  <2>2. Cardinality(DigestsSoFar) <= Cardinality(DigestsSoFar')
    BY <2>1, FS_Subset
  <2>3. Cardinality(DigestsSoFar) \in Nat /\ Cardinality(DigestsSoFar') \in Nat
    BY <2>1, DigestsFinite, FS_CardinalityType
  <2>. QED  BY <2>2, <2>3 DEF DetectorInv, TypeOK
<1>9. strategy = "hash" => present' = DigestsSoFar' /\ validRows' = Cardinality(present')
  BY <1>3, <1>5 DEF DetectorInv
<1>. QED  BY <1>4, <1>5, <1>6, <1>7, <1>8, <1>9 DEF DetectorInv


LEMMA OnDataStep ==
  ASSUME CsvInv, OnData
  PROVE  CsvInv'
<1>. DEFINE line == file[position + 1]
            digest == hashRow(line)
<1>1. TypeOK /\ RowsInv /\ DetectorInv
  BY DEF CsvInv
<1>2. /\ parser = "open" /\ position < Len(file)
      /\ position' = position + 1 /\ totalRows' = totalRows + 1
      /\ UNCHANGED <<file, fileSize, source, parser, headersInitialized, promise>>
  BY DEF OnData
<1>3. \/ /\ Rejected(line) /\ invalidRows' = invalidRows + 1 /\ Sample(totalRows + 1)
         /\ UNCHANGED <<validRows, duplicateRows, present>>
      \/ /\ ~Rejected(line) /\ digest \in present /\ duplicateRows' = duplicateRows + 1
         /\ UNCHANGED <<validRows, invalidRows, errorDetails, present>>
      \/ /\ ~Rejected(line) /\ digest \notin present /\ validRows' = validRows + 1
         /\ UNCHANGED <<invalidRows, duplicateRows, errorDetails>>
  BY DEF OnData
<1>4. /\ position \in Nat /\ totalRows \in Nat /\ validRows \in Nat /\ invalidRows \in Nat
      /\ duplicateRows \in Nat /\ errorDetails \in Seq(Nat) /\ present \subseteq Digests
      /\ Len(file) \in Nat
  BY <1>1, CsvAssumption DEF TypeOK, CsvAssumption
<1>5. Digests' = Digests
  <2>1. \A i : hashRow(file[i])' = hashRow(file[i])
    BY <1>2
  <2>. QED  BY <1>2, <2>1 DEF Digests
<1>6. RowsInv'
  <2>1. /\ totalRows' = position'
        /\ totalRows' = validRows' + invalidRows' + duplicateRows'
    <3>1. totalRows = position /\ totalRows = validRows + invalidRows + duplicateRows
      BY <1>1 DEF RowsInv
    <3>2. \/ invalidRows' = invalidRows + 1 /\ UNCHANGED <<validRows, duplicateRows>>
          \/ duplicateRows' = duplicateRows + 1 /\ UNCHANGED <<validRows, invalidRows>>
          \/ validRows' = validRows + 1 /\ UNCHANGED <<invalidRows, duplicateRows>>
      BY <1>3
    <3>. QED  BY <1>2, <1>4, <3>1, <3>2
  <2>2. parser' = parser /\ source' = source /\ promise' = promise
    BY <1>2
  <2>3. /\ (promise = "resolved" <=> parser = "ended")
        /\ (promise = "rejected" <=> parser = "failed" \/ source = "failed")
        /\ parser # "ended"
    BY <1>1, <1>2 DEF RowsInv
  <2>. QED  BY <2>1, <2>2, <2>3 DEF RowsInv
<1>7. errorDetails' \in Seq(Nat)
  <2>1. CASE UNCHANGED errorDetails
    BY <1>4, <2>1
  <2>2. CASE Sample(totalRows + 1)
    <3>1. totalRows + 1 \in Nat
      BY <1>4
    <3>2. Append(errorDetails, totalRows + 1) \in Seq(Nat)
      BY <1>4, <3>1
    <3>. QED  BY <1>4, <2>2, <3>2 DEF Sample
  <2>. QED  BY <1>3, <2>1, <2>2
<1>8. DetectorInv' /\ present' \subseteq Digests
  <2>1. CASE Rejected(line)
    <3>1. ValidSoFar' = ValidSoFar
      BY <1>1, <1>2, <2>1, NextRow
    <3>2. DigestsSoFar' = DigestsSoFar
      <4>1. \A i : hashRow(file[i])' = hashRow(file[i])
        BY <1>2
      <4>. QED  BY <3>1, <4>1 DEF DigestsSoFar
    <3>3. strategy' = strategy
      BY <1>2 DEF strategy
    <3>4. validRows' = validRows /\ present' = present
      BY <1>3, <2>1
    <3>. QED  BY <1>1, <1>4, <3>1, <3>2, <3>3, <3>4 DEF DetectorInv
  <2>2. CASE ~Rejected(line) /\ digest \in present
    BY <1>1, <1>3, <1>4, <2>2, DuplicateStep
  <2>3. CASE ~Rejected(line) /\ digest \notin present
    BY <1>1, <2>3, AddStep
  <2>. QED  BY <2>1, <2>2, <2>3
<1>9. TypeOK'
  <2>1. /\ position' \in Nat /\ position' <= Len(file)' /\ totalRows' \in Nat
        /\ validRows' \in Nat /\ invalidRows' \in Nat /\ duplicateRows' \in Nat
    BY <1>2, <1>3, <1>4
  <2>. QED  BY <1>1, <1>2, <1>5, <1>7, <1>8, <2>1 DEF TypeOK
<1>. QED  BY <1>6, <1>8, <1>9 DEF CsvInv

(* The steps that emit no row.                                             *)
LEMMA OtherStep ==
  ASSUME CsvInv,
         OnHeaders \/ SourceEnds \/ OnEnd \/ OnParserError \/ OnSourceError
  PROVE  CsvInv'
<1>1. TypeOK /\ RowsInv /\ DetectorInv
  BY DEF CsvInv
<1>2. UNCHANGED <<file, fileSize, position, counts>>
  BY DEF OnHeaders, SourceEnds, OnEnd, OnParserError, OnSourceError, counts
<1>3. DetectorInv'
  BY <1>1, <1>2, DetectorKept DEF counts
<1>4. Digests' = Digests
  <2>1. \A i : hashRow(file[i])' = hashRow(file[i])
    BY <1>2
  <2>. QED  BY <1>2, <2>1 DEF Digests
<1>5. TypeOK'
  <2>1. /\ source' \in {"open", "ended", "failed"} /\ parser' \in {"open", "ended", "failed"}
        /\ headersInitialized' \in BOOLEAN
        /\ promise' \in {"pending", "resolved", "rejected"}
    BY <1>1 DEF TypeOK, OnHeaders, SourceEnds, OnEnd, OnParserError, OnSourceError, Settle
  <2>. QED  BY <1>1, <1>2, <1>4, <2>1 DEF TypeOK, counts
<1>6. RowsInv'
  <2>1. CASE OnHeaders
    BY <1>1, <1>2, <2>1 DEF RowsInv, OnHeaders, counts
  <2>2. CASE SourceEnds
    BY <1>1, <1>2, <2>2 DEF RowsInv, SourceEnds, counts, TypeOK
  <2>3. CASE OnEnd
    BY <1>1, <1>2, <2>3 DEF RowsInv, OnEnd, Settle, counts, TypeOK
  <2>4. CASE OnParserError
    BY <1>1, <1>2, <2>4 DEF RowsInv, OnParserError, Settle, counts, TypeOK
  <2>5. CASE OnSourceError
    BY <1>1, <1>2, <2>5 DEF RowsInv, OnSourceError, Settle, counts, TypeOK
  <2>. QED  BY <2>1, <2>2, <2>3, <2>4, <2>5
<1>. QED  BY <1>3, <1>5, <1>6 DEF CsvInv

(* The counts add up and the detector's memory agrees with them, at every   *)
(* point of every stream.                                                  *)
THEOREM Invariance == Spec => []CsvInv
<1>1. CsvInv /\ [Next]_vars => CsvInv'
  <2>. SUFFICES ASSUME CsvInv, [Next]_vars PROVE CsvInv'
    OBVIOUS
  <2>1. CASE OnData
    BY <2>1, OnDataStep
  <2>2. CASE OnHeaders \/ SourceEnds \/ OnEnd \/ OnParserError \/ OnSourceError
    BY <2>2, OtherStep
  <2>3. CASE UNCHANGED vars
    <3>1. UNCHANGED <<file, fileSize, source, parser, headersInitialized, position,
                      counts, promise>>
      BY <2>3 DEF vars, counts
    <3>2. DetectorInv'
      BY <3>1, DetectorKept DEF CsvInv, counts
    <3>3. Digests' = Digests
      <4>1. \A i : hashRow(file[i])' = hashRow(file[i])
        BY <3>1
      <4>. QED  BY <3>1, <4>1 DEF Digests
    <3>4. TypeOK' /\ RowsInv'
      BY <3>1, <3>3 DEF CsvInv, TypeOK, RowsInv, counts
    <3>. QED  BY <3>2, <3>4 DEF CsvInv
  <2>. QED  BY <2>1, <2>2, <2>3 DEF Next
<1>. QED  BY <1>1, InitCsv, PTL DEF Spec

(* Whatever else the Bloom filter answers, a repeated row is a duplicate    *)
(* and the first valid row is not.                                         *)
THEOREM NoRepetitionCounted == Spec => []NoDuplicateMissed
<1>1. CsvInv => NoDuplicateMissed
  BY DEF CsvInv, DetectorInv, NoDuplicateMissed
<1>. QED  BY <1>1, Invariance, PTL

(* The rejected rows so far, what one more row does to them, and the sample. *)
Errors == {i \in 1 .. position : Rejected(file[i])}
Before(rows, row) == {i \in rows : i < row}

LEMMA NextError ==
  ASSUME TypeOK, position < Len(file), position' = position + 1, file' = file
  PROVE  /\ Rejected(file[position + 1]) => Errors' = Errors \cup {position + 1}
         /\ ~Rejected(file[position + 1]) => Errors' = Errors
<1>. DEFINE next == position + 1
<1>1. 1 .. next = (1 .. position) \cup {next}
  BY DEF TypeOK
<1>2. Errors' = {i \in 1 .. next : Rejected(file[i])}
  BY DEF Errors, Rejected, Row, Filled, KeyAt
<1>. HIDE DEF next
<1>3. Errors' = Errors \cup {i \in {next} : Rejected(file[i])}
  BY <1>1, <1>2 DEF Errors
<1>. QED  BY <1>3 DEF next

LEMMA ErrorsFinite ==
  ASSUME TypeOK
  PROVE  /\ IsFiniteSet(Errors) /\ Cardinality(Errors) \in Nat
         /\ position + 1 \notin Errors /\ \A i \in Errors : i \in Nat /\ i < position + 1
<1>1. position \in Nat
  BY DEF TypeOK
<1>2. IsFiniteSet(1 .. position)
  BY <1>1, FS_Interval
<1>3. IsFiniteSet(Errors)
  BY <1>2, FS_Subset DEF Errors
<1>. QED  BY <1>1, <1>3, FS_CardinalityType DEF Errors

LEMMA MinOfTwo ==
  ASSUME NEW a \in Nat, NEW b \in Nat
  PROVE  Min({a, b}) = IF a <= b THEN a ELSE b
<1>1. CASE a <= b
  <2>1. \A x \in {a, b} : (\A y \in {a, b} : x <= y) <=> x = a
    BY <1>1
  <2>. QED  BY <1>1, <2>1 DEF Min
<1>2. CASE ~(a <= b)
  <2>1. \A x \in {a, b} : (\A y \in {a, b} : x <= y) <=> x = b
    BY <1>2
  <2>. QED  BY <1>2, <2>1 DEF Min
<1>. QED  BY <1>1, <1>2

SamplesInv ==
  /\ Len(errorDetails) = IF MaxErrorSamples <= Cardinality(Errors)
                         THEN MaxErrorSamples ELSE Cardinality(Errors)
  /\ \A k \in DOMAIN errorDetails :
       errorDetails[k] \in Errors /\ Cardinality(Before(Errors, errorDetails[k])) = k - 1

(* A row beyond the others changes nothing about what is before them.       *)
LEMMA BeforeKept ==
  ASSUME TypeOK, Errors' = Errors \/ Errors' = Errors \cup {position + 1}, NEW row \in Errors
  PROVE  Before(Errors', row) = Before(Errors, row)
<1>1. position \in Nat /\ row \in Nat /\ row < position + 1
  BY ErrorsFinite DEF TypeOK
<1>2. ~(position + 1 < row)
  BY <1>1
<1>. QED  BY <1>2 DEF Before

LEMMA SampleStep ==
  ASSUME CsvInv, SamplesInv, OnData
  PROVE  SamplesInv'
<1>. DEFINE n == position + 1
            size == Cardinality(Errors)
            len == Len(errorDetails)
<1>1. TypeOK /\ totalRows + 1 = n
  BY DEF CsvInv, RowsInv
<1>2. /\ IsFiniteSet(Errors) /\ size \in Nat /\ n \notin Errors
      /\ \A i \in Errors : i \in Nat /\ i < n
  BY <1>1, ErrorsFinite
<1>3. /\ Rejected(file[n]) => Errors' = Errors \cup {n}
      /\ ~Rejected(file[n]) => Errors' = Errors
  BY <1>1, NextError DEF OnData
<1>4. /\ Rejected(file[n]) => Sample(n)
      /\ ~Rejected(file[n]) => UNCHANGED errorDetails
  BY <1>1 DEF OnData
<1>5. MaxErrorSamples \in Nat /\ errorDetails \in Seq(Nat) /\ len \in Nat /\ DOMAIN errorDetails = 1 .. len
  BY <1>1, CsvAssumption DEF TypeOK, CsvAssumption
<1>6. ASSUME NEW row \in Errors PROVE Before(Errors', row) = Before(Errors, row)
  BY <1>1, <1>3, BeforeKept
<1>7. len = IF MaxErrorSamples <= size THEN MaxErrorSamples ELSE size
  BY DEF SamplesInv
<1>8. \A k \in 1 .. len : errorDetails[k] \in Errors /\ Cardinality(Before(Errors, errorDetails[k])) = k - 1
  BY <1>5 DEF SamplesInv
<1>. HIDE DEF n, size, len
<1>9. CASE ~Rejected(file[n])
  <2>1. Errors' = Errors /\ errorDetails' = errorDetails
    BY <1>3, <1>4, <1>9
  <2>. QED  BY <2>1 DEF SamplesInv
<1>10. CASE Rejected(file[n])
  <2>1. Errors' = Errors \cup {n} /\ Sample(n)
    BY <1>3, <1>4, <1>10
  <2>2. Cardinality(Errors') = size + 1
    BY <1>2, <2>1, FS_AddElement DEF size
  <2>3. CASE len < MaxErrorSamples
    <3>1. errorDetails' = Append(errorDetails, n)
      BY <2>1, <2>3 DEF Sample, len
    <3>2. /\ Len(errorDetails') = len + 1
          /\ DOMAIN errorDetails' = 1 .. (len + 1)
          /\ \A k \in 1 .. len : errorDetails'[k] = errorDetails[k]
          /\ errorDetails'[len + 1] = n
      <4>1. n \in Nat
        BY <1>1 DEF TypeOK, n
      <4>. QED  BY <1>5, <3>1, <4>1 DEF len
    <3>3. len = size /\ ~(MaxErrorSamples <= size)
      BY <1>2, <1>5, <1>7, <2>3
    <3>4. Len(errorDetails') = IF MaxErrorSamples <= size + 1 THEN MaxErrorSamples ELSE size + 1
      BY <1>2, <1>5, <3>2, <3>3
    <3>5. Before(Errors', n) = Errors
      <4>1. ~(n < n)
        BY <1>1 DEF TypeOK, n
      <4>. QED  BY <1>2, <2>1, <4>1 DEF Before
    <3>6. ASSUME NEW k \in 1 .. (len + 1)
          PROVE  errorDetails'[k] \in Errors' /\ Cardinality(Before(Errors', errorDetails'[k])) = k - 1
      <4>1. CASE k = len + 1
        <5>1. errorDetails'[k] = n /\ Cardinality(Errors) = k - 1
          BY <1>5, <3>2, <3>3, <4>1 DEF size
        <5>. QED  BY <2>1, <3>5, <5>1
      <4>2. CASE k # len + 1
        <5>1. k \in 1 .. len /\ errorDetails'[k] = errorDetails[k]
          BY <1>5, <3>2, <4>2
        <5>2. errorDetails[k] \in Errors /\ Cardinality(Before(Errors, errorDetails[k])) = k - 1
          BY <1>8, <5>1
        <5>. QED  BY <1>6, <2>1, <5>1, <5>2
      <4>. QED  BY <4>1, <4>2
    <3>. QED  BY <2>2, <3>2, <3>4, <3>6 DEF SamplesInv
  <2>4. CASE ~(len < MaxErrorSamples)
    <3>1. errorDetails' = errorDetails
      BY <2>1, <2>4 DEF Sample, len
    <3>2. MaxErrorSamples <= size /\ len = MaxErrorSamples
      BY <1>2, <1>5, <1>7, <2>4
    <3>3. Len(errorDetails') = IF MaxErrorSamples <= size + 1 THEN MaxErrorSamples ELSE size + 1
      BY <1>2, <1>5, <3>1, <3>2 DEF len
    <3>4. ASSUME NEW k \in DOMAIN errorDetails
          PROVE  errorDetails[k] \in Errors' /\ Cardinality(Before(Errors', errorDetails[k])) = k - 1
      <4>1. errorDetails[k] \in Errors /\ Cardinality(Before(Errors, errorDetails[k])) = k - 1
        BY <1>5, <1>8
      <4>. QED  BY <1>6, <2>1, <4>1
    <3>. QED  BY <2>2, <3>1, <3>3, <3>4 DEF SamplesInv
  <2>. QED  BY <2>3, <2>4
<1>. QED  BY <1>9, <1>10

LEMMA InitSamples == Init => SamplesInv
<1>. SUFFICES ASSUME Init PROVE SamplesInv
  OBVIOUS
<1>1. Errors = {} /\ errorDetails = <<>> /\ Len(errorDetails) = 0
  BY DEF Init, Errors
<1>2. Cardinality(Errors) = 0 /\ MaxErrorSamples \in Nat
  BY <1>1, FS_EmptySet, CsvAssumption DEF CsvAssumption
<1>. QED  BY <1>1, <1>2 DEF SamplesInv

LEMMA SamplesInvariance == Spec => []SamplesInv
<1>1. CsvInv /\ SamplesInv /\ [Next]_vars => SamplesInv'
  <2>. SUFFICES ASSUME CsvInv, SamplesInv, [Next]_vars PROVE SamplesInv'
    OBVIOUS
  <2>1. CASE OnData
    BY <2>1, SampleStep
  <2>2. CASE UNCHANGED <<file, position, errorDetails>>
    <3>1. Errors' = Errors
      BY <2>2 DEF Errors, Rejected, Row, Filled, KeyAt
    <3>. QED  BY <2>2, <3>1 DEF SamplesInv
  <2>3. OnData \/ UNCHANGED <<file, position, errorDetails>>
    BY DEF Next, OnHeaders, SourceEnds, OnEnd, OnParserError, OnSourceError, vars, counts
  <2>. QED  BY <2>1, <2>2, <2>3
<1>. QED  BY <1>1, InitSamples, Invariance, PTL DEF Spec

(* The samples are the first rejected rows, as many as the limit allows and  *)
(* under their numbers in the file, for any file and any limit.            *)
THEOREM SamplesOfFirstErrors == Spec => []SamplesAreFirstErrors
<1>1. CsvInv /\ SamplesInv => SamplesAreFirstErrors
  <2>. SUFFICES ASSUME CsvInv, SamplesInv PROVE SamplesAreFirstErrors
    OBVIOUS
  <2>1. Cardinality(Errors) \in Nat /\ MaxErrorSamples \in Nat
    BY ErrorsFinite, CsvAssumption DEF CsvInv, CsvAssumption
  <2>2. Len(errorDetails) = Min({MaxErrorSamples, Cardinality(Errors)})
    BY <2>1, MinOfTwo DEF SamplesInv
  <2>. QED  BY <2>2 DEF SamplesInv, SamplesAreFirstErrors, Errors, Before
<1>. QED  BY <1>1, Invariance, SamplesInvariance, PTL

(* The promise of the report is only settled with a complete report or by  *)
(* an error, and the memory of the hash detector has one digest per valid  *)
(* row: the two counts of a hash report are determined by the file.        *)
THEOREM HashCountsDigests ==
  Spec => [](strategy = "hash" => validRows = Cardinality(DigestsSoFar))
<1>1. CsvInv => (strategy = "hash" => validRows = Cardinality(DigestsSoFar))
  BY DEF CsvInv, DetectorInv
<1>. QED  BY <1>1, Invariance, PTL

-----------------------------------------------------------------------------
(* Induction.  The least number that is not in the set has one before it.    *)
LEMMA Numbers ==
  ASSUME NEW S \in SUBSET Nat, 0 \in S, \A n \in S : n + 1 \in S
  PROVE  S = Nat
<1>. SUFFICES ASSUME Nat \ S # {} PROVE FALSE
  OBVIOUS
<1>1. PICK x \in Nat \ S : \A y \in Nat \ S : ~(<<y, x>> \in OpToRel(<, Nat))
  BY NatLessThanWellFounded, WFMin
<1>2. x # 0 /\ x - 1 \in Nat /\ x - 1 < x /\ (x - 1) + 1 = x
  <2>1. x \in Nat /\ x # 0
    OBVIOUS
  <2>. QED  BY <2>1
<1>3. <<x - 1, x>> \in OpToRel(<, Nat)
  BY <1>1, <1>2 DEF OpToRel
<1>4. x - 1 \in S
  BY <1>1, <1>2, <1>3
<1>5. (x - 1) + 1 \in S
  BY <1>4
<1>. QED  BY <1>2, <1>5

(* A set of places has a last one: the one with the fewest places after it. *)
LEMMA LastPlace ==
  ASSUME NEW L \in Nat, NEW S \in SUBSET (1 .. L), S # {}
  PROVE  \E m \in S : \A k \in S : k <= m
<1>. DEFINE T == {n \in Nat : L - n \in S}
<1>1. T # {}
  <2>1. PICK i \in S : TRUE
    OBVIOUS
  <2>2. L - i \in Nat /\ L - (L - i) = i
    BY <2>1
  <2>. QED  BY <2>1, <2>2
<1>2. PICK x \in T : \A y \in T : ~(<<y, x>> \in OpToRel(<, Nat))
  BY <1>1, NatLessThanWellFounded, WFMin
<1>3. ASSUME NEW k \in S PROVE k <= L - x
  <2>1. k \in 1 .. L /\ L - k \in Nat /\ L - (L - k) = k /\ x \in Nat
    OBVIOUS
  <2>2. L - k \in T
    BY <2>1
  <2>3. ~(L - k < x)
    BY <1>2, <2>1, <2>2 DEF OpToRel
  <2>. QED  BY <2>1, <2>3
<1>. QED  BY <1>3

(* What is computed step by step from 0 to L exists.                       *)
Steps(f, L, V, v0, g) ==
  /\ f \in [0 .. L -> V]
  /\ f[0] = v0
  /\ \A n \in 1 .. L : f[n] = g[n][f[n - 1]]

LEMMA StepsExist ==
  ASSUME NEW L \in Nat, NEW V, NEW v0 \in V, NEW g \in [1 .. L -> [V -> V]]
  PROVE  \E f : Steps(f, L, V, v0, g)
<1>. DEFINE Good == {m \in Nat : m <= L => \E f \in [0 .. m -> V] :
                f[0] = v0 /\ \A n \in 1 .. m : f[n] = g[n][f[n - 1]]}
<1>1. 0 \in Good
  <2>1. [n \in 0 .. 0 |-> v0] \in [0 .. 0 -> V]
    OBVIOUS
  <2>2. [n \in 0 .. 0 |-> v0][0] = v0 /\ 1 .. 0 = {}
    OBVIOUS
  <2>. QED  BY <2>1, <2>2
<1>2. ASSUME NEW m \in Good PROVE m + 1 \in Good
  <2>. SUFFICES ASSUME m + 1 <= L
                PROVE  \E f \in [0 .. m + 1 -> V] :
                        f[0] = v0 /\ \A n \in 1 .. m + 1 : f[n] = g[n][f[n - 1]]
    OBVIOUS
  <2>1. m \in Nat /\ m <= L
    OBVIOUS
  <2>2. PICK f \in [0 .. m -> V] :
          f[0] = v0 /\ \A n \in 1 .. m : f[n] = g[n][f[n - 1]]
    BY <2>1
  <2>. DEFINE h == [n \in 0 .. m + 1 |-> IF n <= m THEN f[n] ELSE g[m + 1][f[m]]]
  <2>3. g[m + 1][f[m]] \in V
    <3>1. m + 1 \in 1 .. L /\ m \in 0 .. m
      BY <2>1
    <3>2. g[m + 1] \in [V -> V] /\ f[m] \in V
      BY <2>2, <3>1
    <3>. QED  BY <3>2
  <2>4. h \in [0 .. m + 1 -> V]
    BY <2>1, <2>2, <2>3
  <2>5. h[0] = v0
    BY <2>1, <2>2
  <2>6. ASSUME NEW n \in 1 .. m + 1 PROVE h[n] = g[n][h[n - 1]]
    <3>1. CASE n <= m
      <4>1. n \in 1 .. m /\ n - 1 <= m /\ n \in 0 .. m + 1 /\ n - 1 \in 0 .. m + 1
        BY <2>1, <3>1
      <4>2. h[n] = f[n] /\ h[n - 1] = f[n - 1]
        BY <3>1, <4>1
      <4>. QED  BY <2>2, <4>1, <4>2
    <3>2. CASE ~(n <= m)
      <4>1. n = m + 1 /\ n - 1 = m /\ n \in 0 .. m + 1 /\ m \in 0 .. m + 1 /\ m <= m
        BY <2>1, <3>2
      <4>2. h[n] = g[m + 1][f[m]] /\ h[n - 1] = f[m]
        BY <3>2, <4>1
      <4>. QED  BY <4>1, <4>2
    <3>. QED  BY <3>1, <3>2
  <2>. HIDE DEF h
  <2>. QED  BY <2>4, <2>5, <2>6
<1>3. L \in Good
  <2>. HIDE DEF Good
  <2>1. Good = Nat
    <3>1. Good \in SUBSET Nat
      BY DEF Good
    <3>. QED  BY <1>1, <1>2, <3>1, Numbers
  <2>. QED  BY <2>1
<1>. QED  BY <1>3 DEF Steps

-----------------------------------------------------------------------------
(* Joined values: the last separator tells where the last value begins.      *)
Separated(x, s, v) == x \o <<s>> \o v

LEMMA Joining ==
  ASSUME NEW C, NEW x \in Seq(C), NEW v \in Seq(C), NEW s \in C
  PROVE  /\ x \o <<s>> \o v \in Seq(C)
         /\ Len(x \o <<s>> \o v) = Len(x) + 1 + Len(v)
         /\ \A i \in 1 .. Len(x) : (x \o <<s>> \o v)[i] = x[i]
         /\ (x \o <<s>> \o v)[Len(x) + 1] = s
         /\ \A i \in 1 .. Len(v) : (x \o <<s>> \o v)[Len(x) + 1 + i] = v[i]
<1>. DEFINE a == x \o <<s>>
<1>1. /\ a \in Seq(C) /\ Len(a) = Len(x) + 1 /\ Len(x) \in Nat /\ Len(v) \in Nat
      /\ \A i \in 1 .. Len(x) : a[i] = x[i]
      /\ a[Len(x) + 1] = s
  OBVIOUS
<1>. HIDE DEF a
<1>2. /\ a \o v \in Seq(C) /\ Len(a \o v) = Len(a) + Len(v)
      /\ \A i \in 1 .. Len(a) : (a \o v)[i] = a[i]
      /\ \A i \in 1 .. Len(v) : (a \o v)[Len(a) + i] = v[i]
  BY <1>1
<1>. QED  BY <1>1, <1>2 DEF a

LEMMA LastSeparator ==
  ASSUME NEW C, NEW x \in Seq(C), NEW y \in Seq(C), NEW v \in Seq(C), NEW w \in Seq(C),
         NEW s \in C,
         \A i \in 1 .. Len(v) : v[i] # s, \A i \in 1 .. Len(w) : w[i] # s,
         Separated(x, s, v) = Separated(y, s, w)
  PROVE  x = y /\ v = w
<1>. DEFINE t == x \o <<s>> \o v
            u == y \o <<s>> \o w
<1>1. /\ Len(t) = Len(x) + 1 + Len(v)
      /\ \A i \in 1 .. Len(x) : t[i] = x[i]
      /\ t[Len(x) + 1] = s
      /\ \A i \in 1 .. Len(v) : t[Len(x) + 1 + i] = v[i]
  BY Joining
<1>2. /\ Len(u) = Len(y) + 1 + Len(w)
      /\ \A i \in 1 .. Len(y) : u[i] = y[i]
      /\ u[Len(y) + 1] = s
      /\ \A i \in 1 .. Len(w) : u[Len(y) + 1 + i] = w[i]
  BY Joining
<1>3. Len(x) \in Nat /\ Len(y) \in Nat /\ Len(v) \in Nat /\ Len(w) \in Nat
  OBVIOUS
<1>. t = u
  BY DEF Separated
<1>. HIDE DEF t, u
<1>4. ~(Len(x) < Len(y))
  <2>. SUFFICES ASSUME Len(x) < Len(y) PROVE FALSE
    OBVIOUS
  <2>. DEFINE i == Len(y) - Len(x)
  <2>1. i \in 1 .. Len(v) /\ Len(x) + 1 + i = Len(y) + 1
    BY <1>1, <1>2, <1>3
  <2>. HIDE DEF i
  <2>2. v[i] = s
    BY <1>1, <1>2, <2>1
  <2>. QED  BY <2>1, <2>2
<1>5. ~(Len(y) < Len(x))
  <2>. SUFFICES ASSUME Len(y) < Len(x) PROVE FALSE
    OBVIOUS
  <2>. DEFINE i == Len(x) - Len(y)
  <2>1. i \in 1 .. Len(w) /\ Len(y) + 1 + i = Len(x) + 1
    BY <1>1, <1>2, <1>3
  <2>. HIDE DEF i
  <2>2. w[i] = s
    BY <1>1, <1>2, <2>1
  <2>. QED  BY <2>1, <2>2
<1>6. Len(x) = Len(y) /\ Len(v) = Len(w)
  BY <1>1, <1>2, <1>3, <1>4, <1>5
<1>7. \A i \in 1 .. Len(x) : x[i] = y[i]
  BY <1>1, <1>2, <1>6
<1>8. \A i \in 1 .. Len(v) : v[i] = w[i]
  BY <1>1, <1>2, <1>6
<1>. QED  BY <1>6, <1>7, <1>8, SeqEqual

-----------------------------------------------------------------------------
(* The rows of csv-parser, and the strings that hashRow makes of them.      *)
Lines == Seq(Cells) \ {<<>>}
Text == Chars \cup {"|"}
Keys(line) == {KeyAt(i) : i \in 1 .. Len(line)}
Repeated(n) == \E m \in 1 .. n - 1 : KeyAt(m) = KeyAt(n)

LEMMA LinesOfFiles ==
  ASSUME TypeOK, NEW i \in ValidSoFar
  PROVE  file[i] \in Lines
<1>1. file \in Seq(Lines) /\ position <= Len(file) /\ position \in Nat
  BY CsvAssumption DEF CsvAssumption, TypeOK, Lines
<1>2. i \in 1 .. Len(file)
  BY <1>1 DEF ValidSoFar
<1>. QED  BY <1>1, <1>2

LEMMA LineType ==
  ASSUME NEW line \in Lines
  PROVE  /\ Len(line) \in Nat /\ Len(line) >= 1 /\ DOMAIN line = 1 .. Len(line)
         /\ \A i \in 1 .. Len(line) : line[i] \in Seq(Text)
<1>1. line \in Seq(Cells) /\ line # <<>>
  BY DEF Lines
<1>2. Cells \subseteq Seq(Chars)
  BY CsvAssumption DEF CsvAssumption
<1>3. Seq(Chars) \subseteq Seq(Text)
  BY DEF Text
<1>4. \A i \in 1 .. Len(line) : line[i] \in Cells
  BY <1>1
<1>. QED  BY <1>1, <1>2, <1>3, <1>4

LEMMA RowType ==
  ASSUME NEW line \in Lines
  PROVE  /\ DOMAIN Row(line) = Keys(line)
         /\ IsFiniteSet(Keys(line))
         /\ \A i \in 1 .. Len(line) : Row(line)[KeyAt(i)] \in Seq(Text)
<1>1. /\ Len(line) \in Nat /\ DOMAIN line = 1 .. Len(line)
      /\ \A i \in 1 .. Len(line) : line[i] \in Seq(Text)
  BY LineType
<1>2. DOMAIN Row(line) = Keys(line)
  BY <1>1 DEF Row, Keys
<1>3. ASSUME NEW i \in 1 .. Len(line)
      PROVE  Row(line)[KeyAt(i)] \in Seq(Text)
  <2>. DEFINE S == {m \in 1 .. Len(line) : KeyAt(m) = KeyAt(i)}
  <2>1. PICK m \in S : \A k \in S : k <= m
    <3>1. S \in SUBSET (1 .. Len(line)) /\ S # {}
      OBVIOUS
    <3>. HIDE DEF S
    <3>. QED  BY <1>1, <3>1, LastPlace
  <2>. DEFINE LastOf(c) == KeyAt(c) = KeyAt(i) /\ \A n \in DOMAIN line : KeyAt(n) = KeyAt(i) => n <= c
  <2>2. m \in DOMAIN line /\ LastOf(m)
    BY <1>1, <2>1
  <2>3. (CHOOSE c \in DOMAIN line : LastOf(c)) \in DOMAIN line
    BY <2>2
  <2>4. Row(line)[KeyAt(i)] = line[CHOOSE c \in DOMAIN line : LastOf(c)]
    BY <1>1 DEF Row
  <2>. QED  BY <1>1, <2>3, <2>4
<1>4. IsFiniteSet(Keys(line))
  <2>. DEFINE f == [i \in 1 .. Len(line) |-> KeyAt(i)]
  <2>1. IsFiniteSet(1 .. Len(line))
    BY <1>1, FS_Interval
  <2>2. f \in Surjection(1 .. Len(line), Keys(line))
    BY DEF Surjection, Keys
  <2>. HIDE DEF f
  <2>. QED  BY <2>1, <2>2, FS_Surjection
<1>. QED  BY <1>2, <1>3, <1>4

(* Joined is what its equation says it is.                                 *)
LEMMA JoinedValues ==
  ASSUME NEW line \in Lines
  PROVE  /\ Joined(line) \in [0 .. Len(line) -> Seq(Text)]
         /\ Joined(line)[0] = <<>>
         /\ \A n \in 1 .. Len(line) :
              Joined(line)[n] =
                IF Repeated(n) THEN Joined(line)[n - 1]
                ELSE IF n = 1 THEN Row(line)[KeyAt(1)]
                ELSE Joined(line)[n - 1] \o <<"|">> \o Row(line)[KeyAt(n)]
<1>. DEFINE L == Len(line)
            Value(n) == Row(line)[KeyAt(n)]
            Then(n, v) == IF Repeated(n) THEN v
                          ELSE IF n = 1 THEN Value(1)
                          ELSE v \o <<"|">> \o Value(n)
            Equation(f) == f = [n \in 0 .. L |-> IF n = 0 THEN <<>> ELSE Then(n, f[n - 1])]
            g == [n \in 1 .. L |-> [v \in Seq(Text) |-> Then(n, v)]]
<1>1. L \in Nat /\ \A i \in 1 .. L : Value(i) \in Seq(Text)
  BY LineType, RowType
<1>2. Joined(line) = CHOOSE f : Equation(f)
  BY DEF Joined, Repeated
<1>3. ASSUME NEW n \in 1 .. L, NEW v \in Seq(Text)
      PROVE  Then(n, v) \in Seq(Text)
  <2>1. 1 \in 1 .. L
    BY <1>1
  <2>2. Value(n) \in Seq(Text) /\ Value(1) \in Seq(Text) /\ "|" \in Text
    BY <1>1, <2>1 DEF Text
  <2>. HIDE DEF Value
  <2>3. v \o <<"|">> \o Value(n) \in Seq(Text)
    BY <2>2, Joining
  <2>. QED  BY <2>2, <2>3
<1>4. g \in [1 .. L -> [Seq(Text) -> Seq(Text)]] /\ <<>> \in Seq(Text)
  <2>. HIDE DEF Then
  <2>. QED  BY <1>3
<1>5. PICK f : Steps(f, L, Seq(Text), <<>>, g)
  <2>. HIDE DEF g, L
  <2>1. L \in Nat
    BY <1>1
  <2>. QED  BY <1>4, <2>1, StepsExist
<1>6. \A n \in 1 .. L : f[n] = Then(n, f[n - 1])
  <2>. SUFFICES ASSUME NEW n \in 1 .. L PROVE f[n] = Then(n, f[n - 1])
    OBVIOUS
  <2>1. f[n - 1] \in Seq(Text) /\ f[n] = g[n][f[n - 1]]
    <3>. HIDE DEF g, L, Then, Value
    <3>1. n - 1 \in 0 .. L
      BY <1>1
    <3>. QED  BY <1>5, <3>1 DEF Steps
  <2>. HIDE DEF Then
  <2>. QED  BY <2>1
<1>7. Equation(f)
  <2>. HIDE DEF Then
  <2>. QED  BY <1>1, <1>5, <1>6 DEF Steps
<1>8. Equation(Joined(line))
  <2>. HIDE DEF Equation
  <2>. QED  BY <1>2, <1>7
<1>9. /\ Joined(line)[0] = <<>>
      /\ \A n \in 1 .. L : Joined(line)[n] = Then(n, Joined(line)[n - 1])
  <2>. HIDE DEF Then
  <2>. QED  BY <1>1, <1>8
<1>10. Joined(line) \in [0 .. L -> Seq(Text)]
  <2>. DEFINE S == {n \in Nat : n <= L => Joined(line)[n] \in Seq(Text)}
  <2>1. 0 \in S
    BY <1>4, <1>9
  <2>2. ASSUME NEW n \in S PROVE n + 1 \in S
    <3>. SUFFICES ASSUME n + 1 <= L PROVE Joined(line)[n + 1] \in Seq(Text)
      OBVIOUS
    <3>1. n + 1 \in 1 .. L /\ (n + 1) - 1 = n /\ n <= L
      BY <1>1
    <3>2. Joined(line)[n] \in Seq(Text)
      BY <3>1
    <3>3. Joined(line)[n + 1] = Then(n + 1, Joined(line)[n])
      BY <1>9, <3>1
    <3>. HIDE DEF Then
    <3>. QED  BY <1>3, <3>1, <3>2, <3>3
  <2>3. S = Nat
    <3>1. S \in SUBSET Nat
      OBVIOUS
    <3>. HIDE DEF S
    <3>. QED  BY <2>1, <2>2, <3>1, Numbers
  <2>4. \A n \in 0 .. L : Joined(line)[n] \in Seq(Text)
    BY <1>1, <2>3
  <2>5. DOMAIN Joined(line) = 0 .. L /\ Joined(line) = [n \in 0 .. L |-> Joined(line)[n]]
    <3>. HIDE DEF Then
    <3>. QED  BY <1>8
  <2>. QED  BY <2>4, <2>5
<1>. QED  BY <1>9, <1>10

(* As long as no value has a separator, joined values tell all of them.     *)
PlainValues(line) ==
  \A i \in 1 .. Len(line) : \A n \in 1 .. Len(Row(line)[KeyAt(i)]) : Row(line)[KeyAt(i)][n] # "|"

Agree(line, other, n) == \A j \in 1 .. n : Row(line)[KeyAt(j)] = Row(other)[KeyAt(j)]

LEMMA OneMoreValue ==
  ASSUME NEW line \in Lines, NEW other \in Lines, PlainValues(line), PlainValues(other),
         NEW n \in Nat, n + 1 <= Len(line), n + 1 <= Len(other),
         (Joined(line)[n] = Joined(other)[n]) <=> Agree(line, other, n)
  PROVE  (Joined(line)[n + 1] = Joined(other)[n + 1]) <=> Agree(line, other, n + 1)
<1>. DEFINE k == n + 1
            x == Joined(line)[n]
            y == Joined(other)[n]
            v == Row(line)[KeyAt(k)]
            w == Row(other)[KeyAt(k)]
<1>1. Len(line) \in Nat /\ Len(other) \in Nat
  BY LineType
<1>2. /\ k \in 1 .. Len(line) /\ k \in 1 .. Len(other) /\ k - 1 = n
      /\ n \in 0 .. Len(line) /\ n \in 0 .. Len(other)
  BY <1>1
<1>3. Agree(line, other, k) <=> Agree(line, other, n) /\ v = w
  <2>1. 1 .. k = (1 .. n) \cup {k}
    OBVIOUS
  <2>. HIDE DEF k
  <2>. QED  BY <2>1 DEF Agree
<1>4. x \in Seq(Text) /\ y \in Seq(Text) /\ v \in Seq(Text) /\ w \in Seq(Text)
  <2>. HIDE DEF k
  <2>. QED  BY <1>2, RowType, JoinedValues
<1>5. /\ \A i \in 1 .. Len(v) : v[i] # "|"
      /\ \A i \in 1 .. Len(w) : w[i] # "|"
  <2>. HIDE DEF k
  <2>. QED  BY <1>2 DEF PlainValues
<1>6. /\ Joined(line)[k] = IF Repeated(k) THEN x
                           ELSE IF k = 1 THEN v ELSE Separated(x, "|", v)
      /\ Joined(other)[k] = IF Repeated(k) THEN y
                           ELSE IF k = 1 THEN w ELSE Separated(y, "|", w)
  <2>1. k = 1 => KeyAt(1) = KeyAt(k)
    OBVIOUS
  <2>. HIDE DEF k
  <2>. QED  BY <1>2, <2>1, JoinedValues DEF Separated
<1>. HIDE DEF x, y, v, w
<1>7. CASE Repeated(k)
  <2>1. PICK m \in 1 .. n : KeyAt(m) = KeyAt(k)
    BY <1>2, <1>7 DEF Repeated
  <2>2. Agree(line, other, n) => v = w
    BY <2>1 DEF Agree, v, w
  <2>. QED  BY <1>3, <1>6, <1>7, <2>2 DEF x, y
<1>8. CASE ~Repeated(k) /\ k = 1
  <2>1. Agree(line, other, n)
    BY <1>8 DEF Agree
  <2>. QED  BY <1>3, <1>6, <1>8, <2>1
<1>9. CASE ~Repeated(k) /\ k # 1
  <2>1. "|" \in Text
    BY DEF Text
  <2>2. Separated(x, "|", v) = Separated(y, "|", w) => x = y /\ v = w
    BY <1>4, <1>5, <2>1, LastSeparator
  <2>. QED  BY <1>3, <1>6, <1>9, <2>2 DEF x, y
<1>. QED  BY <1>7, <1>8, <1>9

LEMMA JoinedTells ==
  ASSUME NEW line \in Lines, NEW other \in Lines, PlainValues(line), PlainValues(other),
         Len(line) <= Len(other)
  PROVE  (Joined(line)[Len(line)] = Joined(other)[Len(line)]) <=> Agree(line, other, Len(line))
<1>. DEFINE S == {n \in Nat : n <= Len(line) =>
                   ((Joined(line)[n] = Joined(other)[n]) <=> Agree(line, other, n))}
<1>1. Len(line) \in Nat /\ Len(other) \in Nat
  BY LineType
<1>2. 0 \in S
  BY JoinedValues DEF Agree
<1>3. ASSUME NEW n \in S PROVE n + 1 \in S
  <2>. SUFFICES ASSUME n + 1 <= Len(line)
                PROVE  (Joined(line)[n + 1] = Joined(other)[n + 1]) <=> Agree(line, other, n + 1)
    OBVIOUS
  <2>1. n \in Nat /\ n <= Len(line) /\ n + 1 <= Len(other)
    BY <1>1
  <2>2. (Joined(line)[n] = Joined(other)[n]) <=> Agree(line, other, n)
    BY <2>1
  <2>. QED  BY <2>1, <2>2, OneMoreValue
<1>4. S = Nat
  <2>1. S \in SUBSET Nat
    OBVIOUS
  <2>. HIDE DEF S
  <2>. QED  BY <1>2, <1>3, <2>1, Numbers
<1>. QED  BY <1>1, <1>4

(* Cells under keys that came before add nothing to the string.             *)
LEMMA NothingMore ==
  ASSUME NEW line \in Lines, NEW L \in Nat, L <= Len(line), L >= 1,
         Keys(line) = {KeyAt(i) : i \in 1 .. L}
  PROVE  Joined(line)[Len(line)] = Joined(line)[L]
<1>. DEFINE S == {n \in Nat : L + n <= Len(line) => Joined(line)[L + n] = Joined(line)[L]}
<1>1. Len(line) \in Nat
  BY LineType
<1>2. 0 \in S
  OBVIOUS
<1>3. ASSUME NEW n \in S PROVE n + 1 \in S
  <2>. SUFFICES ASSUME L + (n + 1) <= Len(line)
                PROVE  Joined(line)[L + (n + 1)] = Joined(line)[L]
    OBVIOUS
  <2>. DEFINE k == L + (n + 1)
  <2>1. /\ k \in 1 .. Len(line) /\ k - 1 = L + n /\ L + n <= Len(line)
        /\ \A m \in 1 .. L : m \in 1 .. k - 1
    BY <1>1
  <2>2. Joined(line)[L + n] = Joined(line)[L]
    BY <2>1
  <2>. HIDE DEF k
  <2>3. Repeated(k)
    <3>1. KeyAt(k) \in Keys(line)
      BY <2>1 DEF Keys
    <3>. QED  BY <2>1, <3>1 DEF Repeated
  <2>4. Joined(line)[k] = Joined(line)[k - 1]
    BY <2>1, <2>3, JoinedValues
  <2>. QED  BY <2>1, <2>2, <2>4 DEF k
<1>4. S = Nat
  <2>1. S \in SUBSET Nat
    OBVIOUS
  <2>. HIDE DEF S
  <2>. QED  BY <1>2, <1>3, <2>1, Numbers
<1>5. Len(line) - L \in Nat /\ L + (Len(line) - L) = Len(line)
  BY <1>1
<1>6. Len(line) - L \in S
  <2>. HIDE DEF S
  <2>. QED  BY <1>4, <1>5
<1>. QED  BY <1>1, <1>5, <1>6

(* A row that was not rejected has as many keys as the header has columns,   *)
(* so that all of them have the same keys.                                 *)
LEMMA SameKeys ==
  ASSUME NEW line \in Lines, NEW other \in Lines, ~Rejected(line), ~Rejected(other),
         Len(line) <= Len(other)
  PROVE  Keys(line) = Keys(other)
<1>1. /\ Cardinality(Keys(line)) = Len(Headers)
      /\ Cardinality(Keys(other)) = Len(Headers)
      /\ IsFiniteSet(Keys(other))
  BY RowType DEF Rejected
<1>2. \A i \in 1 .. Len(line) : i \in 1 .. Len(other)
  BY LineType
<1>3. Keys(line) \in SUBSET Keys(other)
  BY <1>2 DEF Keys
<1>. QED  BY <1>1, <1>3, FS_Subset

LEMMA DigestOfShorter ==
  ASSUME NEW line \in Lines, NEW other \in Lines, ~Rejected(line), ~Rejected(other),
         PlainValues(line), PlainValues(other), Len(line) <= Len(other)
  PROVE  (hashRow(line) = hashRow(other)) <=> (Row(line) = Row(other))
<1>1. Len(line) \in Nat /\ Len(line) >= 1
  BY LineType
<1>2. Keys(line) = Keys(other)
  BY SameKeys
<1>3. hashRow(other) = Joined(other)[Len(line)]
  BY <1>1, <1>2, NothingMore DEF hashRow, Keys
<1>4. (hashRow(line) = hashRow(other)) <=> Agree(line, other, Len(line))
  BY <1>3, JoinedTells DEF hashRow
<1>5. Agree(line, other, Len(line)) <=> \A k \in Keys(line) : Row(line)[k] = Row(other)[k]
  BY DEF Agree, Keys
<1>6. (Row(line) = Row(other)) <=> \A k \in Keys(line) : Row(line)[k] = Row(other)[k]
  <2>1. /\ DOMAIN Row(line) = Keys(line) /\ DOMAIN Row(other) = Keys(line)
        /\ Row(line) = [k \in DOMAIN Row(line) |-> Row(line)[k]]
        /\ Row(other) = [k \in DOMAIN Row(other) |-> Row(other)[k]]
    <3>1. DOMAIN Row(line) = Keys(line) /\ DOMAIN Row(other) = Keys(line)
      BY <1>2, RowType
    <3>2. \A l : Row(l) = [k \in DOMAIN Row(l) |-> Row(l)[k]]
      BY DEF Row
    <3>. QED  BY <3>1, <3>2
  <2>. QED  BY <2>1
<1>. QED  BY <1>4, <1>5, <1>6

(* Two valid rows have the same digest exactly if they are the same.        *)
LEMMA DigestsTellRows ==
  ASSUME TypeOK, NEW i \in ValidSoFar, NEW j \in ValidSoFar,
         Plain(Row(file[i])), Plain(Row(file[j]))
  PROVE  (hashRow(file[i]) = hashRow(file[j])) <=> (Row(file[i]) = Row(file[j]))
<1>1. /\ file[i] \in Lines /\ ~Rejected(file[i])
      /\ file[j] \in Lines /\ ~Rejected(file[j])
  BY LinesOfFiles DEF ValidSoFar
<1>2. PlainValues(file[i]) /\ PlainValues(file[j])
  BY <1>1, RowType DEF PlainValues, Plain, Keys
<1>3. Len(file[i]) <= Len(file[j]) \/ Len(file[j]) <= Len(file[i])
  BY <1>1, LineType
<1>. QED  BY <1>1, <1>2, <1>3, DigestOfShorter

ValuesOf(a, S) == {a[i] : i \in S}

(* There are at most as many values of a as of b, if a tells nothing apart  *)
(* that b does not.                                                        *)
LEMMA AtMostAsMany ==
  ASSUME NEW S, IsFiniteSet(S), NEW A, NEW B, NEW a \in [S -> A], NEW b \in [S -> B],
         \A i, j \in S : b[i] = b[j] => a[i] = a[j]
  PROVE  /\ IsFiniteSet(ValuesOf(a, S)) /\ IsFiniteSet(ValuesOf(b, S))
         /\ Cardinality(ValuesOf(a, S)) <= Cardinality(ValuesOf(b, S))
<1>. DEFINE X == {a[i] : i \in S}
            Y == {b[i] : i \in S}
            first(y) == CHOOSE i \in S : b[i] = y
            f == [y \in Y |-> a[first(y)]]
<1>1. ASSUME NEW i \in S PROVE first(b[i]) \in S /\ b[first(b[i])] = b[i]
  OBVIOUS
<1>2. ASSUME NEW i \in S PROVE b[i] \in Y /\ f[b[i]] = a[i]
  BY <1>1
<1>3. \A x \in X : \E i \in S : x = a[i]
  OBVIOUS
<1>4. \A y \in Y : \E i \in S : y = b[i]
  OBVIOUS
<1>5. \A i \in S : a[i] \in X
  OBVIOUS
<1>6. f = [y \in Y |-> f[y]]
  OBVIOUS
<1>7. b \in [S -> Y]
  OBVIOUS
<1>. HIDE DEF X, Y, f
<1>8. IsFiniteSet(Y)
  <2>1. b \in Surjection(S, Y)
    BY <1>4, <1>7 DEF Surjection
  <2>. QED  BY <2>1, FS_Surjection
<1>9. f \in [Y -> X]
  BY <1>2, <1>4, <1>5, <1>6
<1>10. f \in Surjection(Y, X)
  BY <1>2, <1>3, <1>9 DEF Surjection
<1>11. IsFiniteSet(X) /\ Cardinality(X) <= Cardinality(Y)
  BY <1>8, <1>10, FS_Surjection
<1>. QED  BY <1>8, <1>11 DEF X, Y, ValuesOf

LEMMA SameCount ==
  ASSUME NEW S, IsFiniteSet(S), NEW A, NEW B, NEW a \in [S -> A], NEW b \in [S -> B],
         \A i, j \in S : (a[i] = a[j]) <=> (b[i] = b[j])
  PROVE  Cardinality(ValuesOf(a, S)) = Cardinality(ValuesOf(b, S))
<1>1. /\ IsFiniteSet(ValuesOf(a, S)) /\ IsFiniteSet(ValuesOf(b, S))
      /\ Cardinality(ValuesOf(a, S)) <= Cardinality(ValuesOf(b, S))
  BY AtMostAsMany
<1>2. Cardinality(ValuesOf(b, S)) <= Cardinality(ValuesOf(a, S))
  BY AtMostAsMany
<1>3. Cardinality(ValuesOf(a, S)) \in Nat /\ Cardinality(ValuesOf(b, S)) \in Nat
  BY <1>1, FS_CardinalityType
<1>. QED  BY <1>1, <1>2, <1>3

(* The different digests are as many as the different rows.                 *)
LEMMA ExactCount ==
  ASSUME CsvInv
  PROVE  DuplicatesExact
<1>. SUFFICES ASSUME strategy = "hash", \A i \in ValidSoFar : Plain(Row(file[i]))
              PROVE  validRows = Cardinality({Row(file[i]) : i \in ValidSoFar})
  BY DEF DuplicatesExact
<1>. DEFINE S == ValidSoFar
            a == [i \in S |-> hashRow(file[i])]
            b == [i \in S |-> Row(file[i])]
            A == {hashRow(file[i]) : i \in S}
            B == {Row(file[i]) : i \in S}
<1>1. TypeOK /\ validRows = Cardinality(DigestsSoFar)
  BY DEF CsvInv, DetectorInv
<1>2. IsFiniteSet(S)
  <2>1. IsFiniteSet(1 .. position)
    BY <1>1, FS_Interval DEF TypeOK
  <2>. QED  BY <2>1, FS_Subset DEF ValidSoFar
<1>3. \A i, j \in S : (a[i] = a[j]) <=> (b[i] = b[j])
  BY <1>1, DigestsTellRows
<1>4. a \in [S -> A] /\ b \in [S -> B]
  OBVIOUS
<1>5. ValuesOf(a, S) = DigestsSoFar /\ ValuesOf(b, S) = B
  BY DEF DigestsSoFar, ValuesOf
<1>6. Cardinality(ValuesOf(a, S)) = Cardinality(ValuesOf(b, S))
  <2>. HIDE DEF S, a, b, A, B
  <2>. QED  BY <1>2, <1>3, <1>4, SameCount
<1>. QED  BY <1>1, <1>5, <1>6

(* The hash detector's count of valid rows is the number of different rows,  *)
(* for any file, any header and any rules, whatever the streams do, as long  *)
(* as no value has the separator that hashRow puts between them.           *)
THEOREM HashDetectorExact == Spec => []DuplicatesExact
<1>1. CsvInv => DuplicatesExact
  BY ExactCount
<1>. QED  BY <1>1, Invariance, PTL

-----------------------------------------------------------------------------
(* The report of the file.  Every rejected row so far is counted.           *)
CountInv == invalidRows = Cardinality(Errors)

LEMMA CountStep ==
  ASSUME CsvInv, CountInv, OnData
  PROVE  CountInv'
<1>. DEFINE n == position + 1
<1>1. TypeOK /\ IsFiniteSet(Errors) /\ Cardinality(Errors) \in Nat /\ n \notin Errors
  BY ErrorsFinite DEF CsvInv
<1>2. /\ Rejected(file[n]) => Errors' = Errors \cup {n} /\ invalidRows' = invalidRows + 1
      /\ ~Rejected(file[n]) => Errors' = Errors /\ invalidRows' = invalidRows
  BY <1>1, NextError DEF OnData
<1>. HIDE DEF n
<1>3. Cardinality(Errors \cup {n}) = Cardinality(Errors) + 1
  BY <1>1, FS_AddElement
<1>. QED  BY <1>2, <1>3 DEF CountInv

(* Rows that are alike have the same digest, with or without separators.    *)
LEMMA DigestOfAlike ==
  ASSUME NEW line \in Lines, NEW other \in Lines, Row(line) = Row(other),
         Len(line) <= Len(other)
  PROVE  hashRow(line) = hashRow(other)
<1>. DEFINE S == {n \in Nat : n <= Len(line) => Joined(line)[n] = Joined(other)[n]}
<1>1. /\ Len(line) \in Nat /\ Len(line) >= 1 /\ Len(other) \in Nat
      /\ Keys(line) = Keys(other)
  BY LineType, RowType
<1>2. 0 \in S
  BY JoinedValues
<1>3. ASSUME NEW n \in S PROVE n + 1 \in S
  <2>. SUFFICES ASSUME n + 1 <= Len(line) PROVE Joined(line)[n + 1] = Joined(other)[n + 1]
    OBVIOUS
  <2>. DEFINE k == n + 1
  <2>1. /\ n \in Nat /\ k \in 1 .. Len(line) /\ k \in 1 .. Len(other) /\ k - 1 = n
        /\ Joined(line)[n] = Joined(other)[n]
    BY <1>1
  <2>. HIDE DEF k, S
  <2>2. /\ Joined(line)[k] = IF Repeated(k) THEN Joined(line)[k - 1]
                             ELSE IF k = 1 THEN Row(line)[KeyAt(1)]
                             ELSE Joined(line)[k - 1] \o <<"|">> \o Row(line)[KeyAt(k)]
        /\ Joined(other)[k] = IF Repeated(k) THEN Joined(other)[k - 1]
                              ELSE IF k = 1 THEN Row(other)[KeyAt(1)]
                              ELSE Joined(other)[k - 1] \o <<"|">> \o Row(other)[KeyAt(k)]
    BY <2>1, JoinedValues
  <2>. QED  BY <2>1, <2>2 DEF k
<1>4. S = Nat
  <2>1. S \in SUBSET Nat
    OBVIOUS
  <2>. HIDE DEF S
  <2>. QED  BY <1>2, <1>3, <2>1, Numbers
<1>5. Joined(line)[Len(line)] = Joined(other)[Len(line)]
  BY <1>1, <1>4
<1>6. Joined(other)[Len(other)] = Joined(other)[Len(line)]
  BY <1>1, NothingMore DEF Keys
<1>. QED  BY <1>5, <1>6 DEF hashRow

LEMMA AtMostAsManyDigests ==
  ASSUME TypeOK
  PROVE  /\ IsFiniteSet({Row(file[i]) : i \in ValidSoFar})
         /\ Cardinality(DigestsSoFar) <= Cardinality({Row(file[i]) : i \in ValidSoFar})
<1>. DEFINE S == ValidSoFar
            a == [i \in S |-> hashRow(file[i])]
            b == [i \in S |-> Row(file[i])]
            A == {hashRow(file[i]) : i \in S}
            B == {Row(file[i]) : i \in S}
<1>1. IsFiniteSet(S)
  <2>1. IsFiniteSet(1 .. position)
    BY FS_Interval DEF TypeOK
  <2>. QED  BY <2>1, FS_Subset DEF ValidSoFar
<1>2. ASSUME NEW i \in S, NEW j \in S, Row(file[i]) = Row(file[j])
      PROVE  hashRow(file[i]) = hashRow(file[j])
  <2>1. file[i] \in Lines /\ file[j] \in Lines
    BY LinesOfFiles
  <2>2. Len(file[i]) <= Len(file[j]) \/ Len(file[j]) <= Len(file[i])
    BY <2>1, LineType
  <2>. QED  BY <1>2, <2>1, <2>2, DigestOfAlike
<1>3. a \in [S -> A] /\ b \in [S -> B] /\ \A i, j \in S : b[i] = b[j] => a[i] = a[j]
  BY <1>2
<1>4. ValuesOf(a, S) = DigestsSoFar /\ ValuesOf(b, S) = B
  BY DEF DigestsSoFar, ValuesOf
<1>5. /\ IsFiniteSet(ValuesOf(b, S))
      /\ Cardinality(ValuesOf(a, S)) <= Cardinality(ValuesOf(b, S))
  <2>. HIDE DEF S, a, b, A, B
  <2>. QED  BY <1>1, <1>3, AtMostAsMany
<1>. QED  BY <1>4, <1>5


(* The refinement mapping.                                                 *)
MappedRows == [i \in DOMAIN file |-> Row(file[i])]
MappedRejected == {i \in DOMAIN file : Rejected(file[i])}
MappedExact ==
  /\ strategy = "hash"
  /\ \A i \in DOMAIN file : ~Rejected(file[i]) => Plain(Row(file[i]))
MappedReport ==
  [totalRows     |-> IF promise = "resolved" THEN totalRows ELSE 0,
   validRows     |-> IF promise = "resolved" THEN validRows ELSE 0,
   invalidRows   |-> IF promise = "resolved" THEN invalidRows ELSE 0,
   duplicateRows |-> IF promise = "resolved" THEN duplicateRows ELSE 0,
   errorDetails  |-> IF promise = "resolved" THEN errorDetails ELSE <<>>]

(* Nothing changes the file, nor the counts once the promise is resolved.   *)
LEMMA FileStays ==
  ASSUME [Next]_vars
  PROVE  UNCHANGED <<MappedRows, MappedRejected, MappedExact>>
<1>1. UNCHANGED <<file, fileSize>>
  BY DEF Next, OnHeaders, OnData, SourceEnds, OnEnd, OnParserError, OnSourceError, vars
<1>2. UNCHANGED MappedRows
  BY <1>1 DEF MappedRows, Row, KeyAt
<1>3. UNCHANGED MappedRejected
  BY <1>1 DEF MappedRejected, Rejected, Row, Filled, KeyAt
<1>4. UNCHANGED MappedExact
  BY <1>1 DEF MappedExact, strategy, Rejected, Row, Filled, KeyAt, Plain
<1>. QED  BY <1>2, <1>3, <1>4

LEMMA PromiseMoves ==
  ASSUME CsvInv, [Next]_vars
  PROVE  \/ UNCHANGED <<promise, MappedReport>>
         \/ promise = "pending" /\ promise' = "rejected" /\ UNCHANGED MappedReport
         \/ promise = "pending" /\ promise' = "resolved" /\ OnEnd
<1>1. /\ promise \in {"pending", "resolved", "rejected"}
      /\ promise = "resolved" <=> parser = "ended"
      /\ promise = "rejected" <=> parser = "failed" \/ source = "failed"
      /\ parser = "ended" => source = "ended"
  BY DEF CsvInv, TypeOK, RowsInv
<1>2. CASE OnHeaders \/ SourceEnds \/ UNCHANGED vars
  BY <1>2 DEF OnHeaders, SourceEnds, vars, counts, MappedReport
<1>3. CASE OnData
  <2>1. promise = promise' /\ promise # "resolved"
    BY <1>1, <1>3 DEF OnData
  <2>. QED  BY <2>1 DEF MappedReport
<1>4. CASE OnEnd
  BY <1>1, <1>4 DEF OnEnd, Settle, counts, MappedReport
<1>5. CASE OnParserError \/ OnSourceError
  BY <1>1, <1>5 DEF OnParserError, OnSourceError, Settle, counts, MappedReport
<1>. QED  BY <1>2, <1>3, <1>4, <1>5 DEF Next

LEMMA CountOfReport == \A S : Report!Cardinality(S) = Cardinality(S)
  BY Zenon DEF Report!Cardinality, Cardinality

(* At the end every row has been read, and the counts describe the file.    *)
LEMMA LastRow ==
  ASSUME CsvInv, SamplesInv, CountInv, OnEnd, promise' = "resolved"
  PROVE  Report!Describes(MappedReport')
<1>. DEFINE Rows == {Row(file[i]) : i \in ValidSoFar}
<1>1. /\ TypeOK /\ RowsInv /\ DetectorInv /\ position = Len(file)
      /\ file \in Seq(Lines) /\ DOMAIN file = 1 .. Len(file)
      /\ UNCHANGED <<file, fileSize, counts>>
  <2>1. file \in Seq(Lines)
    BY CsvAssumption DEF CsvInv, TypeOK, CsvAssumption, Lines
  <2>. QED  BY <2>1 DEF CsvInv, OnEnd
<1>2. /\ MappedReport'.totalRows = totalRows
      /\ MappedReport'.validRows = validRows
      /\ MappedReport'.invalidRows = invalidRows
      /\ MappedReport'.duplicateRows = duplicateRows
      /\ MappedReport'.errorDetails = errorDetails
  BY <1>1 DEF MappedReport, counts
<1>3. {i \in DOMAIN file : Rejected(file[i])} = Errors
  BY <1>1 DEF Errors
<1>4. Len([i \in DOMAIN file |-> Row(file[i])]) = Len(file)
  BY <1>1
<1>5. Report!Accepted = ValidSoFar
  BY <1>1 DEF Report!Accepted, ValidSoFar
<1>6. Report!Different = Rows
  BY <1>1, <1>5 DEF Report!Different, ValidSoFar
<1>7. ASSUME NEW row PROVE Report!FirstRejected(row) = Before(Errors, row)
  BY <1>3 DEF Report!FirstRejected, Before
<1>8. /\ totalRows = Len(file)
      /\ totalRows = validRows + invalidRows + duplicateRows
      /\ invalidRows = Cardinality(Errors)
  BY <1>1 DEF RowsInv, CountInv
<1>9. validRows <= Cardinality(Rows) /\ (ValidSoFar # {} => validRows >= 1)
  <2>1. /\ Cardinality(DigestsSoFar) <= Cardinality(Rows)
        /\ Cardinality(DigestsSoFar) \in Nat /\ Cardinality(Rows) \in Nat
        /\ validRows \in Nat /\ validRows <= Cardinality(DigestsSoFar)
    <3>1. IsFiniteSet(Rows)
      BY <1>1, AtMostAsManyDigests
    <3>. QED  BY <1>1, <3>1, DigestsFinite, AtMostAsManyDigests, FS_CardinalityType DEF TypeOK, DetectorInv
  <2>. QED  BY <1>1, <2>1 DEF DetectorInv
<1>10. ASSUME strategy = "hash", \A i \in DOMAIN file : ~Rejected(file[i]) => Plain(Row(file[i]))
       PROVE  validRows = Cardinality(Rows)
  <2>1. \A i \in ValidSoFar : Plain(Row(file[i]))
    BY <1>1, <1>10 DEF ValidSoFar
  <2>. QED  BY <1>10, <2>1, ExactCount DEF DuplicatesExact
<1>. HIDE DEF Rows
<1>. QED  BY <1>1, <1>2, <1>3, <1>4, <1>5, <1>6, <1>7, <1>8, <1>9, <1>10, CountOfReport
          DEF Report!Describes, SamplesInv

(* processCsv implements CsvReport: the worker gets the report of the whole *)
(* file, once, or an error, for any file, rules, detector and faults.       *)
THEOREM ReportsAreKept == Spec => ReportKept
<1>1. Init => CountInv /\ SamplesInv /\ Report!Init
  <2>. SUFFICES ASSUME Init PROVE CountInv /\ SamplesInv /\ Report!Init
    OBVIOUS
  <2>1. Errors = {} /\ invalidRows = 0 /\ promise = "pending"
    BY DEF Init, Errors
  <2>2. CountInv
    BY <2>1, FS_EmptySet DEF CountInv
  <2>3. Report!Init
    BY <2>1 DEF Report!Init, Report!NoReport
  <2>. QED  BY <2>2, <2>3, InitSamples
<1>2. CsvInv /\ SamplesInv /\ CountInv /\ [Next]_vars => CountInv'
  <2>. SUFFICES ASSUME CsvInv, CountInv, [Next]_vars PROVE CountInv'
    OBVIOUS
  <2>1. CASE UNCHANGED <<file, position, invalidRows>>
    <3>1. Errors' = Errors
      BY <2>1 DEF Errors, Rejected, Row, Filled, KeyAt
    <3>. QED  BY <2>1, <3>1 DEF CountInv
  <2>2. OnData \/ UNCHANGED <<file, position, invalidRows>>
    BY DEF Next, OnHeaders, SourceEnds, OnEnd, OnParserError, OnSourceError, vars, counts
  <2>. QED  BY <2>1, <2>2, CountStep
<1>3. CsvInv /\ SamplesInv /\ CountInv /\ [Next]_vars => [Report!Next]_(Report!vars)
  <2>. SUFFICES ASSUME CsvInv, SamplesInv, CountInv, [Next]_vars
                PROVE  [Report!Next]_(Report!vars)
    OBVIOUS
  <2>1. UNCHANGED <<MappedRows, MappedRejected, MappedExact>>
    BY FileStays
  <2>2. CASE UNCHANGED <<promise, MappedReport>>
    BY <2>1, <2>2 DEF Report!vars, MappedRows, MappedRejected, MappedExact, MappedReport
  <2>3. CASE promise = "pending" /\ promise' = "rejected" /\ UNCHANGED MappedReport
    BY <2>1, <2>3 DEF Report!Next, Report!Reject, MappedRows, MappedRejected, MappedExact, MappedReport
  <2>4. CASE promise = "pending" /\ promise' = "resolved" /\ OnEnd
    <3>1. Report!Describes(MappedReport')
      BY <2>4, LastRow
    <3>. QED  BY <2>1, <2>4, <3>1
              DEF Report!Next, Report!Resolve, MappedRows, MappedRejected, MappedExact, MappedReport
  <2>. QED  BY <2>2, <2>3, <2>4, PromiseMoves
<1>. QED  BY <1>1, <1>2, <1>3, Invariance, SamplesInvariance, PTL DEF Spec, ReportKept, Report!Spec

=============================================================================
