----------------------------- MODULE CsvProcessor -----------------------------
(***************************************************************************)
(* processCsv (src/processors/csv.processor.ts) over one file: the events of *)
(* the S3 stream and of csv-parser, the row validator (validator.ts), the    *)
(* duplicate detectors (duplicateDetector.ts) and the promise of the report. *)
(*                                                                         *)
(* A line is a sequence of cells, a cell a sequence of characters.  SHA-256 *)
(* is taken to be injective: a digest is the string it was computed from.   *)
(***************************************************************************)
EXTENDS Integers, Sequences, FiniteSets, SequencesExt

CONSTANTS
  Headers,        \* the file's header line: a sequence of column names
  Chars,          \* characters
  Cells,          \* sequences of characters
  Files,          \* what may follow the header: sequences of lines
  Rules,          \* IValidationRules, or NoRules for null
  NoRules,
  Blank,          \* the cells that trim() makes empty
  Typed,          \* [field types -> the cells validateType accepts]
  Matching,       \* [patterns -> the cells they match; none if no valid regex]
  FileSizes,      \* sizes the file document may record
  Threshold,      \* config.DUPLICATE_HASH_THRESHOLD_BYTES
  MaxErrorSamples,\* MAX_ERROR_SAMPLES
  Faults          \* subset of {"source", "parser"}

ASSUME CsvAssumption ==
  /\ Cells \subseteq Seq(Chars)
  /\ Files \subseteq Seq(Seq(Cells) \ {<<>>})
  /\ FileSizes \subseteq Nat
  /\ Threshold \in Nat
  /\ MaxErrorSamples \in Nat
  /\ Faults \subseteq {"source", "parser"}

VARIABLES
  file,              \* the lines of the file being processed
  fileSize,          \* File.size
  source,            \* the S3 stream: open, ended or failed
  parser,            \* csvStream: open, ended or failed
  headersInitialized,
  position,          \* lines csvStream has emitted as rows
  totalRows, validRows, invalidRows, duplicateRows,
  errorDetails,      \* the row numbers of the sampled errors
  present,           \* the digests for which the detector's `has` is true
  promise            \* pending, resolved (with the counts above) or rejected

counts == <<totalRows, validRows, invalidRows, duplicateRows, errorDetails, present>>
vars == <<file, fileSize, source, parser, headersInitialized, position,
          totalRows, validRows, invalidRows, duplicateRows, errorDetails, present,
          promise>>

-----------------------------------------------------------------------------
(* validator.ts                                                            *)

(* csv-parser keys a cell by its column's name, and by its index beyond the *)
(* last column; a later cell under a key replaces an earlier one.           *)
KeyAt(i) == IF i <= Len(Headers) THEN Headers[i] ELSE i

Row(line) ==
  [k \in {KeyAt(i) : i \in DOMAIN line} |->
     line[CHOOSE i \in DOMAIN line :
            KeyAt(i) = k /\ \A m \in DOMAIN line : KeyAt(m) = k => m <= i]]

Filled(row, field) == field \in DOMAIN row /\ row[field] \notin Blank

(* validateRow's early returns, by whether there is one.                   *)
Rejected(line) ==
  LET row == Row(line) IN
  \/ Cardinality(DOMAIN row) # Len(Headers)
  \/ \A k \in DOMAIN row : ~Filled(row, k)
  \/ /\ Rules # NoRules
     /\ \/ \E f \in Rules.requiredFields : ~Filled(row, f)
        \/ \E f \in DOMAIN Rules.fieldTypes :
             Filled(row, f) /\ row[f] \notin Typed[Rules.fieldTypes[f]]
        \/ \E f \in DOMAIN Rules.customPatterns :
             Filled(row, f) /\ row[f] \notin Matching[Rules.customPatterns[f]]

-----------------------------------------------------------------------------
(* duplicateDetector.ts                                                    *)

(* Mutant: the values are joined with nothing between them.                 *)
HashOfConcatenation(line) == FlattenSeq(line)

(* Object.values(row).join('|'), of the keys among the first n cells: a key   *)
(* has the place where it first comes, and the value that came last.  (That *)
(* names that are numbers come first is so in every row, and left out.)     *)
Joined(line) ==
  LET Join[n \in 0 .. Len(line)] ==
        IF n = 0 THEN <<>>
        ELSE IF \E m \in 1 .. n - 1 : KeyAt(m) = KeyAt(n) THEN Join[n - 1]
        ELSE IF n = 1 THEN Row(line)[KeyAt(1)]
        ELSE Join[n - 1] \o <<"|">> \o Row(line)[KeyAt(n)]
  IN  Join

hashRow(line) == Joined(line)[Len(line)]

Digests == {hashRow(file[i]) : i \in DOMAIN file}

strategy == IF fileSize < Threshold THEN "hash" ELSE "bloom"

(* Mutant: the row is not remembered.                                      *)
AddNothing(digest) == present' = present

(* A Set holds what was added.  The bits that a Bloom filter sets for one   *)
(* digest may make it answer for others, from then on.                     *)
Add(digest) ==
  IF strategy = "hash"
    THEN present' = present \cup {digest}
    ELSE \E others \in SUBSET Digests : present' = present \cup {digest} \cup others

(* The sample of the rejected rows.  (Mutant: one more than the limit.)     *)
SampleOneMore(row) ==
  errorDetails' = IF Len(errorDetails) <= MaxErrorSamples
                    THEN Append(errorDetails, row) ELSE errorDetails

Sample(row) ==
  errorDetails' = IF Len(errorDetails) < MaxErrorSamples
                    THEN Append(errorDetails, row) ELSE errorDetails

-----------------------------------------------------------------------------
Init ==
  /\ file \in Files
  /\ fileSize \in FileSizes
  /\ source = "open"
  /\ parser = "open"
  /\ headersInitialized = FALSE
  /\ position = 0
  /\ totalRows = 0 /\ validRows = 0 /\ invalidRows = 0 /\ duplicateRows = 0
  /\ errorDetails = <<>>
  /\ present = {}
  /\ promise = "pending"

(* A promise settles once; later calls of resolve and reject do nothing.    *)
Settle(outcome) == promise' = IF promise = "pending" THEN outcome ELSE promise

(* csv-parser emits the headers before any row.                            *)
OnHeaders ==
  /\ parser = "open"
  /\ ~headersInitialized
  /\ headersInitialized' = TRUE
  /\ UNCHANGED <<file, fileSize, source, parser, position, counts, promise>>

(* Mutant: without the `return` after a duplicate.                         *)
OnDataFallThrough ==
  LET line == file[position + 1] IN
  /\ parser = "open" /\ headersInitialized /\ position < Len(file)
  /\ position' = position + 1
  /\ totalRows' = totalRows + 1
  /\ ~Rejected(line)
  /\ duplicateRows' = duplicateRows + (IF hashRow(line) \in present THEN 1 ELSE 0)
  /\ Add(hashRow(line))
  /\ validRows' = validRows + 1
  /\ UNCHANGED <<file, fileSize, source, parser, headersInitialized, invalidRows,
                 errorDetails, promise>>

(* The 'data' handler.  Rows that were parsed before the source failed are  *)
(* still emitted after the promise was rejected.                           *)
OnData ==
  LET line == file[position + 1]
      digest == hashRow(line)
  IN
  /\ parser = "open"
  /\ headersInitialized
  /\ position < Len(file)
  /\ position' = position + 1
  /\ totalRows' = totalRows + 1
  /\ \/ /\ Rejected(line)
        /\ invalidRows' = invalidRows + 1
        /\ Sample(totalRows + 1)
        /\ UNCHANGED <<validRows, duplicateRows, present>>
     \/ /\ ~Rejected(line)
        /\ digest \in present
        /\ duplicateRows' = duplicateRows + 1
        /\ UNCHANGED <<validRows, invalidRows, errorDetails, present>>
     \/ /\ ~Rejected(line)
        /\ digest \notin present
        /\ Add(digest)
        /\ validRows' = validRows + 1
        /\ UNCHANGED <<invalidRows, duplicateRows, errorDetails>>
  /\ UNCHANGED <<file, fileSize, source, parser, headersInitialized, promise>>

(* pipe ends csvStream when the source ends, never when it fails.          *)
SourceEnds ==
  /\ source = "open"
  /\ source' = "ended"
  /\ UNCHANGED <<file, fileSize, parser, headersInitialized, position, counts, promise>>

OnEnd ==
  /\ parser = "open"
  /\ source = "ended"
  /\ position = Len(file)
  /\ parser' = "ended"
  /\ Settle("resolved")
  /\ UNCHANGED <<file, fileSize, source, headersInitialized, position, counts>>

OnParserError ==
  /\ "parser" \in Faults
  /\ parser = "open"
  /\ parser' = "failed"
  /\ Settle("rejected")
  /\ UNCHANGED <<file, fileSize, source, headersInitialized, position, counts>>

(* Mutant: pipe is left to forward the error of the source.                 *)
OnSourceErrorUnheard ==
  /\ "source" \in Faults
  /\ source = "open"
  /\ source' = "failed"
  /\ UNCHANGED <<file, fileSize, parser, headersInitialized, position, counts, promise>>

OnSourceError ==
  /\ "source" \in Faults
  /\ source = "open"
  /\ source' = "failed"
  /\ Settle("rejected")
  /\ UNCHANGED <<file, fileSize, parser, headersInitialized, position, counts>>

Next ==
  \/ OnHeaders \/ OnData \/ SourceEnds \/ OnEnd \/ OnParserError \/ OnSourceError

Spec == Init /\ [][Next]_vars

(* An S3 stream ends or fails (config/s3.ts sets no timeout: this is the    *)
(* storage's promise, not the code's), and csvStream delivers what it got.  *)
FairSpec ==
  /\ Spec
  /\ WF_vars(SourceEnds \/ OnSourceError)
  /\ WF_vars(OnHeaders \/ OnData \/ OnEnd)
-----------------------------------------------------------------------------
(* Properties                                                              *)

TypeOK ==
  /\ file \in Files
  /\ fileSize \in FileSizes
  /\ source \in {"open", "ended", "failed"}
  /\ parser \in {"open", "ended", "failed"}
  /\ headersInitialized \in BOOLEAN
  /\ position \in Nat /\ position <= Len(file)
  /\ totalRows \in Nat /\ validRows \in Nat /\ invalidRows \in Nat
  /\ duplicateRows \in Nat
  /\ errorDetails \in Seq(Nat)
  /\ present \subseteq Digests
  /\ promise \in {"pending", "resolved", "rejected"}

(* The valid rows that were emitted so far, and their digests.             *)
ValidSoFar == {i \in 1 .. position : ~Rejected(file[i])}
DigestsSoFar == {hashRow(file[i]) : i \in ValidSoFar}

(* The samples are the first MAX_ERROR_SAMPLES rejected rows, in order and  *)
(* under their numbers in the file.                                        *)
SamplesAreFirstErrors ==
  LET rejected == {i \in 1 .. position : Rejected(file[i])} IN
  /\ Len(errorDetails) = Min({MaxErrorSamples, Cardinality(rejected)})
  /\ \A k \in DOMAIN errorDetails :
       /\ errorDetails[k] \in rejected
       /\ Cardinality({i \in rejected : i < errorDetails[k]}) = k - 1

(* The hash detector is exact (README.md:138): the valid rows it counts are *)
(* the different ones, as long as no value has the separator of hashRow.    *)
Plain(row) == \A k \in DOMAIN row : \A i \in 1 .. Len(row[k]) : row[k][i] # "|"

DuplicatesExact ==
  strategy = "hash" /\ (\A i \in ValidSoFar : Plain(Row(file[i]))) =>
    validRows = Cardinality({Row(file[i]) : i \in ValidSoFar})

(* Neither detector ever counts a repeated row twice; the Bloom filter may  *)
(* take a new row for a duplicate, but not the first one.                  *)
NoDuplicateMissed ==
  /\ validRows <= Cardinality(DigestsSoFar)
  /\ ValidSoFar # {} => validRows >= 1

(* The abstract specification, seen through the counters.  What the promise *)
(* is resolved with are their values at that moment.                       *)
Report == INSTANCE CsvReport WITH
  rows <- [i \in DOMAIN file |-> Row(file[i])],
  rejected <- {i \in DOMAIN file : Rejected(file[i])},
  exact <- /\ strategy = "hash"
           /\ \A i \in DOMAIN file : ~Rejected(file[i]) => Plain(Row(file[i])),
  report <- [totalRows     |-> IF promise = "resolved" THEN totalRows ELSE 0,
             validRows     |-> IF promise = "resolved" THEN validRows ELSE 0,
             invalidRows   |-> IF promise = "resolved" THEN invalidRows ELSE 0,
             duplicateRows |-> IF promise = "resolved" THEN duplicateRows ELSE 0,
             errorDetails  |-> IF promise = "resolved" THEN errorDetails ELSE <<>>]

(* Whatever the two streams do, the worker is given the report of the whole *)
(* file or an error, and a report that it was given does not change (it     *)
(* shares errorDetails with the handlers).                                 *)
ReportKept == Report!Spec

(* Without rules, a row is only rejected for a number of cells other than   *)
(* the header's, which is what the reason says, or for being empty.        *)
MismatchIsReal ==
  Rules = NoRules =>
    \A k \in DOMAIN errorDetails :
      LET line == file[errorDetails[k]] IN
      Len(line) # Len(Headers) \/ \A i \in DOMAIN line : line[i] \in Blank

(* The worker's await on processCsv ends, whichever stream fails.          *)
PromiseSettles == <>(promise # "pending")

-----------------------------------------------------------------------------
(* The inductive invariant                                                 *)

RowsInv ==
  /\ totalRows = position
  /\ totalRows = validRows + invalidRows + duplicateRows
  /\ promise = "resolved" <=> parser = "ended"
  /\ promise = "rejected" <=> parser = "failed" \/ source = "failed"
  /\ parser = "ended" => source = "ended" /\ position = Len(file)

DetectorInv ==
  /\ DigestsSoFar \subseteq present
  /\ validRows <= Cardinality(DigestsSoFar)
  /\ ValidSoFar # {} \/ present # {} => validRows >= 1
  /\ strategy = "hash" => present = DigestsSoFar /\ validRows = Cardinality(present)

CsvInv == TypeOK /\ RowsInv /\ DetectorInv
=============================================================================
