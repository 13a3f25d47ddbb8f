------------------------------ MODULE CsvReport ------------------------------
(***************************************************************************)
(* What the worker may rely on about processCsv, with no stream, handler or *)
(* detector in sight: its promise is rejected, without a report, or         *)
(* resolved, once, with a report that describes the whole file.  The report *)
(* depends on nothing but the file, but for the duplicates that a Bloom     *)
(* filter sees too many of.                                                *)
(***************************************************************************)
EXTENDS Naturals, Sequences, FiniteSets

CONSTANT MaxErrorSamples

VARIABLES
  rows,      \* the row that each line of the file makes
  rejected,  \* the numbers of the rows that the validator rejects
  exact,     \* whether rows that differ are told apart
  promise,
  report     \* what the promise was resolved with

vars == <<rows, rejected, exact, promise, report>>

NoReport == [totalRows |-> 0, validRows |-> 0, invalidRows |-> 0,
             duplicateRows |-> 0, errorDetails |-> <<>>]

Accepted == DOMAIN rows \ rejected
Different == {rows[i] : i \in Accepted}
FirstRejected(row) == {i \in rejected : i < row}

(* Every row is counted once, under the reason that applies; of rows that   *)
(* are alike one is valid; the samples are the earliest rejected rows.      *)
Describes(r) ==
  /\ r.totalRows = Len(rows)
  /\ r.totalRows = r.validRows + r.invalidRows + r.duplicateRows
  /\ r.invalidRows = Cardinality(rejected)
  /\ r.validRows <= Cardinality(Different)
  /\ Accepted # {} => r.validRows >= 1
  /\ exact => r.validRows = Cardinality(Different)
  /\ Len(r.errorDetails) = IF MaxErrorSamples <= Cardinality(rejected)
                             THEN MaxErrorSamples ELSE Cardinality(rejected)
  /\ \A k \in DOMAIN r.errorDetails :
       /\ r.errorDetails[k] \in rejected
       /\ Cardinality(FirstRejected(r.errorDetails[k])) = k - 1

Init == promise = "pending" /\ report = NoReport

Resolve ==
  /\ promise = "pending"
  /\ promise' = "resolved"
  /\ Describes(report')
  /\ UNCHANGED <<rows, rejected, exact>>

Reject ==
  /\ promise = "pending"
  /\ promise' = "rejected"
  /\ UNCHANGED <<rows, rejected, exact, report>>

Next == Resolve \/ Reject

Spec == Init /\ [][Next]_vars
=============================================================================
