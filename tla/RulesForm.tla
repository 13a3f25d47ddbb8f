------------------------------ MODULE RulesForm ------------------------------
(***************************************************************************)
(* The validation-rules form of the upload zone (ValidationRulesForm.tsx and *)
(* its three editors in dashboard/src/components/upload/).                  *)
(*                                                                         *)
(* The same rules are kept three times: as the rows of the editors, which   *)
(* exist only while the panel is expanded; as the form's own state; and in  *)
(* the ref of UploadZone that a file takes its rules from.  A row's `error` *)
(* is always that of its pattern, so it is computed.                       *)
(***************************************************************************)
EXTENDS Integers, FiniteSets, SequencesExt

CONSTANTS
  Texts,         \* what may stand in the input for a name
  PatternTexts,  \* and in the input for a pattern
  Blank,         \* the empty text, of both
  Trim,          \* [Texts \cup PatternTexts -> the text without its outer spaces]
  Compiling,     \* the pattern texts of which `new RegExp` makes an expression
  FieldTypes,    \* TYPE_OPTIONS
  DefaultType,   \* 'string'
  MaxRules       \* bound: the rows and the required fields of the form

ASSUME RulesFormAssumption ==
  /\ Blank \in Texts \cap PatternTexts
  /\ \A t \in Texts : Trim[t] \in Texts /\ Trim[Trim[t]] = Trim[t]
  /\ \A t \in PatternTexts : Trim[t] \in PatternTexts /\ Trim[Trim[t]] = Trim[t]
  /\ Trim[Blank] = Blank
  /\ DefaultType \in FieldTypes
  /\ MaxRules \in Nat

VARIABLES
  expanded,        \* the panel of the form is open
  requiredFields,  \* the form's state: a set of names,
  fieldTypes,      \* a type for some names,
  customPatterns,  \* a pattern for some names
  typeRows,        \* the rows of FieldTypesEditor
  patternRows,     \* the rows of CustomPatternsEditor
  rulesRef         \* validationRulesRef.current of UploadZone

form == <<expanded, requiredFields, fieldTypes, customPatterns, typeRows, patternRows, rulesRef>>

NoRules == [required |-> {}, types |-> <<>>, patterns |-> <<>>]

FormInit ==
  /\ expanded = FALSE
  /\ requiredFields = {} /\ fieldTypes = <<>> /\ customPatterns = <<>>
  /\ typeRows = <<>> /\ patternRows = <<>>
  /\ rulesRef = NoRules

-----------------------------------------------------------------------------
Name(row) == Trim[row.name]

(* The rows that count, by name; of several with one name, the last.        *)
ByName(rows, counted) ==
  [n \in {Name(rows[i]) : i \in counted} |->
     LET last == CHOOSE i \in counted :
           Name(rows[i]) = n /\ \A k \in counted : k > i => Name(rows[k]) # n
     IN  rows[last].value]

(* validateRegex, on the text as it was typed.                             *)
HasError(row) == Trim[row.value] # Blank /\ row.value \notin Compiling

TypeRecord(rows) == ByName(rows, {i \in DOMAIN rows : Name(rows[i]) # Blank})

PatternRecord(rows) ==
  LET record == ByName(rows, {i \in DOMAIN rows : /\ Name(rows[i]) # Blank
                                                 /\ Trim[rows[i].value] # Blank
                                                 /\ ~HasError(rows[i])})
  IN  [n \in DOMAIN record |-> Trim[record[n]]]

(* Mutant: the editors start empty.                                        *)
RowsOfNone(record) == {<<>>}

(* An editor is mounted with a row for each entry of the form's state, in   *)
(* the order of Object.entries, which is not always that of insertion.      *)
RowsOf(record) ==
  {[i \in DOMAIN names |-> [name |-> names[i], value |-> record[names[i]]]] :
     names \in SetToSeqs(DOMAIN record)}

Edits == Len(typeRows) + Len(patternRows) + Cardinality(requiredFields)

-----------------------------------------------------------------------------
(* A handler of the form sets its state and hands all of it to UploadZone.   *)
Emit(fields, types, patterns) ==
  /\ requiredFields' = fields /\ fieldTypes' = types /\ customPatterns' = patterns
  /\ rulesRef' = [required |-> fields, types |-> types, patterns |-> patterns]
  /\ UNCHANGED expanded

AddField(text) ==
  /\ expanded
  /\ Edits < MaxRules
  /\ Trim[text] \notin requiredFields \cup {Blank}
  /\ Emit(requiredFields \cup {Trim[text]}, fieldTypes, customPatterns)
  /\ UNCHANGED <<typeRows, patternRows>>

RemoveField(name) ==
  /\ expanded
  /\ name \in requiredFields
  /\ Emit(requiredFields \ {name}, fieldTypes, customPatterns)
  /\ UNCHANGED <<typeRows, patternRows>>

(* updateAndEmit of FieldTypesEditor.                                      *)
SetTypeRows(rows) ==
  /\ expanded
  /\ typeRows' = rows
  /\ Emit(requiredFields, TypeRecord(rows), customPatterns)
  /\ UNCHANGED patternRows

AddTypeRow == Edits < MaxRules /\ SetTypeRows(Append(typeRows, [name |-> Blank, value |-> DefaultType]))
RenameTypeRow(i, text) == SetTypeRows([typeRows EXCEPT ![i].name = text])
ChooseType(i, type) == SetTypeRows([typeRows EXCEPT ![i].value = type])
RemoveTypeRow(i) == SetTypeRows(RemoveAt(typeRows, i))

(* updateAndEmit of CustomPatternsEditor.                                  *)
SetPatternRows(rows) ==
  /\ expanded
  /\ patternRows' = rows
  /\ Emit(requiredFields, fieldTypes, PatternRecord(rows))
  /\ UNCHANGED typeRows

AddPatternRow == Edits < MaxRules /\ SetPatternRows(Append(patternRows, [name |-> Blank, value |-> Blank]))
RenamePatternRow(i, text) == SetPatternRows([patternRows EXCEPT ![i].name = text])
TypePattern(i, text) == SetPatternRows([patternRows EXCEPT ![i].value = text])
RemovePatternRow(i) == SetPatternRows(RemoveAt(patternRows, i))

(* Collapsing the panel unmounts the editors, with the rows that did not    *)
(* count; expanding it mounts them anew.                                   *)
Toggle ==
  /\ expanded' = ~expanded
  /\ IF expanded
     THEN typeRows' = <<>> /\ patternRows' = <<>>
     ELSE typeRows' \in RowsOf(fieldTypes) /\ patternRows' \in RowsOf(customPatterns)
  /\ UNCHANGED <<requiredFields, fieldTypes, customPatterns, rulesRef>>

EditFields == \E t \in Texts : AddField(t) \/ RemoveField(t)

EditTypes ==
  \/ AddTypeRow
  \/ \E i \in DOMAIN typeRows :
       \/ \E t \in Texts \ {typeRows[i].name} : RenameTypeRow(i, t)
       \/ \E t \in FieldTypes \ {typeRows[i].value} : ChooseType(i, t)
       \/ RemoveTypeRow(i)

EditPatterns ==
  \/ AddPatternRow
  \/ \E i \in DOMAIN patternRows :
       \/ \E t \in Texts \ {patternRows[i].name} : RenamePatternRow(i, t)
       \/ \E t \in PatternTexts \ {patternRows[i].value} : TypePattern(i, t)
       \/ RemovePatternRow(i)

EditForm == EditFields \/ EditTypes \/ EditPatterns \/ Toggle

-----------------------------------------------------------------------------
(* Properties                                                              *)

Valid(patterns) == {n \in DOMAIN patterns : patterns[n] \in Compiling}

(* Records that agree but for patterns that do not compile.                 *)
SamePatterns(p, q) == Valid(p) = Valid(q) /\ \A n \in Valid(p) : p[n] = q[n]

(* The rules that a file chosen now should get are those the page shows:    *)
(* what was typed, collapsed, expanded and edited again is neither lost nor *)
(* brought back.  Patterns that only compile with their outer spaces are     *)
(* left out: they are sent trimmed, and shown as invalid once the panel has *)
(* been closed and opened.                                                 *)
ShownIsSent ==
  /\ rulesRef.required = requiredFields
  /\ rulesRef.types = IF expanded THEN TypeRecord(typeRows) ELSE fieldTypes
  /\ SamePatterns(rulesRef.patterns,
                  IF expanded THEN PatternRecord(patternRows) ELSE customPatterns)
=============================================================================
