--------------------------- MODULE UploadZoneProofs ---------------------------
(* Proofs about RulesForm and UploadZone, for any texts, rules and files.   *)
EXTENDS UploadZone, FiniteSetTheorems, SequenceTheorems, TLAPS

(* SetToSeqs lists every element once.                                     *)
LEMMA NamesCover ==
  ASSUME NEW S, IsFiniteSet(S), NEW names \in SetToSeqs(S)
  PROVE  /\ Cardinality(S) \in Nat
         /\ DOMAIN names = 1 .. Cardinality(S)
         /\ \A i \in DOMAIN names : names[i] \in S
         /\ \A i, k \in DOMAIN names : names[i] = names[k] => i = k
         /\ \A n \in S : \E i \in DOMAIN names : names[i] = n
<1>1. /\ names \in [1 .. Cardinality(S) -> S]
      /\ \A i, k \in 1 .. Cardinality(S) : names[i] = names[k] => i = k
  BY DEF SetToSeqs
<1>2. Cardinality(S) \in Nat
  BY FS_CardinalityType
<1>3. IsFiniteSet(1 .. Cardinality(S)) /\ Cardinality(1 .. Cardinality(S)) = Cardinality(S)
  BY <1>2, FS_Interval
<1>4. names \in Injection(1 .. Cardinality(S), S)
  BY <1>1 DEF Injection, IsInjective
<1>5. names \in Surjection(1 .. Cardinality(S), S)
  BY <1>3, <1>4, FS_Injection
<1>6. \A n \in S : \E i \in 1 .. Cardinality(S) : names[i] = n
  BY <1>5 DEF Surjection
<1>. QED  BY <1>1, <1>2, <1>6

(* Rows made from a record have its names and values.                      *)
LEMMA RowsOfRecord ==
  ASSUME NEW record, IsFiniteSet(DOMAIN record), \A n \in DOMAIN record : Trim[n] = n,
         NEW rows \in RowsOf(record)
  PROVE  /\ Cardinality(DOMAIN record) \in Nat
         /\ DOMAIN rows = 1 .. Cardinality(DOMAIN record)
         /\ rows = [i \in DOMAIN rows |-> rows[i]]
         /\ \A i \in DOMAIN rows : /\ Name(rows[i]) \in DOMAIN record
                                   /\ rows[i] = [name |-> Name(rows[i]), value |-> record[Name(rows[i])]]
         /\ \A i, k \in DOMAIN rows : Name(rows[i]) = Name(rows[k]) => i = k
         /\ \A n \in DOMAIN record : \E i \in DOMAIN rows : Name(rows[i]) = n
<1>1. PICK names \in SetToSeqs(DOMAIN record) :
        rows = [i \in DOMAIN names |-> [name |-> names[i], value |-> record[names[i]]]]
  BY DEF RowsOf
<1>2. /\ Cardinality(DOMAIN record) \in Nat
      /\ DOMAIN names = 1 .. Cardinality(DOMAIN record)
      /\ \A i \in DOMAIN names : names[i] \in DOMAIN record
      /\ \A i, k \in DOMAIN names : names[i] = names[k] => i = k
      /\ \A n \in DOMAIN record : \E i \in DOMAIN names : names[i] = n
  BY NamesCover
<1>3. DOMAIN rows = DOMAIN names /\ rows = [i \in DOMAIN rows |-> rows[i]]
  BY <1>1
<1>4. \A i \in DOMAIN names : /\ rows[i] = [name |-> names[i], value |-> record[names[i]]]
                              /\ Name(rows[i]) = names[i]
  BY <1>1, <1>2 DEF Name
<1>. QED  BY <1>2, <1>3, <1>4

(* A finite set of numbers has a greatest: the numbers of elements above     *)
(* each are different, so one of them is zero.                             *)
LEMMA Greatest ==
  ASSUME NEW S \in SUBSET Int, IsFiniteSet(S), S # {}
  PROVE  \E m \in S : \A k \in S : k <= m
<1>. DEFINE Above(i) == {k \in S : k > i}
            count == [i \in S |-> Cardinality(Above(i))]
            size == Cardinality(S)
<1>1. /\ size \in Nat \ {0}
      /\ IsFiniteSet(0 .. size - 1)
      /\ Cardinality(0 .. size - 1) = size
  <2>1. size \in Nat
    BY FS_CardinalityType
  <2>2. size # 0
    BY FS_EmptySet
  <2>. HIDE DEF size
  <2>3. size - 1 \in Int /\ ~(0 > size - 1) /\ (size - 1) - 0 + 1 = size
    BY <2>1, <2>2
  <2>4. IsFiniteSet(0 .. size - 1) /\ Cardinality(0 .. size - 1) = size
    BY <2>3, FS_Interval
  <2>. QED  BY <2>1, <2>2, <2>4
<1>2. ASSUME NEW i \in S
      PROVE  IsFiniteSet(Above(i)) /\ Cardinality(Above(i)) \in 0 .. size - 1
  <2>1. Above(i) \in SUBSET S /\ Above(i) # S
    OBVIOUS
  <2>2. IsFiniteSet(Above(i)) /\ Cardinality(Above(i)) <= size /\ Cardinality(Above(i)) # size
    BY <2>1, FS_Subset
  <2>3. Cardinality(Above(i)) \in Nat
    BY <2>2, FS_CardinalityType
  <2>. QED  BY <1>1, <2>2, <2>3
<1>3. ASSUME NEW i \in S, NEW k \in S, i < k
      PROVE  count[i] # count[k]
  <2>1. Above(k) \in SUBSET Above(i) /\ Above(k) # Above(i)
    <3>1. k \in Above(i) /\ k \notin Above(k)
      BY <1>3
    <3>2. \A l \in S : l > k => l > i
      BY <1>3
    <3>. QED  BY <3>1, <3>2
  <2>2. IsFiniteSet(Above(i)) /\ count[i] = Cardinality(Above(i)) /\ count[k] = Cardinality(Above(k))
    BY <1>2
  <2>. HIDE DEF Above, count
  <2>3. Cardinality(Above(i)) # Cardinality(Above(k))
    BY <2>1, <2>2, FS_Subset
  <2>. QED  BY <2>2, <2>3
<1>4. count \in Injection(S, 0 .. size - 1)
  <2>1. \A i, k \in S : count[i] = count[k] => i = k
    <3>. SUFFICES ASSUME NEW i \in S, NEW k \in S, i # k
                  PROVE  count[i] # count[k]
      OBVIOUS
    <3>1. i < k \/ k < i
      OBVIOUS
    <3>. QED  BY <1>3, <3>1
  <2>2. count \in [S -> 0 .. size - 1]
    BY <1>2
  <2>. QED  BY <2>1, <2>2 DEF Injection, IsInjective
<1>5. count \in Surjection(S, 0 .. size - 1)
  BY <1>1, <1>4, FS_Injection
<1>6. PICK m \in S : count[m] = 0
  <2>1. 0 \in 0 .. size - 1
    BY <1>1
  <2>. HIDE DEF count
  <2>. QED  BY <1>5, <2>1 DEF Surjection
<1>7. Above(m) = {}
  BY <1>2, <1>6, FS_EmptySet
<1>. QED  BY <1>7

(* Each name of ByName is that of a row, and has the value of such a row,   *)
FromRows(record, rows, counted) ==
  /\ IsFiniteSet(DOMAIN record)
  /\ \A i \in counted : Name(rows[i]) \in DOMAIN record
  /\ \A n \in DOMAIN record :
       \E i \in counted : Name(rows[i]) = n /\ record[n] = rows[i].value

LEMMA ByNameValues ==
  ASSUME NEW rows, NEW counted \in SUBSET Nat, IsFiniteSet(counted)
  PROVE  FromRows(ByName(rows, counted), rows, counted)
<1>1. DOMAIN ByName(rows, counted) = {Name(rows[i]) : i \in counted}
  BY DEF ByName
<1>2. IsFiniteSet({Name(rows[i]) : i \in counted})
  <2>1. [i \in counted |-> Name(rows[i])] \in Surjection(counted, {Name(rows[i]) : i \in counted})
    BY DEF Surjection
  <2>. QED  BY <2>1, FS_Surjection
<1>3. ASSUME NEW n \in {Name(rows[i]) : i \in counted}
      PROVE  \E i \in counted : Name(rows[i]) = n /\ ByName(rows, counted)[n] = rows[i].value
  <2>. DEFINE IsLast(i) == Name(rows[i]) = n /\ \A k \in counted : k > i => Name(rows[k]) # n
              named == {k \in counted : Name(rows[k]) = n}
  <2>1. \E i \in counted : IsLast(i)
    <3>1. named \in SUBSET counted /\ named \in SUBSET Int /\ named # {}
      OBVIOUS
    <3>2. IsFiniteSet(named)
      BY <3>1, FS_Subset
    <3>3. PICK m \in named : \A k \in named : k <= m
      BY <3>1, <3>2, Greatest
    <3>. QED  BY <3>3
  <2>2. PICK last \in counted : last = CHOOSE i \in counted : IsLast(i)
    BY <2>1
  <2>3. IsLast(last)
    BY <2>1, <2>2
  <2>4. ByName(rows, counted)[n] = rows[last].value
    BY <2>2 DEF ByName
  <2>. QED  BY <2>3, <2>4
<1>. QED  BY <1>1, <1>2, <1>3 DEF FromRows

(* and of rows with different names, its only row's.                       *)
LEMMA ByNameOnly ==
  ASSUME NEW rows, NEW counted \in SUBSET Nat, IsFiniteSet(counted),
         \A i, k \in counted : Name(rows[i]) = Name(rows[k]) => i = k
  PROVE  \A i \in counted : ByName(rows, counted)[Name(rows[i])] = rows[i].value
<1>. SUFFICES ASSUME NEW i \in counted
              PROVE  ByName(rows, counted)[Name(rows[i])] = rows[i].value
  OBVIOUS
<1>. DEFINE record == ByName(rows, counted)
<1>1. FromRows(record, rows, counted)
  BY ByNameValues
<1>. HIDE DEF record
<1>2. PICK k \in counted : Name(rows[k]) = Name(rows[i]) /\ record[Name(rows[i])] = rows[k].value
  BY <1>1 DEF FromRows
<1>3. record[Name(rows[i])] = rows[i].value
  BY <1>2
<1>. QED  BY <1>3 DEF record

-----------------------------------------------------------------------------
TypeRow == [name : Texts, value : FieldTypes]
PatternRow == [name : Texts, value : PatternTexts]
TrimmedPatterns == {t \in PatternTexts : Trim[t] = t /\ t # Blank}

(* A record of the form's state: trimmed names and allowed values.         *)
Proper(record, values) ==
  /\ IsFiniteSet(DOMAIN record)
  /\ record = [n \in DOMAIN record |-> record[n]]
  /\ \A n \in DOMAIN record : n \in Texts /\ Trim[n] = n /\ n # Blank /\ record[n] \in values

LEMMA RowNumbers ==
  ASSUME NEW Rows, NEW rows \in Seq(Rows), NEW S, S \subseteq DOMAIN rows
  PROVE  S \in SUBSET Nat /\ IsFiniteSet(S)
<1>1. DOMAIN rows = 1 .. Len(rows) /\ Len(rows) \in Nat
  OBVIOUS
<1>2. IsFiniteSet(DOMAIN rows)
  BY <1>1, FS_Interval
<1>3. IsFiniteSet(S)
  BY <1>2, FS_Subset
<1>4. \A i \in S : i \in Nat
  BY <1>1
<1>. QED  BY <1>3, <1>4

LEMMA TypeRecordProper ==
  ASSUME RulesFormAssumption, NEW rows \in Seq(TypeRow)
  PROVE  Proper(TypeRecord(rows), FieldTypes)
<1>. DEFINE counted == {i \in DOMAIN rows : Name(rows[i]) # Blank}
            record == ByName(rows, counted)
<1>1. counted \in SUBSET Nat /\ IsFiniteSet(counted)
  <2>1. counted \subseteq DOMAIN rows
    OBVIOUS
  <2>. HIDE DEF counted, record
  <2>. QED  BY <2>1, RowNumbers
<1>2. \A i \in counted : rows[i] \in TypeRow
  BY <1>1
<1>3. \A i \in counted : LET n == Name(rows[i]) IN n \in Texts /\ Trim[n] = n /\ n # Blank
  BY <1>2 DEF Name, TypeRow, RulesFormAssumption
<1>. HIDE DEF counted
<1>4. FromRows(record, rows, counted)
  BY <1>1, ByNameValues
<1>5. record = [n \in DOMAIN record |-> record[n]]
  BY DEF ByName
<1>. HIDE DEF record
<1>6. \A n \in DOMAIN record : n \in Texts /\ Trim[n] = n /\ n # Blank /\ record[n] \in FieldTypes
  BY <1>2, <1>3, <1>4 DEF TypeRow, FromRows
<1>7. TypeRecord(rows) = record
  BY DEF TypeRecord, record, counted
<1>. QED  BY <1>4, <1>5, <1>6, <1>7 DEF Proper, FromRows

LEMMA PatternRecordProper ==
  ASSUME RulesFormAssumption, NEW rows \in Seq(PatternRow)
  PROVE  Proper(PatternRecord(rows), TrimmedPatterns)
<1>. DEFINE counted == {i \in DOMAIN rows : /\ Name(rows[i]) # Blank
                                           /\ Trim[rows[i].value] # Blank
                                           /\ ~HasError(rows[i])}
            record == ByName(rows, counted)
<1>1. counted \in SUBSET Nat /\ IsFiniteSet(counted)
  <2>1. counted \subseteq DOMAIN rows
    OBVIOUS
  <2>. HIDE DEF counted, record
  <2>. QED  BY <2>1, RowNumbers
<1>2. \A i \in counted : rows[i] \in PatternRow
  BY <1>1
<1>3. \A i \in counted : LET n == Name(rows[i]) IN n \in Texts /\ Trim[n] = n /\ n # Blank
  BY <1>2 DEF Name, PatternRow, RulesFormAssumption
<1>4. \A i \in counted : Trim[rows[i].value] \in TrimmedPatterns
  BY <1>2 DEF PatternRow, TrimmedPatterns, RulesFormAssumption
<1>. HIDE DEF counted
<1>5. FromRows(record, rows, counted)
  BY <1>1, ByNameValues
<1>. HIDE DEF record
<1>6. \A n \in DOMAIN record : /\ n \in Texts /\ Trim[n] = n /\ n # Blank
                               /\ Trim[record[n]] \in TrimmedPatterns
  BY <1>3, <1>4, <1>5 DEF FromRows
<1>7. PatternRecord(rows) = [n \in DOMAIN record |-> Trim[record[n]]]
  BY DEF PatternRecord, record, counted
<1>. QED  BY <1>5, <1>6, <1>7 DEF Proper, FromRows

(* A form that is opened shows what its state has.                         *)
LEMMA TypesBack ==
  ASSUME NEW record, Proper(record, FieldTypes), NEW rows \in RowsOf(record)
  PROVE  rows \in Seq(TypeRow) /\ TypeRecord(rows) = record
<1>1. /\ Cardinality(DOMAIN record) \in Nat
      /\ DOMAIN rows = 1 .. Cardinality(DOMAIN record)
      /\ rows = [i \in DOMAIN rows |-> rows[i]]
      /\ \A i \in DOMAIN rows : /\ Name(rows[i]) \in DOMAIN record
                                /\ rows[i] = [name |-> Name(rows[i]), value |-> record[Name(rows[i])]]
      /\ \A i, k \in DOMAIN rows : Name(rows[i]) = Name(rows[k]) => i = k
      /\ \A n \in DOMAIN record : \E i \in DOMAIN rows : Name(rows[i]) = n
  BY RowsOfRecord DEF Proper
<1>2. \A i \in DOMAIN rows : rows[i] \in TypeRow
  BY <1>1 DEF Proper, TypeRow
<1>3. rows \in Seq(TypeRow)
  BY <1>1, <1>2
<1>4. {i \in DOMAIN rows : Name(rows[i]) # Blank} = DOMAIN rows
  BY <1>1 DEF Proper
<1>5. TypeRecord(rows) = ByName(rows, DOMAIN rows)
  BY <1>4 DEF TypeRecord
<1>6. DOMAIN rows \in SUBSET Nat /\ IsFiniteSet(DOMAIN rows)
  BY <1>1, FS_Interval
<1>. DEFINE back == ByName(rows, DOMAIN rows)
<1>7. FromRows(back, rows, DOMAIN rows)
  BY <1>6, ByNameValues
<1>8. \A i \in DOMAIN rows : back[Name(rows[i])] = rows[i].value
  BY <1>1, <1>6, ByNameOnly
<1>9. back = [n \in DOMAIN back |-> back[n]]
  BY DEF ByName
<1>. HIDE DEF back
<1>10. DOMAIN back = DOMAIN record
  <2>1. \A n : n \in DOMAIN back <=> n \in DOMAIN record
    BY <1>1, <1>7 DEF FromRows
  <2>. QED  BY <2>1
<1>11. \A n \in DOMAIN record : back[n] = record[n]
  BY <1>1, <1>8
<1>12. back = record
  BY <1>9, <1>10, <1>11 DEF Proper
<1>. QED  BY <1>3, <1>5, <1>12 DEF back

LEMMA PatternsBack ==
  ASSUME NEW record, Proper(record, TrimmedPatterns), NEW rows \in RowsOf(record)
  PROVE  rows \in Seq(PatternRow) /\ SamePatterns(record, PatternRecord(rows))
<1>1. /\ Cardinality(DOMAIN record) \in Nat
      /\ DOMAIN rows = 1 .. Cardinality(DOMAIN record)
      /\ rows = [i \in DOMAIN rows |-> rows[i]]
      /\ \A i \in DOMAIN rows : /\ Name(rows[i]) \in DOMAIN record
                                /\ rows[i] = [name |-> Name(rows[i]), value |-> record[Name(rows[i])]]
      /\ \A i, k \in DOMAIN rows : Name(rows[i]) = Name(rows[k]) => i = k
      /\ \A n \in DOMAIN record : \E i \in DOMAIN rows : Name(rows[i]) = n
  BY RowsOfRecord DEF Proper
<1>2. \A i \in DOMAIN rows : rows[i] \in PatternRow
  BY <1>1 DEF Proper, PatternRow, TrimmedPatterns
<1>3. rows \in Seq(PatternRow)
  BY <1>1, <1>2
<1>. DEFINE counted == {i \in DOMAIN rows : /\ Name(rows[i]) # Blank
                                           /\ Trim[rows[i].value] # Blank
                                           /\ ~HasError(rows[i])}
            back == ByName(rows, counted)
<1>4. \A i \in DOMAIN rows : i \in counted <=> record[Name(rows[i])] \in Compiling
  BY <1>1 DEF Proper, HasError, TrimmedPatterns
<1>5. counted \in SUBSET DOMAIN rows /\ counted \in SUBSET Nat /\ IsFiniteSet(DOMAIN rows)
  BY <1>1, FS_Interval
<1>6. PatternRecord(rows) = [n \in DOMAIN back |-> Trim[back[n]]]
  BY DEF PatternRecord
<1>. HIDE DEF counted
<1>7. IsFiniteSet(counted)
  BY <1>5, FS_Subset
<1>8. FromRows(back, rows, counted)
  BY <1>5, <1>7, ByNameValues
<1>9. \A i \in counted : back[Name(rows[i])] = rows[i].value
  BY <1>1, <1>5, <1>7, ByNameOnly
<1>. HIDE DEF back
<1>10. \A n : n \in DOMAIN back <=> n \in Valid(record)
  BY <1>1, <1>4, <1>5, <1>8 DEF FromRows, Valid
<1>11. \A n \in DOMAIN back : n \in DOMAIN record /\ Trim[back[n]] = record[n]
  BY <1>1, <1>5, <1>8, <1>9 DEF FromRows, Proper, TrimmedPatterns
<1>12. \A n \in DOMAIN back : PatternRecord(rows)[n] = record[n] /\ record[n] \in Compiling
  BY <1>6, <1>10, <1>11 DEF Valid
<1>13. Valid(PatternRecord(rows)) = Valid(record)
  BY <1>6, <1>10, <1>12 DEF Valid
<1>. QED  BY <1>3, <1>10, <1>12, <1>13 DEF SamePatterns

-----------------------------------------------------------------------------
(* The form hands over all of its state, and its rows, while there are any, *)
(* make that state.                                                        *)
FormInv ==
  /\ rulesRef = [required |-> requiredFields, types |-> fieldTypes, patterns |-> customPatterns]
  /\ Proper(fieldTypes, FieldTypes) /\ Proper(customPatterns, TrimmedPatterns)
  /\ typeRows \in Seq(TypeRow) /\ patternRows \in Seq(PatternRow)
  /\ expanded => /\ TypeRecord(typeRows) = fieldTypes
                 /\ SamePatterns(customPatterns, PatternRecord(patternRows))

LEMMA NoRulesInv ==
  ASSUME ~expanded, fieldTypes = <<>>, customPatterns = <<>>, requiredFields = {},
         typeRows = <<>>, patternRows = <<>>, rulesRef = NoRules
  PROVE  FormInv
<1>1. DOMAIN <<>> = {} /\ IsFiniteSet({}) /\ <<>> = [n \in DOMAIN <<>> |-> <<>>[n]]
  BY FS_EmptySet
<1>2. Proper(<<>>, FieldTypes) /\ Proper(<<>>, TrimmedPatterns)
  BY <1>1 DEF Proper
<1>. QED  BY <1>2 DEF FormInv, NoRules

LEMMA FieldsStep ==
  ASSUME FormInv, EditFields
  PROVE  FormInv'
<1>1. PICK t : AddField(t) \/ RemoveField(t)
  BY DEF EditFields
<1>2. /\ UNCHANGED <<expanded, fieldTypes, customPatterns, typeRows, patternRows>>
      /\ rulesRef' = [required |-> requiredFields', types |-> fieldTypes, patterns |-> customPatterns]
  BY <1>1 DEF AddField, RemoveField, Emit
<1>. QED  BY <1>2 DEF FormInv

LEMMA RowRemoved ==
  ASSUME NEW S, NEW rows \in Seq(S), NEW i \in DOMAIN rows
  PROVE  RemoveAt(rows, i) \in Seq(S)
<1>1. SubSeq(rows, 1, i - 1) \in Seq(S) /\ SubSeq(rows, i + 1, Len(rows)) \in Seq(S)
  BY SubSeqProperties
<1>. QED  BY <1>1 DEF RemoveAt

LEMMA TypesStep ==
  ASSUME RulesFormAssumption, FormInv, EditTypes
  PROVE  FormInv'
<1>1. typeRows \in Seq(TypeRow)
  BY DEF FormInv
<1>2. PICK rows \in Seq(TypeRow) : SetTypeRows(rows)
  <2>1. CASE AddTypeRow
    <3>1. [name |-> Blank, value |-> DefaultType] \in TypeRow
      BY DEF RulesFormAssumption, TypeRow
    <3>2. Append(typeRows, [name |-> Blank, value |-> DefaultType]) \in Seq(TypeRow)
      BY <1>1, <3>1
    <3>. QED  BY <2>1, <3>2 DEF AddTypeRow
  <2>2. ASSUME NEW i \in DOMAIN typeRows, NEW t \in Texts, RenameTypeRow(i, t)
        PROVE  \E rows \in Seq(TypeRow) : SetTypeRows(rows)
    <3>1. typeRows[i] \in TypeRow
      BY <1>1
    <3>2. [typeRows[i] EXCEPT !.name = t] \in TypeRow
      BY <3>1 DEF TypeRow
    <3>3. [typeRows EXCEPT ![i].name = t] \in Seq(TypeRow)
      BY <1>1, <3>2
    <3>. QED  BY <2>2, <3>3 DEF RenameTypeRow
  <2>3. ASSUME NEW i \in DOMAIN typeRows, NEW t \in FieldTypes, ChooseType(i, t)
        PROVE  \E rows \in Seq(TypeRow) : SetTypeRows(rows)
    <3>1. typeRows[i] \in TypeRow
      BY <1>1
    <3>2. [typeRows[i] EXCEPT !.value = t] \in TypeRow
      BY <3>1 DEF TypeRow
    <3>3. [typeRows EXCEPT ![i].value = t] \in Seq(TypeRow)
      BY <1>1, <3>2
    <3>. QED  BY <2>3, <3>3 DEF ChooseType
  <2>4. ASSUME NEW i \in DOMAIN typeRows, RemoveTypeRow(i)
        PROVE  \E rows \in Seq(TypeRow) : SetTypeRows(rows)
    BY <1>1, <2>4, RowRemoved DEF RemoveTypeRow
  <2>. QED  BY <2>1, <2>2, <2>3, <2>4 DEF EditTypes
<1>3. /\ typeRows' = rows
      /\ fieldTypes' = TypeRecord(rows)
      /\ UNCHANGED <<expanded, requiredFields, customPatterns, patternRows>>
      /\ rulesRef' = [required |-> requiredFields, types |-> fieldTypes', patterns |-> customPatterns]
  BY <1>2 DEF SetTypeRows, Emit
<1>4. TypeRecord(typeRows)' = TypeRecord(rows) /\ PatternRecord(patternRows)' = PatternRecord(patternRows)
  BY <1>3 DEF TypeRecord, PatternRecord, ByName, Name, HasError
<1>. QED  BY <1>3, <1>4, TypeRecordProper DEF FormInv

LEMMA PatternsStep ==
  ASSUME RulesFormAssumption, FormInv, EditPatterns
  PROVE  FormInv'
<1>1. patternRows \in Seq(PatternRow)
  BY DEF FormInv
<1>2. PICK rows \in Seq(PatternRow) : SetPatternRows(rows)
  <2>1. CASE AddPatternRow
    <3>1. [name |-> Blank, value |-> Blank] \in PatternRow
      BY DEF RulesFormAssumption, PatternRow
    <3>2. Append(patternRows, [name |-> Blank, value |-> Blank]) \in Seq(PatternRow)
      BY <1>1, <3>1
    <3>. QED  BY <2>1, <3>2 DEF AddPatternRow
  <2>2. ASSUME NEW i \in DOMAIN patternRows, NEW t \in Texts, RenamePatternRow(i, t)
        PROVE  \E rows \in Seq(PatternRow) : SetPatternRows(rows)
    <3>1. patternRows[i] \in PatternRow
      BY <1>1
    <3>2. [patternRows[i] EXCEPT !.name = t] \in PatternRow
      BY <3>1 DEF PatternRow
    <3>3. [patternRows EXCEPT ![i].name = t] \in Seq(PatternRow)
      BY <1>1, <3>2
    <3>. QED  BY <2>2, <3>3 DEF RenamePatternRow
  <2>3. ASSUME NEW i \in DOMAIN patternRows, NEW t \in PatternTexts, TypePattern(i, t)
        PROVE  \E rows \in Seq(PatternRow) : SetPatternRows(rows)
    <3>1. patternRows[i] \in PatternRow
      BY <1>1
    <3>2. [patternRows[i] EXCEPT !.value = t] \in PatternRow
      BY <3>1 DEF PatternRow
    <3>3. [patternRows EXCEPT ![i].value = t] \in Seq(PatternRow)
      BY <1>1, <3>2
    <3>. QED  BY <2>3, <3>3 DEF TypePattern
  <2>4. ASSUME NEW i \in DOMAIN patternRows, RemovePatternRow(i)
        PROVE  \E rows \in Seq(PatternRow) : SetPatternRows(rows)
    BY <1>1, <2>4, RowRemoved DEF RemovePatternRow
  <2>. QED  BY <2>1, <2>2, <2>3, <2>4 DEF EditPatterns
<1>3. /\ patternRows' = rows
      /\ customPatterns' = PatternRecord(rows)
      /\ UNCHANGED <<expanded, requiredFields, fieldTypes, typeRows>>
      /\ rulesRef' = [required |-> requiredFields, types |-> fieldTypes, patterns |-> customPatterns']
  BY <1>2 DEF SetPatternRows, Emit
<1>4. SamePatterns(PatternRecord(rows), PatternRecord(rows))
  BY DEF SamePatterns
<1>. QED  BY <1>3, <1>4, PatternRecordProper DEF FormInv

LEMMA ToggleStep ==
  ASSUME RulesFormAssumption, FormInv, Toggle
  PROVE  FormInv'
<1>1. UNCHANGED <<requiredFields, fieldTypes, customPatterns, rulesRef>>
  BY DEF Toggle
<1>2. CASE expanded
  <2>1. typeRows' = <<>> /\ patternRows' = <<>> /\ ~expanded'
    BY <1>2 DEF Toggle
  <2>. QED  BY <1>1, <2>1 DEF FormInv
<1>3. CASE ~expanded
  <2>1. typeRows' \in RowsOf(fieldTypes) /\ patternRows' \in RowsOf(customPatterns)
    BY <1>3 DEF Toggle
  <2>2. Proper(fieldTypes, FieldTypes) /\ Proper(customPatterns, TrimmedPatterns)
    BY DEF FormInv
  <2>3. PICK types \in RowsOf(fieldTypes), patterns \in RowsOf(customPatterns) :
          typeRows' = types /\ patternRows' = patterns
    BY <2>1
  <2>4. types \in Seq(TypeRow) /\ TypeRecord(types) = fieldTypes
    BY <2>2, TypesBack
  <2>5. patterns \in Seq(PatternRow) /\ SamePatterns(customPatterns, PatternRecord(patterns))
    BY <2>2, PatternsBack
  <2>. QED  BY <1>1, <2>3, <2>4, <2>5 DEF FormInv
<1>. QED  BY <1>2, <1>3

LEMMA FormStep ==
  ASSUME RulesFormAssumption, FormInv, EditForm
  PROVE  FormInv'
BY FieldsStep, TypesStep, PatternsStep, ToggleStep DEF EditForm

LEMMA LeaveStep ==
  ASSUME Leave
  PROVE  FormInv'
<1>1. DOMAIN <<>> = {} /\ IsFiniteSet({}) /\ <<>> = [n \in DOMAIN <<>> |-> <<>>[n]]
  BY FS_EmptySet
<1>2. Proper(<<>>, FieldTypes) /\ Proper(<<>>, TrimmedPatterns)
  BY <1>1 DEF Proper
<1>. QED  BY <1>2 DEF FormInv, Leave, NoRules

LEMMA SamePatternsReflexive == \A p : SamePatterns(p, p)
BY DEF SamePatterns

-----------------------------------------------------------------------------
(* The rules an upload closes over are those that were shown, the schemas    *)
(* agree on the size, and a job has the rules of its upload.                *)
IsRules(rules) ==
  rules = [required |-> rules.required, types |-> rules.types, patterns |-> rules.patterns]

Consistent(upload, object, job) ==
  /\ upload = [pc |-> upload.pc, size |-> upload.size, rules |-> upload.rules,
               priority |-> upload.priority, shown |-> upload.shown]
  /\ IsRules(upload.rules) /\ IsRules(upload.shown)
  /\ upload.rules.required = upload.shown.required
  /\ upload.rules.types = upload.shown.types
  /\ SamePatterns(upload.rules.patterns, upload.shown.patterns)
  /\ upload.pc \in {"none", "presign"} => object = "none"
  /\ upload.pc \in {"none", "presign", "put", "confirm"} => job = NoJob
  /\ upload.pc \in {"put", "confirm"} => PresignAccepts(upload.size)
  /\ job # NoJob => job = [rules |-> Sanitized(upload.rules), priority |-> upload.priority]
  /\ upload.pc = "refused" /\ object # "none" =>
       \E n \in OddNames :
         n \in DOMAIN upload.rules.types \cup DOMAIN upload.rules.patterns

UploadInv(u) == Consistent(uploads[u], objects[u], jobs[u])

ZInv ==
  /\ FormInv
  /\ DOMAIN uploads = Uploads /\ DOMAIN objects = Uploads /\ DOMAIN jobs = Uploads
  /\ \A u \in Uploads : UploadInv(u)

(* Only upload u moves.                                                    *)
LEMMA OneMoves ==
  ASSUME ZInv, NEW u \in Uploads, UNCHANGED form, UploadInv(u)',
         DOMAIN uploads' = Uploads, DOMAIN objects' = Uploads, DOMAIN jobs' = Uploads,
         \A v \in Uploads \ {u} : /\ uploads'[v] = uploads[v]
                                  /\ objects'[v] = objects[v]
                                  /\ jobs'[v] = jobs[v]
  PROVE  ZInv'
<1>1. FormInv'
  BY DEF ZInv, FormInv, form
<1>2. ASSUME NEW v \in Uploads PROVE UploadInv(v)'
  <2>1. CASE v = u
    BY <2>1
  <2>2. CASE v # u
    <3>1. uploads'[v] = uploads[v] /\ objects'[v] = objects[v] /\ jobs'[v] = jobs[v] /\ UploadInv(v)
      BY <2>2 DEF ZInv
    <3>. QED  BY <3>1 DEF UploadInv
  <2>. QED  BY <2>1, <2>2
<1>. QED  BY <1>1, <1>2 DEF ZInv

At(upload, pc) ==
  [pc |-> pc, size |-> upload.size, rules |-> upload.rules,
   priority |-> upload.priority, shown |-> upload.shown]

LEMMA GoToEffect ==
  ASSUME ZInv, NEW u \in Uploads, NEW pc, GoTo(u, pc)
  PROVE  /\ DOMAIN uploads' = Uploads
         /\ \A v \in Uploads \ {u} : uploads'[v] = uploads[v]
         /\ uploads'[u] = At(uploads[u], pc)
<1>1. DOMAIN uploads = Uploads /\ uploads[u] = At(uploads[u], uploads[u].pc)
  BY DEF ZInv, UploadInv, Consistent, At
<1>2. uploads' = [uploads EXCEPT ![u] = [uploads[u] EXCEPT !.pc = pc]]
  BY DEF GoTo
<1>3. [uploads[u] EXCEPT !.pc = pc] = At(uploads[u], pc)
  BY <1>1 DEF At
<1>. QED  BY <1>1, <1>2, <1>3

LEMMA ChooseStep ==
  ASSUME ZInv, NEW u \in Uploads, NEW list \in FileLists, ChooseFiles(u, list)
  PROVE  ZInv'
<1>. DEFINE x == [pc |-> "presign", size |-> Head(list).size, rules |-> rulesRef,
                  priority |-> priority, shown |-> ShownRules]
<1>1. /\ uploads' = [uploads EXCEPT ![u] = x]
      /\ UNCHANGED <<form, objects, jobs>>
      /\ objects[u] = "none" /\ jobs[u] = NoJob
  BY DEF ChooseFiles, ZInv, UploadInv, Consistent
<1>2. uploads'[u] = x /\ objects'[u] = "none" /\ jobs'[u] = NoJob
  BY <1>1 DEF ZInv
<1>3. /\ IsRules(rulesRef) /\ IsRules(ShownRules)
      /\ rulesRef.required = ShownRules.required
      /\ rulesRef.types = ShownRules.types
      /\ SamePatterns(rulesRef.patterns, ShownRules.patterns)
  BY SamePatternsReflexive DEF ZInv, FormInv, IsRules, ShownRules
<1>4. Consistent(x, "none", NoJob)
  BY <1>3 DEF Consistent
<1>. QED  BY <1>1, <1>2, <1>4, OneMoves DEF ZInv, UploadInv

(* A call that ends forgets what it closed over; it has made no job.        *)
LEMMA FailStep ==
  ASSUME ZInv, NEW u \in Uploads, uploads[u].pc \in {"presign", "confirm"},
         Fail(u), UNCHANGED <<form, objects, jobs>>
  PROVE  ZInv'
<1>. DEFINE x == [Unused EXCEPT !.pc = "failed"]
<1>1. /\ uploads' = [uploads EXCEPT ![u] = x]
      /\ x = At(Unused, "failed")
  BY DEF Fail, Unused, At
<1>2. jobs[u] = NoJob
  BY DEF ZInv, UploadInv, Consistent
<1>3. Consistent(At(Unused, "failed"), objects[u], NoJob)
  BY SamePatternsReflexive DEF Consistent, At, Unused, IsRules, NoRules
<1>. HIDE DEF x
<1>. QED  BY <1>1, <1>2, <1>3, OneMoves DEF ZInv, UploadInv

LEMMA PresignStep ==
  ASSUME ZInv, NEW u \in Uploads, Presign(u)
  PROVE  ZInv'
<1>. DEFINE pc == IF PresignAccepts(uploads[u].size) THEN "put" ELSE "refused"
<1>1. uploads[u].pc = "presign" /\ GoTo(u, pc) /\ UNCHANGED <<form, objects, jobs>>
  BY DEF Presign
<1>2. Consistent(uploads[u], objects[u], jobs[u])
  BY DEF ZInv, UploadInv
<1>3. Consistent(At(uploads[u], pc), objects[u], jobs[u])
  BY <1>1, <1>2 DEF Consistent, At
<1>. HIDE DEF pc
<1>. QED  BY <1>1, <1>3, GoToEffect, OneMoves DEF ZInv, UploadInv

LEMMA PutStep ==
  ASSUME ZInv, NEW u \in Uploads, Put(u)
  PROVE  ZInv'
<1>1. /\ uploads[u].pc = "put"
      /\ GoTo(u, "confirm")
      /\ objects' = [objects EXCEPT ![u] = "unconfirmed"]
      /\ UNCHANGED <<form, jobs>>
  BY DEF Put
<1>2. Consistent(uploads[u], objects[u], jobs[u])
  BY DEF ZInv, UploadInv
<1>3. Consistent(At(uploads[u], "confirm"), "unconfirmed", jobs[u])
  BY <1>1, <1>2 DEF Consistent, At
<1>4. objects'[u] = "unconfirmed"
  BY <1>1 DEF ZInv
<1>. QED  BY <1>1, <1>3, <1>4, GoToEffect, OneMoves DEF ZInv, UploadInv

LEMMA ConfirmStep ==
  ASSUME ZInv, NEW u \in Uploads, Confirm(u)
  PROVE  ZInv'
<1>. DEFINE rules == Sanitized(uploads[u].rules)
            job == [rules |-> rules, priority |-> uploads[u].priority]
<1>1. Consistent(uploads[u], objects[u], jobs[u])
  BY DEF ZInv, UploadInv
<1>2. uploads[u].pc = "confirm" /\ UNCHANGED form
  BY DEF Confirm
<1>3. ConfirmAccepts(uploads[u].size)
  BY <1>1, <1>2 DEF Consistent, PresignAccepts, ConfirmAccepts
<1>4. \/ Fail(u) /\ UNCHANGED <<objects, jobs>>
      \/ /\ objects' = [objects EXCEPT ![u] = "confirmed"]
         /\ IF MapAccepts(rules.types) /\ MapAccepts(rules.patterns)
            THEN GoTo(u, "done") /\ jobs' = [jobs EXCEPT ![u] = job]
            ELSE GoTo(u, "refused") /\ jobs' = jobs
  BY <1>3 DEF Confirm
<1>5. CASE Fail(u) /\ UNCHANGED <<objects, jobs>>
  BY <1>2, <1>5, FailStep
<1>6. ASSUME objects' = [objects EXCEPT ![u] = "confirmed"],
             MapAccepts(rules.types) /\ MapAccepts(rules.patterns),
             GoTo(u, "done"), jobs' = [jobs EXCEPT ![u] = job]
      PROVE  ZInv'
  <2>1. objects'[u] = "confirmed"
    BY <1>6 DEF ZInv
  <2>2. jobs'[u] = job
    BY <1>6 DEF ZInv
  <2>3. Consistent(At(uploads[u], "done"), "confirmed", job)
    BY <1>1 DEF Consistent, At
  <2>. QED  BY <1>2, <1>6, <2>1, <2>2, <2>3, GoToEffect, OneMoves DEF ZInv, UploadInv
<1>7. ASSUME objects' = [objects EXCEPT ![u] = "confirmed"],
             ~(MapAccepts(rules.types) /\ MapAccepts(rules.patterns)),
             GoTo(u, "refused"), jobs' = jobs
      PROVE  ZInv'
  <2>1. objects'[u] = "confirmed"
    BY <1>7 DEF ZInv
  <2>2. /\ rules.types = WithoutNames(uploads[u].rules.types, DollarNames)
        /\ rules.patterns = WithoutNames(uploads[u].rules.patterns, DollarNames)
    BY DEF Sanitized
  <2>3. \E n \in OddNames :
          n \in DOMAIN uploads[u].rules.types \cup DOMAIN uploads[u].rules.patterns
    BY <1>7, <2>2 DEF MapAccepts, WithoutNames
  <2>4. Consistent(At(uploads[u], "refused"), "confirmed", jobs[u])
    BY <1>1, <1>2, <2>3 DEF Consistent, At
  <2>. QED  BY <1>2, <1>7, <2>1, <2>4, GoToEffect, OneMoves DEF ZInv, UploadInv
<1>. QED  BY <1>4, <1>5, <1>6, <1>7

-----------------------------------------------------------------------------
(* The invariant holds in every state: for any texts, rules and files.      *)
THEOREM Invariance == Spec => []ZInv
<1>1. Init => ZInv
  <2>. SUFFICES ASSUME Init PROVE ZInv
    OBVIOUS
  <2>1. FormInv
    BY NoRulesInv DEF Init, FormInit
  <2>2. Consistent(Unused, "none", NoJob)
    BY SamePatternsReflexive DEF Consistent, Unused, IsRules, NoRules
  <2>. QED  BY <2>1, <2>2 DEF Init, ZInv, UploadInv
<1>2. ZInv /\ [Next]_vars => ZInv'
  <2>. SUFFICES ASSUME ZInv, [Next]_vars PROVE ZInv'
    OBVIOUS
  <2>1. CASE Edit
    <3>1. FormInv' /\ UNCHANGED zone
      BY <2>1, RulesFormAssumption, FormStep DEF Edit, ZInv
    <3>. QED  BY <3>1 DEF ZInv, UploadInv, zone
  <2>2. ASSUME NEW p \in Priorities, ChoosePriority(p)
        PROVE  ZInv'
    BY <2>2 DEF ChoosePriority, ZInv, FormInv, UploadInv, form
  <2>3. CASE Leave
    BY <2>3, LeaveStep DEF Leave, ZInv, UploadInv
  <2>4. CASE UNCHANGED vars
    BY <2>4 DEF vars, zone, form, ZInv, FormInv, UploadInv
  <2>5. ASSUME NEW u \in Uploads, TurnAway(u)
        PROVE  ZInv'
    BY <2>5, FailStep DEF TurnAway
  <2>. QED  BY <2>1, <2>2, <2>3, <2>4, <2>5, ChooseStep, PresignStep, PutStep, ConfirmStep DEF Next
<1>. QED  BY <1>1, <1>2, PTL DEF Spec

(* RulesForm: what was typed, collapsed and expanded is what a file gets.   *)
THEOREM FormIsShown == Spec => []ShownIsSent
<1>1. ZInv => ShownIsSent
  BY SamePatternsReflexive DEF ZInv, FormInv, ShownIsSent
<1>. QED  BY <1>1, Invariance, PTL

LEMMA WithoutNamesSame ==
  ASSUME NEW p, NEW q, NEW names, SamePatterns(p, q)
  PROVE  SamePatterns(WithoutNames(p, names), WithoutNames(q, names))
<1>1. \A r : Valid(WithoutNames(r, names)) = Valid(r) \ names
  BY DEF Valid, WithoutNames
<1>2. \A r : \A n \in Valid(r) \ names : WithoutNames(r, names)[n] = r[n]
  BY DEF Valid, WithoutNames
<1>. QED  BY <1>1, <1>2 DEF SamePatterns

(* UploadZone: a job has what the page showed when its file was chosen.     *)
THEOREM JobsAsShown == Spec => []JobAsShown
<1>1. ZInv => JobAsShown
  <2>. SUFFICES ASSUME ZInv, NEW u \in Uploads, jobs[u] # NoJob
                PROVE  LET shown == Sanitized(uploads[u].shown) IN
                       /\ jobs[u].priority = uploads[u].priority
                       /\ jobs[u].rules.required = shown.required
                       /\ jobs[u].rules.types = shown.types
                       /\ SamePatterns(jobs[u].rules.patterns, shown.patterns)
    BY DEF JobAsShown
  <2>. DEFINE rules == uploads[u].rules
              shown == uploads[u].shown
  <2>1. /\ IsRules(rules) /\ IsRules(shown)
        /\ rules.required = shown.required
        /\ rules.types = shown.types
        /\ SamePatterns(rules.patterns, shown.patterns)
        /\ jobs[u] = [rules |-> Sanitized(rules), priority |-> uploads[u].priority]
    BY DEF ZInv, UploadInv, Consistent
  <2>2. /\ Sanitized(rules).required = Sanitized(shown).required
        /\ Sanitized(rules).types = Sanitized(shown).types
        /\ Sanitized(rules).patterns = WithoutNames(rules.patterns, DollarNames)
        /\ Sanitized(shown).patterns = WithoutNames(shown.patterns, DollarNames)
    BY <2>1 DEF Sanitized
  <2>3. SamePatterns(Sanitized(rules).patterns, Sanitized(shown).patterns)
    BY <2>1, <2>2, WithoutNamesSame
  <2>. QED  BY <2>1, <2>2, <2>3
<1>. QED  BY <1>1, Invariance, PTL

(* UploadZone: what the schemas do not accept, but for the names that only  *)
(* the job's Map refuses, never gets as far as the upload of the bytes.     *)
THEOREM RefusedEarly == Spec => []LateRefusals
<1>1. ZInv => LateRefusals
  BY DEF ZInv, UploadInv, Consistent, LateRefusals
<1>. QED  BY <1>1, Invariance, PTL
=============================================================================
