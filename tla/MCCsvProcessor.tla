---------------------------- MODULE MCCsvProcessor ----------------------------
(* Instances of CsvProcessor for TLC.                                      *)
EXTENDS CsvProcessor

CONSTANTS name, count

NameCount == <<name, count>>
NameTwice == <<name, name>>

Empty == <<>>
Space == <<" ">>
A == <<"a">>
One == <<"1">>
A1 == <<"a", "1">>
OneOne == <<"1", "1">>
Bar == <<"a", "|", "1">>
BarOne == <<"1", "|", "1">>

AllChars == {" ", "a", "1", "|"}
AllCells == {Empty, Space, A, One, A1, OneOne, Bar, BarOne}
BlankCells == {Empty, Space}
CellsOfType == [t \in {"string", "number"} |->
                  IF t = "string" THEN AllCells ELSE {One, OneOne}]
CellsMatching == [p \in {"letters"} |-> {A, A1}]

(* A required name that starts with a letter, and an optional number.       *)
SomeRules == [requiredFields |-> {name}, fieldTypes |-> [k \in {count} |-> "number"],
              customPatterns |-> [k \in {name} |-> "letters"]]

(* Every file of up to n of the lines.                                      *)
FilesOf(lines, n) == UNION {[1 .. m -> lines] : m \in 0 .. n}

(* Lines that are valid under SomeRules, two of them alike but for where    *)
(* the first cell ends, and lines that break a rule each.                   *)
GoodLines == {<<A, OneOne>>, <<A1, One>>}
BadLines == {<<A, A>>, <<One, One>>, <<Space, One>>, <<Space, Empty>>, <<A>>}
PlainFiles == FilesOf(GoodLines \cup BadLines \cup {<<A, Empty>>}, 3)
              \cup FilesOf(GoodLines \cup {<<A>>}, 4)
PairFiles == FilesOf({<<A, One>>, <<A>>}, 2)
=============================================================================
