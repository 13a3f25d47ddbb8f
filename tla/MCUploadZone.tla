---------------------------- MODULE MCUploadZone ----------------------------
(* An instance of UploadZone for TLC.                                       *)
EXTENDS UploadZone

CONSTANTS u1

OneUpload == {u1}

(* A name, and one of each odd kind; a pattern, and one that compiles only   *)
(* with the space it ends in ("\ ").                                        *)
NameTexts == {"", "a", "$a", "a.b"}
SomePatterns == {"", "p", "\\ ", "\\"}
TrimTexts == [t \in NameTexts \cup SomePatterns |->
                IF t = "\\ " THEN "\\" ELSE t]
CompilingPatterns == {"", "p", "\\ "}

File(csv, size) == [csv |-> csv, size |-> size]
SomeLists == {<<>>, <<File(TRUE, 1)>>, <<File(TRUE, 0), File(TRUE, 1)>>,
              <<File(FALSE, 1)>>, <<File(TRUE, 2)>>}
=============================================================================
