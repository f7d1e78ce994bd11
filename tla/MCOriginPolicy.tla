--------------------------- MODULE MCOriginPolicy ---------------------------
(***************************************************************************)
(* Three logs, two of them with one key; two origins and two bad ones.     *)
(***************************************************************************)
EXTENDS OriginPolicy, SequencesExt

CONSTANT MaxList

Log(name, key) == [name |-> name, key |-> key]

AllLogs == {Log("rekor", 1), Log("rekorAgain", 1), Log("rekor2", 2)}
AllOrigins == {"rekor.example", "rekor2.example", "", "two\nlines"}
AllLists == BoundedSeq({"rekor.example", "rekor2.example"}, MaxList)
            \union {<<o, bad>> : o \in {"rekor.example", "rekor2.example"}, bad \in {"", "two\nlines"}}

MCLogs == AllLogs
MCOrigins == AllOrigins
MCOriginLists == AllLists
MCMultiLine == {"two\nlines"}
=============================================================================
