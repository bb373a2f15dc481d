--------------------------- MODULE EvidenceArchive --------------------------
(***************************************************************************)
(* What the evidence store promises its callers: a content is published,   *)
(* then listed in the index, then handed out, and none of this is taken    *)
(* back.  Nothing here depends on files, on the number of processes or on  *)
(* the calls that fail half-way.                                           *)
(***************************************************************************)
CONSTANT Contents

VARIABLES published,  \* contents whose evidence is in place
          listed,     \* contents the index names
          handed      \* contents a caller has a handle for

archiveVars == <<published, listed, handed>>

Init == published = {} /\ listed = {} /\ handed = {}

Publish(c) ==
    /\ published' = published \cup {c}
    /\ UNCHANGED <<listed, handed>>

\* The row is put, and for a plain put the handle returned with it.
List(c) ==
    /\ c \in published
    /\ listed' = listed \cup {c}
    /\ handed' \in {handed, handed \cup {c}}
    /\ UNCHANGED published

Hand(c) ==
    /\ c \in listed
    /\ handed' = handed \cup {c}
    /\ UNCHANGED <<published, listed>>

Next == \E c \in Contents : Publish(c) \/ List(c) \/ Hand(c)

Spec == Init /\ [][Next]_archiveVars
=============================================================================
