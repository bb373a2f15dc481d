---------------------------- MODULE EvidenceStore ---------------------------
(***************************************************************************)
(* The evidence store of kahea-evidence: content-addressed blobs published *)
(* by write-to-temporary-and-rename, an SQLite index that names them, and  *)
(* the observation files.  Every invocation (a CLI process, a call of the  *)
(* MCP server) opens the same directory, so the writers here are processes *)
(* that share only the file system and the index.                          *)
(*                                                                         *)
(* A file is an inode with the parts of its content that have been         *)
(* written; a name refers to an inode.  Truncating an open temporary and   *)
(* writing on through another descriptor are what the file system does.    *)
(***************************************************************************)
EXTENDS Integers, FiniteSets

CONSTANTS Writers,    (* processes                                          *)
          Contents,   (* blobs, known by their digest                       *)
          MaxInodes,  (* files the directory can hold                       *)
          MaxOps,     (* calls one process makes                            *)
          Exclusive,  (* contents only one process puts at a time           *)
          Faulty      (* contents whose calls may fail, the process die     *)

ASSUME StoreAssumption ==
    /\ IsFiniteSet(Writers) /\ IsFiniteSet(Contents) /\ MaxInodes \in Nat
    /\ MaxInodes >= Cardinality(Writers) + 4 * Cardinality(Contents)
    /\ MaxOps \in Nat
    /\ Exclusive \subseteq Contents /\ Faulty \subseteq Contents

Parts == 1 .. 2
Files == {"blob", "observation"}
Names == [file : Files, of : Contents, temporary : BOOLEAN]
Inodes == 1 .. MaxInodes
Missing == 0

VARIABLES
    dir,     \* what each name refers to
    data,    \* the parts written of each inode
    index,   \* rows of the evidence table
    pc,      \* where each process is
    op,      \* put_blob or persist_json_observation
    item,    \* the content it stores
    target,  \* the file it is writing
    fd,      \* the inode it has open
    part,    \* the next part it writes
    ops,     \* calls made
    acked    \* history: contents a call returned a handle for

vars == <<dir, data, index, pc, op, item, target, fd, part, ops, acked>>
process == <<op, item, target, fd, part>>

Temporary(f, c) == [file |-> f, of |-> c, temporary |-> TRUE]
Final(f, c)     == [file |-> f, of |-> c, temporary |-> FALSE]

Exists(n) == dir[n] # Missing

Init ==
    /\ dir = [n \in Names |-> Missing]
    /\ data = [i \in Inodes |-> {}]
    /\ index = {}
    /\ pc = [w \in Writers |-> "idle"]
    /\ op = [w \in Writers |-> "put_blob"]
    /\ item \in [Writers -> Contents]
    /\ target = [w \in Writers |-> "blob"]
    /\ fd = [w \in Writers |-> Missing]
    /\ part = [w \in Writers |-> 1]
    /\ ops = [w \in Writers |-> 0]
    /\ acked = {}

Goto(w, l) == pc' = [pc EXCEPT ![w] = l]

Busy(w) == pc[w] # "idle"

\* The call returns, with a handle or with an error.
Return(w, ok) ==
    /\ Goto(w, "idle")
    /\ acked' = IF ok THEN acked \cup {item[w]} ELSE acked

\* A process calls put_blob, or persist_json_observation, which puts first.
Begin(w) ==
    /\ ~Busy(w) /\ ops[w] < MaxOps
    /\ \E c \in Contents, o \in {"put_blob", "persist"} :
          /\ c \in Exclusive => \A v \in Writers : Busy(v) => item[v] # c
          /\ item' = [item EXCEPT ![w] = c]
          /\ op' = [op EXCEPT ![w] = o]
    /\ target' = [target EXCEPT ![w] = "blob"]
    /\ ops' = [ops EXCEPT ![w] = @ + 1]
    /\ Goto(w, "check")
    /\ UNCHANGED <<dir, data, index, fd, part, acked>>

\* Mutant: a blob that is already there needs no row.
CheckNoRow(w) ==
    /\ pc[w] = "check"
    /\ IF Exists(Final("blob", item[w])) THEN Return(w, TRUE)
       ELSE Goto(w, "create") /\ UNCHANGED acked
    /\ UNCHANGED <<dir, data, index, process, ops>>

\* A blob that is already there is not written again; its row is still put.
Check(w) ==
    /\ pc[w] = "check"
    /\ Goto(w, IF Exists(Final("blob", item[w])) THEN "insert" ELSE "create")
    /\ UNCHANGED <<dir, data, index, process, ops, acked>>

\* The temporary is named after the content, the same for every process.
Target(w) == Temporary(target[w], item[w])

Unused == {i \in Inodes : /\ \A n \in Names : dir[n] # i
                          /\ \A w \in Writers : fd[w] # i}

\* fs::write, first half: create the temporary, or truncate the one there is.
Create(w) ==
    /\ pc[w] = "create"
    /\ Exists(Target(w)) \/ Unused # {}
    /\ LET i == IF Exists(Target(w)) THEN dir[Target(w)]
                ELSE CHOOSE u \in Unused : TRUE
       IN  /\ dir' = [dir EXCEPT ![Target(w)] = i]
           /\ data' = [data EXCEPT ![i] = {}]
           /\ fd' = [fd EXCEPT ![w] = i]
    /\ part' = [part EXCEPT ![w] = 1]
    /\ Goto(w, "write")
    /\ UNCHANGED <<index, op, item, target, ops, acked>>

\* Mutant: the file is renamed before its last part is written.
WriteShort(w) ==
    /\ pc[w] = "write"
    /\ data' = [data EXCEPT ![fd[w]] = @ \cup {part[w]}]
    /\ Goto(w, "rename") /\ fd' = [fd EXCEPT ![w] = Missing] /\ UNCHANGED part
    /\ UNCHANGED <<dir, index, op, item, target, ops, acked>>

\* fs::write, second half: the parts in order, then close.
Write(w) ==
    /\ pc[w] = "write"
    /\ data' = [data EXCEPT ![fd[w]] = @ \cup {part[w]}]
    /\ IF part[w] + 1 \in Parts
       THEN part' = [part EXCEPT ![w] = @ + 1] /\ UNCHANGED <<pc, fd>>
       ELSE /\ Goto(w, "rename")
            /\ fd' = [fd EXCEPT ![w] = Missing]
            /\ UNCHANGED part
    /\ UNCHANGED <<dir, index, op, item, target, ops, acked>>

\* fs::rename.  It fails when another process has taken the temporary; for a
\* blob that has been published meanwhile this is no error.
Rename(w) ==
    /\ pc[w] = "rename"
    /\ LET n == Target(w)
           f == Final(target[w], item[w])
       IN  IF Exists(n)
           THEN /\ dir' = [dir EXCEPT ![f] = dir[n], ![n] = Missing]
                /\ IF target[w] = "blob"
                   THEN Goto(w, "insert") /\ UNCHANGED acked
                   ELSE Return(w, TRUE)
           ELSE /\ UNCHANGED dir
                /\ IF target[w] = "blob" /\ Exists(f)
                   THEN Goto(w, "remove") /\ UNCHANGED acked
                   ELSE Return(w, FALSE)
    /\ UNCHANGED <<data, index, process, ops>>

\* Mutant: the published blob is removed.
RemoveFinal(w) ==
    /\ pc[w] = "remove"
    /\ dir' = [dir EXCEPT ![Final("blob", item[w])] = Missing]
    /\ Goto(w, "insert")
    /\ UNCHANGED <<data, index, process, ops, acked>>

\* fs::remove_file on the temporary, its error ignored.
Remove(w) ==
    /\ pc[w] = "remove"
    /\ dir' = [dir EXCEPT ![Target(w)] = Missing]
    /\ Goto(w, "insert")
    /\ UNCHANGED <<data, index, process, ops, acked>>

\* INSERT OR IGNORE; an observation then writes its own file.
Insert(w) ==
    /\ pc[w] = "insert"
    /\ index' = index \cup {item[w]}
    /\ IF op[w] = "put_blob"
       THEN Return(w, TRUE) /\ UNCHANGED target
       ELSE /\ Goto(w, "create")
            /\ target' = [target EXCEPT ![w] = "observation"]
            /\ UNCHANGED acked
    /\ UNCHANGED <<dir, data, op, item, fd, part, ops>>

\* A call fails (a full disk, a locked database) or the process dies: whatever
\* reached the file system stays there.
Fail(w) ==
    /\ item[w] \in Faulty
    /\ pc[w] \in {"create", "write", "rename", "remove", "insert"}
    /\ Return(w, FALSE)
    /\ fd' = [fd EXCEPT ![w] = Missing]
    /\ UNCHANGED <<dir, data, index, op, item, target, part, ops>>

Finished == /\ \A w \in Writers : ~Busy(w) /\ ops[w] = MaxOps
            /\ UNCHANGED vars

Next == \/ \E w \in Writers : \/ Begin(w) \/ Check(w) \/ Create(w) \/ Write(w)
                              \/ Rename(w) \/ Remove(w) \/ Insert(w) \/ Fail(w)
        \/ Finished

Spec == Init /\ [][Next]_vars

-----------------------------------------------------------------------------
(* Properties.                                                             *)

\* Every variable has its type; a process that writes has a file open.
TypeOK ==
    /\ dir \in [Names -> Inodes \cup {Missing}]
    /\ data \in [Inodes -> SUBSET Parts]
    /\ index \subseteq Contents /\ acked \subseteq Contents
    /\ pc \in [Writers -> {"idle", "check", "create", "write", "rename",
                           "remove", "insert"}]
    /\ op \in [Writers -> {"put_blob", "persist"}]
    /\ item \in [Writers -> Contents]
    /\ target \in [Writers -> Files]
    /\ fd \in [Writers -> Inodes \cup {Missing}]
    /\ part \in [Writers -> Parts]
    /\ ops \in [Writers -> 0 .. MaxOps]
    /\ \A w \in Writers : pc[w] = "write" <=> fd[w] # Missing

Whole(n) == Exists(n) /\ data[dir[n]] = Parts

\* get: the row, then the file, then the digest.
Readable(c) == c \in index /\ Whole(Final("blob", c))

\* put_blob and persist_json_observation return a handle only for evidence
\* that get returns.
HandlesReadable(cs) == \A c \in acked \cap cs : Readable(c)

\* So it is for contents that one process at a time puts.
AckedReadable == HandlesReadable(Exclusive)

\* The same for every content, however many processes put it.
AnyAckedReadable == HandlesReadable(Contents)

\* Published evidence is never withdrawn: a blob that has its name keeps one,
\* whichever of the processes publishing it loses the race.
NeverUnpublished ==
    [][\A c \in Contents : Exists(Final("blob", c)) =>
          dir'[Final("blob", c)] # Missing]_vars

\* No two processes put the contents of Exclusive at the same time: a file of
\* theirs that has its final name is whole, whatever failed or died before the
\* rename and whatever a dead process left behind.
AloneWhole ==
    \A f \in Files, c \in Exclusive : Exists(Final(f, c)) => Whole(Final(f, c))

\* A row never names a blob that is not there.
IndexedExists == \A c \in index : Exists(Final("blob", c))

\* Processes that put the same content at the same time share one temporary
\* and may publish it before it is whole; once none of them is writing, every
\* blob that has been published is whole, unless one of them failed.
SettledWhole ==
    \A c \in Contents \ (Faulty \ Exclusive) :
       Exists(Final("blob", c))
       /\ (\A w \in Writers : fd[w] # dir[Final("blob", c)])
          => Whole(Final("blob", c))

\* What has its final name is whole: at once where one process puts it, and
\* otherwise when all that put it have finished; a row always names a blob
\* that is there.
PublishedWhole == AloneWhole /\ SettledWhole /\ IndexedExists

\* The evidence in place: a blob that has its name, and all of it where one
\* process at a time puts it.
Published == {c \in Contents : /\ Exists(Final("blob", c))
                               /\ c \in Exclusive => Whole(Final("blob", c))}

EA == INSTANCE EvidenceArchive
         WITH published <- Published, listed <- index, handed <- acked

\* The files, rows and handles of all processes together implement an archive
\* from which nothing is withdrawn: a row names evidence that is in place, a
\* handle a row, whoever dies, fails or loses the race for a temporary.
RefinesArchive == EA!Spec
=============================================================================
