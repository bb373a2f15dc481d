------------------------ MODULE EvidenceStoreProofs -------------------------
(***************************************************************************)
(* The safety properties of EvidenceStore, for every set of processes and  *)
(* contents and every number of calls and files.                           *)
(***************************************************************************)
EXTENDS EvidenceStore, TLAPS

(* A file has at most one name.                                            *)
NamesDistinct == \A m, n \in Names : Exists(m) /\ dir[m] = dir[n] => m = n

(* A process writes to a file of the content it puts, whatever name other  *)
(* processes have given that file meanwhile.                               *)
OpenIsOwn ==
    \A w \in Writers, n \in Names :
       fd[w] # Missing /\ dir[n] = fd[w] => n.file = target[w] /\ n.of = item[w]

(* No two processes put a content of Exclusive at the same time.           *)
Alone ==
    \A v, w \in Writers :
       Busy(v) /\ Busy(w) /\ item[v] = item[w] /\ item[w] \in Exclusive => v = w

(* A process that puts a content alone still has its temporary, which is   *)
(* written up to where the process is.                                     *)
AloneProgress ==
    \A w \in Writers : item[w] \in Exclusive =>
       /\ pc[w] = "write" => /\ dir[Target(w)] = fd[w]
                             /\ part[w] = 2 => 1 \in data[fd[w]]
       /\ pc[w] = "rename" => Exists(Target(w)) /\ data[dir[Target(w)]] = Parts

(* What is missing of a file with a name is still going to be written by a *)
(* process that has it open, unless processes that put it may fail.        *)
Shared == Contents \ (Faulty \cup Exclusive)
Covered ==
    \A n \in Names : n.of \in Shared /\ Exists(n) =>
       \/ data[dir[n]] = Parts
       \/ \E w \in Writers : /\ fd[w] = dir[n]
                             /\ part[w] = 2 => 1 \in data[dir[n]]

(* A row comes after its blob, a handle and an observation after the row.  *)
RowsInOrder ==
    /\ IndexedExists
    /\ acked \subseteq index
    /\ \A w \in Writers :
          /\ pc[w] \in {"remove", "insert"} => Exists(Final("blob", item[w]))
          /\ pc[w] \in {"check", "remove", "insert"} => target[w] = "blob"
          /\ Busy(w) /\ target[w] = "observation" => item[w] \in index

StoreInv ==
    /\ TypeOK /\ NamesDistinct /\ OpenIsOwn /\ Alone /\ AloneProgress
    /\ AloneWhole /\ Covered /\ RowsInOrder

(* What the proofs need to know of names.                                  *)
LEMMA NameFacts ==
    ASSUME NEW f \in Files, NEW c \in Contents
    PROVE  /\ Temporary(f, c) \in Names /\ Final(f, c) \in Names
           /\ Temporary(f, c).file = f /\ Final(f, c).file = f
           /\ Temporary(f, c).of = c /\ Final(f, c).of = c
           /\ \A g, d : Temporary(f, c) # Final(g, d)
           /\ \A g, d : Final(f, c) = Final(g, d) => f = g /\ c = d
           /\ \A g, d : Temporary(f, c) = Temporary(g, d) => f = g /\ c = d
    BY DEF Temporary, Final, Names

LEMMA NameCases ==
    ASSUME NEW n \in Names
    PROVE  /\ n.file \in Files /\ n.of \in Contents
           /\ n = Temporary(n.file, n.of) \/ n = Final(n.file, n.of)
    BY DEF Temporary, Final, Names

LEMMA InitInv == Init => StoreInv
    <1> SUFFICES ASSUME Init PROVE StoreInv
        OBVIOUS
    <1>0. /\ Missing = 0 /\ Parts = {1, 2} /\ Files = {"blob", "observation"}
          BY DEF Missing, Parts, Files
    <1>1. TypeOK
          BY <1>0, StoreAssumption DEF TypeOK, Init, Inodes
    <1>2. \A n \in Names : ~Exists(n)
          BY DEF Init, Exists
    <1>3. NamesDistinct /\ Covered
          BY <1>2 DEF NamesDistinct, Covered
    <1>4. OpenIsOwn /\ Alone /\ AloneProgress
          BY DEF OpenIsOwn, Alone, AloneProgress, Init, Busy, Missing
    <1>5. AloneWhole
          BY <1>2, NameFacts, StoreAssumption DEF AloneWhole
    <1>6. RowsInOrder
          BY DEF RowsInOrder, IndexedExists, Init, Busy
    <1> QED BY <1>1, <1>3, <1>4, <1>5, <1>6 DEF StoreInv

(* Beginning a call: the process has no file open.                         *)
LEMMA BeginInv ==
    ASSUME StoreInv, NEW w \in Writers, Begin(w) PROVE StoreInv'
    <1> USE DEF StoreInv
    <1>0. fd[w] = Missing /\ pc[w] = "idle" /\ pc' = [pc EXCEPT ![w] = "check"]
          BY DEF TypeOK, Begin, Busy, Goto
    <1>1. TypeOK'
          BY <1>0, StoreAssumption DEF TypeOK, Begin, Files
    <1>2. NamesDistinct'
          BY DEF NamesDistinct, Begin, Exists
    <1>3. OpenIsOwn'
          BY <1>0 DEF OpenIsOwn, Begin, TypeOK
    <1>4. Alone'
          BY <1>0 DEF Alone, Begin, Busy, TypeOK
    <1>5. AloneProgress'
          BY <1>0 DEF AloneProgress, Begin, TypeOK, Target, Exists
    <1>6. AloneWhole'
          BY DEF AloneWhole, Begin, Whole, Exists
    <1>7. Covered'
          BY DEF Covered, Begin, Exists
    <1>8. RowsInOrder'
          BY <1>0 DEF RowsInOrder, IndexedExists, Begin, Exists, Busy, TypeOK
    <1> QED BY <1>1, <1>2, <1>3, <1>4, <1>5, <1>6, <1>7, <1>8

LEMMA CheckInv ==
    ASSUME StoreInv, NEW w \in Writers, Check(w) PROVE StoreInv'
    <1> USE DEF StoreInv
    <1>0. /\ fd[w] = Missing /\ pc[w] = "check"
          /\ \/ pc' = [pc EXCEPT ![w] = "insert"] /\ Exists(Final("blob", item[w]))
             \/ pc' = [pc EXCEPT ![w] = "create"]
          BY DEF TypeOK, Check, Goto
    <1>1. TypeOK'
          BY <1>0 DEF TypeOK, Check, process
    <1>2. NamesDistinct' /\ OpenIsOwn'
          BY DEF NamesDistinct, OpenIsOwn, Check, process, Exists
    <1>4. Alone'
          BY <1>0 DEF Alone, Check, process, Busy, TypeOK
    <1>5. AloneProgress'
          BY <1>0 DEF AloneProgress, Check, process, TypeOK, Target, Exists
    <1>6. AloneWhole' /\ Covered'
          BY DEF AloneWhole, Covered, Check, process, Whole, Exists
    <1>8. RowsInOrder'
          BY <1>0 DEF RowsInOrder, IndexedExists, Check, process, Exists, Busy, TypeOK
    <1> QED BY <1>1, <1>2, <1>4, <1>5, <1>6, <1>8

(* Creating: the file was another's temporary, or is nobody's.             *)
LEMMA CreateInv ==
    ASSUME StoreInv, NEW w \in Writers, Create(w) PROVE StoreInv'
    <1> USE DEF StoreInv
    <1> DEFINE t == Target(w)
               i == IF Exists(t) THEN dir[t] ELSE CHOOSE u \in Unused : TRUE
    <1>0. /\ fd[w] = Missing /\ pc[w] = "create"
          /\ pc' = [pc EXCEPT ![w] = "write"]
          /\ dir' = [dir EXCEPT ![t] = i]
          /\ data' = [data EXCEPT ![i] = {}]
          /\ fd' = [fd EXCEPT ![w] = i]
          /\ part' = [part EXCEPT ![w] = 1]
          /\ UNCHANGED <<index, op, item, target, ops, acked>>
          BY DEF TypeOK, Create, Goto
    <1>a. /\ item[w] \in Contents /\ target[w] \in Files
          /\ t \in Names /\ t.file = target[w] /\ t.of = item[w]
          /\ \A f \in Files, c \in Contents : t # Final(f, c)
          BY NameFacts DEF TypeOK, Target
    <1>b. /\ i \in Inodes /\ i # Missing
          /\ \A n \in Names : dir[n] = i => n = t
          <2>1. CASE Exists(t)
                BY <2>1, <1>a DEF TypeOK, Exists, NamesDistinct, Inodes, Missing
          <2>2. CASE ~Exists(t)
                <3>1. i \in Unused
                      BY <2>2 DEF Create
                <3> QED BY <3>1 DEF Unused, Inodes, Missing
          <2> QED BY <2>1, <2>2
    <1>c. \A v \in Writers : fd[v] = i => target[v] = target[w] /\ item[v] = item[w]
          <2>1. CASE Exists(t)
                BY <2>1, <1>a, <1>b DEF OpenIsOwn
          <2>2. CASE ~Exists(t)
                <3>1. i \in Unused
                      BY <2>2 DEF Create
                <3> QED BY <3>1 DEF Unused
          <2> QED BY <2>1, <2>2
    <1> HIDE DEF i, t
    <1>1. TypeOK'
          BY <1>0, <1>a, <1>b DEF TypeOK, Parts
    <1>2. NamesDistinct'
          BY <1>0, <1>a, <1>b DEF NamesDistinct, Exists, TypeOK
    <1>3. OpenIsOwn'
          BY <1>0, <1>a, <1>b, <1>c DEF OpenIsOwn, TypeOK
    <1>4. Alone'
          BY <1>0 DEF Alone, Busy, TypeOK
    <1>5. AloneProgress'
          <2> SUFFICES ASSUME NEW v \in Writers, item[v] \in Exclusive
                       PROVE  /\ pc'[v] = "write" =>
                                    /\ dir'[Target(v)'] = fd'[v]
                                    /\ part'[v] = 2 => 1 \in data'[fd'[v]]
                              /\ pc'[v] = "rename" =>
                                    /\ dir'[Target(v)'] # Missing
                                    /\ data'[dir'[Target(v)']] = Parts
              BY <1>0 DEF AloneProgress, Exists
          <2>1. Target(v)' = Target(v) /\ Target(v) \in Names
                BY <1>0, NameFacts DEF Target, TypeOK
          <2>2. CASE v = w
                BY <2>1, <2>2, <1>0, <1>a, <1>b DEF TypeOK, t
          <2>3. CASE v # w
                <3>1. item[v] # item[w] \/ ~Busy(v)
                      BY <2>3, <1>0 DEF Alone, Busy
                <3>2. CASE ~Busy(v)
                      BY <3>2, <2>3, <1>0 DEF Busy, TypeOK
                <3>3. CASE item[v] # item[w]
                      <4>1. Target(v) # t
                            BY <3>3, NameFacts DEF Target, t, TypeOK
                      <4>2. dir[Target(v)] # i
                            BY <4>1, <1>b, <2>1
                      <4> QED BY <4>1, <4>2, <2>1, <2>3, <3>3, <1>0, <1>a, <1>b
                              DEF AloneProgress, TypeOK, Exists
                <3> QED BY <3>1, <3>2, <3>3
          <2> QED BY <2>2, <2>3
    <1>6. AloneWhole'
          <2> SUFFICES ASSUME NEW f \in Files, NEW c \in Exclusive,
                              dir'[Final(f, c)] # Missing
                       PROVE  data'[dir'[Final(f, c)]] = Parts
              BY DEF AloneWhole, Whole, Exists
          <2>1. Final(f, c) \in Names /\ Final(f, c) # t
                BY <1>a, NameFacts, StoreAssumption
          <2>2. dir'[Final(f, c)] = dir[Final(f, c)] /\ dir[Final(f, c)] # i
                BY <2>1, <1>0, <1>b DEF TypeOK
          <2> QED BY <2>2, <2>1, <1>0 DEF AloneWhole, Whole, Exists, TypeOK
    <1>7. Covered'
          <2> SUFFICES ASSUME NEW n \in Names, n.of \in Shared, dir'[n] # Missing
                       PROVE  \/ data'[dir'[n]] = Parts
                              \/ \E v \in Writers :
                                    /\ fd'[v] = dir'[n]
                                    /\ part'[v] = 2 => 1 \in data'[dir'[n]]
              BY DEF Covered, Exists
          <2>1. CASE n = t
                BY <2>1, <1>0, <1>a, <1>b DEF TypeOK
          <2>2. CASE n # t
                <3>1. dir'[n] = dir[n] /\ dir[n] # i
                      BY <2>2, <1>0, <1>a, <1>b DEF TypeOK
                <3>2. data'[dir[n]] = data[dir[n]]
                      BY <3>1, <1>0, <1>b DEF TypeOK
                <3> QED BY <3>1, <3>2, <1>0 DEF Covered, Exists, TypeOK, Missing
          <2> QED BY <2>1, <2>2
    <1>8. RowsInOrder'
          <2>1. \A n \in Names : Exists(n) => Exists(n)'
                BY <1>0, <1>a, <1>b DEF Exists, TypeOK
          <2>2. \A c \in Contents : Exists(Final("blob", c)) => Exists(Final("blob", c))'
                BY <2>1, NameFacts DEF Files, Exists, Final
          <2> QED BY <2>2, <1>0 DEF RowsInOrder, IndexedExists, Busy, TypeOK
    <1> QED BY <1>1, <1>2, <1>3, <1>4, <1>5, <1>6, <1>7, <1>8

(* Writing: parts are only added, and only to the process's own file.      *)
LEMMA WriteInv ==
    ASSUME StoreInv, NEW w \in Writers, Write(w) PROVE StoreInv'
    <1> USE DEF StoreInv
    <1>p. Parts = {1, 2} /\ Missing = 0
          BY DEF Parts, Missing
    <1>0. /\ fd[w] # Missing /\ fd[w] \in Inodes /\ pc[w] = "write"
          /\ data' = [data EXCEPT ![fd[w]] = @ \cup {part[w]}]
          /\ UNCHANGED <<dir, index, op, item, target, ops, acked>>
          /\ item[w] \in Contents /\ target[w] \in Files /\ part[w] \in {1, 2}
          BY <1>p DEF TypeOK, Write
    <1>a. \/ /\ part[w] = 1 /\ part' = [part EXCEPT ![w] = 2] /\ UNCHANGED <<pc, fd>>
          \/ /\ part[w] = 2 /\ UNCHANGED part
             /\ pc' = [pc EXCEPT ![w] = "rename"]
             /\ fd' = [fd EXCEPT ![w] = Missing]
          BY <1>0, <1>p DEF Write, Goto, TypeOK
    <1>b. \A j \in Inodes : data[j] \subseteq data'[j] /\ data'[j] \subseteq Parts
          BY <1>0, <1>p DEF TypeOK
    <1>1. TypeOK'
          BY <1>0, <1>a, <1>p DEF TypeOK
    <1>2. NamesDistinct' /\ OpenIsOwn'
          BY <1>0, <1>a DEF NamesDistinct, OpenIsOwn, Exists, TypeOK
    <1>4. Alone'
          BY <1>0, <1>a DEF Alone, Busy, TypeOK
    <1>5. AloneProgress'
          <2> SUFFICES ASSUME NEW v \in Writers, item[v] \in Exclusive
                       PROVE  /\ pc'[v] = "write" =>
                                    /\ dir[Target(v)] = fd'[v]
                                    /\ part'[v] = 2 => 1 \in data'[fd'[v]]
                              /\ pc'[v] = "rename" =>
                                    /\ dir[Target(v)] # Missing
                                    /\ data'[dir[Target(v)]] = Parts
              BY <1>0 DEF AloneProgress, Exists, Target
          <2>1. CASE v = w
                <3>1. dir[Target(w)] = fd[w] /\ (part[w] = 2 => 1 \in data[fd[w]])
                      BY <2>1, <1>0 DEF AloneProgress
                <3>2. part[w] \in data'[fd[w]]
                      BY <1>0 DEF TypeOK
                <3> QED BY <3>1, <3>2, <2>1, <1>0, <1>a, <1>b, <1>p DEF TypeOK
          <2>2. CASE v # w
                <3>1. /\ pc'[v] = pc[v] /\ fd'[v] = fd[v] /\ part'[v] = part[v]
                      BY <2>2, <1>a DEF TypeOK
                <3>2. Target(v) \in Names
                      BY NameFacts DEF Target, TypeOK
                <3> QED BY <3>1, <3>2, <1>b, <1>p DEF AloneProgress, Exists, TypeOK
          <2> QED BY <2>1, <2>2
    <1>6. AloneWhole'
          <2> SUFFICES ASSUME NEW f \in Files, NEW c \in Exclusive,
                              dir[Final(f, c)] # Missing
                       PROVE  data'[dir[Final(f, c)]] = Parts
              BY <1>0 DEF AloneWhole, Whole, Exists
          <2>1. Final(f, c) \in Names
                BY NameFacts, StoreAssumption
          <2> QED BY <2>1, <1>b DEF AloneWhole, Whole, Exists, TypeOK
    <1>7. Covered'
          <2> SUFFICES ASSUME NEW n \in Names, n.of \in Shared, dir[n] # Missing
                       PROVE  \/ data'[dir[n]] = Parts
                              \/ \E v \in Writers :
                                    /\ fd'[v] = dir[n]
                                    /\ part'[v] = 2 => 1 \in data'[dir[n]]
              BY <1>0 DEF Covered, Exists
          <2>1. dir[n] \in Inodes
                BY DEF TypeOK
          <2>2. CASE data[dir[n]] = Parts
                BY <2>1, <2>2, <1>b
          <2>3. ASSUME NEW v \in Writers, fd[v] = dir[n],
                       part[v] = 2 => 1 \in data[dir[n]]
                PROVE  \/ data'[dir[n]] = Parts
                       \/ /\ fd'[v] = dir[n]
                          /\ part'[v] = 2 => 1 \in data'[dir[n]]
                <3>1. CASE v # w
                      BY <3>1, <2>1, <2>3, <1>a, <1>b DEF TypeOK
                <3>2. CASE v = w
                      <4>1. part[w] \in data'[dir[n]]
                            BY <3>2, <2>1, <2>3, <1>0 DEF TypeOK
                      <4> QED BY <4>1, <3>2, <2>1, <2>3, <1>a, <1>b, <1>p DEF TypeOK
                <3> QED BY <3>1, <3>2
          <2> QED BY <2>2, <2>3 DEF Covered, Exists
    <1>8. RowsInOrder'
          BY <1>0, <1>a DEF RowsInOrder, IndexedExists, Exists, Busy, TypeOK
    <1> QED BY <1>1, <1>2, <1>4, <1>5, <1>6, <1>7, <1>8

(* Renaming: the file keeps its content and its one name, the final one is *)
(* never lost.                                                             *)
LEMMA RenameInv ==
    ASSUME StoreInv, NEW w \in Writers, Rename(w) PROVE StoreInv'
    <1> USE DEF StoreInv
    <1> DEFINE t == Target(w)
               f == Final(target[w], item[w])
    <1>0. /\ fd[w] = Missing /\ pc[w] = "rename"
          /\ UNCHANGED <<data, index, op, item, target, fd, part, ops>>
          /\ item[w] \in Contents /\ target[w] \in Files
          BY DEF TypeOK, Rename, process
    <1>a. /\ t \in Names /\ t.file = target[w] /\ t.of = item[w]
          /\ f \in Names /\ f.file = target[w] /\ f.of = item[w] /\ t # f
          /\ \A g \in Files, c \in Contents : t # Final(g, c)
          BY <1>0, NameFacts DEF Target
    <1>b. /\ \/ pc' = [pc EXCEPT ![w] = "idle"]
             \/ /\ target[w] = "blob" /\ UNCHANGED acked
                /\ pc' = [pc EXCEPT ![w] = "insert"] /\ Exists(t)
             \/ /\ target[w] = "blob" /\ UNCHANGED acked
                /\ pc' = [pc EXCEPT ![w] = "remove"] /\ Exists(f) /\ ~Exists(t)
          /\ \/ acked' = acked
             \/ target[w] = "observation" /\ acked' = acked \cup {item[w]}
          BY <1>0 DEF Rename, Goto, Return, Files
    <1>c. \/ /\ Exists(t) /\ dir' = [dir EXCEPT ![f] = dir[t], ![t] = Missing]
          \/ ~Exists(t) /\ UNCHANGED dir
          BY DEF Rename
    <1>d. /\ Exists(t) => dir'[f] = dir[t] /\ dir'[t] = Missing
          /\ \A n \in Names : n # f /\ n # t => dir'[n] = dir[n]
          /\ ~Exists(t) => UNCHANGED dir
          /\ dir' \in [Names -> Inodes \cup {Missing}]
          BY <1>a, <1>c DEF TypeOK, Exists
    <1>e. \A n \in Names : dir'[n] = dir[n] \/ (n = f /\ dir'[n] = dir[t] /\ dir[t] # Missing)
                           \/ dir'[n] = Missing
          BY <1>d DEF Exists
    <1>f. /\ \A g \in Files, c \in Contents :
                Exists(Final(g, c)) => dir'[Final(g, c)] # Missing
          <2> SUFFICES ASSUME NEW g \in Files, NEW c \in Contents,
                              dir[Final(g, c)] # Missing
                       PROVE  dir'[Final(g, c)] # Missing
              BY DEF Exists
          <2>1. Final(g, c) \in Names /\ Final(g, c) # t
                BY <1>a, NameFacts
          <2> QED BY <2>1, <1>d DEF Exists
    <1> HIDE DEF t, f
    <1>1. TypeOK'
          <2>1. acked' \subseteq Contents
                BY <1>0, <1>b DEF TypeOK
          <2> QED BY <2>1, <1>0, <1>b, <1>d DEF TypeOK
    <1>2. NamesDistinct'
          <2> SUFFICES ASSUME NEW m \in Names, NEW n \in Names,
                              dir'[m] # Missing, dir'[m] = dir'[n]
                       PROVE  m = n
              BY DEF NamesDistinct, Exists
          <2> QED BY <1>a, <1>d DEF NamesDistinct, Exists
    <1>3. OpenIsOwn'
          BY <1>0, <1>a, <1>e DEF OpenIsOwn
    <1>4. Alone'
          BY <1>0, <1>b DEF Alone, Busy, TypeOK
    <1>5. AloneProgress'
          <2> SUFFICES ASSUME NEW v \in Writers, item[v] \in Exclusive,
                              pc'[v] \in {"write", "rename"}
                       PROVE  /\ pc'[v] = "write" =>
                                    /\ dir'[Target(v)] = fd[v]
                                    /\ part[v] = 2 => 1 \in data[fd[v]]
                              /\ pc'[v] = "rename" =>
                                    /\ dir'[Target(v)] # Missing
                                    /\ data[dir'[Target(v)]] = Parts
              BY <1>0 DEF AloneProgress, Exists, Target
          <2>1. v # w /\ pc'[v] = pc[v]
                BY <1>0, <1>b DEF TypeOK
          <2>2. item[v] # item[w]
                BY <2>1, <1>0 DEF Alone, Busy
          <2>3. Target(v) \in Names /\ Target(v) # t /\ Target(v) # f
                BY <2>2, <1>0, NameFacts DEF Target, TypeOK, t, f
          <2> QED BY <2>1, <2>3, <1>d DEF AloneProgress, Exists
    <1>6. AloneWhole'
          <2> SUFFICES ASSUME NEW g \in Files, NEW c \in Exclusive,
                              dir'[Final(g, c)] # Missing
                       PROVE  data[dir'[Final(g, c)]] = Parts
              BY <1>0 DEF AloneWhole, Whole, Exists
          <2>1. c \in Contents /\ Final(g, c) \in Names /\ Final(g, c) # t
                BY <1>a, NameFacts, StoreAssumption
          <2>2. CASE Final(g, c) = f /\ Exists(t)
                <3>1. item[w] = c
                      BY <2>1, <2>2, <1>0, NameFacts DEF f
                <3> QED BY <3>1, <2>2, <1>0, <1>d DEF AloneProgress, Exists, t
          <2>3. CASE ~(Final(g, c) = f /\ Exists(t))
                BY <2>1, <2>3, <1>d DEF AloneWhole, Whole, Exists
          <2> QED BY <2>2, <2>3
    <1>7. Covered'
          <2> SUFFICES ASSUME NEW n \in Names, n.of \in Shared, dir'[n] # Missing
                       PROVE  \/ data[dir'[n]] = Parts
                              \/ \E v \in Writers :
                                    /\ fd[v] = dir'[n]
                                    /\ part[v] = 2 => 1 \in data[dir'[n]]
              BY <1>0 DEF Covered, Exists
          <2>1. CASE dir'[n] = dir[n]
                BY <2>1 DEF Covered, Exists
          <2>2. CASE n = f /\ dir'[n] = dir[t] /\ dir[t] # Missing
                BY <2>2, <1>a DEF Covered, Exists
          <2> QED BY <2>1, <2>2, <1>e
    <1>8. RowsInOrder'
          <2>1. \A c \in Contents : Exists(Final("blob", c)) => dir'[Final("blob", c)] # Missing
                BY <1>f DEF Files
          <2>2. IndexedExists'
                BY <2>1, <1>0 DEF RowsInOrder, IndexedExists, Exists, TypeOK
          <2>3. acked' \subseteq index'
                BY <1>0, <1>b DEF RowsInOrder, Busy
          <2>4. pc'[w] \in {"remove", "insert"} => dir'[Final("blob", item[w])] # Missing
                BY <2>1, <1>0, <1>b, <1>d DEF Exists, f, TypeOK
          <2>5. \A v \in Writers : v # w => pc'[v] = pc[v]
                BY <1>b DEF TypeOK
          <2>6. \A v \in Writers : pc'[v] \in {"remove", "insert"} =>
                   dir'[Final("blob", item[v])] # Missing
                BY <2>1, <2>4, <2>5 DEF RowsInOrder, TypeOK
          <2>7. \A v \in Writers :
                   /\ pc'[v] \in {"check", "remove", "insert"} => target[v] = "blob"
                   /\ pc'[v] # "idle" /\ target[v] = "observation" => item[v] \in index
                BY <2>5, <1>0, <1>b DEF RowsInOrder, Busy, TypeOK
          <2> QED BY <2>2, <2>3, <2>6, <2>7, <1>0 DEF RowsInOrder, Exists, Busy
    <1> QED BY <1>1, <1>2, <1>3, <1>4, <1>5, <1>6, <1>7, <1>8

(* Removing: the process has lost the race, and so puts the content with   *)
(* others; the name it removes is a temporary one.                         *)
LEMMA RemoveInv ==
    ASSUME StoreInv, NEW w \in Writers, Remove(w) PROVE StoreInv'
    <1> USE DEF StoreInv
    <1>0. /\ fd[w] = Missing /\ pc[w] = "remove"
          /\ pc' = [pc EXCEPT ![w] = "insert"]
          /\ dir' = [dir EXCEPT ![Target(w)] = Missing]
          /\ UNCHANGED <<data, index, op, item, target, fd, part, ops, acked>>
          /\ item[w] \in Contents /\ target[w] \in Files
          BY DEF TypeOK, Remove, process, Goto
    <1>a. /\ Target(w) \in Names
          /\ \A g \in Files, c \in Contents : Target(w) # Final(g, c)
          BY <1>0, NameFacts DEF Target
    <1>b. /\ \A n \in Names : dir'[n] = Missing \/ dir'[n] = dir[n]
          /\ \A n \in Names : n # Target(w) => dir'[n] = dir[n]
          /\ dir' \in [Names -> Inodes \cup {Missing}]
          BY <1>0, <1>a DEF TypeOK
    <1>c. \A g \in Files, c \in Contents :
             Final(g, c) \in Names /\ dir'[Final(g, c)] = dir[Final(g, c)]
          BY <1>a, <1>b, NameFacts
    <1>1. TypeOK'
          BY <1>0, <1>b DEF TypeOK
    <1>2. NamesDistinct' /\ OpenIsOwn'
          BY <1>0, <1>b DEF NamesDistinct, OpenIsOwn, Exists
    <1>4. Alone'
          BY <1>0 DEF Alone, Busy, TypeOK
    <1>5. AloneProgress'
          <2> SUFFICES ASSUME NEW v \in Writers, item[v] \in Exclusive,
                              pc'[v] \in {"write", "rename"}
                       PROVE  /\ pc'[v] = "write" =>
                                    /\ dir'[Target(v)] = fd[v]
                                    /\ part[v] = 2 => 1 \in data[fd[v]]
                              /\ pc'[v] = "rename" =>
                                    /\ dir'[Target(v)] # Missing
                                    /\ data[dir'[Target(v)]] = Parts
              BY <1>0 DEF AloneProgress, Exists, Target
          <2>1. v # w /\ pc'[v] = pc[v]
                BY <1>0 DEF TypeOK
          <2>2. item[v] # item[w]
                BY <2>1, <1>0 DEF Alone, Busy
          <2>3. Target(v) \in Names /\ Target(v) # Target(w)
                BY <2>2, <1>0, NameFacts DEF Target, TypeOK
          <2> QED BY <2>1, <2>3, <1>b DEF AloneProgress, Exists
    <1>6. AloneWhole'
          BY <1>0, <1>c, StoreAssumption DEF AloneWhole, Whole, Exists
    <1>7. Covered'
          BY <1>0, <1>b DEF Covered, Exists
    <1>8. RowsInOrder'
          <2>1. \A c \in Contents : dir'[Final("blob", c)] = dir[Final("blob", c)]
                BY <1>c DEF Files
          <2> QED BY <2>1, <1>0 DEF RowsInOrder, IndexedExists, Exists, Busy, TypeOK
    <1> QED BY <1>1, <1>2, <1>4, <1>5, <1>6, <1>7, <1>8

LEMMA InsertInv ==
    ASSUME StoreInv, NEW w \in Writers, Insert(w) PROVE StoreInv'
    <1> USE DEF StoreInv
    <1>0. /\ fd[w] = Missing /\ pc[w] = "insert"
          /\ index' = index \cup {item[w]}
          /\ UNCHANGED <<dir, data, op, item, fd, part, ops>>
          /\ item[w] \in Contents
          /\ \/ /\ pc' = [pc EXCEPT ![w] = "idle"] /\ UNCHANGED target
                /\ acked' = acked \cup {item[w]}
             \/ /\ pc' = [pc EXCEPT ![w] = "create"] /\ UNCHANGED acked
                /\ target' = [target EXCEPT ![w] = "observation"]
          BY DEF TypeOK, Insert, Return, Goto
    <1>1. TypeOK'
          BY <1>0 DEF TypeOK, Files
    <1>2. NamesDistinct'
          BY <1>0 DEF NamesDistinct, Exists
    <1>3. OpenIsOwn'
          BY <1>0 DEF OpenIsOwn, TypeOK
    <1>4. Alone'
          BY <1>0 DEF Alone, Busy, TypeOK
    <1>5. AloneProgress'
          BY <1>0 DEF AloneProgress, TypeOK, Target, Exists
    <1>6. AloneWhole' /\ Covered'
          BY <1>0 DEF AloneWhole, Covered, Whole, Exists
    <1>8. RowsInOrder'
          BY <1>0 DEF RowsInOrder, IndexedExists, Exists, Busy, TypeOK
    <1> QED BY <1>1, <1>2, <1>3, <1>4, <1>5, <1>6, <1>8

(* Failing: only processes that put faulty contents leave files behind.    *)
LEMMA FailInv ==
    ASSUME StoreInv, NEW w \in Writers, Fail(w) PROVE StoreInv'
    <1> USE DEF StoreInv
    <1>0. /\ item[w] \in Faulty /\ acked' = acked
          /\ pc' = [pc EXCEPT ![w] = "idle"]
          /\ fd' = [fd EXCEPT ![w] = Missing]
          /\ UNCHANGED <<dir, data, index, op, item, target, part, ops>>
          BY DEF Fail, Return, Goto
    <1>1. TypeOK'
          BY <1>0 DEF TypeOK
    <1>2. NamesDistinct' /\ OpenIsOwn'
          BY <1>0 DEF NamesDistinct, OpenIsOwn, Exists, TypeOK
    <1>4. Alone'
          BY <1>0 DEF Alone, Busy, TypeOK
    <1>5. AloneProgress'
          BY <1>0 DEF AloneProgress, TypeOK, Target, Exists
    <1>6. AloneWhole'
          BY <1>0 DEF AloneWhole, Whole, Exists
    <1>7. Covered'
          <2> SUFFICES ASSUME NEW n \in Names, n.of \in Shared, dir[n] # Missing,
                              data[dir[n]] # Parts
                       PROVE  \E v \in Writers :
                                 /\ fd'[v] = dir[n]
                                 /\ part[v] = 2 => 1 \in data[dir[n]]
              BY <1>0 DEF Covered, Exists
          <2>1. PICK v \in Writers : /\ fd[v] = dir[n]
                                     /\ part[v] = 2 => 1 \in data[dir[n]]
                BY DEF Covered, Exists
          <2>2. v # w
                BY <2>1, <1>0 DEF OpenIsOwn, Shared
          <2> QED BY <2>1, <2>2, <1>0 DEF TypeOK
    <1>8. RowsInOrder'
          BY <1>0 DEF RowsInOrder, IndexedExists, Exists, Busy, TypeOK
    <1> QED BY <1>1, <1>2, <1>4, <1>5, <1>6, <1>7, <1>8

LEMMA StepInv == StoreInv /\ [Next]_vars => StoreInv'
    <1> SUFFICES ASSUME StoreInv, [Next]_vars PROVE StoreInv'
        OBVIOUS
    <1>1. CASE UNCHANGED vars
          BY <1>1 DEF vars, StoreInv, TypeOK, NamesDistinct, OpenIsOwn, Alone,
             AloneProgress, AloneWhole, Covered, RowsInOrder, IndexedExists,
             Exists, Busy, Whole, Target
    <1>2. ASSUME NEW w \in Writers,
                 \/ Begin(w) \/ Check(w) \/ Create(w) \/ Write(w)
                 \/ Rename(w) \/ Remove(w) \/ Insert(w) \/ Fail(w)
          PROVE  StoreInv'
          BY <1>2, BeginInv, CheckInv, CreateInv, WriteInv, RenameInv, RemoveInv,
             InsertInv, FailInv
    <1> QED BY <1>1, <1>2 DEF Next, Finished

-----------------------------------------------------------------------------
\* The inductive invariant of the store.
THEOREM StoreInvariant == Spec => []StoreInv
    BY InitInv, StepInv, PTL DEF Spec

\* The processes' and the store's variables keep their types, and a process
\* writes exactly when it has a file open.
THEOREM StoreTypes == Spec => []TypeOK
    <1>1. StoreInv => TypeOK
          BY DEF StoreInv
    <1> QED BY <1>1, StoreInvariant, PTL

\* What put_blob and persist_json_observation publish is whole: at once where
\* one process puts it, whatever fails, and once nobody writes it where several
\* do; and a row names a blob that is there.
THEOREM PublishedIsWhole == Spec => []PublishedWhole
    <1>1. ASSUME StoreInv PROVE PublishedWhole
          <2>1. AloneWhole /\ IndexedExists
                BY <1>1 DEF StoreInv, RowsInOrder
          <2>2. SettledWhole
                <3> SUFFICES ASSUME NEW c \in Contents \ (Faulty \ Exclusive),
                                    Exists(Final("blob", c)),
                                    \A w \in Writers : fd[w] # dir[Final("blob", c)]
                             PROVE  data[dir[Final("blob", c)]] = Parts
                    BY DEF SettledWhole, Whole
                <3>1. CASE c \in Exclusive
                      BY <3>1, <2>1 DEF AloneWhole, Whole, Files
                <3>2. CASE c \notin Exclusive
                      <4>1. /\ Final("blob", c) \in Names
                            /\ Final("blob", c).of \in Shared
                            BY <3>2, NameFacts DEF Shared, Files
                      <4> QED BY <4>1, <1>1 DEF StoreInv, Covered
                <3> QED BY <3>1, <3>2
          <2> QED BY <2>1, <2>2 DEF PublishedWhole
    <1> QED BY <1>1, StoreInvariant, PTL

\* A handle that put_blob or persist_json_observation returns for a content
\* that one process at a time puts names evidence that get returns.
THEOREM HandlesAreReadable == Spec => []AckedReadable
    <1>1. ASSUME StoreInv PROVE AckedReadable
          BY <1>1 DEF StoreInv, RowsInOrder, IndexedExists, AloneWhole, Files,
             AckedReadable, HandlesReadable, Readable
    <1> QED BY <1>1, StoreInvariant, PTL

\* No step of any process, the removal of a lost temporary included, takes a
\* published blob's name away.
THEOREM PublishedStays == Spec => NeverUnpublished
    <1>1. ASSUME TypeOK, [Next]_vars
          PROVE  [\A c \in Contents : Exists(Final("blob", c)) =>
                     dir'[Final("blob", c)] # Missing]_vars
          <2> SUFFICES ASSUME Next, NEW c \in Contents, dir[Final("blob", c)] # Missing
                       PROVE  dir'[Final("blob", c)] # Missing
              BY <1>1 DEF Exists
          <2> DEFINE b == Final("blob", c)
          <2>0. /\ b \in Names
                /\ \A w \in Writers : Target(w) \in Names /\ Target(w) # b
                BY <1>1, NameFacts DEF Files, Target, TypeOK
          <2> HIDE DEF b
          <2> SUFFICES dir[b] # Missing => dir'[b] # Missing
              BY DEF b
          <2>1. ASSUME NEW w \in Writers, Create(w) PROVE dir'[b] = dir[b]
                BY <1>1, <2>0, <2>1 DEF Create, TypeOK
          <2>2. ASSUME NEW w \in Writers, Rename(w), dir[b] # Missing
                PROVE  dir'[b] # Missing
                BY <1>1, <2>0, <2>2 DEF Rename, Exists, TypeOK
          <2>3. ASSUME NEW w \in Writers, Remove(w) PROVE dir'[b] = dir[b]
                BY <1>1, <2>0, <2>3 DEF Remove, TypeOK
          <2>4. ASSUME NEW w \in Writers,
                       Begin(w) \/ Check(w) \/ Write(w) \/ Insert(w) \/ Fail(w)
                PROVE  dir' = dir
                BY <2>4 DEF Begin, Check, Write, Insert, Fail
          <2> QED BY <2>1, <2>2, <2>3, <2>4 DEF Next, Finished, vars
    <1> QED BY <1>1, StoreTypes, PTL DEF Spec, NeverUnpublished

(* Under the invariant a blob that has its name is in place.               *)
LEMMA InPlace ==
    ASSUME StoreInv
    PROVE  Published = {c \in Contents : dir[Final("blob", c)] # Missing}
    BY DEF StoreInv, AloneWhole, Published, Exists, Files

LEMMA InPlaceNext ==
    ASSUME StoreInv'
    PROVE  Published' = {c \in Contents : dir'[Final("blob", c)] # Missing}
    BY DEF StoreInv, AloneWhole, Published, Exists, Files

(* A step on the temporaries leaves the blobs' names alone.                *)
LEMMA KeepsBlobs ==
    ASSUME StoreInv, StoreInv', NEW w \in Writers,
           \/ dir' = dir
           \/ \E i : dir' = [dir EXCEPT ![Target(w)] = i]
    PROVE  Published' = Published
    <1>1. \A c \in Contents : dir'[Final("blob", c)] = dir[Final("blob", c)]
          <2> SUFFICES ASSUME NEW c \in Contents
                       PROVE  dir'[Final("blob", c)] = dir[Final("blob", c)]
              OBVIOUS
          <2>1. target[w] \in Files /\ item[w] \in Contents /\ "blob" \in Files
                BY DEF StoreInv, TypeOK, Files
          <2>2. /\ Final("blob", c) \in Names /\ Target(w) \in Names
                /\ Target(w) # Final("blob", c)
                BY <2>1, NameFacts DEF Target
          <2> QED BY <2>2 DEF StoreInv, TypeOK
    <1> QED BY <1>1, InPlace, InPlaceNext

(* The name the renamed file gets.                                         *)
LEMMA Renamed ==
    ASSUME StoreInv, NEW w \in Writers, Rename(w), NEW c \in Contents
    PROVE  /\ target[w] = "observation" \/ c # item[w] =>
                 dir'[Final("blob", c)] = dir[Final("blob", c)]
           /\ target[w] = "blob" /\ Exists(Target(w)) =>
                 dir'[Final("blob", item[w])] # Missing
    <1>1. /\ target[w] \in Files /\ item[w] \in Contents
          /\ dir \in [Names -> Inodes \cup {Missing}]
          BY DEF StoreInv, TypeOK
    <1>2. /\ Target(w) \in Names /\ Final(target[w], item[w]) \in Names
          /\ Final("blob", c) \in Names /\ Target(w) # Final("blob", c)
          /\ Target(w) # Final(target[w], item[w])
          /\ target[w] = "observation" \/ c # item[w] =>
                Final("blob", c) # Final(target[w], item[w])
          BY <1>1, NameFacts DEF Target, Files
    <1> QED BY <1>1, <1>2 DEF Rename, Exists

LEMMA RenamedOther ==
    ASSUME StoreInv, StoreInv', NEW w \in Writers, Rename(w),
           target[w] = "observation"
    PROVE  Published' = Published
    <1>1. \A c \in Contents : dir'[Final("blob", c)] = dir[Final("blob", c)]
          BY Renamed
    <1> QED BY <1>1, InPlace, InPlaceNext

LEMMA RenamedBlob ==
    ASSUME StoreInv, StoreInv', NEW w \in Writers, Rename(w),
           target[w] = "blob", Exists(Target(w))
    PROVE  Published' = Published \cup {item[w]}
    <1>1. item[w] \in Contents
          BY DEF StoreInv, TypeOK
    <1>2. /\ \A c \in Contents : c # item[w] =>
                dir'[Final("blob", c)] = dir[Final("blob", c)]
          /\ dir'[Final("blob", item[w])] # Missing
          BY <1>1, Renamed
    <1> QED BY <1>1, <1>2, InPlace, InPlaceNext

(* The files, the index and the handles of any number of processes         *)
(* implement the archive: put_blob publishes, its row lists, and a handle  *)
(* is returned for what is listed; every other step changes nothing a      *)
(* caller can see.                                                         *)
THEOREM ImplementsArchive == Spec => RefinesArchive
    <1>1. Init => EA!Init
          BY NameFacts DEF Init, EA!Init, Published, Exists, Files
    <1>2. StoreInv /\ StoreInv' /\ [Next]_vars => [EA!Next]_(EA!archiveVars)
          <2> SUFFICES ASSUME StoreInv, StoreInv', [Next]_vars
                       PROVE  EA!Next \/ UNCHANGED EA!archiveVars
              OBVIOUS
          <2>1. ASSUME NEW w \in Writers,
                       Begin(w) \/ Check(w) \/ Create(w) \/ Write(w)
                          \/ Remove(w) \/ Fail(w)
                PROVE  UNCHANGED EA!archiveVars
                <3>1. index' = index /\ acked' = acked
                      BY <2>1 DEF Begin, Check, Create, Write, Remove, Fail,
                         Return
                <3>2. \/ dir' = dir
                      \/ \E i : dir' = [dir EXCEPT ![Target(w)] = i]
                      BY <2>1 DEF Begin, Check, Create, Write, Remove, Fail
                <3> QED BY <3>1, <3>2, KeepsBlobs DEF EA!archiveVars
          <2>2. ASSUME NEW w \in Writers, Insert(w) PROVE EA!Next
                <3>1. /\ item[w] \in Contents /\ dir' = dir
                      /\ index' = index \cup {item[w]}
                      /\ acked' \in {acked, acked \cup {item[w]}}
                      BY <2>2 DEF Insert, Return, StoreInv, TypeOK
                <3>2. item[w] \in Published
                      BY <2>2, <3>1, InPlace
                         DEF Insert, StoreInv, RowsInOrder, Exists
                <3>3. EA!List(item[w])
                      BY <3>1, <3>2, KeepsBlobs DEF EA!List
                <3> QED BY <3>1, <3>3 DEF EA!Next
          <2>3. ASSUME NEW w \in Writers, Rename(w)
                PROVE  EA!Next \/ UNCHANGED EA!archiveVars
                <3> DEFINE n == Target(w)
                           f == Final(target[w], item[w])
                <3>1. /\ item[w] \in Contents /\ target[w] \in Files
                      /\ index' = index
                      BY <2>3 DEF Rename, StoreInv, TypeOK
                <3>2. CASE target[w] = "observation"
                      <4>1. item[w] \in index
                            BY <2>3, <3>2 DEF Rename, StoreInv, RowsInOrder, Busy
                      <4>2. Published' = Published
                            BY <2>3, <3>1, <3>2, RenamedOther
                      <4>3. acked' \in {acked, acked \cup {item[w]}}
                            BY <2>3, <3>2 DEF Rename, Return
                      <4>4. EA!Hand(item[w]) \/ UNCHANGED EA!archiveVars
                            BY <3>1, <4>1, <4>2, <4>3
                               DEF EA!Hand, EA!archiveVars
                      <4> QED BY <3>1, <4>4 DEF EA!Next
                <3>3. CASE target[w] = "blob" /\ Exists(n)
                      <4>1. acked' = acked
                            BY <2>3, <3>3 DEF Rename
                      <4>2. Published' = Published \cup {item[w]}
                            BY <2>3, <3>3, RenamedBlob
                      <4>3. EA!Publish(item[w])
                            BY <3>1, <4>1, <4>2 DEF EA!Publish
                      <4> QED BY <3>1, <4>3 DEF EA!Next
                <3>4. CASE target[w] = "blob" /\ ~Exists(n)
                      <4>1. acked' = acked /\ dir' = dir
                            BY <2>3, <3>4 DEF Rename, Return
                      <4>2. Published' = Published
                            BY <4>1, KeepsBlobs
                      <4> QED BY <3>1, <4>1, <4>2 DEF EA!archiveVars
                <3> QED BY <3>1, <3>2, <3>3, <3>4 DEF Files
          <2>4. CASE UNCHANGED vars
                BY <2>4 DEF vars, EA!archiveVars, Published, Exists, Whole
          <2> QED BY <2>1, <2>2, <2>3, <2>4 DEF Next, Finished
    <1> QED BY <1>1, <1>2, StoreInvariant, PTL DEF Spec, RefinesArchive, EA!Spec
=============================================================================
