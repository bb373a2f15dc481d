--------------------------- MODULE CampaignProofs ---------------------------
(***************************************************************************)
(* The safety properties of a conformance campaign, for every set of       *)
(* options and planning processes, every number of cases, whatever the     *)
(* generator draws and the executor replies.                               *)
(***************************************************************************)
EXTENDS Campaign, SequenceTheorems, FiniteSetTheorems, TLAPS

IsSeq(s) == s \in Seq({s[i] : i \in DOMAIN s})

Verdicts == {"passed", "failed", "transport", "denied"}
Failures == {"failed", "transport", "denied"}

(* How many of the results r are in S: Count, for any results.             *)
Tally(r, S) == Cardinality({i \in DOMAIN r : r[i] \in S})

BuildType ==
    /\ options \in Options
    /\ phase \in {"options", "draw", "mutate", "store", "refused"}
    /\ phase \in {"draw", "mutate", "store"} => ValidOptions
    /\ IsSeq(positive) /\ IsSeq(negative)

FileType ==
    /\ temporary \in [Files -> Planners \cup {Nobody}]
    /\ final \in [Files -> Inodes]
    /\ written \subseteq Files \X Planners
    /\ pc \in [Planners -> {"open", "write", "rename", "failed"}]
    /\ file \in [Planners -> Nat \ {0}]
    /\ fd \in [Planners -> Planners \cup {Nobody}]

InvokeType ==
    /\ step \in {"load", "gate", "case", "invoke", "record", "done"}
    /\ index \in Nat \ {0}
    /\ IsSeq(sent) /\ results \in Seq(Verdicts) /\ replies \in Seq(Replies)

(* What Seal has established of the campaign, and the gate of invoke.      *)
Sealed ==
    /\ IsSeq(plan.cases) /\ Len(plan.cases) <= options.cases
    /\ plan.grants = CampaignGrants(plan.cases)

Granted == plan.grants \subseteq options.grants

(* Nothing is stored or invoked before the campaign is sealed.             *)
Sealing ==
    /\ phase = "store" => Sealed
    /\ phase # "store" => step = "load" /\ \A p \in Planners : file[p] = 1
    /\ step \in {"case", "invoke", "record"} \/ sent # << >> => Granted

(* The planners: a file has its name exactly if some planner is past it,   *)
(* and what it lacks a planner that has it open is going to write, unless  *)
(* one has died.                                                           *)
Covered(f, i) ==
    <<f, i>> \in written \/ \E p \in Planners : file[p] = f /\ fd[p] = i

Storage ==
    /\ \A p \in Planners : fd[p] # Nobody <=> pc[p] = "write"
    /\ \A f \in Files, p \in Planners : f < file[p] => final[f] # Nobody
    /\ \A f \in Files : final[f] # Nobody => \E p \in Planners : f < file[p]
    /\ Crashed = {} => \A f \in Files, i \in Planners :
          i \in {temporary[f], final[f]} => Covered(f, i)

(* How far the invocation is: what was sent, answered, recorded and stored *)
(* as evidence differs by at most the case it is at.                       *)
Pace ==
    /\ step \in {"load", "gate"} => index = 1
    /\ step \in {"load", "gate", "case"} =>
          Len(sent) = index - 1 /\ Len(replies) = index - 1
    /\ step = "case" => index <= Len(plan.cases) + 1
    /\ step \in {"invoke", "record"} =>
          Len(sent) = index /\ index <= Len(plan.cases)
    /\ step = "invoke" => Len(replies) = index - 1
    /\ step = "record" => Len(replies) = index /\ reply = replies[index]
    /\ step # "done" => Len(results) = index - 1 /\ outcome.kind = "none"
    /\ evidence = 1 .. (index - 1)

(* What was sent and what became of it.                                    *)
Ledger ==
    /\ \A i \in DOMAIN sent :
          /\ sent[i][1] = i /\ sent[i][2] \in Planners
          /\ i \in DOMAIN plan.cases
          /\ i < Len(sent) => i \in evidence
    /\ \A i \in DOMAIN results :
          /\ i \in DOMAIN replies
          /\ results[i] = Verdict(plan.cases[i].generation, replies[i])
    /\ Tally(results, Failures) <= options.max_failures
    /\ step \in {"invoke", "record"} =>
          Tally(results, Failures) < options.max_failures

CampaignInv ==
    /\ BuildType /\ FileType /\ InvokeType /\ Sealing /\ Storage /\ Pace /\ Ledger
    /\ OnlySealedSent /\ ObservationAccounts
-----------------------------------------------------------------------------
(* Lemmas about the bounds, sequences and counts of the model.             *)

LEMMA MaxFilesFacts ==
    /\ MaxFiles \in Nat \ {0}
    /\ \A o \in Options : o.cases \in Nat /\ o.cases + 1 <= MaxFiles
    <1> DEFINE P(n) == n \in {o.cases : o \in Options}
                       /\ \A o \in Options : o.cases <= n
               m == CHOOSE n : P(n)
    <1>1. \E n : P(n)
          BY CampaignAssumption
    <1>2. P(m)
          BY <1>1
    <1>3. m \in Nat
          BY <1>2, CampaignAssumption
    <1>4. m = CHOOSE n \in {o.cases : o \in Options} :
                 \A o \in Options : o.cases <= n
          OBVIOUS
    <1>5. MaxFiles = 1 + m
          BY <1>4 DEF MaxFiles
    <1>6. \A o \in Options : o.cases \in Nat /\ o.cases <= m
          BY <1>2, CampaignAssumption
    <1> HIDE DEF m
    <1> QED
          BY <1>3, <1>5, <1>6

LEMMA IsSeqEmpty == IsSeq(<< >>) /\ Len(<< >>) = 0 /\ DOMAIN << >> = {}
    BY EmptySeq, LenProperties DEF IsSeq

LEMMA IsSeqFacts ==
    ASSUME NEW s, IsSeq(s)
    PROVE  Len(s) \in Nat /\ DOMAIN s = 1 .. Len(s) /\ (Len(s) = 0 => s = << >>)
    BY LenProperties, EmptySeq DEF IsSeq

(* Appending to a sequence of whatever elements.                           *)
LEMMA AppendFacts ==
  ASSUME NEW s, IsSeq(s), NEW x
  PROVE  /\ IsSeq(Append(s, x))
         /\ Len(s) \in Nat /\ DOMAIN s = 1..Len(s)
         /\ Len(Append(s, x)) = Len(s) + 1
         /\ DOMAIN Append(s, x) = 1..(Len(s) + 1)
         /\ Append(s, x)[Len(s) + 1] = x
         /\ \A i \in 1..Len(s) : Append(s, x)[i] = s[i]
         /\ Append(s, x) # <<>>
  <1> DEFINE S == {s[i] : i \in DOMAIN s}
             T == S \cup {x}
             t == Append(s, x)
  <1>1. s \in Seq(S)
        BY DEF IsSeq
  <1>2. s \in Seq(T) /\ x \in T
        BY <1>1, SeqMonotonic
  <1> HIDE DEF S, T
  <1>3. /\ Len(s) \in Nat /\ DOMAIN s = 1..Len(s)
        /\ t \in Seq(T) /\ Len(t) = Len(s) + 1
        /\ t[Len(s) + 1] = x
        /\ \A i \in 1..Len(s) : t[i] = s[i]
        BY <1>2
  <1>4. DOMAIN t = 1..(Len(s) + 1)
        BY <1>3
  <1> HIDE DEF t
  <1> DEFINE R == {t[i] : i \in DOMAIN t}
  <1>5. t \in [1..(Len(s) + 1) -> R]
        <2>1. t \in [1..(Len(s) + 1) -> T]
              BY <1>3
        <2> QED
              BY <2>1, <1>4
  <1>6. t \in Seq(R)
        <2> HIDE DEF R
        <2>1. Len(s) + 1 \in Nat
              BY <1>3
        <2> QED
              BY <1>5, <2>1
  <1>7. t # <<>>
        BY <1>3, EmptySeq
  <1> QED
        BY <1>3, <1>4, <1>6, <1>7 DEF IsSeq, t


LEMMA TallySet ==
    ASSUME NEW n \in Nat, NEW r, DOMAIN r = 1 .. n, NEW S
    PROVE  /\ IsFiniteSet({i \in DOMAIN r : r[i] \in S})
           /\ Tally(r, S) \in Nat
           /\ Tally(r, S) = 0 <=> \A i \in DOMAIN r : r[i] \notin S
    <1> DEFINE T == {i \in DOMAIN r : r[i] \in S}
    <1>1. IsFiniteSet(1 .. n)
          BY FS_Interval
    <1>2. IsFiniteSet(T)
          BY <1>1, FS_Subset
    <1>3. Cardinality(T) \in Nat /\ (Cardinality(T) = 0 <=> T = {})
          BY <1>2, FS_CardinalityType, FS_EmptySet
    <1> QED
          BY <1>2, <1>3 DEF Tally

(* More verdicts, more results; as many results, the same results.         *)
LEMMA TallyMonotonic ==
    ASSUME NEW n \in Nat, NEW r, DOMAIN r = 1 .. n, NEW S, NEW T, S \subseteq T
    PROVE  /\ Tally(r, S) <= Tally(r, T)
           /\ Tally(r, S) = Tally(r, T) =>
                 \A i \in DOMAIN r : r[i] \in T => r[i] \in S
    <1> DEFINE A == {i \in DOMAIN r : r[i] \in S}
               B == {i \in DOMAIN r : r[i] \in T}
    <1>1. IsFiniteSet(B) /\ A \subseteq B
          BY TallySet
    <1>2. /\ Cardinality(A) <= Cardinality(B)
          /\ Cardinality(A) = Cardinality(B) => A = B
          BY <1>1, FS_Subset
    <1> QED
          BY <1>2 DEF Tally

(* Every verdict is a pass or a failure.                                   *)
LEMMA TallyTotal ==
    ASSUME NEW r \in Seq(Verdicts)
    PROVE  Tally(r, {"passed"}) + Tally(r, Failures) = Len(r)
    <1> DEFINE A == {i \in DOMAIN r : r[i] \in {"passed"}}
               B == {i \in DOMAIN r : r[i] \in Failures}
    <1>1. /\ Len(r) \in Nat /\ DOMAIN r = 1 .. Len(r)
          /\ \A i \in DOMAIN r : r[i] \in Verdicts
          OBVIOUS
    <1>2. IsFiniteSet(A) /\ IsFiniteSet(B)
          BY <1>1, TallySet
    <1>3. A \cup B = 1 .. Len(r) /\ A \cap B = {}
          BY <1>1 DEF Verdicts, Failures
    <1>4. Cardinality(1 .. Len(r)) = Len(r)
          BY <1>1, FS_Interval
    <1>5. Cardinality(A) \in Nat /\ Cardinality(B) \in Nat
          BY <1>2, FS_CardinalityType
    <1>6. Cardinality(A \cup B) =
             Cardinality(A) + Cardinality(B) - Cardinality(A \cap B)
          BY <1>2, FS_Union
    <1>7. Cardinality(A \cap B) = 0
          BY <1>3, FS_EmptySet
    <1> HIDE DEF A, B
    <1>8. Cardinality(A) + Cardinality(B) = Len(r)
          <2>1. Cardinality(A \cup B) = Len(r)
                BY <1>3, <1>4
          <2> QED
                BY <1>1, <1>5, <1>6, <1>7, <2>1
    <1> QED
          BY <1>8 DEF Tally, A, B

LEMMA TallyAppend ==
    ASSUME NEW r \in Seq(Verdicts), NEW v \in Verdicts, NEW S
    PROVE  Tally(Append(r, v), S) = Tally(r, S) + (IF v \in S THEN 1 ELSE 0)
    <1> DEFINE q == Append(r, v)
               A == {i \in DOMAIN r : r[i] \in S}
               B == {i \in DOMAIN q : q[i] \in S}
    <1>1. /\ Len(r) \in Nat /\ DOMAIN r = 1 .. Len(r)
          /\ DOMAIN q = 1 .. (Len(r) + 1) /\ q[Len(r) + 1] = v
          /\ \A i \in 1 .. Len(r) : q[i] = r[i]
          OBVIOUS
    <1>2. IsFiniteSet(A) /\ Cardinality(A) \in Nat
          BY <1>1, TallySet, FS_CardinalityType
    <1>0. Tally(q, S) = Cardinality(B) /\ Tally(r, S) = Cardinality(A)
          BY DEF Tally
    <1> HIDE DEF q
    <1>3. CASE v \in S
          <2>1. B = A \cup {Len(r) + 1} /\ Len(r) + 1 \notin A
                BY <1>1, <1>3
          <2>2. Cardinality(A \cup {Len(r) + 1}) = Cardinality(A) + 1
                BY <1>2, <2>1, FS_AddElement
          <2> QED
                BY <1>0, <1>3, <2>1, <2>2 DEF q
    <1>4. CASE v \notin S
          <2>1. B = A
                BY <1>1, <1>4
          <2> QED
                <3> HIDE DEF A, B
                <3> QED
                    BY <1>0, <1>2, <1>4, <2>1 DEF q
    <1> QED
          BY <1>3, <1>4
-----------------------------------------------------------------------------
(* The invariant is inductive: first building the campaign.                *)

LEMMA InitInv == Init => CampaignInv
    <1> SUFFICES ASSUME Init PROVE CampaignInv
        OBVIOUS
    <1> USE DEF Init
    <1>1. BuildType
          BY IsSeqEmpty DEF BuildType
    <1>2. FileType
          BY DEF FileType, Inodes
    <1>3. InvokeType
          BY IsSeqEmpty, EmptySeq DEF InvokeType
    <1>4. Sealing
          BY DEF Sealing
    <1>5. Storage
          BY InodeAssumption DEF Storage, Files
    <1>6. Pace
          BY IsSeqEmpty DEF Pace
    <1>7. Tally(results, Failures) = 0
          <2>1. DOMAIN << >> = {} /\ 1 .. 0 = {}
                BY IsSeqEmpty
          <2>2. Tally(<< >>, Failures) = 0
                BY <2>1, TallySet
          <2> QED
                BY <2>2
    <1>8. Ledger
          BY <1>7, IsSeqEmpty, CampaignAssumption DEF Ledger
    <1>9. OnlySealedSent /\ ObservationAccounts
          BY IsSeqEmpty DEF OnlySealedSent, ObservationAccounts
    <1> QED
          BY <1>1, <1>2, <1>3, <1>4, <1>5, <1>6, <1>8, <1>9 DEF CampaignInv

(* Before the campaign is stored nothing has been sent.                    *)
LEMMA NothingYet ==
    ASSUME CampaignInv, phase # "store"
    PROVE  /\ step = "load" /\ sent = << >> /\ replies = << >>
           /\ results = << >> /\ outcome.kind = "none"
    <1>1. step = "load" /\ index = 1 /\ outcome.kind = "none"
          BY DEF CampaignInv, Sealing, Pace
    <1>2. Len(sent) = 0 /\ Len(replies) = 0 /\ Len(results) = 0
          BY <1>1 DEF CampaignInv, Pace
    <1>3. IsSeq(sent) /\ replies \in Seq(Replies) /\ results \in Seq(Verdicts)
          BY DEF CampaignInv, InvokeType
    <1> QED
          BY <1>1, <1>2, <1>3, IsSeqFacts, EmptySeq

LEMMA BuildStep ==
    ASSUME CampaignInv, phase # "store", UNCHANGED <<options, files, planning, invoking>>,
           BuildType', phase' = "store" => Sealed'
    PROVE  CampaignInv'
    <1>0. /\ options' = options
          /\ temporary' = temporary /\ final' = final /\ written' = written
          /\ pc' = pc /\ file' = file /\ fd' = fd
          /\ step' = step /\ index' = index /\ reply' = reply
          /\ results' = results /\ evidence' = evidence /\ sent' = sent
          /\ replies' = replies /\ outcome' = outcome
          BY DEF files, planning, invoking
    <1>1. FileType' /\ InvokeType'
          BY <1>0 DEF CampaignInv, FileType, InvokeType
    <1>2. Sealing'
          BY <1>0, NothingYet DEF CampaignInv, Sealing
    <1>3. Storage'
          BY <1>0 DEF CampaignInv, Storage, Covered, Crashed
    <1>4. Pace'
          BY <1>0, NothingYet DEF CampaignInv, Pace
    <1>5. Ledger'
          BY <1>0, NothingYet, IsSeqEmpty DEF CampaignInv, Ledger
    <1>6. OnlySealedSent' /\ ObservationAccounts'
          BY <1>0, NothingYet, IsSeqEmpty
             DEF OnlySealedSent, ObservationAccounts
    <1> QED
          BY <1>1, <1>2, <1>3, <1>4, <1>5, <1>6 DEF CampaignInv

(* What select_cases returns is no longer than what was asked for.         *)
LEMMA SelectedFacts ==
    ASSUME CampaignInv
    PROVE  IsSeq(SelectCases) /\ Len(SelectCases) <= options.cases
    <1> DEFINE all == CASE options.mode = "positive" -> positive
                        [] options.mode = "negative" -> negative
                        [] options.mode = "mixed" ->
                              Alternate(positive, negative)
               n == IF options.cases < Len(all) THEN options.cases ELSE Len(all)
               t == SubSeq(all, 1, n)
    <1>1. /\ IsSeq(positive) /\ IsSeq(negative) /\ options.cases \in Nat
          /\ options.mode \in {"positive", "negative", "mixed"}
          BY CampaignAssumption DEF CampaignInv, BuildType
    <1>2. Len(positive) \in Nat /\ Len(negative) \in Nat
          BY <1>1, IsSeqFacts
    <1>3. Len(Alternate(positive, negative)) = Len(positive) + Len(negative)
          BY <1>2 DEF Alternate
    <1>4. Len(all) \in Nat
          BY <1>1, <1>2, <1>3
    <1> HIDE DEF all
    <1>5. n \in Nat /\ n <= options.cases
          BY <1>1, <1>4
    <1> DEFINE S == {all[i] : i \in 1 .. n}
    <1>6. \A i \in 1 .. n : all[i] \in S
          OBVIOUS
    <1> HIDE DEF S, n
    <1>7. t \in Seq(S) /\ Len(t) = n
          BY <1>5, <1>6, SubSeqProperties
    <1>8. IsSeq(t)
          <2> HIDE DEF t
          <2>1. t \in [1 .. n -> S] /\ DOMAIN t = 1 .. n
                BY <1>7
          <2> DEFINE R == {t[i] : i \in DOMAIN t}
          <2>2. t \in [1 .. n -> R]
                BY <2>1
          <2> HIDE DEF R
          <2>3. t \in Seq(R)
                BY <1>5, <2>2
          <2> QED
                BY <2>3 DEF IsSeq, R
    <1>9. SelectCases = t
          BY DEF SelectCases, Take, all, n
    <1> QED
          BY <1>5, <1>7, <1>8, <1>9

LEMMA BuildingStep ==
    ASSUME CampaignInv, CheckOptions \/ Draw \/ Drawn \/ Mutate \/ Seal
    PROVE  CampaignInv'
    <1>0. BuildType
          BY DEF CampaignInv
    <1>1. CASE CheckOptions
          <2>1. /\ phase # "store" /\ BuildType' /\ phase' # "store"
                /\ UNCHANGED <<options, files, planning, invoking>>
                BY <1>0, <1>1 DEF CheckOptions, BuildType, ValidOptions
          <2> QED
                BY <2>1, BuildStep
    <1>2. CASE Draw
          <2>1. /\ phase # "store" /\ phase' # "store"
                /\ phase' \in {"refused", phase} /\ phase = "draw"
                /\ negative' = negative
                /\ UNCHANGED <<options, files, planning, invoking>>
                BY <1>2 DEF Draw
          <2>2. IsSeq(positive')
                <3>1. \/ positive' = positive
                      \/ \E c : positive' = Append(positive, c)
                      BY <1>2, Zenon DEF Draw
                <3> QED
                      BY <1>0, <3>1, AppendFacts DEF BuildType
          <2>3. BuildType'
                BY <1>0, <2>1, <2>2 DEF BuildType, ValidOptions
          <2> QED
                BY <2>1, <2>3, BuildStep
    <1>3. CASE Drawn
          <2>1. /\ phase # "store" /\ BuildType' /\ phase' # "store"
                /\ UNCHANGED <<options, files, planning, invoking>>
                BY <1>0, <1>3 DEF Drawn, BuildType, ValidOptions
          <2> QED
                BY <2>1, BuildStep
    <1>4. CASE Mutate
          <2>1. /\ phase # "store" /\ phase' = phase /\ positive' = positive
                /\ \E c : negative' = Append(negative, c)
                /\ UNCHANGED <<options, files, planning, invoking>>
                BY <1>4 DEF Mutate
          <2>2. IsSeq(negative')
                BY <1>0, <2>1, AppendFacts DEF BuildType
          <2>3. BuildType'
                BY <1>0, <2>1, <2>2 DEF BuildType, ValidOptions
          <2> QED
                BY <2>1, <2>3, BuildStep
    <1>5. CASE Seal
          <2>1. /\ phase = "mutate" /\ BuildType'
                /\ UNCHANGED <<options, files, planning, invoking>>
                BY <1>0, <1>5 DEF Seal, BuildType, ValidOptions
          <2>2. phase' = "store" => Sealed'
                <3> SUFFICES ASSUME phase' = "store" PROVE Sealed'
                    OBVIOUS
                <3>1. /\ plan' = [cases |-> SelectCases,
                                  grants |-> CampaignGrants(SelectCases)]
                      /\ options' = options
                      BY <1>5 DEF Seal
                <3>2. /\ plan'.cases = SelectCases
                      /\ plan'.grants = CampaignGrants(SelectCases)
                      BY <3>1
                <3>3. CampaignGrants(plan.cases)' = CampaignGrants(SelectCases)
                      BY <3>2 DEF CampaignGrants, RequestGrants, Grant
                <3> QED
                      BY <3>1, <3>2, <3>3, SelectedFacts DEF Sealed
          <2> QED
                BY <2>1, <2>2, BuildStep
    <1> QED
          BY <1>1, <1>2, <1>3, <1>4, <1>5

(* Storing: the files, the planners.                                       *)
LEMMA StoreStep ==
    ASSUME CampaignInv, phase = "store", UNCHANGED building, UNCHANGED invoking,
           FileType', Storage'
    PROVE  CampaignInv'
    <1>0. /\ options' = options /\ phase' = phase /\ positive' = positive
          /\ negative' = negative /\ plan' = plan
          /\ step' = step /\ index' = index /\ reply' = reply
          /\ results' = results /\ evidence' = evidence /\ sent' = sent
          /\ replies' = replies /\ outcome' = outcome
          BY DEF building, invoking
    <1>1. BuildType'
          BY <1>0 DEF CampaignInv, BuildType, ValidOptions
    <1>2. InvokeType'
          BY <1>0 DEF CampaignInv, InvokeType
    <1>3. Sealing'
          BY <1>0 DEF CampaignInv, Sealing, Sealed, Granted, CampaignGrants,
                      RequestGrants, Grant
    <1>4. Pace'
          BY <1>0 DEF CampaignInv, Pace
    <1>5. Ledger'
          BY <1>0 DEF CampaignInv, Ledger, Tally, Verdict, Assess
    <1>6. OnlySealedSent'
          BY <1>0 DEF CampaignInv, OnlySealedSent, RequestGrants, Grant
    <1>7. ObservationAccounts'
          BY <1>0 DEF CampaignInv, ObservationAccounts, Verdict, Assess
    <1> QED
          BY <1>1, <1>2, <1>3, <1>4, <1>5, <1>6, <1>7 DEF CampaignInv

(* A planner that is storing is at a file of the campaign.                 *)
LEMMA StoringFacts ==
    ASSUME CampaignInv, NEW p \in Planners, NEW at, Storing(p, at)
    PROVE  /\ phase = "store" /\ p \in options.planners /\ pc[p] = at
           /\ file[p] \in Files /\ CampaignFile \in Files
           /\ file[p] <= CampaignFile
    <1>1. /\ phase = "store" /\ options \in Options /\ IsSeq(plan.cases)
          /\ Len(plan.cases) <= options.cases /\ file[p] \in Nat \ {0}
          BY DEF CampaignInv, Sealing, Sealed, BuildType, FileType, Storing
    <1>2. Len(plan.cases) \in Nat
          BY <1>1, IsSeqFacts
    <1> QED
          BY <1>1, <1>2, MaxFilesFacts DEF Storing, CampaignFile, Files

LEMMA OpenStep ==
    ASSUME CampaignInv, NEW p \in Planners, Open(p)
    PROVE  CampaignInv'
    <1> DEFINE f == file[p]
               i == IF temporary[f] = Nobody THEN p ELSE temporary[f]
    <1>0. /\ UNCHANGED building /\ UNCHANGED invoking /\ UNCHANGED <<final, file>>
          /\ temporary' = [temporary EXCEPT ![f] = i]
          /\ written' = written \ {<<f, i>>}
          /\ fd' = [fd EXCEPT ![p] = i] /\ pc' = [pc EXCEPT ![p] = "write"]
          BY DEF Open
    <1>1. phase = "store" /\ p \in options.planners /\ pc[p] = "open" /\ f \in Files
          BY StoringFacts DEF Open
    <1>2. FileType /\ Storage
          BY DEF CampaignInv
    <1>3. i \in Planners /\ i # Nobody
          BY <1>1, <1>2, InodeAssumption DEF FileType
    <1>4. fd[p] = Nobody
          BY <1>1, <1>2 DEF Storage, FileType
    <1> HIDE DEF i, f
    <1>5. FileType'
          BY <1>0, <1>1, <1>2, <1>3 DEF FileType
    <1>6. Crashed' = Crashed
          BY <1>0, <1>1, <1>2 DEF Crashed, FileType, building
    <1>7. ASSUME Crashed' = {}, NEW g \in Files, NEW j \in Planners,
                 j \in {temporary'[g], final'[g]}
          PROVE  Covered(g, j)'
          <2>1. CASE g = f /\ j = i
                BY <1>0, <1>2, <2>1 DEF Covered, FileType, f
          <2>2. CASE ~(g = f /\ j = i)
                <3>1. j \in {temporary[g], final[g]}
                      BY <1>0, <1>1, <1>2, <1>7, <2>2 DEF FileType
                <3>2. Covered(g, j)
                      BY <1>2, <1>6, <1>7, <3>1 DEF Storage
                <3>3. CASE <<g, j>> \in written
                      BY <1>0, <2>2, <3>3 DEF Covered
                <3>4. CASE \E q \in Planners : file[q] = g /\ fd[q] = j
                      <4>1. PICK q \in Planners : file[q] = g /\ fd[q] = j
                            BY <3>4
                      <4>2. q # p
                            BY <1>4, <4>1, InodeAssumption
                      <4> QED
                            BY <1>0, <1>2, <4>1, <4>2 DEF Covered, FileType
                <3> QED
                      BY <3>2, <3>3, <3>4 DEF Covered
          <2> QED
                BY <2>1, <2>2
    <1>8. Storage'
          <2>1. \A q \in Planners : (fd[q] # Nobody <=> pc[q] = "write")'
                BY <1>0, <1>2, <1>3 DEF FileType, Storage
          <2> QED
                BY <1>0, <1>2, <1>7, <2>1 DEF Storage
    <1> QED
          BY <1>0, <1>1, <1>5, <1>8, StoreStep

LEMMA WriteStep ==
    ASSUME CampaignInv, NEW p \in Planners, Write(p)
    PROVE  CampaignInv'
    <1> DEFINE f == file[p]
               i == fd[p]
    <1>0. /\ UNCHANGED building /\ UNCHANGED invoking
          /\ UNCHANGED <<temporary, final, file>>
          /\ written' = written \cup {<<f, i>>}
          /\ fd' = [fd EXCEPT ![p] = Nobody] /\ pc' = [pc EXCEPT ![p] = "rename"]
          BY DEF Write
    <1>1. phase = "store" /\ pc[p] = "write" /\ f \in Files
          BY StoringFacts DEF Write
    <1>2. FileType /\ Storage
          BY DEF CampaignInv
    <1>3. i \in Planners
          BY <1>1, <1>2 DEF FileType, Storage
    <1>5. FileType'
          BY <1>0, <1>1, <1>2, <1>3 DEF FileType
    <1>6. Crashed' = Crashed
          BY <1>0, <1>1, <1>2 DEF Crashed, FileType, building
    <1>7. ASSUME Crashed' = {}, NEW g \in Files, NEW j \in Planners,
                 j \in {temporary'[g], final'[g]}
          PROVE  Covered(g, j)'
          <2>1. Covered(g, j)
                BY <1>0, <1>2, <1>6, <1>7 DEF Storage
          <2>2. CASE <<g, j>> \in written
                BY <1>0, <2>2 DEF Covered
          <2>3. CASE \E q \in Planners : file[q] = g /\ fd[q] = j
                <3>1. PICK q \in Planners : file[q] = g /\ fd[q] = j
                      BY <2>3
                <3>2. CASE q = p
                      BY <1>0, <3>1, <3>2 DEF Covered
                <3>3. CASE q # p
                      BY <1>0, <1>2, <3>1, <3>3 DEF Covered, FileType
                <3> QED
                      BY <3>2, <3>3
          <2> QED
                BY <2>1, <2>2, <2>3 DEF Covered
    <1>8. Storage'
          <2>1. \A q \in Planners : (fd[q] # Nobody <=> pc[q] = "write")'
                BY <1>0, <1>2, <1>3 DEF FileType, Storage
          <2> QED
                BY <1>0, <1>2, <1>7, <2>1 DEF Storage
    <1> QED
          BY <1>0, <1>1, <1>5, <1>8, StoreStep

(* A planner whose temporary another has renamed, or that dies, leaves the *)
(* files as they are; from then on they need not be whole.                 *)
LEMMA FailedStep ==
    ASSUME CampaignInv, NEW p \in Planners, phase = "store",
           p \in options.planners, UNCHANGED building, UNCHANGED invoking,
           UNCHANGED files, UNCHANGED file,
           pc' = [pc EXCEPT ![p] = "failed"],
           fd' = [fd EXCEPT ![p] = Nobody]
    PROVE  CampaignInv'
    <1>1. FileType /\ Storage
          BY DEF CampaignInv
    <1>2. FileType'
          BY <1>1 DEF FileType, files
    <1>3. Crashed' # {}
          <2>1. pc'[p] = "failed" /\ options' = options
                BY <1>1 DEF FileType, building
          <2> QED
                BY <2>1 DEF Crashed
    <1>4. Storage'
          BY <1>1, <1>3 DEF Storage, FileType, files
    <1> QED
          BY <1>2, <1>4, StoreStep

LEMMA RenameStep ==
    ASSUME CampaignInv, NEW p \in Planners, Rename(p)
    PROVE  CampaignInv'
    <1> DEFINE f == file[p]
    <1>0. /\ UNCHANGED building /\ UNCHANGED invoking
          /\ written' = written /\ fd' = fd
          BY DEF Rename
    <1>1. /\ phase = "store" /\ p \in options.planners /\ pc[p] = "rename"
          /\ f \in Files /\ f \in Nat
          BY StoringFacts, MaxFilesFacts DEF Rename, Files
    <1>2. FileType /\ Storage
          BY DEF CampaignInv
    <1>3. fd[p] = Nobody
          BY <1>1, <1>2 DEF Storage
    <1>4. CASE temporary[f] = Nobody
          <2>1. /\ pc' = [pc EXCEPT ![p] = "failed"] /\ UNCHANGED files
                /\ UNCHANGED file
                BY <1>0, <1>4 DEF Rename, files
          <2>2. fd' = [fd EXCEPT ![p] = Nobody]
                BY <1>0, <1>2, <1>3 DEF FileType
          <2> QED
                BY <1>0, <1>1, <2>1, <2>2, FailedStep
    <1>5. CASE temporary[f] # Nobody
          <2>0. /\ final' = [final EXCEPT ![f] = temporary[f]]
                /\ temporary' = [temporary EXCEPT ![f] = Nobody]
                /\ file' = [file EXCEPT ![p] = f + 1]
                /\ pc' = [pc EXCEPT ![p] = "open"]
                BY <1>5 DEF Rename
          <2> HIDE DEF f
          <2>1. temporary[f] \in Planners
                BY <1>1, <1>2, <1>5 DEF FileType
          <2>2. FileType'
                BY <1>0, <1>1, <1>2, <2>0, <2>1 DEF FileType, Inodes
          <2>3. Crashed' = Crashed
                BY <1>0, <1>1, <1>2, <2>0 DEF Crashed, FileType, building
          <2>4. ASSUME Crashed' = {}, NEW g \in Files, NEW j \in Planners,
                       j \in {temporary'[g], final'[g]}
                PROVE  Covered(g, j)'
                <3>1. j \in {temporary[g], final[g]}
                      BY <1>1, <1>2, <2>0, <2>4, InodeAssumption DEF FileType
                <3>2. Covered(g, j)
                      BY <1>2, <2>3, <2>4, <3>1 DEF Storage
                <3>3. CASE <<g, j>> \in written
                      BY <1>0, <3>3 DEF Covered
                <3>4. CASE \E q \in Planners : file[q] = g /\ fd[q] = j
                      <4>1. PICK q \in Planners : file[q] = g /\ fd[q] = j
                            BY <3>4
                      <4>2. q # p
                            BY <1>3, <4>1, InodeAssumption
                      <4> QED
                            BY <1>0, <1>2, <2>0, <4>1, <4>2
                               DEF Covered, FileType
                <3> QED
                      BY <3>2, <3>3, <3>4 DEF Covered
          <2>5. \A q \in Planners : (fd[q] # Nobody <=> pc[q] = "write")'
                BY <1>0, <1>1, <1>2, <1>3, <2>0 DEF FileType, Storage
          <2>6. ASSUME NEW g \in Files, NEW q \in Planners, g < file'[q]
                PROVE  final'[g] # Nobody
                <3>1. CASE g = f
                      BY <1>1, <1>2, <1>5, <2>0, <3>1 DEF FileType
                <3>2. CASE g # f
                      <4>1. g < file[q]
                            <5>1. g \in Nat
                                  BY MaxFilesFacts DEF Files
                            <5>2. CASE q = p
                                  BY <1>1, <1>2, <2>0, <2>6, <3>2, <5>1, <5>2
                                     DEF FileType, f
                            <5>3. CASE q # p
                                  BY <1>2, <2>0, <2>6, <5>3 DEF FileType
                            <5> QED
                                  BY <5>2, <5>3
                      <4> QED
                            BY <1>2, <2>0, <3>2, <4>1 DEF Storage, FileType
                <3> QED
                      BY <3>1, <3>2
          <2>7. ASSUME NEW g \in Files, final'[g] # Nobody
                PROVE  \E q \in Planners : g < file'[q]
                <3>0. g \in Nat
                      BY MaxFilesFacts DEF Files
                <3>1. CASE g = f
                      BY <1>1, <1>2, <2>0, <3>0, <3>1 DEF FileType
                <3>2. CASE g # f
                      <4>1. PICK q \in Planners : g < file[q]
                            BY <1>2, <2>0, <2>7, <3>2 DEF Storage, FileType
                      <4>2. g < file'[q]
                            <5>1. CASE q = p
                                  BY <1>1, <1>2, <2>0, <3>0, <4>1, <5>1
                                     DEF FileType, f
                            <5>2. CASE q # p
                                  BY <1>2, <2>0, <4>1, <5>2 DEF FileType
                            <5> QED
                                  BY <5>1, <5>2
                      <4> QED
                            BY <4>2
                <3> QED
                      BY <3>1, <3>2
          <2>8. Storage'
                BY <2>4, <2>5, <2>6, <2>7 DEF Storage
          <2> QED
                BY <1>0, <1>1, <2>2, <2>8, StoreStep
    <1> QED
          BY <1>4, <1>5

LEMMA CrashStep ==
    ASSUME CampaignInv, NEW p \in Planners, Crash(p)
    PROVE  CampaignInv'
    <1>1. /\ phase = "store" /\ p \in options.planners
          BY DEF Crash, Storing
    <1> QED
          BY <1>1, FailedStep DEF Crash

LEMMA SubstituteStep ==
    ASSUME CampaignInv, NEW f \in Files, Substitute(f)
    PROVE  CampaignInv'
    <1>0. /\ phase = "store" /\ UNCHANGED building /\ UNCHANGED invoking
          /\ temporary' = temporary /\ written' = written
          /\ pc' = pc /\ file' = file /\ fd' = fd
          /\ final' = [final EXCEPT ![f] = Foreign] /\ final[f] \in Planners
          BY DEF Substitute, planning
    <1>1. FileType /\ Storage
          BY DEF CampaignInv
    <1>2. FileType'
          BY <1>0, <1>1 DEF FileType, Inodes
    <1>3. Crashed' = Crashed
          BY <1>0 DEF Crashed, building
    <1>4. final[f] # Nobody /\ Foreign # Nobody
          BY <1>0, InodeAssumption DEF Foreign, Nobody
    <1>5. /\ \A g \in Files : final'[g] # Nobody <=> final[g] # Nobody
          /\ \A g \in Files : final'[g] \in Planners => final'[g] = final[g]
          BY <1>0, <1>1, <1>4, InodeAssumption DEF FileType
    <1>6. Storage'
          BY <1>0, <1>1, <1>3, <1>5 DEF Storage, Covered
    <1> QED
          BY <1>0, <1>2, <1>6, StoreStep
-----------------------------------------------------------------------------
(* Invoking the campaign.                                                  *)

LEMMA VerdictFacts ==
    ASSUME NEW r \in Replies, NEW g
    PROVE  /\ Verdict(g, r) \in Verdicts
           /\ Verdict(g, r) = "passed" <=>
                 /\ r.kind = "observation" /\ r.exit = 0
                 /\ IF g = "negative" THEN r.status \in 400 .. 499
                    ELSE r.status < 500
           /\ Verdict(g, r) = "denied" <=> r.kind = "denied"
    <1>1. /\ r.kind \in {"observation", "denied", "transport", "refused"}
          /\ r.status \in {0, 200, 400, 500}
          BY DEF Replies
    <1>2. Assess(g, r) <=>
             /\ r.kind = "observation" /\ r.exit = 0
             /\ IF g = "negative" THEN r.status \in 400 .. 499
                ELSE r.status < 500
          BY <1>1 DEF Assess
    <1>3. CASE Assess(g, r)
          BY <1>2, <1>3 DEF Verdict, Verdicts
    <1>4. CASE ~Assess(g, r) /\ r.kind \in {"denied", "transport"}
          BY <1>2, <1>4 DEF Verdict, Verdicts
    <1>5. CASE ~Assess(g, r) /\ r.kind \notin {"denied", "transport"}
          BY <1>2, <1>5 DEF Verdict, Verdicts
    <1> QED
          BY <1>3, <1>4, <1>5

LEMMA InvokeStep ==
    ASSUME CampaignInv, phase = "store", UNCHANGED building, UNCHANGED files,
           UNCHANGED planning, InvokeType', Pace', Ledger',
           ObservationAccounts',
           step' \in {"case", "invoke", "record"} \/ sent' # << >> => Granted,
           step' = "done" /\ outcome'.kind = "observation" =>
              evidence' = 1 .. Len(sent')
    PROVE  CampaignInv'
    <1>0. /\ options' = options /\ phase' = phase /\ positive' = positive
          /\ negative' = negative /\ plan' = plan
          /\ temporary' = temporary /\ final' = final /\ written' = written
          /\ pc' = pc /\ file' = file /\ fd' = fd
          BY DEF building, files, planning
    <1>1. BuildType' /\ FileType'
          BY <1>0 DEF CampaignInv, BuildType, ValidOptions, FileType
    <1>2. Storage'
          BY <1>0 DEF CampaignInv, Storage, Covered, Crashed
    <1>3. Sealing'
          BY <1>0 DEF CampaignInv, Sealing, Sealed, Granted, CampaignGrants,
                      RequestGrants, Grant
    <1>4. ASSUME NEW i \in DOMAIN sent'
          PROVE  (/\ sent[i][1] = i /\ sent[i][2] \in Planners
                  /\ RequestGrants(plan.cases[i]) \subseteq options.grants
                  /\ Grant("execute", Len(plan.cases)) \in options.grants
                  /\ i < Len(sent) => i \in evidence)'
          <2>1. /\ sent'[i][1] = i /\ sent'[i][2] \in Planners
                /\ i \in DOMAIN plan.cases
                /\ i < Len(sent') => i \in evidence'
                BY <1>0, <1>4 DEF Ledger
          <2>2. plan.grants \subseteq options.grants
                <3>1. sent' # << >>
                      BY <1>4, IsSeqEmpty
                <3> QED
                      BY <3>1 DEF Granted
          <2>3. plan.grants = CampaignGrants(plan.cases)
                BY DEF CampaignInv, Sealing, Sealed
          <2>4. /\ RequestGrants(plan.cases[i]) \subseteq plan.grants
                /\ Grant("execute", Len(plan.cases)) \in plan.grants
                <3> DEFINE own == {RequestGrants(plan.cases[j]) :
                                     j \in DOMAIN plan.cases}
                           last == Grant("execute", Len(plan.cases))
                <3>1. plan.grants = (UNION own) \cup {last}
                      BY <2>3, Zenon DEF CampaignGrants
                <3>2. RequestGrants(plan.cases[i]) \in own
                      BY <2>1
                <3> HIDE DEF own, last
                <3>3. ASSUME NEW x \in RequestGrants(plan.cases[i])
                      PROVE  x \in plan.grants
                      <4>1. x \in UNION own
                            BY <3>2
                      <4> QED
                            BY <3>1, <4>1
                <3>4. last \in plan.grants
                      BY <3>1
                <3> QED
                      BY <3>3, <3>4 DEF last
          <2>5. /\ RequestGrants(plan.cases[i]) \subseteq options.grants
                /\ Grant("execute", Len(plan.cases)) \in options.grants
                BY <2>2, <2>4
          <2> QED
                BY <1>0, <2>1, <2>5 DEF RequestGrants, Grant
    <1>5. OnlySealedSent'
          BY <1>4 DEF OnlySealedSent
    <1> QED
          BY <1>1, <1>2, <1>3, <1>5 DEF CampaignInv

(* An error ends the campaign wherever it is.                              *)
LEMMA AbortStep ==
    ASSUME CampaignInv, phase = "store", UNCHANGED building, UNCHANGED files,
           UNCHANGED planning,
           UNCHANGED <<index, reply, results, evidence, sent, replies>>,
           NEW why, Done(Aborted(why))
    PROVE  CampaignInv'
    <1>0. /\ step' = "done" /\ outcome'.kind = "error"
          /\ options' = options /\ plan' = plan
          BY DEF Done, Aborted, building
    <1>1. InvokeType'
          BY <1>0 DEF CampaignInv, InvokeType
    <1>2. Pace'
          BY <1>0 DEF CampaignInv, Pace
    <1>3. Ledger'
          BY <1>0 DEF CampaignInv, Ledger, Tally, Verdict, Assess
    <1>4. ObservationAccounts'
          BY <1>0 DEF ObservationAccounts
    <1>5. sent' # << >> => Granted
          BY DEF CampaignInv, Sealing
    <1> QED
          BY <1>0, <1>1, <1>2, <1>3, <1>4, <1>5, InvokeStep

LEMMA LoadStep == ASSUME CampaignInv, Load PROVE CampaignInv'
    <1>0. /\ phase = "store" /\ step = "load"
          /\ UNCHANGED building /\ UNCHANGED files /\ UNCHANGED planning
          /\ UNCHANGED <<index, reply, results, evidence, sent, replies>>
          BY DEF Load
    <1>1. CASE Done(Aborted("InvalidSeal"))
          BY <1>0, <1>1, AbortStep
    <1>2. CASE step' = "gate" /\ outcome' = outcome
          <2>0. options' = options /\ plan' = plan
                BY <1>0 DEF building
          <2>1. InvokeType'
                BY <1>0, <1>2 DEF CampaignInv, InvokeType
          <2>2. Pace'
                BY <1>0, <1>2, <2>0 DEF CampaignInv, Pace
          <2>3. Ledger'
                BY <1>0, <1>2, <2>0 DEF CampaignInv, Ledger, Tally, Verdict, Assess
          <2>4. outcome'.kind = "none" /\ (sent' # << >> => Granted)
                BY <1>0, <1>2 DEF CampaignInv, Pace, Sealing
          <2>5. ObservationAccounts'
                BY <2>4 DEF ObservationAccounts
          <2> QED
                BY <1>0, <1>2, <2>1, <2>2, <2>3, <2>4, <2>5, InvokeStep
    <1> QED
          BY <1>1, <1>2 DEF Load

(* Past loading the campaign is sealed.                                    *)
LEMMA Stored == ASSUME CampaignInv, step # "load" PROVE phase = "store"
    BY DEF CampaignInv, Sealing

LEMMA GateStep == ASSUME CampaignInv, Gate PROVE CampaignInv'
    <1>0. /\ phase = "store" /\ step = "gate"
          /\ UNCHANGED building /\ UNCHANGED files /\ UNCHANGED planning
          /\ UNCHANGED <<index, reply, results, evidence, sent, replies>>
          /\ options' = options /\ plan' = plan
          BY Stored DEF Gate, building
    <1>1. CASE Done(Aborted("Plan"))
          BY <1>0, <1>1, AbortStep
    <1>2. /\ index = 1 /\ Len(sent) = 0 /\ Len(replies) = 0 /\ Len(results) = 0
          /\ evidence = 1 .. 0 /\ outcome.kind = "none"
          /\ (sent # << >> => Granted)
          BY <1>0 DEF CampaignInv, Pace, Sealing
    <1>3. Ledger'
          <2>1. step' \notin {"invoke", "record"}
                BY <1>0 DEF Gate, Done
          <2> QED
                BY <1>0, <2>1 DEF CampaignInv, Ledger, Tally, Verdict, Assess
    <1>4. CASE /\ ~(plan.grants \subseteq options.grants)
               /\ Done([kind |-> "observation", executed |-> 0, passed |-> 0,
                        failed |-> 0, exit |-> 4])
          <2>1. step' = "done"
                BY <1>4 DEF Done
          <2>2. InvokeType'
                BY <1>0, <2>1 DEF CampaignInv, InvokeType
          <2>3. Pace'
                BY <1>0, <1>2, <2>1 DEF Pace
          <2>4. ObservationAccounts'
                BY <1>0, <1>4 DEF ObservationAccounts
          <2> QED
                BY <1>0, <1>2, <1>3, <2>1, <2>2, <2>3, <2>4, InvokeStep
    <1>5. CASE /\ plan.grants \subseteq options.grants
               /\ step' = "case" /\ outcome' = outcome
          <2>1. InvokeType'
                BY <1>0, <1>5 DEF CampaignInv, InvokeType
          <2>2. Len(plan.cases) \in Nat
                BY <1>0, IsSeqFacts DEF CampaignInv, Sealing, Sealed
          <2>3. Pace'
                BY <1>0, <1>2, <1>5, <2>2 DEF Pace
          <2>4. ObservationAccounts'
                BY <1>2, <1>5 DEF ObservationAccounts
          <2> QED
                BY <1>0, <1>3, <1>5, <2>1, <2>3, <2>4, InvokeStep DEF Granted
    <1> QED
          BY <1>1, <1>4, <1>5 DEF Gate

LEMMA LoadCaseStep == ASSUME CampaignInv, LoadCase PROVE CampaignInv'
    <1>0. /\ phase = "store" /\ step = "case" /\ index <= Len(plan.cases)
          /\ UNCHANGED building /\ UNCHANGED files /\ UNCHANGED planning
          /\ UNCHANGED <<index, reply, results, evidence, replies>>
          /\ options' = options /\ plan' = plan
          /\ Tally(results, Failures) < options.max_failures
          BY Stored DEF LoadCase, building, MayContinue, Count, Tally, Failures
    <1>1. CASE Done(Aborted("InvalidCase")) /\ UNCHANGED sent
          BY <1>0, <1>1, AbortStep
    <1>2. CASE /\ Matches(index) /\ step' = "invoke" /\ outcome' = outcome
               /\ sent' = Append(sent, <<index, final[index]>>)
          <2> DEFINE e == <<index, final[index]>>
          <2>1. /\ index \in Nat \ {0} /\ IsSeq(sent) /\ Len(sent) = index - 1
                /\ Len(replies) = index - 1 /\ Len(results) = index - 1
                /\ evidence = 1 .. (index - 1) /\ outcome.kind = "none"
                /\ Granted /\ IsSeq(plan.cases)
                BY <1>0 DEF CampaignInv, InvokeType, Pace, Sealing, Sealed
          <2>2. e[1] = index /\ e[2] \in Planners
                BY <1>2 DEF Matches, LoadPlan, CampaignInv, FileType
          <2> HIDE DEF e
          <2>3. /\ IsSeq(sent') /\ Len(sent') = Len(sent) + 1
                /\ DOMAIN sent' = 1 .. (Len(sent) + 1)
                /\ sent'[Len(sent) + 1] = e
                /\ \A i \in 1 .. Len(sent) : sent'[i] = sent[i]
                /\ DOMAIN sent = 1 .. Len(sent)
                BY <1>2, <2>1, AppendFacts DEF e
          <2>4. /\ Len(sent') = index /\ DOMAIN sent' = 1 .. index
                /\ sent'[index] = e /\ DOMAIN sent = 1 .. (index - 1)
                /\ \A i \in 1 .. (index - 1) : sent'[i] = sent[i]
                BY <2>1, <2>3
          <2>5. InvokeType'
                BY <1>0, <1>2, <2>3 DEF CampaignInv, InvokeType
          <2>6. Pace'
                BY <1>0, <1>2, <2>1, <2>4 DEF Pace
          <2>7. ASSUME NEW i \in DOMAIN sent'
                PROVE  /\ sent'[i][1] = i /\ sent'[i][2] \in Planners
                       /\ i \in DOMAIN plan.cases
                       /\ i < Len(sent') => i \in evidence
                <3>1. i \in 1 .. (index - 1) \/ i = index
                      BY <2>1, <2>4
                <3>2. i \in DOMAIN plan.cases
                      BY <1>0, <2>1, <2>4, <2>7, IsSeqFacts
                <3>3. i < Len(sent') => i \in evidence
                      BY <2>1, <2>4, <2>7
                <3>4. CASE i = index
                      BY <2>2, <2>4, <3>2, <3>3, <3>4
                <3>5. CASE i \in 1 .. (index - 1)
                      <4>1. sent'[i] = sent[i] /\ i \in DOMAIN sent
                            BY <2>4, <3>5
                      <4> QED
                            BY <4>1, <3>2, <3>3 DEF CampaignInv, Ledger
                <3> QED
                      BY <3>1, <3>4, <3>5
          <2>8. Ledger'
                BY <1>0, <1>2, <2>7 DEF CampaignInv, Ledger, Tally, Verdict, Assess
          <2>9. ObservationAccounts'
                BY <1>2, <2>1 DEF ObservationAccounts
          <2> QED
                BY <1>0, <1>2, <2>1, <2>5, <2>6, <2>8, <2>9, InvokeStep
    <1> QED
          BY <1>1, <1>2 DEF LoadCase

LEMMA InvokeCaseStep == ASSUME CampaignInv, Invoke PROVE CampaignInv'
    <1>0. /\ phase = "store" /\ step = "invoke" /\ step' = "record"
          /\ UNCHANGED building /\ UNCHANGED files /\ UNCHANGED planning
          /\ UNCHANGED <<index, results, evidence, sent, outcome>>
          /\ options' = options /\ plan' = plan
          BY Stored DEF Invoke, building
    <1>1. PICK r \in Replies : reply' = r /\ replies' = Append(replies, r)
          BY DEF Invoke
    <1>2. /\ index \in Nat \ {0} /\ replies \in Seq(Replies)
          /\ Len(replies) = index - 1 /\ Len(results) = index - 1
          /\ results \in Seq(Verdicts) /\ Granted /\ outcome.kind = "none"
          BY <1>0 DEF CampaignInv, InvokeType, Pace, Sealing
    <1>3. /\ replies' \in Seq(Replies) /\ Len(replies') = index
          /\ replies'[index] = r /\ DOMAIN replies' = 1 .. index
          /\ \A i \in 1 .. (index - 1) : replies'[i] = replies[i]
          BY <1>1, <1>2
    <1>4. InvokeType'
          BY <1>0, <1>3 DEF CampaignInv, InvokeType
    <1>5. Pace'
          BY <1>0, <1>1, <1>3 DEF CampaignInv, Pace
    <1>6. ASSUME NEW i \in DOMAIN results
          PROVE  /\ i \in DOMAIN replies'
                 /\ results[i] = Verdict(plan.cases[i].generation, replies'[i])
          <2>1. i \in 1 .. (index - 1)
                BY <1>2
          <2>2. i \in DOMAIN replies' /\ replies'[i] = replies[i]
                BY <1>2, <1>3, <2>1
          <2> QED
                BY <2>2 DEF CampaignInv, Ledger
    <1>7. Ledger'
          <2>1. \A i \in DOMAIN results' :
                   (/\ i \in DOMAIN replies
                    /\ results[i] = Verdict(plan.cases[i].generation, replies[i]))'
                BY <1>0, <1>6 DEF Verdict, Assess
          <2> QED
                BY <1>0, <2>1 DEF CampaignInv, Ledger, Tally
    <1>8. ObservationAccounts'
          BY <1>0, <1>2 DEF ObservationAccounts
    <1> QED
          BY <1>0, <1>2, <1>4, <1>5, <1>7, <1>8, InvokeStep

LEMMA RecordStep == ASSUME CampaignInv, Record PROVE CampaignInv'
    <1>0. /\ phase = "store" /\ step = "record"
          /\ UNCHANGED building /\ UNCHANGED files /\ UNCHANGED planning
          /\ UNCHANGED <<reply, sent, replies>>
          /\ options' = options /\ plan' = plan
          BY Stored DEF Record, building
    <1>1. CASE Done(Aborted("Evidence")) /\ UNCHANGED <<evidence, results, index>>
          BY <1>0, <1>1, AbortStep
    <1> DEFINE v == Verdict(plan.cases[index].generation, reply)
    <1>2. CASE /\ evidence' = evidence \cup {index}
               /\ results' = Append(results, v)
               /\ index' = index + 1 /\ step' = "case" /\ outcome' = outcome
          <2>1. /\ index \in Nat \ {0} /\ replies \in Seq(Replies)
                /\ results \in Seq(Verdicts) /\ Len(sent) = index
                /\ Len(replies) = index /\ Len(results) = index - 1
                /\ reply = replies[index] /\ evidence = 1 .. (index - 1)
                /\ Granted /\ outcome.kind = "none"
                /\ index <= Len(plan.cases)
                BY <1>0 DEF CampaignInv, InvokeType, Pace, Sealing
          <2>2. reply \in Replies
                BY <2>1
          <2>3. v \in Verdicts
                BY <2>2, VerdictFacts
          <2>4. v = Verdict(plan.cases[index].generation, replies[index])
                BY <2>1
          <2> HIDE DEF v
          <2>5. /\ results' \in Seq(Verdicts) /\ Len(results') = index
                /\ results'[index] = v /\ DOMAIN results' = 1 .. index
                /\ \A i \in 1 .. (index - 1) : results'[i] = results[i]
                BY <1>2, <2>1, <2>3
          <2>6. InvokeType'
                BY <1>0, <1>2, <2>1, <2>5 DEF CampaignInv, InvokeType
          <2>7. evidence' = 1 .. ((index + 1) - 1)
                BY <1>2, <2>1
          <2>8. Len(plan.cases) \in Nat
                BY <1>0, IsSeqFacts DEF CampaignInv, Sealing, Sealed
          <2>9. Pace'
                BY <1>0, <1>2, <2>1, <2>5, <2>7, <2>8 DEF Pace
          <2>10. ASSUME NEW i \in DOMAIN results'
                 PROVE  /\ i \in DOMAIN replies
                        /\ results'[i] = Verdict(plan.cases[i].generation, replies[i])
                <3>1. i \in 1 .. (index - 1) \/ i = index
                      BY <2>1, <2>5
                <3>2. i \in DOMAIN replies
                      BY <2>1, <2>5
                <3>3. CASE i = index
                      BY <2>4, <2>5, <3>2, <3>3
                <3>4. CASE i \in 1 .. (index - 1)
                      <4>1. results'[i] = results[i] /\ i \in DOMAIN results
                            BY <2>1, <2>5, <3>4
                      <4> QED
                            BY <3>2, <4>1 DEF CampaignInv, Ledger
                <3> QED
                      BY <3>1, <3>3, <3>4
          <2>11. Tally(results', Failures) <= options.max_failures
                <3>1. /\ Tally(results, Failures) < options.max_failures
                      /\ options.max_failures \in Nat
                      BY <1>0, CampaignAssumption
                         DEF CampaignInv, Ledger, BuildType
                <3>2. Tally(results, Failures) \in Nat
                      <4>1. Len(results) \in Nat /\ DOMAIN results = 1 .. Len(results)
                            BY <2>1
                      <4> QED
                            BY <4>1, TallySet
                <3>3. Tally(results', Failures) =
                         Tally(results, Failures) + (IF v \in Failures THEN 1 ELSE 0)
                      BY <1>2, <2>1, <2>3, TallyAppend
                <3> QED
                      BY <3>1, <3>2, <3>3
          <2>12. Ledger'
                <3>1. \A i \in DOMAIN sent : i < Len(sent) => i \in evidence'
                      BY <1>2 DEF CampaignInv, Ledger
                <3>2. \A i \in DOMAIN results' :
                         (/\ i \in DOMAIN replies
                          /\ results[i] =
                                Verdict(plan.cases[i].generation, replies[i]))'
                      BY <1>0, <2>10 DEF Verdict, Assess
                <3>3. (Tally(results, Failures) <= options.max_failures)'
                      BY <1>0, <2>11 DEF Tally
                <3> QED
                      BY <1>0, <1>2, <3>1, <3>2, <3>3 DEF CampaignInv, Ledger
          <2>13. ObservationAccounts'
                BY <1>2, <2>1 DEF ObservationAccounts
          <2> QED
                BY <1>0, <1>2, <2>1, <2>6, <2>9, <2>12, <2>13, InvokeStep
    <1> QED
          BY <1>1, <1>2 DEF Record

LEMMA ObserveStep == ASSUME CampaignInv, Observe PROVE CampaignInv'
    <1>0. /\ phase = "store" /\ step = "case" /\ step' = "done"
          /\ UNCHANGED building /\ UNCHANGED files /\ UNCHANGED planning
          /\ UNCHANGED <<index, reply, results, evidence, sent, replies>>
          /\ options' = options /\ plan' = plan
          BY Stored DEF Observe, Done, building
    <1> DEFINE failures == Tally(results, Failures)
    <1>1. /\ outcome'.kind = "observation" /\ outcome'.executed = Len(results)
          /\ outcome'.passed = Tally(results, {"passed"})
          /\ outcome'.failed = failures
          /\ outcome'.exit = IF Tally(results, {"denied"}) > 0 THEN 4
                             ELSE IF failures = 0 THEN 0
                             ELSE IF Tally(results, {"transport"}) = failures
                                  THEN 3 ELSE 1
          BY DEF Observe, Done, Exit, Count, Tally, Failures
    <1>2. index > Len(plan.cases) \/ ~(failures < options.max_failures)
          BY DEF Observe, MayContinue, Count, Tally, Failures
    <1>3. /\ index \in Nat \ {0} /\ Len(sent) = index - 1
          /\ results \in Seq(Verdicts) /\ Len(results) = index - 1
          /\ replies \in Seq(Replies) /\ Len(replies) = index - 1
          /\ index <= Len(plan.cases) + 1 /\ evidence = 1 .. (index - 1)
          /\ Granted
          BY <1>0 DEF CampaignInv, InvokeType, Pace, Sealing
    <1>4. /\ Len(results) \in Nat /\ DOMAIN results = 1 .. Len(results)
          /\ DOMAIN replies = DOMAIN results
          /\ \A i \in DOMAIN replies : replies[i] \in Replies
          /\ \A i \in DOMAIN results : results[i] \in Verdicts
          BY <1>3
    <1>5. /\ Len(plan.cases) \in Nat
          /\ options.max_failures \in Nat /\ options.max_failures >= 1
          /\ failures <= options.max_failures
          <2>1. Len(plan.cases) \in Nat
                BY <1>0, IsSeqFacts DEF CampaignInv, Sealing, Sealed
          <2>2. options.max_failures \in 1 .. 256
                BY <1>0 DEF CampaignInv, BuildType, ValidOptions
          <2>3. failures <= options.max_failures
                BY DEF CampaignInv, Ledger
          <2>4. options.max_failures \in Nat /\ options.max_failures >= 1
                BY <2>2
          <2> QED
                BY <2>1, <2>3, <2>4
    <1>6. /\ failures \in Nat
          /\ failures = 0 <=> \A i \in DOMAIN results : results[i] \notin Failures
          /\ Tally(results, {"denied"}) \in Nat
          /\ Tally(results, {"denied"}) = 0 <=>
                \A i \in DOMAIN results : results[i] \notin {"denied"}
          /\ Tally(results, {"transport"}) = failures =>
                \A i \in DOMAIN results :
                   results[i] \in Failures => results[i] \in {"transport"}
          <2>1. {"transport"} \subseteq Failures
                BY DEF Failures
          <2> QED
                BY <1>4, <2>1, TallySet, TallyMonotonic
    <1>7. Tally(results, {"passed"}) + failures = Len(results)
          BY <1>3, TallyTotal
    <1>8. ASSUME NEW i \in DOMAIN replies
          PROVE  /\ results[i] = Verdict(plan.cases[i].generation, replies[i])
                 /\ results[i] \in Verdicts
                 /\ results[i] = "passed" <=>
                       /\ replies[i].kind = "observation" /\ replies[i].exit = 0
                       /\ IF plan.cases[i].generation = "negative"
                          THEN replies[i].status \in 400 .. 499
                          ELSE replies[i].status < 500
                 /\ results[i] = "denied" <=> replies[i].kind = "denied"
          <2>1. results[i] = Verdict(plan.cases[i].generation, replies[i])
                BY <1>4 DEF CampaignInv, Ledger
          <2>2. replies[i] \in Replies
                BY <1>4
          <2> QED
                BY <2>1, <2>2, VerdictFacts
    <1> HIDE DEF failures
    <1>9. failures = 0 <=>
             \A i \in DOMAIN replies : results[i] = "passed"
          BY <1>4, <1>6 DEF Verdicts, Failures
    <1>10. Tally(results, {"denied"}) = 0 <=>
              \A i \in DOMAIN replies : replies[i].kind # "denied"
          <2>1. \A i \in DOMAIN replies :
                   results[i] \notin {"denied"} <=> replies[i].kind # "denied"
                BY <1>8
          <2> QED
                BY <1>4, <1>6, <2>1
    <1>11. failures = 0 => Tally(results, {"denied"}) = 0
          BY <1>6 DEF Failures
    <1>12. failures = 0 => Len(replies) = Len(plan.cases)
          BY <1>2, <1>3, <1>5
    <1>13. outcome'.exit = 0 <=> failures = 0
          BY <1>1, <1>6, <1>11
    <1>14. outcome'.exit = 4 <=> Tally(results, {"denied"}) # 0
          BY <1>1, <1>6
    <1>15. outcome'.exit = 3 => Tally(results, {"transport"}) = failures
          BY <1>1, <1>6
    <1>16. outcome'.exit = 3 =>
              \A i \in DOMAIN replies :
                 Verdict(plan.cases[i].generation, replies[i])
                    \in {"passed", "transport"}
          BY <1>4, <1>6, <1>8, <1>15 DEF Verdicts, Failures
    <1>17. outcome'.exit = 0 <=>
              /\ Len(replies) = Len(plan.cases)
              /\ \A i \in DOMAIN replies :
                    /\ replies[i].kind = "observation" /\ replies[i].exit = 0
                    /\ IF plan.cases[i].generation = "negative"
                       THEN replies[i].status \in 400 .. 499
                       ELSE replies[i].status < 500
          BY <1>8, <1>9, <1>12, <1>13
    <1>18. /\ outcome'.executed = Len(sent)
           /\ outcome'.passed + outcome'.failed = outcome'.executed
           /\ outcome'.failed <= options.max_failures
           /\ outcome'.executed < Len(plan.cases) =>
                 outcome'.failed = options.max_failures
          BY <1>1, <1>2, <1>3, <1>5, <1>6, <1>7
    <1>19. outcome'.exit = 4 <=> \E i \in DOMAIN replies : replies[i].kind = "denied"
          BY <1>10, <1>14
    <1>20. ObservationAccounts'
          BY <1>0, <1>16, <1>17, <1>18, <1>19 DEF ObservationAccounts, Verdict, Assess
    <1>21. InvokeType'
          BY <1>0 DEF CampaignInv, InvokeType
    <1>22. Pace'
          BY <1>0 DEF CampaignInv, Pace
    <1>23. Ledger'
          BY <1>0 DEF CampaignInv, Ledger, Tally, Verdict, Assess
    <1>24. evidence' = 1 .. Len(sent')
          BY <1>0, <1>3
    <1> QED
          BY <1>0, <1>3, <1>20, <1>21, <1>22, <1>23, <1>24, InvokeStep

LEMMA StutterStep == ASSUME CampaignInv, UNCHANGED vars PROVE CampaignInv'
    <1>1. /\ UNCHANGED building /\ UNCHANGED files /\ UNCHANGED planning
          /\ UNCHANGED invoking
          BY DEF vars
    <1>2. BuildType' /\ FileType' /\ InvokeType'
          BY <1>1 DEF CampaignInv, BuildType, ValidOptions, FileType, InvokeType,
                      building, files, planning, invoking
    <1>3. Sealing'
          BY <1>1 DEF CampaignInv, Sealing, Sealed, Granted, CampaignGrants,
                      RequestGrants, Grant, building, planning, invoking
    <1>4. Storage'
          BY <1>1 DEF CampaignInv, Storage, Covered, Crashed, building, files,
                      planning
    <1>5. Pace' /\ Ledger'
          BY <1>1 DEF CampaignInv, Pace, Ledger, Tally, Verdict, Assess, building,
                      invoking
    <1>6. OnlySealedSent'
          BY <1>1 DEF CampaignInv, OnlySealedSent, RequestGrants, Grant, building,
                      invoking
    <1>7. ObservationAccounts'
          BY <1>1 DEF CampaignInv, ObservationAccounts, Verdict, Assess, building,
                      invoking
    <1> QED
          BY <1>2, <1>3, <1>4, <1>5, <1>6, <1>7 DEF CampaignInv

LEMMA PlannerStep ==
    ASSUME CampaignInv, NEW p \in Planners,
           Open(p) \/ Write(p) \/ Rename(p) \/ Crash(p)
    PROVE  CampaignInv'
    BY OpenStep, WriteStep, RenameStep, CrashStep

LEMMA InvocationStep == ASSUME CampaignInv, Invocation PROVE CampaignInv'
    BY LoadStep, GateStep, LoadCaseStep, InvokeCaseStep, RecordStep, ObserveStep
       DEF Invocation

LEMMA NextInv == ASSUME CampaignInv, [Next]_vars PROVE CampaignInv'
    <1>1. CASE CheckOptions \/ Draw \/ Drawn \/ Mutate \/ Seal
          BY <1>1, BuildingStep
    <1>2. CASE \E p \in Planners : Open(p) \/ Write(p) \/ Rename(p) \/ Crash(p)
          BY <1>2, PlannerStep
    <1>3. CASE \E f \in Files : Substitute(f)
          BY <1>3, SubstituteStep
    <1>4. CASE Invocation
          BY <1>4, InvocationStep
    <1>5. CASE UNCHANGED vars
          BY <1>5, StutterStep
    <1>6. Ended => UNCHANGED vars
          BY DEF Ended
    <1> QED
          BY <1>1, <1>2, <1>3, <1>4, <1>5, <1>6 DEF Next
-----------------------------------------------------------------------------
(* The theorems.                                                           *)

(* The inductive invariant of planning, storing and invoking a campaign.   *)
THEOREM CampaignInvariant == Spec => []CampaignInv
    <1>1. Init => CampaignInv
          BY InitInv
    <1>2. CampaignInv /\ [Next]_vars => CampaignInv'
          BY NextInv
    <1> QED
          BY <1>1, <1>2, PTL DEF Spec

(* store_conformance_plan: the campaign gets its name only after the plan  *)
(* of every case it names has one, whatever the number of planners that    *)
(* race for the temporaries and wherever they die; and what nobody has     *)
(* open any longer is whole unless a planner died over it.                 *)
THEOREM CampaignsStoredWhole == Spec => []StoredCampaignComplete
    <1>1. CampaignInv => StoredCampaignComplete
          <2> SUFFICES ASSUME CampaignInv, phase = "store",
                              final[CampaignFile] # Nobody,
                              NEW f \in 1 .. CampaignFile
                       PROVE  /\ final[f] # Nobody
                              /\ final[f] \in Planners /\ Crashed = {}
                                 /\ (\A p \in Planners :
                                        file[p] = f => fd[p] # final[f])
                                 => <<f, final[f]>> \in written
                BY DEF StoredCampaignComplete
          <2>1. Len(plan.cases) \in Nat /\ Len(plan.cases) <= options.cases
                BY IsSeqFacts DEF CampaignInv, Sealing, Sealed
          <2>2. /\ MaxFiles \in Nat /\ options.cases \in Nat
                /\ options.cases + 1 <= MaxFiles
                BY MaxFilesFacts DEF CampaignInv, BuildType
          <2>3. CampaignFile \in Files /\ f \in Files /\ f <= CampaignFile
                BY <2>1, <2>2 DEF CampaignFile, Files
          <2>4. PICK p \in Planners : CampaignFile < file[p]
                BY <2>3 DEF CampaignInv, Storage
          <2>5. f < file[p]
                <3>1. f \in Nat /\ CampaignFile \in Nat /\ file[p] \in Nat
                      BY <2>2, <2>3 DEF Files, CampaignInv, FileType
                <3> QED
                      BY <2>3, <2>4, <3>1
          <2>6. final[f] # Nobody
                BY <2>3, <2>5 DEF CampaignInv, Storage
          <2>7. ASSUME final[f] \in Planners, Crashed = {},
                       \A q \in Planners : file[q] = f => fd[q] # final[f]
                PROVE  <<f, final[f]>> \in written
                <3>1. Covered(f, final[f])
                      BY <2>3, <2>7 DEF CampaignInv, Storage
                <3> QED
                      BY <2>7, <3>1 DEF Covered
          <2> QED
                BY <2>6, <2>7
    <1> QED
          BY <1>1, CampaignInvariant, PTL

(* invoke_conformance hands the executor the sealed plans of the campaign  *)
(* only, in order and each once, under grants that cover them, and stores  *)
(* the evidence of each before it reads the next.                          *)
THEOREM SealedPlansSent == Spec => []OnlySealedSent
    <1>1. CampaignInv => OnlySealedSent
          BY DEF CampaignInv
    <1> QED
          BY <1>1, CampaignInvariant, PTL

(* The observation invoke_conformance returns adds up to what was sent and *)
(* to what the servers replied; its exit code says which of them failed.   *)
THEOREM ObservationsAddUp == Spec => []ObservationAccounts
    <1>1. CampaignInv => ObservationAccounts
          BY DEF CampaignInv
    <1> QED
          BY <1>1, CampaignInvariant, PTL
=============================================================================
