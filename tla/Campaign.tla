------------------------------- MODULE Campaign -----------------------------
(***************************************************************************)
(* A conformance campaign of kahea-conformance: the cases are drawn and    *)
(* selected, sealed into a campaign plan, stored file by file by one or    *)
(* several planning processes (conform on the command line, kahea_plan of  *)
(* the MCP server), and carried out case by case by a process that reads   *)
(* every plan back from the store (invoke, kahea_invoke).                  *)
(*                                                                         *)
(* Planning is deterministic for a seed, so processes that plan the same   *)
(* campaign write the same files through the same temporary names.  A file *)
(* is known by the process that created its inode; it is empty until the   *)
(* process that has it open has written it.                                *)
(***************************************************************************)
EXTENDS Integers, Sequences, FiniteSets

CONSTANTS Options,        \* the campaigns asked for: operation, bounds, grants
          Planners,       \* processes that may plan the same campaign
          Attempts,       \* draws of the generator: eight per case, at most
          Positive(_),    \* the outcomes of one draw: a request, or an error
          Negative(_, _)  \* the mutations of a request, with their strategies

ASSUME CampaignAssumption ==
    /\ Attempts \in Nat \ {0}
    /\ \A o \in Options : /\ o.cases \in Nat /\ o.max_failures \in Nat
                          /\ o.planners \subseteq Planners
                          /\ o.mode \in {"positive", "negative", "mixed"}
    \* The number of cases is bounded (the code takes at most 256).
    /\ \E o \in Options : \A q \in Options : q.cases <= o.cases

VARIABLES
    options,    \* what was asked for
    phase,      \* of planning: "options", "draw", "mutate", "store", "refused"
    positive,   \* distinct valid plans
    negative,   \* distinct invalid plans
    attempts,   \* draws made
    plan,       \* the sealed campaign: its cases and its grants
    temporary,  \* for each file the inode its temporary name refers to
    final,      \* and the one its own name refers to
    written,    \* inodes that have their content
    pc,         \* of each planner
    file,       \* the file it is at
    fd,         \* the inode it has open
    step,       \* of the invocation
    index,      \* the case it is at
    reply,      \* what invoking that case returned
    results,    \* the cases of the observation
    evidence,   \* cases with a record in the evidence store
    sent,       \* history: the plans handed to the executor
    replies,    \* history: what the executor returned for each
    outcome     \* what the call returned

building  == <<options, phase, positive, negative, attempts, plan>>
files     == <<temporary, final, written>>
planning  == <<pc, file, fd>>
invoking  == <<step, index, reply, results, evidence, sent, replies, outcome>>
vars      == <<building, files, planning, invoking>>

Case(generation, strategy, request) ==
    [generation |-> generation, strategy |-> strategy, request |-> request]

NoPlan   == [cases |-> << >>, grants |-> {}]
Nobody   == "nobody"
Foreign  == "foreign"     \* the inode of another sealed plan put in its place
Inodes   == Planners \cup {Foreign, Nobody}

ASSUME InodeAssumption == Foreign \notin Planners /\ Nobody \notin Planners

MaxFiles == 1 + CHOOSE n \in {o.cases : o \in Options} :
                   \A o \in Options : o.cases <= n
Files    == 1 .. MaxFiles

Grant(kind, n) == [kind |-> kind, n |-> n]

\* The grants of one request plan; seal_negative adds the last.
RequestGrants(case) ==
    {Grant("request", 0)} \cup
    (IF case.generation = "negative" THEN {Grant("negative", 0)} ELSE {})

Init ==
    /\ options \in Options
    /\ phase = "options" /\ positive = << >> /\ negative = << >> /\ attempts = 0
    /\ plan = NoPlan
    /\ temporary = [f \in Files |-> Nobody]
    /\ final = [f \in Files |-> Nobody]
    /\ written = {}
    /\ pc = [p \in Planners |-> "open"]
    /\ file = [p \in Planners |-> 1]
    /\ fd = [p \in Planners |-> Nobody]
    /\ step = "load" /\ index = 1 /\ reply = << >>
    /\ results = << >> /\ evidence = {} /\ sent = << >> /\ replies = << >>
    /\ outcome = [kind |-> "none"]

-----------------------------------------------------------------------------
(* build_conformance_plan.                                                 *)

\* validate_options.
ValidOptions ==
    /\ options.cases \in 1 .. 256
    /\ options.max_failures \in 1 .. 256
    /\ options.delay_ms <= 60000

CheckOptions ==
    /\ phase = "options"
    /\ phase' = IF ValidOptions THEN "draw" ELSE "refused"
    /\ UNCHANGED <<options, positive, negative, attempts, plan, files, planning,
                   invoking>>

InSequence(s, x) == \E i \in DOMAIN s : s[i] = x

\* One draw: an error of the generator or of the planner ends the building, a
\* plan drawn before is not taken twice.
Draw ==
    /\ phase = "draw" /\ Len(positive) < options.cases /\ attempts < Attempts
    /\ attempts' = attempts + 1
    /\ \E r \in Positive(options) :
          LET case == Case("positive", <<"schema-valid">>, r) IN
          IF r.kind = "error" THEN phase' = "refused" /\ UNCHANGED positive
          ELSE /\ positive' = IF InSequence(positive, case) THEN positive
                              ELSE Append(positive, case)
               /\ UNCHANGED phase
    /\ UNCHANGED <<options, negative, plan, files, planning, invoking>>

Drawn ==
    /\ phase = "draw"
    /\ Len(positive) >= options.cases \/ attempts = Attempts
    /\ phase' = IF positive = << >> THEN "refused" ELSE "mutate"
    /\ UNCHANGED <<options, positive, negative, attempts, plan, files, planning,
                   invoking>>

\* The mutations of one positive plan after the other, each once.
Unseen(i) ==
    {c \in {Case("negative", m.strategy, m.request) :
               m \in Negative(options, positive[i].request)} :
       ~InSequence(negative, c)}

Mutate ==
    /\ phase = "mutate" /\ Len(negative) < options.cases
    /\ \E i \in DOMAIN positive :
          /\ \A j \in 1 .. (i - 1) : Unseen(j) = {}
          /\ \E c \in Unseen(i) : negative' = Append(negative, c)
    /\ UNCHANGED <<options, phase, positive, attempts, plan, files, planning,
                   invoking>>

Take(s, n) == SubSeq(s, 1, IF n < Len(s) THEN n ELSE Len(s))

\* Valid and invalid cases in turn, for as long as there are both.
Alternate(p, n) ==
    LET both == IF Len(p) < Len(n) THEN Len(p) ELSE Len(n) IN
    [k \in 1 .. (Len(p) + Len(n)) |->
       IF k <= 2 * both
       THEN IF k % 2 = 1 THEN p[(k + 1) \div 2] ELSE n[k \div 2]
       ELSE IF Len(p) > both THEN p[k - both] ELSE n[k - both]]

\* select_cases.
SelectCases ==
    Take(CASE options.mode = "positive" -> positive
           [] options.mode = "negative" -> negative
           [] options.mode = "mixed"    -> Alternate(positive, negative),
         options.cases)

CampaignGrants(cases) ==
    (UNION {RequestGrants(cases[i]) : i \in DOMAIN cases})
       \cup {Grant("execute", Len(cases))}

Seal ==
    /\ phase = "mutate"
    /\ \/ Len(negative) >= options.cases
       \/ \A i \in DOMAIN positive : Unseen(i) = {}
    /\ IF SelectCases = << >> THEN phase' = "refused" /\ UNCHANGED plan
       ELSE /\ phase' = "store"
            /\ plan' = [cases  |-> SelectCases,
                        grants |-> CampaignGrants(SelectCases)]
    /\ UNCHANGED <<options, positive, negative, attempts, files, planning,
                   invoking>>

-----------------------------------------------------------------------------
(* store_conformance_plan: the plan of every case through store_plan, then *)
(* the campaign itself, each by write-to-temporary and rename.             *)

CampaignFile == Len(plan.cases) + 1

Storing(p, at) == /\ phase = "store" /\ p \in options.planners /\ pc[p] = at
                  /\ file[p] <= CampaignFile

\* fs::write creates the temporary or truncates the one there is ...
Open(p) ==
    /\ Storing(p, "open")
    /\ LET f == file[p]
           i == IF temporary[f] = Nobody THEN p ELSE temporary[f]
       IN  /\ temporary' = [temporary EXCEPT ![f] = i]
           /\ written' = written \ {<<f, i>>}
           /\ fd' = [fd EXCEPT ![p] = i]
    /\ pc' = [pc EXCEPT ![p] = "write"]
    /\ UNCHANGED <<building, final, file, invoking>>

\* ... and then writes it.
Write(p) ==
    /\ Storing(p, "write")
    /\ written' = written \cup {<<file[p], fd[p]>>}
    /\ fd' = [fd EXCEPT ![p] = Nobody]
    /\ pc' = [pc EXCEPT ![p] = "rename"]
    /\ UNCHANGED <<building, temporary, final, file, invoking>>

\* A temporary another planner has renamed is not found: the call fails.
Rename(p) ==
    /\ Storing(p, "rename")
    /\ LET f == file[p] IN
       IF temporary[f] = Nobody
       THEN pc' = [pc EXCEPT ![p] = "failed"] /\ UNCHANGED <<temporary, final, file>>
       ELSE /\ final' = [final EXCEPT ![f] = temporary[f]]
            /\ temporary' = [temporary EXCEPT ![f] = Nobody]
            /\ file' = [file EXCEPT ![p] = @ + 1]
            /\ pc' = [pc EXCEPT ![p] = "open"]
    /\ UNCHANGED <<building, written, fd, invoking>>

\* Mutant: a file that cannot be stored is passed over.
CrashIgnored(p) ==
    /\ options.faults /\ pc[p] # "failed" /\ Storing(p, pc[p])
    /\ pc' = [pc EXCEPT ![p] = "open"]
    /\ file' = [file EXCEPT ![p] = @ + 1]
    /\ fd' = [fd EXCEPT ![p] = Nobody]
    /\ UNCHANGED <<building, files, invoking>>

\* The planning process dies, or a file operation fails.
Crash(p) ==
    /\ options.faults /\ pc[p] # "failed" /\ Storing(p, pc[p])
    /\ pc' = [pc EXCEPT ![p] = "failed"]
    /\ fd' = [fd EXCEPT ![p] = Nobody]
    /\ UNCHANGED <<building, files, file, invoking>>

\* Another sealed plan is put where the plan of a case was.
Substitute(f) ==
    /\ options.faults /\ phase = "store" /\ f < CampaignFile
    /\ final[f] \in Planners
    /\ \A g \in Files : final[g] # Foreign
    /\ final' = [final EXCEPT ![f] = Foreign]
    /\ UNCHANGED <<building, temporary, written, planning, invoking>>

-----------------------------------------------------------------------------
(* invoke_conformance.                                                     *)

Done(result) == step' = "done" /\ outcome' = result

Aborted(reason) == [kind |-> "error", reason |-> reason]

\* load_conformance_plan: a plan that is not there or not whole has no seal.
Load ==
    /\ step = "load" /\ phase = "store" /\ final[CampaignFile] # Nobody
    /\ IF <<CampaignFile, final[CampaignFile]>> \in written
       THEN step' = "gate" /\ UNCHANGED outcome
       ELSE Done(Aborted("InvalidSeal"))
    /\ UNCHANGED <<building, files, planning, index, reply, results, evidence,
                   sent, replies>>

\* The caller's configuration first, then every grant of the campaign.
Gate ==
    /\ step = "gate"
    /\ IF ~options.same_policy THEN Done(Aborted("Plan"))
       ELSE IF ~(plan.grants \subseteq options.grants)
       THEN Done([kind |-> "observation", executed |-> 0, passed |-> 0,
                  failed |-> 0, exit |-> 4])
       ELSE step' = "case" /\ UNCHANGED outcome
    /\ UNCHANGED <<building, files, planning, index, reply, results, evidence,
                   sent, replies>>

Count(S) == Cardinality({i \in DOMAIN results : results[i] \in S})

\* Mutant: the limit of failures is looked at one case late.
MayContinueOnce == Count({"failed", "transport", "denied"}) <= options.max_failures

MayContinue == Count({"failed", "transport", "denied"}) < options.max_failures

\* load_plan: the file is there and whole, and so is its seal.
LoadPlan(f) == final[f] = Foreign \/ <<f, final[f]>> \in written

\* The fingerprint and the request digest of the case.
Matches(f) == LoadPlan(f) /\ final[f] # Foreign

LoadCase ==
    /\ step = "case" /\ index <= Len(plan.cases) /\ MayContinue
    /\ IF Matches(index)
       THEN /\ step' = "invoke"
            /\ sent' = Append(sent, <<index, final[index]>>)
            /\ UNCHANGED outcome
       ELSE Done(Aborted("InvalidCase")) /\ UNCHANGED sent
    /\ UNCHANGED <<building, files, planning, index, reply, results, evidence,
                   replies>>

\* What invoke returns, as the oracle tells it apart.
Replies ==
    [kind : {"observation"}, status : {200, 400, 500}, exit : {0, 1}]
       \cup [kind : {"denied", "transport", "refused"}, status : {0}, exit : {0}]

Invoke ==
    /\ step = "invoke"
    /\ \E r \in Replies : reply' = r /\ replies' = Append(replies, r)
    /\ step' = "record"
    /\ UNCHANGED <<building, files, planning, index, results, evidence, sent,
                   outcome>>

\* assess.
Assess(generation, r) ==
    /\ r.kind = "observation" /\ r.status < 500 /\ r.exit = 0
    /\ generation = "negative" => r.status \in 400 .. 499

Verdict(generation, r) ==
    CASE Assess(generation, r) -> "passed"
      [] r.kind \in {"denied", "transport"} -> r.kind
      [] OTHER -> "failed"

\* The evidence of the case first; without it the campaign ends in an error.
Record ==
    /\ step = "record"
    /\ \/ /\ evidence' = evidence \cup {index}
          /\ results' = Append(results, Verdict(plan.cases[index].generation, reply))
          /\ index' = index + 1
          /\ step' = "case"
          /\ UNCHANGED outcome
       \/ /\ options.faults
          /\ Done(Aborted("Evidence")) /\ UNCHANGED <<evidence, results, index>>
    /\ UNCHANGED <<building, files, planning, reply, sent, replies>>

Exit ==
    LET failures == Count({"failed", "transport", "denied"}) IN
    IF Count({"denied"}) > 0 THEN 4
    ELSE IF failures = 0 THEN 0
    ELSE IF Count({"transport"}) = failures THEN 3 ELSE 1

Observe ==
    /\ step = "case" /\ (index > Len(plan.cases) \/ ~MayContinue)
    /\ Done([kind |-> "observation", executed |-> Len(results),
             passed |-> Count({"passed"}),
             failed |-> Count({"failed", "transport", "denied"}),
             exit |-> Exit])
    /\ UNCHANGED <<building, files, planning, index, reply, results, evidence,
                   sent, replies>>

\* Nobody has anything left to do.
Ended ==
    /\ phase \in {"refused", "store"}
    /\ step = "done" \/ phase = "refused" \/ final[CampaignFile] = Nobody
    /\ phase = "store" =>
          \A p \in options.planners : pc[p] = "failed" \/ file[p] > CampaignFile
    /\ UNCHANGED vars

Invocation == Load \/ Gate \/ LoadCase \/ Invoke \/ Record \/ Observe

Next == \/ CheckOptions \/ Draw \/ Drawn \/ Mutate \/ Seal
        \/ \E p \in Planners : Open(p) \/ Write(p) \/ Rename(p) \/ Crash(p)
        \/ \E f \in Files : Substitute(f)
        \/ Invocation \/ Ended

Spec == Init /\ [][Next]_vars

-----------------------------------------------------------------------------
(* Properties.                                                             *)

Crashed == {p \in options.planners : pc[p] = "failed"}

\* A campaign that has its name has the plans of all its cases: a planner that
\* dies, fails or loses the race for a temporary never leaves one that names a
\* plan nobody stored.  Once nobody writes a file and no planner died over it,
\* the file is whole.
StoredCampaignComplete ==
    phase = "store" /\ final[CampaignFile] # Nobody =>
       \A f \in 1 .. CampaignFile :
          /\ final[f] # Nobody
          /\ final[f] \in Planners /\ Crashed = {}
             /\ (\A p \in Planners : file[p] = f => fd[p] # final[f])
                => <<f, final[f]>> \in written

\* What reaches the executor are the sealed plans of this campaign, in order
\* and each once, under grants that cover them, whatever is put in the place
\* of a stored plan and whoever plans the campaign again meanwhile; and each
\* has its evidence before the next is read.
OnlySealedSent ==
    /\ \A i \in DOMAIN sent :
          /\ sent[i][1] = i /\ sent[i][2] \in Planners
          /\ RequestGrants(plan.cases[i]) \subseteq options.grants
          /\ Grant("execute", Len(plan.cases)) \in options.grants
          /\ i < Len(sent) => i \in evidence
    /\ step = "done" /\ outcome.kind = "observation" =>
          evidence = 1 .. Len(sent)

\* An observation adds up: a campaign that was not stopped by its failures ran
\* in full, none ran past its limit of failures, and it passes exactly if every
\* case was run and every server reply was what the oracle asks for.
ObservationAccounts ==
    outcome.kind = "observation" /\ plan.grants \subseteq options.grants =>
       /\ outcome.executed = Len(sent)
       /\ outcome.passed + outcome.failed = outcome.executed
       /\ outcome.failed <= options.max_failures
       /\ outcome.executed < Len(plan.cases) => outcome.failed = options.max_failures
       /\ outcome.exit = 0 <=>
             /\ Len(replies) = Len(plan.cases)
             /\ \A i \in DOMAIN replies :
                   /\ replies[i].kind = "observation" /\ replies[i].exit = 0
                   /\ IF plan.cases[i].generation = "negative"
                      THEN replies[i].status \in 400 .. 499
                      ELSE replies[i].status < 500
       /\ outcome.exit = 4 <=> \E i \in DOMAIN replies : replies[i].kind = "denied"
       /\ outcome.exit = 3 =>
             \A i \in DOMAIN replies :
                Verdict(plan.cases[i].generation, replies[i])
                   \in {"passed", "transport"}
=============================================================================
