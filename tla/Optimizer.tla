----------------------------- MODULE Optimizer ------------------------------
(***************************************************************************)
(* The optimizer runs the entries of a strategy in order (OMROptimizer.cpp *)
(* and OMROptimizationManager.cpp).  An entry names an optimization or a   *)
(* group and the condition under which it is wanted; optimizations request *)
(* others, for a block or for the method.  Before an optimization runs the *)
(* analyses it needs are built, and after it those it invalidated go.      *)
(* What an optimization does to the trees is any of the effects below.     *)
(***************************************************************************)
EXTENDS Integers, Sequences, FiniteSets, SequencesExt

CONSTANTS
  Tables,         \* the arrays of entries: strategies and groups, by name
  Strategies,     \* the names of the strategies
  Managers,       \* the optimizations and groups that have a manager (_opts)
  Needs,          \* flags of a manager, by strategy: what the optimization needs
  Requestable,    \* the optimizations that others request
  Requested,      \* those requested by the constructor, and by nobody else
  Blocks,         \* blocks, other than the start of the flow graph
  Facts,          \* sets of what may hold of the method: "loops", "blocks"
  Effects,        \* sets of effects of an optimization
  Declining,      \* the optimizations whose shouldPerform may say no
  Limits          \* values of the option lastOptIndex

\* In a list of requested blocks, each of these stands for the whole method.
StartBlock == "start"
EndBlock == "end"

ASSUME TablesAssumption ==
  /\ Strategies \subseteq DOMAIN Tables /\ IsFiniteSet(DOMAIN Tables)
  /\ \A t \in DOMAIN Tables :
       /\ Len(Tables[t]) \in Nat
       /\ \A i \in 1 .. Len(Tables[t]) : Tables[t][i].num \in DOMAIN Needs \cup DOMAIN Tables
  /\ "none" \notin DOMAIN Needs /\ DOMAIN Needs \cap DOMAIN Tables = {}
ASSUME RequestAssumption == Requested \subseteq Requestable /\ Declining \subseteq DOMAIN Needs
ASSUME LimitsAssumption == Limits \subseteq Nat

VARIABLES
  strategy,   \* _strategy
  limit,      \* lastOptIndex
  stack,      \* the calls of performOptimization: [table, at], the last on top
  optIndex,   \* comp()->getOptIndex()
  requests,   \* _requestedBlocks of each manager; _requested when not empty
  lastRun,    \* managers whose flag lastRun is set
  running,    \* what runs: [opt, whole]; NoRun between optimizations
  analyses,   \* what is known of the method
  ran,        \* those of Requested that have run
  stale,      \* analyses that no longer describe the trees
  failed      \* the compilation was given up

vars == << strategy, limit, stack, optIndex, requests, lastRun, running, analyses, ran, stale, failed >>

NoRun == [opt |-> "none", whole |-> FALSE]

-----------------------------------------------------------------------------
\* Entries

Top == Last(stack)
Entry == Tables[Top.table][Top.at]
IsGroup(o) == o \in DOMAIN Tables

\* The position behind the current entry.
Advanced == [stack EXCEPT ![Len(stack)].at = @ + 1]

AtEntry == ~failed /\ running = NoRun /\ stack # << >> /\ Top.at =< Len(Tables[Top.table])

\* The condition of an entry; a requested optimization is wanted if a block
\* is in its list.
Wanted(e, facts) ==
  CASE e.options \in {"Always", "MarkLastRun"} -> TRUE
    [] e.options = "IfLoops" -> "loops" \in facts
    [] e.options = "IfMoreThanOneBlock" -> "blocks" \in facts
    [] e.options = "IfOneBlock" -> "blocks" \notin facts
    [] e.options = "IfNotProfiling" -> "profiling" \notin facts
    [] e.options = "IfEnabled" -> e.num \in Requestable /\ requests[e.num] # {}

MarksLastRun(e) == e.options = "MarkLastRun"
Marked(e) == IF MarksLastRun(e) THEN lastRun \cup {e.num} ELSE lastRun

-----------------------------------------------------------------------------
\* What strategies must be like, and nj's are

\* With a table, the groups that it names.
Closed(S) ==
  \A t \in S : \A i \in 1 .. Len(Tables[t]) : IsGroup(Tables[t][i].num) => Tables[t][i].num \in S

\* A table and the groups in it, at any depth: the least closed set.
Within(t) ==
  {u \in DOMAIN Tables : \A S \in SUBSET DOMAIN Tables : t \in S /\ Closed(S) => u \in S}

\* The entries of a table, those of its groups included, name o.
MayRun(t, o) == \E u \in Within(t) : \E i \in 1 .. Len(Tables[u]) : Tables[u][i].num = o

\* One of them marks the last run of o.
MayMark(t, o) ==
  \E u \in Within(t) : \E i \in 1 .. Len(Tables[u]) :
    Tables[u][i].num = o /\ MarksLastRun(Tables[u][i])

EntryRuns(e, o) == e.num = o \/ (IsGroup(e.num) /\ MayRun(e.num, o))
EntryMarks(e, o) == (e.num = o /\ MarksLastRun(e)) \/ (IsGroup(e.num) /\ MayMark(e.num, o))

\* No group is in itself, and groups are unconditional: an entry that is not
\* wanted counts one, whatever it stands for.
ASSUME GroupsAssumption ==
  \A t \in DOMAIN Tables : \A i \in 1 .. Len(Tables[t]) :
    IsGroup(Tables[t][i].num) => Tables[t][i].options = "Always" /\ t \notin Within(Tables[t][i].num)

\* Behind the entry that marks the last run of an optimization the table has
\* no other that runs it.
ASSUME LastRunsAssumption ==
  \A t \in DOMAIN Tables : \A i, j \in 1 .. Len(Tables[t]) : i < j =>
    \A o \in DOMAIN Needs : ~(EntryMarks(Tables[t][i], o) /\ EntryRuns(Tables[t][j], o))

\* What the constructor requests can run wherever it is named.
ASSUME RequestedAssumption ==
  /\ Requested \subseteq (Managers \cap DOMAIN Needs) \ Declining
  /\ \A t \in DOMAIN Tables : \A i \in 1 .. Len(Tables[t]) :
       Tables[t][i].num \in Requested =>
         Tables[t][i].options \in {"Always", "MarkLastRun", "IfEnabled"}

-----------------------------------------------------------------------------
\* Counting

\* Mutant: only what is wanted is counted.
CountedWanted(e, facts) == IF Wanted(e, facts) THEN optIndex + 1 ELSE optIndex

\* An entry is counted whether or not it is wanted.
Counted(e, facts) == optIndex + 1

-----------------------------------------------------------------------------
\* Analyses

\* The flags of a manager are set when it is made, for the level that the
\* strategy stands for; n is what one optimization needs.
Required(o) == Needs[o][strategy]
NeedsUseDef(n) == {"useDef", "valueNumbers"} \cap n # {}
NeedsStructure(n) == "structure" \in n \/ NeedsUseDef(n)
Flavour(n) == IF "noLoads" \in n THEN "withoutLoads" ELSE "withLoads"

\* Use-def information of the other kind is given up.
Matching(a, n) == IF a.useDef \in {"none", Flavour(n)} THEN a ELSE [a EXCEPT !.useDef = "none"]

\* Alias sets, which every optimization of nj's wants (none has the flag
\* doesNotRequireAliasSets), and structure, which can be built of every flow
\* graph.
Basic(a, n) ==
  [a EXCEPT !.aliases = TRUE, !.structure = @ \/ NeedsStructure(n)]

\* Use-def information is built, or found to be impossible.
WithUseDef(a, n) ==
  IF NeedsUseDef(n) /\ ~a.cantUseDef /\ a.useDef = "none"
  THEN {[a EXCEPT !.useDef = Flavour(n)], [a EXCEPT !.cantUseDef = TRUE]} ELSE {a}

\* Value numbers are built from use-def information, and cannot be without it.
WithValueNumbers(a, n) ==
  IF "valueNumbers" \in n /\ ~a.cantValueNumbers /\ ~a.valueNumbers
  THEN IF a.useDef # "none" THEN [a EXCEPT !.valueNumbers = TRUE]
       ELSE [a EXCEPT !.cantValueNumbers = TRUE]
  ELSE a

Prepared(a, n) == {WithValueNumbers(b, n) : b \in WithUseDef(Matching(Basic(a, n), n), n)}

\* What was built anew describes the trees.
Rebuilt(a, b) ==
  {x \in {"aliases", "structure", "useDef", "valueNumbers"} :
     \/ x = "aliases" /\ ~a.aliases /\ b.aliases
     \/ x = "structure" /\ ~a.structure /\ b.structure
     \/ x = "useDef" /\ a.useDef # b.useDef /\ b.useDef # "none"
     \/ x = "valueNumbers" /\ ~a.valueNumbers /\ b.valueNumbers}

-----------------------------------------------------------------------------
\* performOptimization

\* A group that is wanted: its request is withdrawn and its entries run.
EnterGroup ==
  /\ AtEntry /\ IsGroup(Entry.num)
  /\ \E facts \in Facts : Wanted(Entry, facts)
  /\ stack' = Append(stack, [table |-> Entry.num, at |-> 1])
  /\ requests' = [o \in Requestable |-> IF o = Entry.num THEN {} ELSE requests[o]]
  /\ lastRun' = Marked(Entry)
  /\ UNCHANGED << strategy, limit, optIndex, running, analyses, ran, stale, failed >>

\* An entry that is not wanted, or an optimization beyond the limit, without a
\* manager, or whose shouldPerform says no.  One that the options disable is
\* like one without a manager; firstOptIndex is left at its default, 0.
Skip ==
  /\ AtEntry
  /\ \E facts \in Facts :
       /\ \/ ~Wanted(Entry, facts)
          \/ ~IsGroup(Entry.num) /\ (optIndex >= limit \/ Entry.num \notin Managers \ Declining)
       /\ optIndex' = Counted(Entry, facts)
  /\ stack' = Advanced /\ lastRun' = Marked(Entry)
  /\ UNCHANGED << strategy, limit, requests, running, analyses, ran, stale, failed >>

\* A wanted optimization: the analyses are built; too many loops or blocks
\* give the compilation up.
Prepare ==
  /\ AtEntry /\ ~IsGroup(Entry.num) /\ Entry.num \in Managers /\ optIndex < limit
  /\ \E facts \in Facts : Wanted(Entry, facts) /\ optIndex' = Counted(Entry, facts)
  /\ lastRun' = Marked(Entry)
  /\ \E a \in Prepared(analyses, Required(Entry.num)) :
       analyses' = a /\ stale' = stale \ Rebuilt(analyses, a)
  /\ running' = [opt |-> Entry.num,
                 whole |-> Entry.options # "IfEnabled"
                           \/ {StartBlock, EndBlock} \cap requests[Entry.num] # {}]
  /\ failed' \in IF NeedsStructure(Required(Entry.num)) THEN BOOLEAN ELSE {FALSE}
  /\ UNCHANGED << strategy, limit, stack, requests, ran >>

\* Mutant: a withdrawal empties every list.
SetRequestedAll(r, o, blocks) ==
  IF blocks = {} THEN [p \in Requestable |-> {}] ELSE [r EXCEPT ![o] = @ \cup blocks]

\* setRequested: a request adds a block, or the entry for the whole method;
\* a withdrawal empties the list.
SetRequested(r, o, blocks) == [r EXCEPT ![o] = IF blocks = {} THEN {} ELSE @ \cup blocks]

\* The request that is served is withdrawn before the run.
Served(r, o) == IF o \in Requestable THEN SetRequested(r, o, {}) ELSE r

\* Mutant: value numbers are kept when nodes were added.
InvalidatedNotNumbers(a, effects) ==
  [a EXCEPT !.useDef = IF {"nodes", "removal"} \cap effects # {} THEN "none" ELSE @,
            !.structure = @ /\ "cfg" \notin effects,
            !.aliases = @ /\ "symrefs" \notin effects]

\* What is dropped: use-def information by prepareForNodeRemoval and structure
\* by the flow graph during the run or when unreachable blocks are removed after
\* it, and what the counts of nodes and of symbol references compared before
\* and after the run tell to drop.
Invalidated(a, effects) ==
  [a EXCEPT !.valueNumbers = @ /\ "nodes" \notin effects,
            !.useDef = IF {"nodes", "removal"} \cap effects # {} THEN "none" ELSE @,
            !.structure = @ /\ "cfg" \notin effects,
            !.aliases = @ /\ "symrefs" \notin effects]

\* What an effect means for the analyses, not taken from the code: new nodes
\* have neither uses and definitions nor value numbers, a removed definition is
\* still listed for its uses, value numbers of the nodes left do not change when
\* one is removed.  An optimization that rewrites nodes in place has to repair
\* what it finds, and is not among the effects when it does not.
Outdated(effects) ==
  (IF "nodes" \in effects THEN {"useDef", "valueNumbers"} ELSE {})
  \cup (IF "removal" \in effects THEN {"useDef"} ELSE {})
  \cup (IF "cfg" \in effects THEN {"structure"} ELSE {})
  \cup (IF "symrefs" \in effects THEN {"aliases"} ELSE {})

\* The run, with one request or withdrawal at most, or an interruption, and the
\* removal of the blocks it made unreachable.
Perform ==
  /\ ~failed /\ running # NoRun
  /\ LET served == Served(requests, running.opt)
     IN \/ requests' = served
        \/ \E o \in Requestable \ Requested, b \in SUBSET (Blocks \cup {StartBlock}) :
             Cardinality(b) =< 1 /\ requests' = SetRequested(served, o, b)
  /\ \E e \in Effects : analyses' = Invalidated(analyses, e) /\ stale' = stale \cup Outdated(e)
  /\ ran' = ran \cup ({running.opt} \cap Requested) /\ running' = NoRun /\ stack' = Advanced
  /\ failed' \in BOOLEAN
  /\ UNCHANGED << strategy, limit, optIndex, lastRun >>

\* The end of a group: performOptimization returns to the entry behind it.
LeaveGroup ==
  /\ ~failed /\ running = NoRun /\ Len(stack) > 1 /\ Top.at > Len(Tables[Top.table])
  /\ stack' = LET callers == Front(stack) IN [callers EXCEPT ![Len(callers)].at = @ + 1]
  /\ UNCHANGED << strategy, limit, optIndex, requests, lastRun, running, analyses, ran, stale, failed >>

\* Between entries of the strategy: nodes that died are removed (external),
\* and value numbers with them.
RemoveDeadNodes ==
  /\ ~failed /\ running = NoRun /\ Len(stack) = 1 /\ Top.at > 1
  /\ analyses' = [analyses EXCEPT !.valueNumbers = FALSE]
  /\ stale' = stale \cup {"valueNumbers"}
  /\ UNCHANGED << strategy, limit, stack, optIndex, requests, lastRun, running, ran, failed >>

\* The strategy has ended, or the compilation was given up.
Ended == failed \/ (running = NoRun /\ Len(stack) = 1 /\ Top.at > Len(Tables[Top.table]))
Done == Ended /\ UNCHANGED vars

-----------------------------------------------------------------------------
Init ==
  /\ strategy \in Strategies /\ limit \in Limits
  /\ stack = << [table |-> strategy, at |-> 1] >>
  /\ optIndex = 0
  /\ requests = [o \in Requestable |-> IF o \in Requested THEN {StartBlock} ELSE {}]
  /\ lastRun = {} /\ running = NoRun /\ ran = {} /\ stale = {} /\ failed = FALSE
  /\ analyses = [aliases |-> FALSE, structure |-> FALSE, useDef |-> "none", valueNumbers |-> FALSE,
                 cantUseDef |-> FALSE, cantValueNumbers |-> FALSE]

Next == EnterGroup \/ Skip \/ Prepare \/ Perform \/ LeaveGroup \/ RemoveDeadNodes \/ Done
Spec == Init /\ [][Next]_vars

-----------------------------------------------------------------------------
\* Properties

\* The position in every open strategy is an entry or its end, and requests name
\* only blocks of the method (OptimizationManager::setRequested).
TypeOK ==
  /\ \A i \in 1 .. Len(stack) : stack[i].at \in 1 .. Len(Tables[stack[i].table]) + 1
  /\ requests \in [Requestable -> SUBSET (Blocks \cup {StartBlock})]
  /\ lastRun \subseteq DOMAIN Needs \cup DOMAIN Tables

\* An optimization runs with all it needs, of the kind it needs, unless that
\* was found to be impossible for the method (the blocks of performOptimization
\* between the two reports of analysis phases).
AnalysesReady ==
  running # NoRun =>
    LET n == Required(running.opt)
    IN /\ analyses.aliases
       /\ NeedsStructure(n) => analyses.structure
       /\ NeedsUseDef(n) => analyses.cantUseDef \/ analyses.useDef # "none"
       /\ analyses.useDef \in {"none", Flavour(n)}
       /\ "valueNumbers" \in n => analyses.valueNumbers \/ analyses.cantValueNumbers

\* What an optimization finds describes the trees as they are.
AnalysesFresh ==
  running # NoRun =>
    \A x \in stale : CASE x = "aliases" -> ~analyses.aliases
                       [] x = "structure" -> ~analyses.structure
                       [] x = "useDef" -> analyses.useDef = "none"
                       [] x = "valueNumbers" -> ~analyses.valueNumbers

\* The assertion of performOptimization: no optimization runs after the entry
\* that marks its last run.
LastRunRespected ==
  running # NoRun /\ running.opt \in lastRun => Entry.num = running.opt /\ MarksLastRun(Entry)

\* Every optimization works with the analyses it needs, and with none that
\* earlier optimizations have made wrong (performOptimization).
AnalysesCurrent == AnalysesReady /\ AnalysesFresh

\* A table and how many of its entries were passed.
Places == UNION {{t} \X (0 .. Len(Tables[t])) : t \in DOMAIN Tables}

\* The number of counted entries, those of groups included.
CountTo[p \in Places] ==
  IF p[2] = 0 THEN 0
  ELSE LET o == Tables[p[1]][p[2]].num
       IN CountTo[<< p[1], p[2] - 1 >>] + IF IsGroup(o) THEN CountTo[<< o, Len(Tables[o]) >>] ELSE 1

\* "We count the opt even if we're not doing it, to keep the opt indexes more
\* stable": the index of an entry is the same in every compilation.
IndexStable ==
  ~failed =>
    LET before[i \in 0 .. Len(stack)] ==
          IF i = 0 THEN 0 ELSE before[i - 1] + CountTo[<< stack[i].table, stack[i].at - 1 >>]
    IN optIndex = before[Len(stack)] + IF running = NoRun THEN 0 ELSE 1

\* An optimization that the constructor requests and the strategy runs on
\* request has run, for the whole method, when the strategy ends, whatever other
\* requests were made and withdrawn on the way.
RequestedRuns ==
  /\ running.opt \in Requested => running.whole
  /\ Ended /\ ~failed /\ optIndex =< limit =>
       \A o \in Requested \ ran : ~MayRun(strategy, o)

\* Requests are served and last runs are the last, over all of a strategy
\* (performOptimization, OptimizationManager::setRequested).
RequestsRespected == TypeOK /\ LastRunRespected /\ RequestedRuns
=============================================================================
