--------------------------- MODULE OptimizerProofs --------------------------
(***************************************************************************)
(* Proofs about the optimizer for any strategies, groups and managers and  *)
(* any effects of the optimizations: each of them works with the analyses  *)
(* it needs, and with none that is out of date; the index of an            *)
(* optimization is the place its strategy gives it, whatever is skipped;   *)
(* and one that is requested runs before its last chance has passed.       *)
(***************************************************************************)
EXTENDS Optimizer, FiniteSetTheorems, WellFoundedInduction, TLAPS

-----------------------------------------------------------------------------
(***************************************************************************)
(* The inductive invariant: it says of every moment what AnalysesFresh     *)
(* says of a run, since what goes stale between two runs is found by the   *)
(* next one.                                                               *)
(***************************************************************************)
Kinds == {"aliases", "structure", "useDef", "valueNumbers"}

AnalysesType ==
  [aliases : BOOLEAN, structure : BOOLEAN, useDef : {"none", "withLoads", "withoutLoads"},
   valueNumbers : BOOLEAN, cantUseDef : BOOLEAN, cantValueNumbers : BOOLEAN]

\* The analysis x of a is there.
Present(a, x) ==
  \/ x = "aliases" /\ a.aliases
  \/ x = "structure" /\ a.structure
  \/ x = "useDef" /\ a.useDef # "none"
  \/ x = "valueNumbers" /\ a.valueNumbers

\* An optimization that needs n may run with the analyses a.
Ready(a, n) ==
  /\ a.aliases
  /\ NeedsStructure(n) => a.structure
  /\ NeedsUseDef(n) => a.cantUseDef \/ a.useDef # "none"
  /\ a.useDef \in {"none", Flavour(n)}
  /\ "valueNumbers" \in n => a.valueNumbers \/ a.cantValueNumbers

Inv ==
  /\ analyses \in AnalysesType /\ stale \subseteq Kinds
  /\ \A x \in stale : ~Present(analyses, x)
  /\ running # NoRun => Ready(analyses, Required(running.opt))

-----------------------------------------------------------------------------
(***************************************************************************)
(* Building and giving up analyses                                         *)
(***************************************************************************)

\* Alias sets and structure are built.
LEMMA BasicFacts ==
    ASSUME NEW a \in AnalysesType, NEW n
    PROVE  LET b == Basic(a, n)
           IN /\ b \in AnalysesType /\ b.aliases /\ (NeedsStructure(n) => b.structure)
              /\ b.useDef = a.useDef /\ b.valueNumbers = a.valueNumbers
  BY DEF AnalysesType, Basic

\* Use-def information of the other kind is given up.
LEMMA MatchingFacts ==
    ASSUME NEW a \in AnalysesType, NEW n
    PROVE  LET b == Matching(a, n)
           IN /\ b \in AnalysesType /\ b.useDef \in {"none", Flavour(n)}
              /\ b.useDef = a.useDef \/ b.useDef = "none"
              /\ b.aliases = a.aliases /\ b.structure = a.structure
              /\ b.valueNumbers = a.valueNumbers
  BY DEF AnalysesType, Matching

\* Use-def information is built unless it cannot be.
LEMMA UseDefFacts ==
    ASSUME NEW a \in AnalysesType, NEW n, a.useDef \in {"none", Flavour(n)},
           NEW b \in WithUseDef(a, n)
    PROVE  /\ b \in AnalysesType /\ b.useDef \in {"none", Flavour(n)}
           /\ NeedsUseDef(n) => b.cantUseDef \/ b.useDef # "none"
           /\ b.aliases = a.aliases /\ b.structure = a.structure
           /\ b.valueNumbers = a.valueNumbers
  BY DEF AnalysesType, WithUseDef, Flavour

\* Value numbers are built unless they cannot be.
LEMMA ValueNumberFacts ==
    ASSUME NEW a \in AnalysesType, NEW n
    PROVE  LET b == WithValueNumbers(a, n)
           IN /\ b \in AnalysesType
              /\ "valueNumbers" \in n => b.valueNumbers \/ b.cantValueNumbers
              /\ b.aliases = a.aliases /\ b.structure = a.structure
              /\ b.useDef = a.useDef /\ b.cantUseDef = a.cantUseDef
  BY DEF AnalysesType, WithValueNumbers

\* What performOptimization has built is what the optimization needs, and an
\* analysis that was not there before has been built from the trees as they are.
LEMMA PreparedFacts ==
    ASSUME NEW a \in AnalysesType, NEW n, NEW b \in Prepared(a, n)
    PROVE  /\ b \in AnalysesType /\ Ready(b, n)
           /\ \A x \in Kinds : Present(b, x) /\ ~Present(a, x) => x \in Rebuilt(a, b)
  <1> DEFINE p == Basic(a, n)
             q == Matching(p, n)
  <1>1. PICK r \in WithUseDef(q, n) : b = WithValueNumbers(r, n)
    BY DEF Prepared
  <1>2. p \in AnalysesType /\ p.aliases /\ (NeedsStructure(n) => p.structure)
    BY BasicFacts
  <1> HIDE DEF p
  <1>3. /\ q \in AnalysesType /\ q.useDef \in {"none", Flavour(n)}
        /\ q.aliases = p.aliases /\ q.structure = p.structure
    BY <1>2, MatchingFacts
  <1> HIDE DEF q
  <1>4. /\ r \in AnalysesType /\ r.useDef \in {"none", Flavour(n)}
        /\ NeedsUseDef(n) => r.cantUseDef \/ r.useDef # "none"
        /\ r.aliases = q.aliases /\ r.structure = q.structure
    BY <1>1, <1>3, UseDefFacts
  <1>5. /\ b \in AnalysesType
        /\ "valueNumbers" \in n => b.valueNumbers \/ b.cantValueNumbers
        /\ b.aliases = r.aliases /\ b.structure = r.structure
        /\ b.useDef = r.useDef /\ b.cantUseDef = r.cantUseDef
    BY <1>1, <1>4, ValueNumberFacts
  <1>6. Ready(b, n)
    BY <1>2, <1>3, <1>4, <1>5 DEF Ready
  <1>7. ASSUME NEW x \in Kinds, Present(b, x), ~Present(a, x) PROVE x \in Rebuilt(a, b)
    BY <1>5, <1>7 DEF Present, Rebuilt, Kinds
  <1> QED BY <1>5, <1>6, <1>7

\* What an optimization has made wrong is not there after it, and nothing is
\* there that was not there before.
LEMMA InvalidatedFacts ==
    ASSUME NEW a \in AnalysesType, NEW e
    PROVE  LET b == Invalidated(a, e)
           IN /\ b \in AnalysesType /\ Outdated(e) \subseteq Kinds
              /\ \A x \in Outdated(e) : ~Present(b, x)
              /\ \A x \in Kinds : Present(b, x) => Present(a, x)
  <1> DEFINE b == Invalidated(a, e)
  <1>1. /\ b \in AnalysesType
        /\ b.valueNumbers = (a.valueNumbers /\ "nodes" \notin e)
        /\ b.useDef = IF {"nodes", "removal"} \cap e # {} THEN "none" ELSE a.useDef
        /\ b.structure = (a.structure /\ "cfg" \notin e)
        /\ b.aliases = (a.aliases /\ "symrefs" \notin e)
    BY DEF AnalysesType, Invalidated
  <1> HIDE DEF b
  <1>2. Outdated(e) \subseteq Kinds
    BY DEF Outdated, Kinds
  <1>3. \A x \in Outdated(e) : ~Present(b, x)
    BY <1>1 DEF Outdated, Present
  <1>4. \A x \in Kinds : Present(b, x) => Present(a, x)
    BY <1>1 DEF Present
  <1> QED BY <1>1, <1>2, <1>3, <1>4 DEF b

-----------------------------------------------------------------------------
(***************************************************************************)
(* The steps                                                               *)
(***************************************************************************)

\* The optimizer starts with no analysis.
LEMMA InitInv ==
    ASSUME Init
    PROVE  Inv
  BY DEF Init, Inv, AnalysesType

\* Every step preserves the invariant.
LEMMA NextStep ==
    ASSUME Inv, [Next]_vars
    PROVE  Inv'
  <1>1. CASE UNCHANGED << analyses, stale, running, strategy >>
    BY <1>1 DEF Inv, Required
  <1>2. CASE Prepare
    <2> DEFINE n == Required(Entry.num)
    <2>1. PICK a \in Prepared(analyses, n) :
            analyses' = a /\ stale' = stale \ Rebuilt(analyses, a)
      BY <1>2 DEF Prepare
    <2>2. Required(running.opt)' = n
      BY <1>2 DEF Prepare, Required
    <2> HIDE DEF n
    <2>3. /\ a \in AnalysesType /\ Ready(a, n)
          /\ \A x \in Kinds : Present(a, x) /\ ~Present(analyses, x) => x \in Rebuilt(analyses, a)
      BY PreparedFacts DEF Inv
    <2> QED BY <2>1, <2>2, <2>3 DEF Inv
  <1>3. CASE Perform
    <2>1. PICK e \in Effects :
            analyses' = Invalidated(analyses, e) /\ stale' = stale \cup Outdated(e)
      BY <1>3 DEF Perform
    <2>2. running' = NoRun
      BY <1>3 DEF Perform
    <2> DEFINE b == Invalidated(analyses, e)
    <2>3. /\ b \in AnalysesType /\ Outdated(e) \subseteq Kinds
          /\ \A x \in Outdated(e) : ~Present(b, x)
          /\ \A x \in Kinds : Present(b, x) => Present(analyses, x)
      BY InvalidatedFacts DEF Inv
    <2> HIDE DEF b
    <2>4. analyses' = b
      BY <2>1 DEF b
    <2> QED BY <2>1, <2>2, <2>3, <2>4 DEF Inv
  <1>4. CASE RemoveDeadNodes
    <2> DEFINE b == [analyses EXCEPT !.valueNumbers = FALSE]
    <2>1. /\ analyses' = b /\ stale' = stale \cup {"valueNumbers"} /\ running' = NoRun
      BY <1>4 DEF RemoveDeadNodes
    <2>2. b \in AnalysesType /\ ~Present(b, "valueNumbers")
      BY DEF Inv, AnalysesType, Present
    <2>3. \A x \in Kinds : Present(b, x) => Present(analyses, x)
      BY DEF Inv, AnalysesType, Present
    <2> HIDE DEF b
    <2>4. "valueNumbers" \in Kinds
      BY DEF Kinds
    <2> QED BY <2>1, <2>2, <2>3, <2>4 DEF Inv
  <1>5. ASSUME EnterGroup \/ Skip \/ LeaveGroup \/ Done \/ UNCHANGED vars
        PROVE  UNCHANGED << analyses, stale, running, strategy >>
    BY <1>5 DEF EnterGroup, Skip, LeaveGroup, Done, vars
  <1> QED BY <1>1, <1>2, <1>3, <1>4, <1>5 DEF Next

\* The invariant says what an optimization finds when it runs.
LEMMA InvCurrent ==
    ASSUME Inv
    PROVE  AnalysesCurrent
  <1>1. AnalysesReady
    BY DEF Inv, AnalysesReady, Ready
  <1>2. AnalysesFresh
    BY DEF Inv, AnalysesFresh, Present, Kinds
  <1> QED BY <1>1, <1>2 DEF AnalysesCurrent

-----------------------------------------------------------------------------
(***************************************************************************)
(* Tables within tables                                                    *)
(***************************************************************************)

\* A table is within itself, and the groups of what is within are.
LEMMA WithinClosed ==
    ASSUME NEW t \in DOMAIN Tables
    PROVE  t \in Within(t) /\ Within(t) \subseteq DOMAIN Tables /\ Closed(Within(t))
  <1>1. t \in Within(t) /\ Within(t) \subseteq DOMAIN Tables
    BY DEF Within
  <1>2. ASSUME NEW u \in Within(t), NEW i \in 1 .. Len(Tables[u]), IsGroup(Tables[u][i].num)
        PROVE  Tables[u][i].num \in Within(t)
    <2>1. ASSUME NEW S \in SUBSET DOMAIN Tables, t \in S, Closed(S)
          PROVE  Tables[u][i].num \in S
      BY <1>2, <2>1 DEF Within, Closed
    <2> QED BY <1>2, <2>1 DEF Within, IsGroup
  <1> QED BY <1>1, <1>2 DEF Closed

\* What is closed and holds a table holds what is within it.
LEMMA WithinLeast ==
    ASSUME NEW t \in DOMAIN Tables, NEW S \in SUBSET DOMAIN Tables, t \in S, Closed(S)
    PROVE  Within(t) \subseteq S
  BY DEF Within

\* What is within a group of a table is within the table.
LEMMA WithinGroup ==
    ASSUME NEW t \in DOMAIN Tables, NEW i \in 1 .. Len(Tables[t]), IsGroup(Tables[t][i].num)
    PROVE  Within(Tables[t][i].num) \subseteq Within(t)
  <1>1. t \in Within(t) /\ Within(t) \subseteq DOMAIN Tables /\ Closed(Within(t))
    BY WithinClosed
  <1>2. Tables[t][i].num \in Within(t)
    BY <1>1 DEF Closed
  <1> QED BY <1>1, <1>2, WithinLeast DEF IsGroup

\* What is within a table is the table or within one of its groups.
LEMMA WithinUnfold ==
    ASSUME NEW t \in DOMAIN Tables, NEW u \in Within(t), u # t
    PROVE  \E i \in 1 .. Len(Tables[t]) : IsGroup(Tables[t][i].num) /\ u \in Within(Tables[t][i].num)
  <1> DEFINE G == {i \in 1 .. Len(Tables[t]) : IsGroup(Tables[t][i].num)}
             S == {t} \cup UNION {Within(Tables[t][i].num) : i \in G}
  <1>1. \A i \in G : /\ Tables[t][i].num \in DOMAIN Tables
                     /\ Tables[t][i].num \in Within(Tables[t][i].num)
                     /\ Within(Tables[t][i].num) \subseteq DOMAIN Tables
                     /\ Closed(Within(Tables[t][i].num))
    BY WithinClosed DEF IsGroup
  <1>2. S \in SUBSET DOMAIN Tables /\ t \in S
    BY <1>1
  <1>3. ASSUME NEW v \in S, NEW k \in 1 .. Len(Tables[v]), IsGroup(Tables[v][k].num)
        PROVE  Tables[v][k].num \in S
    <2>1. CASE v = t
      <3>1. k \in G
        BY <1>3, <2>1
      <3> QED BY <1>1, <2>1, <3>1
    <2>2. CASE v # t
      <3>1. PICK i \in G : v \in Within(Tables[t][i].num)
        BY <2>2
      <3>2. Tables[v][k].num \in Within(Tables[t][i].num)
        BY <1>1, <1>3, <3>1 DEF Closed
      <3> QED BY <3>1, <3>2
    <2> QED BY <2>1, <2>2
  <1>4. Closed(S)
    BY <1>3 DEF Closed
  <1>5. u \in S
    BY <1>2, <1>4, WithinLeast
  <1> QED BY <1>5

\* A table runs what one of its entries runs, and nothing else.
LEMMA RunsUnfold ==
    ASSUME NEW t \in DOMAIN Tables, NEW o
    PROVE  MayRun(t, o) <=> \E i \in 1 .. Len(Tables[t]) : EntryRuns(Tables[t][i], o)
  <1>1. ASSUME MayRun(t, o)
        PROVE  \E i \in 1 .. Len(Tables[t]) : EntryRuns(Tables[t][i], o)
    <2>1. PICK u \in Within(t) : \E i \in 1 .. Len(Tables[u]) : Tables[u][i].num = o
      BY <1>1 DEF MayRun
    <2>2. CASE u = t
      BY <2>1, <2>2 DEF EntryRuns
    <2>3. CASE u # t
      <3>1. PICK i \in 1 .. Len(Tables[t]) :
              IsGroup(Tables[t][i].num) /\ u \in Within(Tables[t][i].num)
        BY <2>3, WithinUnfold
      <3> QED BY <2>1, <3>1 DEF EntryRuns, MayRun
    <2> QED BY <2>2, <2>3
  <1>2. ASSUME NEW i \in 1 .. Len(Tables[t]), EntryRuns(Tables[t][i], o)
        PROVE  MayRun(t, o)
    <2>1. CASE Tables[t][i].num = o
      BY <2>1, WithinClosed DEF MayRun
    <2>2. CASE IsGroup(Tables[t][i].num) /\ MayRun(Tables[t][i].num, o)
      BY <2>2, WithinGroup DEF MayRun
    <2> QED BY <1>2, <2>1, <2>2 DEF EntryRuns
  <1> QED BY <1>1, <1>2

\* A table marks what one of its entries marks.
LEMMA MarksFold ==
    ASSUME NEW t \in DOMAIN Tables, NEW o, NEW i \in 1 .. Len(Tables[t]), EntryMarks(Tables[t][i], o)
    PROVE  MayMark(t, o)
  <1>1. CASE Tables[t][i].num = o /\ MarksLastRun(Tables[t][i])
    BY <1>1, WithinClosed DEF MayMark
  <1>2. CASE IsGroup(Tables[t][i].num) /\ MayMark(Tables[t][i].num, o)
    BY <1>2, WithinGroup DEF MayMark
  <1> QED BY <1>1, <1>2 DEF EntryMarks

-----------------------------------------------------------------------------
(***************************************************************************)
(* The calls of performOptimization                                        *)
(***************************************************************************)

Frame == [table : DOMAIN Tables, at : Nat \ {0}]
NumAt(f) == Tables[f.table][f.at].num

\* The stack leads from the strategy through groups to the table on top, and
\* what runs is the optimization that the entry on top names.
StackInv ==
  /\ stack \in Seq(Frame) /\ Len(stack) >= 1 /\ stack[1].table = strategy
  /\ \A i \in 1 .. Len(stack) : stack[i].at =< Len(Tables[stack[i].table]) + 1
  /\ \A i \in 1 .. Len(stack) - 1 :
       stack[i].at =< Len(Tables[stack[i].table]) /\ NumAt(stack[i]) = stack[i + 1].table
  /\ running # NoRun => /\ Top.at =< Len(Tables[Top.table])
                        /\ running.opt = Entry.num /\ ~IsGroup(Entry.num)

\* A stack with its top moved to the next entry.
Moved(s) == [s EXCEPT ![Len(s)].at = @ + 1]

LEMMA MovedFacts ==
    ASSUME NEW s \in Seq(Frame), Len(s) >= 1
    PROVE  /\ Moved(s) \in Seq(Frame) /\ Len(Moved(s)) = Len(s)
           /\ \A i \in 1 .. Len(s) : /\ Moved(s)[i].table = s[i].table
                                     /\ i # Len(s) => Moved(s)[i] = s[i]
           /\ Moved(s)[Len(s)].at = s[Len(s)].at + 1
  <1> DEFINE n == Len(s)
             f == s[n]
             g == [f EXCEPT !.at = f.at + 1]
  <1>1. n \in Nat /\ n \in 1 .. n /\ f \in Frame
    OBVIOUS
  <1>2. g \in Frame /\ g.table = f.table /\ g.at = f.at + 1
    BY <1>1 DEF Frame
  <1>3. Moved(s) = [s EXCEPT ![n] = g]
    BY DEF Moved
  <1> HIDE DEF n, f, g
  <1>4. /\ Moved(s) \in Seq(Frame) /\ Len(Moved(s)) = n
        /\ \A i \in 1 .. n : Moved(s)[i] = IF i = n THEN g ELSE s[i]
    BY <1>1, <1>2, <1>3 DEF n
  <1> QED BY <1>1, <1>2, <1>4 DEF n, f

LEMMA AppendFacts ==
    ASSUME NEW s \in Seq(Frame), NEW f \in Frame
    PROVE  /\ Append(s, f) \in Seq(Frame) /\ Len(Append(s, f)) = Len(s) + 1
           /\ \A i \in 1 .. Len(s) : Append(s, f)[i] = s[i]
           /\ Append(s, f)[Len(s) + 1] = f
  OBVIOUS

LEMMA FrontFrames ==
    ASSUME NEW s \in Seq(Frame), Len(s) > 1
    PROVE  /\ Front(s) \in Seq(Frame) /\ Len(Front(s)) = Len(s) - 1
           /\ \A i \in 1 .. Len(s) - 1 : Front(s)[i] = s[i]
  BY DEF Front

\* What the stack looks like after each step.
Advances == stack' = Moved(stack)
Enters == stack' = Append(stack, [table |-> Entry.num, at |-> 1])
Leaves == stack' = Moved(Front(stack))

LEMMA StackMoves ==
    ASSUME TRUE
    PROVE  /\ EnterGroup => Enters /\ AtEntry /\ IsGroup(Entry.num) /\ running' = running
           /\ Skip => Advances /\ AtEntry /\ running' = running
           /\ Prepare => stack' = stack /\ AtEntry /\ ~IsGroup(Entry.num)
                         /\ running'.opt = Entry.num
           /\ Perform => Advances /\ running # NoRun /\ running' = NoRun
           /\ LeaveGroup => Leaves /\ Len(stack) > 1 /\ Top.at > Len(Tables[Top.table])
                            /\ running = NoRun /\ running' = running
           /\ RemoveDeadNodes \/ Done \/ UNCHANGED vars =>
                stack' = stack /\ running' = running
  <1>1. EnterGroup => Enters /\ AtEntry /\ IsGroup(Entry.num) /\ running' = running
    BY DEF EnterGroup, Enters
  <1>2. Skip => Advances /\ AtEntry /\ running' = running
    BY DEF Skip, Advances, Moved, Advanced
  <1>3. Prepare => stack' = stack /\ AtEntry /\ ~IsGroup(Entry.num) /\ running'.opt = Entry.num
    BY DEF Prepare
  <1>4. Perform => Advances /\ running # NoRun /\ running' = NoRun
    BY DEF Perform, Advances, Moved, Advanced
  <1>5. LeaveGroup => /\ Leaves /\ Len(stack) > 1 /\ Top.at > Len(Tables[Top.table])
                      /\ running = NoRun /\ running' = running
    BY DEF LeaveGroup, Leaves, Moved
  <1>6. RemoveDeadNodes \/ Done \/ UNCHANGED vars => stack' = stack /\ running' = running
    BY DEF RemoveDeadNodes, Done, vars
  <1> QED BY <1>1, <1>2, <1>3, <1>4, <1>5, <1>6

\* In the stack of a step: the entry on top, and what is known of it.
LEMMA TopFacts ==
    ASSUME StackInv
    PROVE  /\ Len(stack) \in Nat /\ Len(stack) >= 1 /\ Top = stack[Len(stack)] /\ Top \in Frame
           /\ Top.table \in DOMAIN Tables /\ Top.at \in Nat /\ Top.at >= 1
           /\ Entry.num = NumAt(Top) /\ Entry = Tables[Top.table][Top.at]
           /\ AtEntry => Top.at =< Len(Tables[Top.table]) /\ running = NoRun
  <1>1. Len(stack) \in Nat /\ Len(stack) >= 1 /\ stack[Len(stack)] \in Frame
    BY DEF StackInv
  <1>2. Top = stack[Len(stack)]
    BY DEF Top, Last
  <1>3. Entry = Tables[Top.table][Top.at] /\ Entry.num = NumAt(Top)
    BY DEF Entry, NumAt
  <1>4. AtEntry => Top.at =< Len(Tables[Top.table]) /\ running = NoRun
    BY DEF AtEntry
  <1>5. Top.table \in DOMAIN Tables /\ Top.at \in Nat /\ Top.at >= 1
    BY <1>1, <1>2 DEF Frame
  <1> QED BY <1>1, <1>2, <1>3, <1>4, <1>5

LEMMA StackStep ==
    ASSUME StackInv, [Next]_vars, strategy' = strategy
    PROVE  StackInv'
  <1> DEFINE n == Len(stack)
  <1>1. /\ n \in Nat /\ n >= 1 /\ Top = stack[n] /\ Top \in Frame
        /\ Top.table \in DOMAIN Tables /\ Top.at \in Nat /\ Top.at >= 1
        /\ Entry.num = NumAt(Top) /\ Len(Tables[Top.table]) \in Nat
        /\ AtEntry => Top.at =< Len(Tables[Top.table]) /\ running = NoRun
    BY TopFacts, TablesAssumption
  <1>2. CASE Advances /\ running' = NoRun /\ Top.at =< Len(Tables[Top.table])
    <2>1. /\ stack' \in Seq(Frame) /\ Len(stack') = n
          /\ \A i \in 1 .. n : stack'[i].table = stack[i].table /\ (i # n => stack'[i] = stack[i])
          /\ stack'[n].at = stack[n].at + 1
      BY <1>2, MovedFacts DEF StackInv, Advances
    <2>2. ASSUME NEW i \in 1 .. n
          PROVE  stack'[i].at =< Len(Tables[stack'[i].table]) + 1
      <3>1. CASE i = n
        BY <1>1, <1>2, <2>1, <3>1
      <3>2. CASE i # n
        BY <2>1, <3>2 DEF StackInv
      <3> QED BY <3>1, <3>2
    <2>3. \A i \in 1 .. n - 1 : /\ stack'[i].at =< Len(Tables[stack'[i].table])
                                /\ NumAt(stack'[i]) = stack'[i + 1].table
      <3> SUFFICES ASSUME NEW i \in 1 .. n - 1
                   PROVE  /\ stack'[i].at =< Len(Tables[stack'[i].table])
                          /\ NumAt(stack'[i]) = stack'[i + 1].table
        OBVIOUS
      <3>1. i \in 1 .. n /\ i # n /\ i + 1 \in 1 .. n
        BY <1>1
      <3> QED BY <2>1, <3>1 DEF StackInv
    <2>4. stack'[1].table = strategy'
      BY <1>1, <2>1 DEF StackInv
    <2> QED BY <1>1, <1>2, <2>1, <2>2, <2>3, <2>4 DEF StackInv
  <1>3. CASE Enters /\ AtEntry /\ IsGroup(Entry.num) /\ running' = running
    <2> DEFINE g == [table |-> Entry.num, at |-> 1]
    <2>1. g \in Frame /\ g.table = Entry.num /\ g.at = 1
      BY <1>3 DEF Frame, IsGroup
    <2>2. Len(Tables[g.table]) \in Nat
      BY <2>1, TablesAssumption DEF Frame
    <2>3. stack' = Append(stack, g)
      BY <1>3 DEF Enters
    <2> HIDE DEF g
    <2>4. /\ stack' \in Seq(Frame) /\ Len(stack') = n + 1
          /\ \A i \in 1 .. n : stack'[i] = stack[i]
          /\ stack'[n + 1] = g
      BY <2>1, <2>3, AppendFacts DEF StackInv
    <2>5. ASSUME NEW i \in 1 .. n + 1
          PROVE  stack'[i].at =< Len(Tables[stack'[i].table]) + 1
      <3>1. i \in 1 .. n \/ i = n + 1
        BY <1>1
      <3>2. CASE i \in 1 .. n
        BY <2>4, <3>2 DEF StackInv
      <3>3. CASE i = n + 1
        BY <2>1, <2>2, <2>4, <3>3
      <3> QED BY <3>1, <3>2, <3>3
    <2>6. ASSUME NEW i \in 1 .. n
          PROVE  /\ stack'[i].at =< Len(Tables[stack'[i].table])
                 /\ NumAt(stack'[i]) = stack'[i + 1].table
      <3>1. i \in 1 .. n - 1 \/ i = n
        BY <1>1
      <3>2. CASE i \in 1 .. n - 1
        <4>1. i + 1 \in 1 .. n
          BY <1>1, <3>2
        <4> QED BY <2>4, <3>2, <4>1 DEF StackInv
      <3>3. CASE i = n
        BY <1>1, <1>3, <2>1, <2>4, <3>3
      <3> QED BY <3>1, <3>2, <3>3
    <2>7. stack'[1].table = strategy'
      BY <1>1, <2>4 DEF StackInv
    <2>8. running' = NoRun
      BY <1>1, <1>3
    <2>9. n + 1 >= 1 /\ n + 1 - 1 = n
      BY <1>1
    <2> QED BY <2>4, <2>5, <2>6, <2>7, <2>8, <2>9 DEF StackInv
  <1>4. CASE Leaves /\ n > 1 /\ running' = NoRun
    <2> DEFINE s == Front(stack)
               k == n - 1
    <2>0. k \in Nat /\ k >= 1 /\ k \in 1 .. n - 1 /\ k \in 1 .. k
      BY <1>1, <1>4
    <2>1. s \in Seq(Frame) /\ Len(s) = k /\ \A i \in 1 .. k : s[i] = stack[i]
      BY <1>4, FrontFrames DEF StackInv
    <2> HIDE DEF s
    <2>2. stack' = Moved(s)
      BY <1>4 DEF Leaves, s
    <2>3. /\ stack' \in Seq(Frame) /\ Len(stack') = k
          /\ \A i \in 1 .. k : stack'[i].table = s[i].table /\ (i # k => stack'[i] = s[i])
          /\ stack'[k].at = s[k].at + 1
      BY <2>0, <2>1, <2>2, MovedFacts
    <2>4. ASSUME NEW i \in 1 .. k
          PROVE  stack'[i].at =< Len(Tables[stack'[i].table]) + 1
      <3>1. i \in 1 .. n /\ i \in 1 .. n - 1
        BY <1>1, <2>0
      <3>2. stack[i] \in Frame /\ Len(Tables[stack[i].table]) \in Nat /\ stack[i].at \in Nat
        <4>1. stack[i] \in Frame
          BY <3>1 DEF StackInv
        <4> QED BY <4>1, TablesAssumption DEF Frame
      <3>3. stack[i].at =< Len(Tables[stack[i].table])
        BY <3>1 DEF StackInv
      <3>4. stack'[i].at = stack[i].at \/ stack'[i].at = stack[i].at + 1
        BY <2>1, <2>3
      <3> QED BY <2>1, <2>3, <3>2, <3>3, <3>4
    <2>5. ASSUME NEW i \in 1 .. k - 1
          PROVE  /\ stack'[i].at =< Len(Tables[stack'[i].table])
                 /\ NumAt(stack'[i]) = stack'[i + 1].table
      <3>1. i \in 1 .. k /\ i # k /\ i + 1 \in 1 .. k /\ i \in 1 .. n - 1
        BY <1>1, <2>0
      <3> QED BY <2>1, <2>3, <3>1 DEF StackInv
    <2>6. stack'[1].table = strategy'
      BY <2>0, <2>1, <2>3 DEF StackInv
    <2> QED BY <1>4, <2>0, <2>3, <2>4, <2>5, <2>6 DEF StackInv
  <1>5. CASE Prepare
    BY <1>1, <1>5, StackMoves DEF StackInv, Top, Entry
  <1>6. CASE stack' = stack /\ running' = running
    BY <1>6 DEF StackInv, Top, Entry
  <1>7. CASE Skip
    BY <1>1, <1>2, <1>7, StackMoves
  <1>8. CASE Perform
    BY <1>1, <1>2, <1>8, StackMoves DEF StackInv
  <1>9. CASE LeaveGroup
    BY <1>4, <1>9, StackMoves
  <1>10. CASE EnterGroup
    BY <1>3, <1>10, StackMoves
  <1> QED BY <1>5, <1>6, <1>7, <1>8, <1>9, <1>10, StackMoves DEF Next

-----------------------------------------------------------------------------
(***************************************************************************)
(* Counting: CountTo is defined since no group is in itself                *)
(***************************************************************************)

\* What CountTo[p] is computed as from a function c.
CountStep(c, p) ==
  IF p[2] = 0 THEN 0
  ELSE LET o == Tables[p[1]][p[2]].num
       IN c[<< p[1], p[2] - 1 >>] + IF IsGroup(o) THEN c[<< o, Len(Tables[o]) >>] ELSE 1

\* How many tables there are within one.
Depth(t) == Cardinality(Within(t))

LEMMA PlaceFacts ==
    ASSUME NEW p
    PROVE  p \in Places <=> /\ p = << p[1], p[2] >> /\ p[1] \in DOMAIN Tables
                            /\ p[2] \in 0 .. Len(Tables[p[1]])
  BY DEF Places

LEMMA PlaceOf ==
    ASSUME NEW t \in DOMAIN Tables, NEW n \in 0 .. Len(Tables[t])
    PROVE  << t, n >> \in Places
  BY DEF Places

LEMMA DepthType ==
    ASSUME NEW t \in DOMAIN Tables
    PROVE  Depth(t) \in Nat /\ IsFiniteSet(Within(t)) /\ Depth(t) =< Cardinality(DOMAIN Tables)
  <1>1. Within(t) \subseteq DOMAIN Tables /\ IsFiniteSet(DOMAIN Tables)
    BY WithinClosed, TablesAssumption
  <1>2. IsFiniteSet(Within(t)) /\ Cardinality(Within(t)) =< Cardinality(DOMAIN Tables)
    BY <1>1, FS_Subset
  <1> QED BY <1>2, FS_CardinalityType DEF Depth

\* A group has fewer tables within it than the table that names it.
LEMMA DepthFalls ==
    ASSUME NEW t \in DOMAIN Tables, NEW i \in 1 .. Len(Tables[t]), IsGroup(Tables[t][i].num)
    PROVE  Tables[t][i].num \in DOMAIN Tables /\ Depth(Tables[t][i].num) < Depth(t)
  <1> DEFINE g == Tables[t][i].num
  <1>1. g \in DOMAIN Tables /\ t \notin Within(g)
    BY GroupsAssumption DEF IsGroup
  <1>2. Within(g) \subseteq Within(t) /\ t \in Within(t)
    BY WithinGroup, WithinClosed
  <1>3. IsFiniteSet(Within(t)) /\ Within(g) # Within(t)
    BY <1>1, <1>2, DepthType
  <1>4. Cardinality(Within(g)) =< Cardinality(Within(t))
        /\ (Cardinality(Within(g)) = Cardinality(Within(t)) => Within(g) = Within(t))
    BY <1>2, <1>3, FS_Subset
  <1>5. Depth(g) \in Nat /\ Depth(t) \in Nat
    BY <1>1, DepthType
  <1> QED BY <1>1, <1>3, <1>4, <1>5 DEF Depth

\* Induction on the natural numbers, for a set.
LEMMA EveryNumber ==
    ASSUME NEW T, 0 \in T, \A n \in Nat : n \in T => n + 1 \in T
    PROVE  \A n \in Nat : n \in T
  <1> DEFINE M == Nat \ T
  <1>1. SUFFICES ASSUME M # {} PROVE FALSE
    OBVIOUS
  <1>2. PICK n \in M : \A k \in M : ~(<< k, n >> \in OpToRel(<, Nat))
    <2>1. M \in SUBSET Nat
      OBVIOUS
    <2> HIDE DEF M
    <2> QED BY <1>1, <2>1, NatLessThanWellFounded, WFMin
  <1>3. \A k \in M : ~(k < n)
    BY <1>2 DEF OpToRel
  <1>4. n \in Nat /\ n # 0 /\ n - 1 \in Nat /\ n - 1 < n
    OBVIOUS
  <1>5. n - 1 \in T
    BY <1>3, <1>4
  <1>6. (n - 1) + 1 \in T
    BY <1>4, <1>5
  <1> QED BY <1>4, <1>6

\* h has the sums of the first M elements of w.
Sums(w, M, h) ==
  /\ h \in [0 .. M -> Nat] /\ h[0] = 0
  /\ \A n \in 1 .. M : h[n] = h[n - 1] + w[n]

LEMMA SumsExist ==
    ASSUME NEW N \in Nat, NEW w \in [1 .. N -> Nat]
    PROVE  \E h : Sums(w, N, h)
  <1> DEFINE T == {M \in Nat : M =< N => \E h : Sums(w, M, h)}
  <1>1. 0 \in T
    <2> DEFINE h == [n \in 0 .. 0 |-> 0]
    <2>1. h \in [0 .. 0 -> Nat] /\ h[0] = 0 /\ 1 .. 0 = {}
      OBVIOUS
    <2>2. Sums(w, 0, h)
      BY <2>1 DEF Sums
    <2> QED BY <2>2
  <1>2. ASSUME NEW M \in Nat, M \in T PROVE M + 1 \in T
    <2>1. SUFFICES ASSUME M + 1 =< N PROVE \E h : Sums(w, M + 1, h)
      OBVIOUS
    <2>2. PICK h : Sums(w, M, h)
      BY <1>2, <2>1
    <2>3. /\ h \in [0 .. M -> Nat] /\ h[0] = 0 /\ M \in 0 .. M /\ w[M + 1] \in Nat
          /\ \A n \in 1 .. M : h[n] = h[n - 1] + w[n]
      BY <2>1, <2>2 DEF Sums
    <2> DEFINE k == [n \in 0 .. M + 1 |-> IF n = M + 1 THEN h[M] + w[M + 1] ELSE h[n]]
    <2>4. \A n \in 0 .. M + 1 : n # M + 1 => n \in 0 .. M
      OBVIOUS
    <2>5. k \in [0 .. M + 1 -> Nat] /\ k[0] = 0
      BY <2>3, <2>4
    <2>6. ASSUME NEW n \in 1 .. M + 1 PROVE k[n] = k[n - 1] + w[n]
      <3>1. n \in 0 .. M + 1 /\ n - 1 \in 0 .. M + 1 /\ n - 1 # M + 1
        OBVIOUS
      <3>2. k[n - 1] = h[n - 1]
        BY <3>1
      <3>3. CASE n = M + 1
        BY <3>1, <3>2, <3>3
      <3>4. CASE n # M + 1
        <4>1. n \in 1 .. M
          BY <3>4
        <4> QED BY <2>3, <3>1, <3>2, <3>4, <4>1
      <3> QED BY <3>3, <3>4
    <2> HIDE DEF k
    <2>7. Sums(w, M + 1, k)
      BY <2>5, <2>6 DEF Sums
    <2> QED BY <2>7
  <1> HIDE DEF T
  <1>3. N \in T
    BY <1>1, <1>2, EveryNumber
  <1> QED BY <1>3 DEF T

\* Sums of the same elements are the same.
LEMMA SumsUnique ==
    ASSUME NEW N \in Nat, NEW w, NEW h, NEW k, Sums(w, N, h),
           k[0] = 0, \A n \in 1 .. N : k[n] = k[n - 1] + w[n]
    PROVE  \A n \in 0 .. N : k[n] = h[n]
  <1> DEFINE T == {n \in Nat : n =< N => k[n] = h[n]}
  <1>1. 0 \in T
    BY DEF Sums
  <1>2. ASSUME NEW n \in Nat, n \in T PROVE n + 1 \in T
    <2>1. SUFFICES ASSUME n + 1 =< N PROVE k[n + 1] = h[n + 1]
      OBVIOUS
    <2>2. n + 1 \in 1 .. N /\ (n + 1) - 1 = n
      BY <2>1
    <2> QED BY <1>2, <2>1, <2>2 DEF Sums
  <1> HIDE DEF T
  <1>3. \A n \in Nat : n \in T
    BY <1>1, <1>2, EveryNumber
  <1> QED BY <1>3 DEF T

\* The places in tables with less than d tables within them, and their counts.
Below(d) == {p \in Places : Depth(p[1]) < d}
Counts(d, c) == c \in [Below(d) -> Nat] /\ \A p \in Below(d) : c[p] = CountStep(c, p)

\* What entry i of a table adds to the counts, by a function c for its groups.
Weight(c, t, i) ==
  LET o == Tables[t][i].num IN IF IsGroup(o) THEN c[<< o, Len(Tables[o]) >>] ELSE 1

LEMMA WeightType ==
    ASSUME NEW d \in Nat, NEW c, Counts(d, c), NEW t \in DOMAIN Tables, Depth(t) =< d,
           NEW i \in 1 .. Len(Tables[t])
    PROVE  /\ Weight(c, t, i) \in Nat
           /\ IsGroup(Tables[t][i].num) =>
                << Tables[t][i].num, Len(Tables[Tables[t][i].num]) >> \in Below(d)
  <1> DEFINE g == Tables[t][i].num
             q == << g, Len(Tables[g]) >>
  <1>1. ASSUME IsGroup(g) PROVE q \in Below(d)
    <2>1. g \in DOMAIN Tables /\ Depth(g) < Depth(t)
      BY <1>1, DepthFalls
    <2>2. Len(Tables[g]) \in Nat /\ Depth(g) \in Nat /\ Depth(t) \in Nat
      BY <2>1, TablesAssumption, DepthType
    <2>3. q \in Places /\ q[1] = g
      BY <2>1, <2>2, PlaceOf
    <2>4. Depth(g) < d
      BY <2>1, <2>2
    <2> QED BY <2>3, <2>4 DEF Below
  <1>2. Weight(c, t, i) \in Nat
    BY <1>1 DEF Weight, Counts
  <1> QED BY <1>1, <1>2

\* The counts of one more layer of tables.
LEMMA CountsGrow ==
    ASSUME NEW d \in Nat, NEW c, Counts(d, c)
    PROVE  \E k : Counts(d + 1, k)
  <1> DEFINE T == {t \in DOMAIN Tables : Depth(t) = d}
             w(t) == [i \in 1 .. Len(Tables[t]) |-> Weight(c, t, i)]
             H(t) == CHOOSE h : Sums(w(t), Len(Tables[t]), h)
             v(p) == IF p[1] \in T THEN H(p[1])[p[2]] ELSE c[p]
             k == [p \in Below(d + 1) |-> v(p)]
  <1>1. ASSUME NEW t \in T
        PROVE  Sums(w(t), Len(Tables[t]), H(t)) /\ Len(Tables[t]) \in Nat
    <2>1. Len(Tables[t]) \in Nat
      BY TablesAssumption
    <2>2. w(t) \in [1 .. Len(Tables[t]) -> Nat]
      <3>1. t \in DOMAIN Tables /\ Depth(t) =< d
        OBVIOUS
      <3>2. \A i \in 1 .. Len(Tables[t]) : Weight(c, t, i) \in Nat
        BY <3>1, WeightType
      <3> QED BY <3>2
    <2> HIDE DEF w
    <2>3. \E h : Sums(w(t), Len(Tables[t]), h)
      BY <2>1, <2>2, SumsExist
    <2> QED BY <2>1, <2>3
  <1> HIDE DEF H
  <1>2. ASSUME NEW p \in Below(d + 1)
        PROVE  /\ p = << p[1], p[2] >> /\ p[1] \in DOMAIN Tables /\ Len(Tables[p[1]]) \in Nat
               /\ p[2] \in 0 .. Len(Tables[p[1]]) /\ Depth(p[1]) \in Nat
               /\ p[1] \in T \/ (p[1] \notin T /\ p \in Below(d))
    <2>1. p \in Places /\ Depth(p[1]) < d + 1
      BY DEF Below
    <2>2. /\ p = << p[1], p[2] >> /\ p[1] \in DOMAIN Tables /\ p[2] \in 0 .. Len(Tables[p[1]])
      BY <2>1, PlaceFacts
    <2>3. Depth(p[1]) \in Nat /\ Len(Tables[p[1]]) \in Nat
      BY <2>2, DepthType, TablesAssumption
    <2>4. Depth(p[1]) = d \/ Depth(p[1]) < d
      BY <2>1, <2>3
    <2>5. CASE Depth(p[1]) = d
      BY <2>2, <2>3, <2>5
    <2>6. CASE Depth(p[1]) < d
      BY <2>1, <2>2, <2>3, <2>6 DEF Below
    <2> QED BY <2>4, <2>5, <2>6
  <1>3. ASSUME NEW p \in Below(d + 1) PROVE v(p) \in Nat
    <2>1. CASE p[1] \in T
      BY <1>1, <1>2, <2>1 DEF Sums
    <2>2. CASE p[1] \notin T
      BY <1>2, <2>2 DEF Counts
    <2> QED BY <2>1, <2>2
  <1>4. k \in [Below(d + 1) -> Nat]
    BY <1>3
  <1>5. \A p \in Below(d) : p \in Below(d + 1) /\ p[1] \notin T /\ k[p] = c[p]
    <2> SUFFICES ASSUME NEW p \in Below(d)
                 PROVE  p \in Below(d + 1) /\ p[1] \notin T /\ k[p] = c[p]
      OBVIOUS
    <2>1. p \in Places /\ p[1] \in DOMAIN Tables /\ Depth(p[1]) < d
      BY PlaceFacts DEF Below
    <2>2. Depth(p[1]) \in Nat
      BY <2>1, DepthType
    <2>3. p \in Below(d + 1) /\ p[1] \notin T
      BY <2>1, <2>2 DEF Below
    <2> QED BY <2>3
  <1>6. \A p \in Below(d + 1) : k[p] = v(p)
    OBVIOUS
  <1> HIDE DEF k
  <1>7. ASSUME NEW p \in Below(d + 1), p[2] # 0
        PROVE  /\ << p[1], p[2] - 1 >> \in Below(d + 1) /\ p[2] \in 1 .. Len(Tables[p[1]])
               /\ Weight(k, p[1], p[2]) = Weight(c, p[1], p[2])
    <2>1. p[2] \in 1 .. Len(Tables[p[1]]) /\ p[2] - 1 \in 0 .. Len(Tables[p[1]])
      BY <1>2, <1>7
    <2>2. << p[1], p[2] - 1 >> \in Places
      BY <1>2, <2>1, PlaceOf
    <2>3. << p[1], p[2] - 1 >> \in Below(d + 1)
      BY <2>2 DEF Below
    <2>4. Depth(p[1]) =< d
      BY <1>2 DEF Below
    <2>5. Weight(k, p[1], p[2]) = Weight(c, p[1], p[2])
      BY <1>2, <1>5, <2>1, <2>4, WeightType DEF Weight
    <2> QED BY <2>1, <2>3, <2>5
  <1>8. ASSUME NEW p \in Below(d + 1)
        PROVE  k[p] = CountStep(k, p)
    <2>1. CASE p[2] = 0
      <3>1. CASE p[1] \in T
        BY <1>1, <1>6, <2>1, <3>1 DEF Sums, CountStep
      <3>2. CASE p[1] \notin T
        <4>1. k[p] = c[p] /\ c[p] = CountStep(c, p)
          BY <1>2, <1>6, <3>2 DEF Counts
        <4> QED BY <2>1, <4>1 DEF CountStep
      <3> QED BY <3>1, <3>2
    <2>2. CASE p[2] # 0
      <3> DEFINE r == << p[1], p[2] - 1 >>
      <3>1. /\ r \in Below(d + 1) /\ p[2] \in 1 .. Len(Tables[p[1]])
            /\ Weight(k, p[1], p[2]) = Weight(c, p[1], p[2])
        BY <1>7, <2>2
      <3>2. CountStep(k, p) = k[r] + Weight(k, p[1], p[2])
        BY <2>2 DEF CountStep, Weight
      <3>3. CASE p[1] \in T
        <4>1. /\ k[p] = H(p[1])[p[2]] /\ k[r] = H(p[1])[p[2] - 1]
          BY <1>6, <3>1, <3>3
        <4>2. H(p[1])[p[2]] = H(p[1])[p[2] - 1] + w(p[1])[p[2]]
          BY <1>1, <3>1, <3>3 DEF Sums
        <4>3. w(p[1])[p[2]] = Weight(c, p[1], p[2])
          BY <3>1
        <4> QED BY <3>1, <3>2, <4>1, <4>2, <4>3
      <3>4. CASE p[1] \notin T
        <4>1. k[p] = c[p] /\ c[p] = CountStep(c, p) /\ k[r] = c[r]
          BY <1>2, <1>6, <3>1, <3>4 DEF Counts
        <4>2. CountStep(c, p) = c[r] + Weight(c, p[1], p[2])
          BY <2>2 DEF CountStep, Weight
        <4> QED BY <3>1, <3>2, <4>1, <4>2
      <3> QED BY <3>3, <3>4
    <2> QED BY <2>1, <2>2
  <1>9. Counts(d + 1, k)
    BY <1>4, <1>8 DEF Counts
  <1> QED BY <1>9

\* Every table has itself within it.
LEMMA NoneBelow == Below(0) = {}
  <1>1. \A p \in Places : p[1] \in DOMAIN Tables
    BY PlaceFacts
  <1>2. \A p \in Places : Depth(p[1]) \in Nat
    BY <1>1, DepthType
  <1> QED BY <1>2 DEF Below

\* CountTo counts.
LEMMA CountToFacts ==
    /\ CountTo \in [Places -> Nat]
    /\ \A p \in Places : CountTo[p] = CountStep(CountTo, p)
  <1> DEFINE T == {d \in Nat : \E c : Counts(d, c)}
  <1>1. 0 \in T
    <2> DEFINE c == [p \in Below(0) |-> 0]
    <2>1. Counts(0, c)
      BY NoneBelow DEF Counts
    <2> QED BY <2>1
  <1>2. \A d \in Nat : d \in T => d + 1 \in T
    BY CountsGrow
  <1> DEFINE d == Cardinality(DOMAIN Tables) + 1
  <1>3. d \in Nat
    BY TablesAssumption, FS_CardinalityType
  <1>4. d \in T
    <2> HIDE DEF T, d
    <2> QED BY <1>1, <1>2, <1>3, EveryNumber
  <1>5. Below(d) = Places
    <2>1. ASSUME NEW p \in Places PROVE Depth(p[1]) < d
      <3>1. p[1] \in DOMAIN Tables
        BY PlaceFacts
      <3>2. Depth(p[1]) \in Nat /\ Depth(p[1]) =< Cardinality(DOMAIN Tables)
        BY <3>1, DepthType
      <3>3. Cardinality(DOMAIN Tables) \in Nat
        BY TablesAssumption, FS_CardinalityType
      <3> QED BY <3>2, <3>3
    <2> QED BY <2>1 DEF Below
  <1> HIDE DEF d
  <1>6. PICK c : c \in [Places -> Nat] /\ \A p \in Places : c[p] = CountStep(c, p)
    BY <1>4, <1>5 DEF Counts
  <1> DEFINE Is(g) == g = [p \in Places |-> CountStep(g, p)]
  <1>7. Is(c)
    BY <1>6
  <1>8. CountTo = CHOOSE g : Is(g)
    BY DEF CountTo, CountStep
  <1>9. Is(CountTo)
    BY <1>7, <1>8
  <1>10. DOMAIN CountTo = Places /\ \A p \in Places : CountTo[p] = CountStep(CountTo, p)
    <2> HIDE DEF Is
    <2>1. CountTo = [p \in Places |-> CountStep(CountTo, p)]
      BY <1>9 DEF Is
    <2> QED BY <2>1
  <1>11. ASSUME NEW t \in DOMAIN Tables,
                \A i \in 1 .. Len(Tables[t]) : Weight(CountTo, t, i) \in Nat
         PROVE  \A n \in 0 .. Len(Tables[t]) : CountTo[<< t, n >>] \in Nat
    <2> DEFINE N == Len(Tables[t])
               R == {n \in Nat : n =< N => CountTo[<< t, n >>] \in Nat}
    <2>1. N \in Nat
      BY TablesAssumption
    <2>2. 0 \in R
      <3>1. << t, 0 >> \in Places
        BY <2>1, PlaceOf
      <3>2. CountTo[<< t, 0 >>] = CountStep(CountTo, << t, 0 >>)
        BY <1>10, <3>1
      <3>3. CountStep(CountTo, << t, 0 >>) = 0
        BY DEF CountStep
      <3> QED BY <3>2, <3>3
    <2>3. ASSUME NEW n \in Nat, n \in R PROVE n + 1 \in R
      <3>1. SUFFICES ASSUME n + 1 =< N PROVE CountTo[<< t, n + 1 >>] \in Nat
        OBVIOUS
      <3>2. n + 1 \in 0 .. N /\ n + 1 \in 1 .. N /\ n + 1 # 0 /\ (n + 1) - 1 = n /\ n =< N
        BY <2>1, <3>1
      <3>3. << t, n + 1 >> \in Places
        BY <3>2, PlaceOf
      <3>4. CountTo[<< t, n + 1 >>] = CountStep(CountTo, << t, n + 1 >>)
        BY <1>10, <3>3
      <3>5. CountStep(CountTo, << t, n + 1 >>) = CountTo[<< t, n >>] + Weight(CountTo, t, n + 1)
        BY <3>2 DEF CountStep, Weight
      <3>6. CountTo[<< t, n >>] \in Nat /\ Weight(CountTo, t, n + 1) \in Nat
        BY <1>11, <2>3, <3>2
      <3> QED BY <3>4, <3>5, <3>6
    <2> HIDE DEF R, N
    <2>4. \A n \in Nat : n \in R
      BY <2>2, <2>3, EveryNumber
    <2> QED BY <2>1, <2>4 DEF R, N
  <1> DEFINE V == {x \in Nat : \A p \in Below(x) : CountTo[p] \in Nat}
  <1>12. 0 \in V
    BY NoneBelow
  <1>13. ASSUME NEW x \in Nat, x \in V PROVE x + 1 \in V
    <2>1. ASSUME NEW p \in Below(x + 1) PROVE CountTo[p] \in Nat
      <3>1. /\ p = << p[1], p[2] >> /\ p[1] \in DOMAIN Tables /\ Depth(p[1]) < x + 1
            /\ p[2] \in 0 .. Len(Tables[p[1]])
        BY PlaceFacts DEF Below
      <3>2. ASSUME NEW i \in 1 .. Len(Tables[p[1]]) PROVE Weight(CountTo, p[1], i) \in Nat
        <4> DEFINE g == Tables[p[1]][i].num
        <4>1. ASSUME IsGroup(g) PROVE CountTo[<< g, Len(Tables[g]) >>] \in Nat
          <5>1. g \in DOMAIN Tables /\ Depth(g) < Depth(p[1])
            BY <3>1, <4>1, DepthFalls
          <5>2. Len(Tables[g]) \in Nat /\ Depth(g) \in Nat /\ Depth(p[1]) \in Nat
            BY <3>1, <5>1, TablesAssumption, DepthType
          <5>3. << g, Len(Tables[g]) >> \in Places /\ Depth(g) < x
            BY <3>1, <5>1, <5>2, PlaceOf
          <5>4. << g, Len(Tables[g]) >> \in Below(x)
            BY <5>3 DEF Below
          <5> QED BY <1>13, <5>4
        <4> QED BY <4>1 DEF Weight
      <3>3. CountTo[<< p[1], p[2] >>] \in Nat
        BY <1>11, <3>1, <3>2
      <3> QED BY <3>1, <3>3
    <2> QED BY <2>1
  <1>14. d \in V
    <2> HIDE DEF V
    <2> QED BY <1>3, <1>12, <1>13, EveryNumber
  <1>15. \A p \in Places : CountTo[p] \in Nat
    BY <1>5, <1>14
  <1>16. CountTo = [p \in Places |-> CountTo[p]]
    BY <1>9
  <1>17. CountTo \in [Places -> Nat]
    BY <1>15, <1>16
  <1> QED BY <1>10, <1>17

-----------------------------------------------------------------------------
(***************************************************************************)
(* The index is what the stack has passed                                  *)
(***************************************************************************)

\* What each call has counted, and the sum r of that.
Passed(s) == [i \in 1 .. Len(s) |-> CountTo[<< s[i].table, s[i].at - 1 >>]]
Total(s, r) == \E f : Sums(Passed(s), Len(s), f) /\ r = f[Len(s)]

CountInv ==
  /\ optIndex \in Nat
  /\ Total(stack, IF running = NoRun THEN optIndex ELSE optIndex - 1)

\* Calls that are open: in some table, at an entry or the end.
Calls(s) ==
  /\ s \in Seq(Frame)
  /\ \A i \in 1 .. Len(s) : s[i].at =< Len(Tables[s[i].table]) + 1

LEMMA CallFacts ==
    ASSUME NEW s, Calls(s), NEW i \in 1 .. Len(s)
    PROVE  /\ s[i].table \in DOMAIN Tables /\ s[i].at \in Nat /\ s[i].at >= 1
           /\ Len(Tables[s[i].table]) \in Nat /\ s[i].at - 1 \in 0 .. Len(Tables[s[i].table])
           /\ Passed(s)[i] = CountTo[<< s[i].table, s[i].at - 1 >>] /\ Passed(s)[i] \in Nat
  <1>1. s[i] \in Frame /\ s[i].at =< Len(Tables[s[i].table]) + 1
    BY DEF Calls
  <1>2. s[i].table \in DOMAIN Tables /\ s[i].at \in Nat /\ s[i].at >= 1
    BY <1>1 DEF Frame
  <1>3. Len(Tables[s[i].table]) \in Nat
    BY <1>2, TablesAssumption
  <1>4. s[i].at - 1 \in 0 .. Len(Tables[s[i].table])
    BY <1>1, <1>2, <1>3
  <1>5. << s[i].table, s[i].at - 1 >> \in Places
    BY <1>2, <1>4, PlaceOf
  <1>6. Passed(s)[i] = CountTo[<< s[i].table, s[i].at - 1 >>]
    BY DEF Passed
  <1> QED BY <1>2, <1>3, <1>4, <1>5, <1>6, CountToFacts

\* A table with one more entry passed.
LEMMA CountNext ==
    ASSUME NEW t \in DOMAIN Tables, NEW n \in 1 .. Len(Tables[t])
    PROVE  CountTo[<< t, n >>] = CountTo[<< t, n - 1 >>] + Weight(CountTo, t, n)
  <1>1. n \in 0 .. Len(Tables[t]) /\ n # 0 /\ Len(Tables[t]) \in Nat
    BY TablesAssumption
  <1>2. << t, n >> \in Places
    BY <1>1, PlaceOf
  <1>3. CountTo[<< t, n >>] = CountStep(CountTo, << t, n >>)
    BY <1>2, CountToFacts
  <1>4. CountStep(CountTo, << t, n >>) = CountTo[<< t, n - 1 >>] + Weight(CountTo, t, n)
    BY <1>1 DEF CountStep, Weight
  <1> QED BY <1>3, <1>4

LEMMA CountNone ==
    ASSUME NEW t \in DOMAIN Tables
    PROVE  CountTo[<< t, 0 >>] = 0
  <1>1. Len(Tables[t]) \in Nat /\ << t, 0 >> \in Places
    BY TablesAssumption, PlaceOf
  <1>2. CountTo[<< t, 0 >>] = CountStep(CountTo, << t, 0 >>)
    BY <1>1, CountToFacts
  <1>3. CountStep(CountTo, << t, 0 >>) = 0
    BY DEF CountStep
  <1> QED BY <1>2, <1>3

\* An entry counts one, or what the group it names does.
LEMMA WeightCount ==
    ASSUME NEW t \in DOMAIN Tables, NEW n \in 1 .. Len(Tables[t])
    PROVE  /\ Weight(CountTo, t, n) \in Nat
           /\ ~IsGroup(Tables[t][n].num) => Weight(CountTo, t, n) = 1
           /\ IsGroup(Tables[t][n].num) =>
                Weight(CountTo, t, n) = CountTo[<< Tables[t][n].num, Len(Tables[Tables[t][n].num]) >>]
  <1> DEFINE g == Tables[t][n].num
  <1>1. IsGroup(g) => Len(Tables[g]) \in Nat /\ << g, Len(Tables[g]) >> \in Places
    BY TablesAssumption, PlaceOf DEF IsGroup
  <1>2. IsGroup(g) => CountTo[<< g, Len(Tables[g]) >>] \in Nat
    BY <1>1, CountToFacts
  <1> QED BY <1>2 DEF Weight

\* Calls that agree with others up to the last one.
LEMMA TotalOf ==
    ASSUME NEW s, Calls(s), NEW f, Sums(Passed(s), Len(s), f),
           NEW u, Calls(u), Len(u) >= 1, Len(u) =< Len(s) + 1,
           \A i \in 1 .. Len(u) - 1 : u[i] = s[i]
    PROVE  Total(u, f[Len(u) - 1] + Passed(u)[Len(u)])
  <1> DEFINE k == Len(u)
             m == Len(s)
  <1>1. k \in Nat /\ m \in Nat /\ k >= 1 /\ k =< m + 1 /\ k - 1 \in Nat
    BY DEF Calls
  <1>2. Passed(u) \in [1 .. k -> Nat]
    <2>1. \A i \in 1 .. k : Passed(u)[i] \in Nat
      BY CallFacts
    <2> QED BY <2>1 DEF Passed
  <1>3. PICK h : Sums(Passed(u), k, h)
    BY <1>1, <1>2, SumsExist
  <1>4. \A i \in 1 .. k - 1 : Passed(u)[i] = Passed(s)[i]
    <2> SUFFICES ASSUME NEW i \in 1 .. k - 1 PROVE Passed(u)[i] = Passed(s)[i]
      OBVIOUS
    <2>1. i \in 1 .. k /\ i \in 1 .. m
      BY <1>1
    <2> QED BY <2>1, CallFacts
  <1> HIDE DEF k, m
  <1> DEFINE w == Passed(u)
             h1 == [i \in 0 .. k - 1 |-> h[i]]
  <1>5. /\ h \in [0 .. k -> Nat] /\ h[0] = 0 /\ \A n \in 1 .. k : h[n] = h[n - 1] + w[n]
    BY <1>3 DEF Sums
  <1>6. /\ f \in [0 .. m -> Nat] /\ f[0] = 0 /\ \A n \in 1 .. m : f[n] = f[n - 1] + Passed(s)[n]
    BY DEF Sums, m
  <1>7. Sums(w, k - 1, h1)
    <2>1. \A n \in 0 .. k - 1 : n \in 0 .. k
      BY <1>1
    <2>2. \A n \in 1 .. k - 1 : n \in 1 .. k /\ n \in 0 .. k - 1 /\ n - 1 \in 0 .. k - 1
      BY <1>1
    <2>3. h1 \in [0 .. k - 1 -> Nat] /\ h1[0] = 0
      BY <1>1, <1>5, <2>1
    <2>4. \A n \in 1 .. k - 1 : h1[n] = h1[n - 1] + w[n]
      BY <1>5, <2>2
    <2> QED BY <2>3, <2>4 DEF Sums
  <1>8. \A n \in 1 .. k - 1 : f[n] = f[n - 1] + w[n]
    <2>1. \A n \in 1 .. k - 1 : n \in 1 .. m
      BY <1>1
    <2> QED BY <1>4, <1>6, <2>1
  <1> HIDE DEF h1, w
  <1>9. \A n \in 0 .. k - 1 : f[n] = h1[n]
    <2> DEFINE N == k - 1
    <2>1. N \in Nat /\ Sums(w, N, h1) /\ f[0] = 0 /\ \A n \in 1 .. N : f[n] = f[n - 1] + w[n]
      BY <1>1, <1>6, <1>7, <1>8
    <2> HIDE DEF N
    <2>2. \A n \in 0 .. N : f[n] = h1[n]
      BY ONLY <2>1, SumsUnique
    <2> QED BY <2>2 DEF N
  <1>10. f[k - 1] = h[k - 1] /\ h[k] = h[k - 1] + w[k]
    <2>1. k - 1 \in 0 .. k - 1 /\ k \in 1 .. k
      BY <1>1
    <2>2. h1[k - 1] = h[k - 1]
      BY <2>1 DEF h1
    <2>3. h[k] = h[k - 1] + w[k]
      BY <1>5, <2>1
    <2> QED BY <1>9, <2>1, <2>2, <2>3
  <1> QED BY <1>3, <1>10 DEF Total, k, w

\* The next entry.
LEMMA TotalMoved ==
    ASSUME NEW s, Calls(s), Len(s) >= 1, s[Len(s)].at =< Len(Tables[s[Len(s)].table]),
           NEW r, Total(s, r)
    PROVE  Total(Moved(s), r + Weight(CountTo, s[Len(s)].table, s[Len(s)].at))
  <1> DEFINE n == Len(s)
             u == Moved(s)
             t == s[n].table
             a == s[n].at
  <1>1. n \in Nat /\ n \in 1 .. n /\ s \in Seq(Frame)
    BY DEF Calls
  <1>0. a =< Len(Tables[t])
    OBVIOUS
  <1>2. t \in DOMAIN Tables /\ a \in Nat /\ a >= 1 /\ Len(Tables[t]) \in Nat
    BY <1>1, CallFacts
  <1>3. /\ u \in Seq(Frame) /\ Len(u) = n
        /\ \A i \in 1 .. n : u[i].table = s[i].table /\ (i # n => u[i] = s[i])
        /\ u[n].at = a + 1
    BY <1>1, MovedFacts
  <1> HIDE DEF u
  <1>4. Calls(u)
    <2>1. ASSUME NEW i \in 1 .. n PROVE u[i].at =< Len(Tables[u[i].table]) + 1
      <3>1. CASE i = n
        BY <1>1, <1>2, <1>3, <3>1
      <3>2. CASE i # n
        BY <1>3, <3>2 DEF Calls
      <3> QED BY <3>1, <3>2
    <2> QED BY <1>3, <2>1 DEF Calls
  <1>5. PICK f : Sums(Passed(s), n, f) /\ r = f[n]
    BY DEF Total
  <1>6. \A i \in 1 .. n - 1 : u[i] = s[i]
    <2>1. \A i \in 1 .. n - 1 : i \in 1 .. n /\ i # n
      BY <1>1
    <2> QED BY <1>3, <2>1
  <1>7. Total(u, f[n - 1] + Passed(u)[n])
    BY <1>1, <1>3, <1>4, <1>5, <1>6, TotalOf
  <1>8. Passed(u)[n] = CountTo[<< t, a >>] /\ Passed(u)[n] \in Nat
    <2>1. /\ Passed(u)[n] = CountTo[<< u[n].table, u[n].at - 1 >>] /\ Passed(u)[n] \in Nat
      BY <1>1, <1>3, <1>4, CallFacts
    <2>2. u[n].table = t /\ u[n].at - 1 = a
      BY <1>1, <1>2, <1>3
    <2> QED BY <2>1, <2>2
  <1>9. Passed(s)[n] = CountTo[<< t, a - 1 >>] /\ Passed(s)[n] \in Nat
    BY <1>1, CallFacts
  <1> HIDE DEF t, a
  <1>a. a \in 1 .. Len(Tables[t])
    BY <1>0, <1>2
  <1>10. CountTo[<< t, a >>] = CountTo[<< t, a - 1 >>] + Weight(CountTo, t, a)
    BY <1>2, <1>a, CountNext
  <1>11. f[n - 1] \in Nat /\ r = f[n - 1] + Passed(s)[n]
    BY <1>1, <1>5 DEF Sums
  <1>12. Weight(CountTo, t, a) \in Nat
    BY <1>2, <1>a, WeightCount
  <1>13. f[n - 1] + Passed(u)[n] = r + Weight(CountTo, t, a)
    BY <1>8, <1>9, <1>10, <1>11, <1>12
  <1> QED BY <1>7, <1>13 DEF u, t, a

\* The first entry of a group.
LEMMA TotalEntered ==
    ASSUME NEW s, Calls(s), NEW g \in DOMAIN Tables, NEW r \in Nat, Total(s, r)
    PROVE  Total(Append(s, [table |-> g, at |-> 1]), r)
  <1> DEFINE n == Len(s)
             x == [table |-> g, at |-> 1]
             u == Append(s, x)
  <1>1. n \in Nat /\ s \in Seq(Frame) /\ x \in Frame /\ Len(Tables[g]) \in Nat
    BY TablesAssumption DEF Calls, Frame
  <1>2. x.table = g /\ x.at = 1
    OBVIOUS
  <1> HIDE DEF x
  <1>3. /\ u \in Seq(Frame) /\ Len(u) = n + 1 /\ u[n + 1] = x
        /\ \A i \in 1 .. n : u[i] = s[i]
    BY <1>1, AppendFacts
  <1> HIDE DEF u
  <1>4. Calls(u)
    <2>1. ASSUME NEW i \in 1 .. n + 1 PROVE u[i].at =< Len(Tables[u[i].table]) + 1
      <3>1. CASE i = n + 1
        BY <1>1, <1>2, <1>3, <3>1
      <3>2. CASE i # n + 1
        <4>1. i \in 1 .. n
          BY <1>1, <3>2
        <4> QED BY <1>3, <4>1 DEF Calls
      <3> QED BY <3>1, <3>2
    <2> QED BY <1>3, <2>1 DEF Calls
  <1>5. PICK f : Sums(Passed(s), n, f) /\ r = f[n]
    BY DEF Total
  <1>6. /\ n + 1 >= 1 /\ (n + 1) - 1 = n /\ n + 1 \in 1 .. n + 1
    BY <1>1
  <1>7. Total(u, f[n] + Passed(u)[n + 1])
    <2>1. \A i \in 1 .. Len(u) - 1 : u[i] = s[i]
      BY <1>3, <1>6
    <2>2. Len(u) - 1 = n
      BY <1>3, <1>6
    <2>3. Total(u, f[Len(u) - 1] + Passed(u)[Len(u)])
      BY <1>3, <1>4, <1>5, <1>6, <2>1, TotalOf
    <2> QED BY <1>3, <2>2, <2>3
  <1>8. Passed(u)[n + 1] = CountTo[<< g, 0 >>]
    BY <1>2, <1>3, <1>4, <1>6, CallFacts
  <1>9. CountTo[<< g, 0 >>] = 0
    BY CountNone
  <1> QED BY <1>5, <1>7, <1>8, <1>9 DEF u, x

\* The entry behind a group that has ended.
LEMMA TotalLeft ==
    ASSUME NEW s, Calls(s), Len(s) > 1, NEW r \in Nat, Total(s, r),
           s[Len(s)].at > Len(Tables[s[Len(s)].table]),
           s[Len(s) - 1].at =< Len(Tables[s[Len(s) - 1].table]),
           NumAt(s[Len(s) - 1]) = s[Len(s)].table
    PROVE  Total(Moved(Front(s)), r)
  <1> DEFINE n == Len(s)
             k == n - 1
             v == Front(s)
             g == s[n].table
  <1>1. n \in Nat /\ k \in Nat /\ k >= 1 /\ n \in 1 .. n /\ k \in 1 .. n /\ s \in Seq(Frame)
    BY DEF Calls
  <1>2. v \in Seq(Frame) /\ Len(v) = k /\ \A i \in 1 .. k : v[i] = s[i]
    BY <1>1, FrontFrames
  <1> HIDE DEF v
  <1>3. Calls(v)
    <2>1. \A i \in 1 .. k : i \in 1 .. n
      BY <1>1
    <2> QED BY <1>2, <2>1 DEF Calls
  <1>4. PICK f : Sums(Passed(s), n, f) /\ r = f[n]
    BY DEF Total
  <1>5. /\ f \in [0 .. n -> Nat] /\ \A i \in 1 .. n : f[i] = f[i - 1] + Passed(s)[i]
    BY <1>4 DEF Sums
  <1>6. Total(v, f[k])
    <2>1. \A i \in 1 .. Len(v) - 1 : v[i] = s[i]
      BY <1>1, <1>2
    <2>2. Total(v, f[Len(v) - 1] + Passed(v)[Len(v)])
      <3>1. Len(v) >= 1 /\ Len(v) =< Len(s) + 1
        BY <1>1, <1>2
      <3> QED BY <1>3, <1>4, <2>1, <3>1, TotalOf
    <2>3. Passed(v)[k] = CountTo[<< v[k].table, v[k].at - 1 >>]
      BY <1>1, <1>2, <1>3, CallFacts
    <2>4. Passed(s)[k] = CountTo[<< s[k].table, s[k].at - 1 >>]
      BY <1>1, CallFacts
    <2>5. k \in 1 .. k
      BY <1>1
    <2>6. f[k] = f[k - 1] + Passed(v)[k]
      BY <1>1, <1>2, <1>5, <2>3, <2>4, <2>5
    <2> QED BY <1>2, <2>2, <2>6
  <1>7. /\ s[k].table \in DOMAIN Tables /\ s[k].at \in 1 .. Len(Tables[s[k].table])
        /\ g \in DOMAIN Tables /\ Len(Tables[g]) \in Nat /\ s[n].at = Len(Tables[g]) + 1
    <2>1. /\ s[k].table \in DOMAIN Tables /\ s[k].at \in Nat /\ s[k].at >= 1
          /\ Len(Tables[s[k].table]) \in Nat
      BY <1>1, CallFacts
    <2>2. /\ g \in DOMAIN Tables /\ s[n].at \in Nat /\ Len(Tables[g]) \in Nat
      BY <1>1, CallFacts
    <2>3. s[n].at =< Len(Tables[g]) + 1
      BY <1>1 DEF Calls
    <2>4. s[n].at = Len(Tables[g]) + 1
      BY <2>2, <2>3
    <2> QED BY <2>1, <2>2, <2>4
  <1>8. Weight(CountTo, s[k].table, s[k].at) = CountTo[<< g, Len(Tables[g]) >>]
    <2>1. Tables[s[k].table][s[k].at].num = g /\ IsGroup(g)
      BY <1>7 DEF NumAt, IsGroup
    <2> QED BY <1>7, <2>1, WeightCount
  <1>9. Passed(s)[n] = CountTo[<< g, Len(Tables[g]) >>]
    <2>1. Passed(s)[n] = CountTo[<< g, s[n].at - 1 >>]
      BY <1>1, CallFacts
    <2>2. s[n].at - 1 = Len(Tables[g])
      BY <1>7
    <2> QED BY <2>1, <2>2
  <1>10. Total(Moved(v), f[k] + Weight(CountTo, v[Len(v)].table, v[Len(v)].at))
    <2>1. Len(v) >= 1 /\ v[Len(v)] = s[k]
      BY <1>1, <1>2
    <2> QED BY <1>3, <1>6, <1>7, <2>1, TotalMoved
  <1>11. v[Len(v)] = s[k] /\ f[n] = f[k] + Passed(s)[n]
    BY <1>1, <1>2, <1>5
  <1> QED BY <1>4, <1>8, <1>9, <1>10, <1>11 DEF v

LEMMA CountInit ==
    ASSUME Init
    PROVE  StackInv /\ CountInv
  <1> DEFINE x == [table |-> strategy, at |-> 1]
  <1>1. strategy \in DOMAIN Tables /\ Len(Tables[strategy]) \in Nat
    BY TablesAssumption DEF Init
  <1>2. x \in Frame /\ x.table = strategy /\ x.at = 1
    BY <1>1 DEF Frame
  <1>3. stack = << x >> /\ running = NoRun /\ optIndex = 0
    BY DEF Init
  <1> HIDE DEF x
  <1>4. stack \in Seq(Frame) /\ Len(stack) = 1 /\ stack[1] = x
    BY <1>2, <1>3
  <1>5. StackInv
    BY <1>1, <1>2, <1>3, <1>4 DEF StackInv
  <1>6. Calls(<< >>) /\ Total(<< >>, 0)
    <2>1. Calls(<< >>)
      BY DEF Calls
    <2>2. Passed(<< >>) \in [1 .. 0 -> Nat]
      BY DEF Passed
    <2>3. PICK f : Sums(Passed(<< >>), 0, f)
      BY <2>2, SumsExist
    <2>4. f[0] = 0
      BY <2>3 DEF Sums
    <2> QED BY <2>1, <2>3, <2>4 DEF Total
  <1>7. Append(<< >>, [table |-> strategy, at |-> 1]) = stack
    BY <1>3 DEF x
  <1>8. Total(stack, 0)
    BY <1>1, <1>6, <1>7, TotalEntered
  <1> QED BY <1>3, <1>5, <1>8 DEF CountInv

\* What is known of the entry that a step is about.
LEMMA EntryFacts ==
    ASSUME StackInv, AtEntry
    PROVE  /\ Top.table \in DOMAIN Tables /\ Top.at \in 1 .. Len(Tables[Top.table])
           /\ Entry = Tables[Top.table][Top.at]
           /\ Entry.num \in DOMAIN Needs \cup DOMAIN Tables
           /\ IsGroup(Entry.num) => /\ Entry.num \in DOMAIN Tables /\ Entry.options = "Always"
                                    /\ Marked(Entry) = lastRun /\ \A facts : Wanted(Entry, facts)
           /\ ~IsGroup(Entry.num) => Entry.num \in DOMAIN Needs
  <1>1. /\ Top.table \in DOMAIN Tables /\ Top.at \in Nat /\ Top.at >= 1
        /\ Entry = Tables[Top.table][Top.at] /\ Top.at =< Len(Tables[Top.table])
    BY TopFacts
  <1>2. Top.at \in 1 .. Len(Tables[Top.table])
    BY <1>1, TablesAssumption
  <1>3. Entry.num \in DOMAIN Needs \cup DOMAIN Tables
    BY <1>1, <1>2, TablesAssumption
  <1>4. IsGroup(Entry.num) => Entry.options = "Always"
    BY <1>1, <1>2, GroupsAssumption
  <1>5. Entry.options = "Always" => Marked(Entry) = lastRun /\ \A facts : Wanted(Entry, facts)
    BY DEF Marked, MarksLastRun, Wanted
  <1> QED BY <1>1, <1>2, <1>3, <1>4, <1>5 DEF IsGroup

\* The index in each step.
LEMMA CountMoves ==
    ASSUME StackInv
    PROVE  /\ Skip => optIndex' = optIndex + 1 /\ ~IsGroup(Entry.num)
           /\ Prepare => optIndex' = optIndex + 1 /\ running' # NoRun
           /\ EnterGroup \/ Perform \/ LeaveGroup \/ RemoveDeadNodes \/ Done \/ UNCHANGED vars =>
                optIndex' = optIndex
  <1>1. Skip => optIndex' = optIndex + 1 /\ ~IsGroup(Entry.num)
    <2> SUFFICES ASSUME Skip PROVE optIndex' = optIndex + 1 /\ ~IsGroup(Entry.num)
      OBVIOUS
    <2>1. AtEntry
      BY DEF Skip
    <2>2. PICK facts \in Facts :
            /\ \/ ~Wanted(Entry, facts)
               \/ ~IsGroup(Entry.num) /\ (optIndex >= limit \/ Entry.num \notin Managers \ Declining)
            /\ optIndex' = Counted(Entry, facts)
      BY DEF Skip
    <2>3. ~IsGroup(Entry.num)
      BY <2>1, <2>2, EntryFacts
    <2> QED BY <2>2, <2>3 DEF Counted
  <1>2. Prepare => optIndex' = optIndex + 1 /\ running' # NoRun
    <2> SUFFICES ASSUME Prepare PROVE optIndex' = optIndex + 1 /\ running' # NoRun
      OBVIOUS
    <2>1. AtEntry /\ ~IsGroup(Entry.num) /\ running'.opt = Entry.num
      BY DEF Prepare
    <2>2. optIndex' = optIndex + 1
      BY DEF Prepare, Counted
    <2>3. Entry.num # "none"
      BY <2>1, EntryFacts, TablesAssumption
    <2> QED BY <2>1, <2>2, <2>3 DEF NoRun
  <1>3. EnterGroup \/ Perform \/ LeaveGroup \/ RemoveDeadNodes \/ Done \/ UNCHANGED vars =>
          optIndex' = optIndex
    BY DEF EnterGroup, Perform, LeaveGroup, RemoveDeadNodes, Done, vars
  <1> QED BY <1>1, <1>2, <1>3

LEMMA CountKept ==
    ASSUME StackInv, CountInv, [Next]_vars
    PROVE  CountInv'
  <1> DEFINE n == Len(stack)
             r == IF running = NoRun THEN optIndex ELSE optIndex - 1
  <1>1. Calls(stack) /\ n \in Nat /\ n >= 1 /\ Top = stack[n]
    BY TopFacts DEF StackInv, Calls
  <1>2. Total(stack, r) /\ optIndex \in Nat
    BY DEF CountInv
  <1>3. r \in Nat
    <2>1. PICK f : Sums(Passed(stack), n, f) /\ r = f[n]
      BY <1>2 DEF Total
    <2> HIDE DEF r
    <2> QED BY <1>1, <2>1 DEF Sums
  <1>4. ASSUME Advances, Top.at \in 1 .. Len(Tables[Top.table]), ~IsGroup(Entry.num)
        PROVE  Total(stack', r + 1)
    <2>1. Top.table \in DOMAIN Tables /\ Entry = Tables[Top.table][Top.at]
      BY TopFacts
    <2>2. Weight(CountTo, Top.table, Top.at) = 1
      BY <1>4, <2>1, WeightCount
    <2>3. Total(Moved(stack), r + Weight(CountTo, Top.table, Top.at))
      <3> HIDE DEF r, n
      <3>1. n = Len(stack) /\ stack[n].at =< Len(Tables[stack[n].table])
        BY <1>1, <1>4, <2>1, TablesAssumption DEF n
      <3> QED BY <1>1, <1>2, <3>1, TotalMoved
    <2> QED BY <1>4, <2>2, <2>3 DEF Advances
  <1>5. CASE Skip
    <2>1. /\ Advances /\ AtEntry /\ running' = running /\ optIndex' = optIndex + 1
          /\ ~IsGroup(Entry.num) /\ running = NoRun
      BY <1>5, StackMoves, CountMoves, TopFacts
    <2>2. Top.at \in 1 .. Len(Tables[Top.table])
      BY <2>1, EntryFacts
    <2>3. Total(stack', optIndex + 1)
      BY <1>4, <2>1, <2>2
    <2> QED BY <1>2, <2>1, <2>3 DEF CountInv
  <1>6. CASE Prepare
    <2>1. /\ stack' = stack /\ AtEntry /\ optIndex' = optIndex + 1 /\ running' # NoRun
          /\ running = NoRun
      BY <1>6, StackMoves, CountMoves, TopFacts
    <2>2. optIndex' - 1 = optIndex
      BY <1>2, <2>1
    <2> QED BY <1>2, <2>1, <2>2 DEF CountInv
  <1>7. CASE Perform
    <2>1. Advances /\ running # NoRun /\ running' = NoRun /\ optIndex' = optIndex
      BY <1>7, StackMoves, CountMoves
    <2>2. /\ Top.at \in 1 .. Len(Tables[Top.table]) /\ ~IsGroup(Entry.num)
      BY <2>1, TopFacts, TablesAssumption DEF StackInv
    <2>3. Total(stack', r + 1) /\ r + 1 = optIndex
      BY <1>2, <1>4, <2>1, <2>2
    <2> QED BY <1>2, <2>1, <2>3 DEF CountInv
  <1>8. CASE EnterGroup
    <2>1. /\ Enters /\ AtEntry /\ IsGroup(Entry.num) /\ running' = running /\ optIndex' = optIndex
          /\ running = NoRun
      BY <1>8, StackMoves, CountMoves, TopFacts
    <2>2. Total(stack', optIndex)
      BY <1>1, <1>2, <2>1, TotalEntered DEF Enters, IsGroup
    <2> QED BY <1>2, <2>1, <2>2 DEF CountInv
  <1>9. CASE LeaveGroup
    <2>1. /\ Leaves /\ n > 1 /\ Top.at > Len(Tables[Top.table]) /\ running = NoRun
          /\ running' = running /\ optIndex' = optIndex
      BY <1>9, StackMoves, CountMoves
    <2>2. n - 1 \in 1 .. Len(stack) - 1 /\ (n - 1) + 1 = n
      BY <1>1, <2>1
    <2>3. /\ stack[n - 1].at =< Len(Tables[stack[n - 1].table])
          /\ NumAt(stack[n - 1]) = stack[n].table
      BY <2>2 DEF StackInv
    <2>4. Total(Moved(Front(stack)), optIndex)
      BY <1>1, <1>2, <2>1, <2>3, TotalLeft
    <2> QED BY <1>2, <2>1, <2>4 DEF CountInv, Leaves
  <1>10. CASE RemoveDeadNodes \/ Done \/ UNCHANGED vars
    <2>1. stack' = stack /\ running' = running /\ optIndex' = optIndex
      BY <1>10, StackMoves, CountMoves
    <2> QED BY <2>1 DEF CountInv
  <1> QED BY <1>5, <1>6, <1>7, <1>8, <1>9, <1>10 DEF Next

\* The sum is the one that the property speaks of.
LEMMA InvIndex ==
    ASSUME StackInv, CountInv
    PROVE  IndexStable
  <1> DEFINE n == Len(stack)
             e(i) == CountTo[<< stack[i].table, stack[i].at - 1 >>]
             Is(g) == g = [i \in 0 .. n |-> IF i = 0 THEN 0 ELSE g[i - 1] + e(i)]
             before == CHOOSE g : Is(g)
  <1>1. n \in Nat
    BY TopFacts
  <1>2. PICK f : /\ Sums(Passed(stack), n, f)
                 /\ f[n] = IF running = NoRun THEN optIndex ELSE optIndex - 1
    BY DEF CountInv, Total
  <1>3. \A i \in 1 .. n : Passed(stack)[i] = e(i)
    BY DEF Passed
  <1>4. f \in [0 .. n -> Nat] /\ f[0] = 0 /\ \A i \in 1 .. n : f[i] = f[i - 1] + e(i)
    BY <1>2, <1>3 DEF Sums
  <1>5. Is(f)
    <2>1. \A i \in 0 .. n : i # 0 => i \in 1 .. n
      BY <1>1
    <2>2. \A i \in 0 .. n : f[i] = IF i = 0 THEN 0 ELSE f[i - 1] + e(i)
      BY <1>4, <2>1
    <2> QED BY <1>4, <2>2
  <1>6. Is(before)
    BY <1>5
  <1>7. before[0] = 0 /\ \A i \in 1 .. n : before[i] = before[i - 1] + Passed(stack)[i]
    <2> HIDE DEF before
    <2>1. \A i \in 0 .. n : before[i] = IF i = 0 THEN 0 ELSE before[i - 1] + e(i)
      BY <1>6
    <2>2. 0 \in 0 .. n /\ \A i \in 1 .. n : i \in 0 .. n /\ i # 0
      BY <1>1
    <2> QED BY <1>3, <2>1, <2>2
  <1>8. before[n] = f[n]
    <2> HIDE DEF before
    <2>1. \A i \in 0 .. n : before[i] = f[i]
      BY <1>1, <1>2, <1>7, SumsUnique
    <2> QED BY <1>1, <2>1
  <1>9. optIndex = before[n] + IF running = NoRun THEN 0 ELSE 1
    BY <1>2, <1>8 DEF CountInv
  <1> QED BY <1>9 DEF IndexStable

-----------------------------------------------------------------------------
(***************************************************************************)
(* Last runs                                                               *)
(***************************************************************************)

\* Entry k of call i of the stack s is still to come; with the top, if nothing
\* runs.
ToCome(s, idle, i, k) ==
  /\ i \in 1 .. Len(s) /\ k \in 1 .. Len(Tables[s[i].table])
  /\ k > s[i].at \/ (idle /\ i = Len(s) /\ k = s[i].at)

\* What was marked is not run by any entry to come, and runs only by the entry
\* that marked it.
LastInv ==
  /\ lastRun \subseteq DOMAIN Needs \cup DOMAIN Tables
  /\ \A o \in lastRun \cap DOMAIN Needs : \A i, k \in Nat :
       ToCome(stack, running = NoRun, i, k) => ~EntryRuns(Tables[stack[i].table][k], o)
  /\ running # NoRun /\ running.opt \in lastRun => MarksLastRun(Entry)

\* Nothing comes after a step that was not to come before it, except in a group
\* that is entered.
LEMMA ComeBefore ==
    ASSUME StackInv, NEW i \in Nat, NEW k \in Nat
    PROVE  /\ Advances /\ ToCome(stack', TRUE, i, k) =>
                ToCome(stack, FALSE, i, k) /\ stack'[i].table = stack[i].table
           /\ Leaves /\ Len(stack) > 1 /\ ToCome(stack', TRUE, i, k) =>
                ToCome(stack, FALSE, i, k) /\ stack'[i].table = stack[i].table
           /\ ToCome(stack, FALSE, i, k) => ToCome(stack, TRUE, i, k)
  <1> DEFINE n == Len(stack)
  <1>1. n \in Nat /\ n >= 1 /\ stack \in Seq(Frame) /\ \A x \in 1 .. n : stack[x].at \in Nat
    <2>1. \A x \in 1 .. n : stack[x] \in Frame
      BY DEF StackInv
    <2>2. \A x \in 1 .. n : stack[x].at \in Nat
      BY <2>1 DEF Frame
    <2> QED BY <2>2 DEF StackInv
  <1>2. ASSUME Advances, ToCome(stack', TRUE, i, k)
        PROVE  ToCome(stack, FALSE, i, k) /\ stack'[i].table = stack[i].table
    <2>1. /\ Len(stack') = n
          /\ \A x \in 1 .. n : stack'[x].table = stack[x].table /\ (x # n => stack'[x] = stack[x])
          /\ stack'[n].at = stack[n].at + 1
      BY <1>1, <1>2, MovedFacts DEF Advances
    <2>2. /\ i \in 1 .. n /\ k \in 1 .. Len(Tables[stack[i].table])
          /\ stack'[i].table = stack[i].table
          /\ k > stack'[i].at \/ (i = n /\ k = stack'[i].at)
      BY <1>2, <2>1 DEF ToCome
    <2>3. k > stack[i].at
      BY <1>1, <2>1, <2>2
    <2> QED BY <2>2, <2>3 DEF ToCome
  <1>3. ASSUME Leaves, n > 1, ToCome(stack', TRUE, i, k)
        PROVE  ToCome(stack, FALSE, i, k) /\ stack'[i].table = stack[i].table
    <2> DEFINE v == Front(stack)
               m == n - 1
    <2>1. v \in Seq(Frame) /\ Len(v) = m /\ \A x \in 1 .. m : v[x] = stack[x]
      BY <1>1, <1>3, FrontFrames
    <2>2. m \in Nat /\ m >= 1 /\ \A x \in 1 .. m : x \in 1 .. n
      BY <1>1, <1>3
    <2> HIDE DEF v
    <2>3. stack' = Moved(v)
      BY <1>3 DEF Leaves, v
    <2>4. /\ Len(stack') = m
          /\ \A x \in 1 .. m : stack'[x].table = v[x].table /\ (x # m => stack'[x] = v[x])
          /\ stack'[m].at = v[m].at + 1
      BY <2>1, <2>2, <2>3, MovedFacts
    <2>5. /\ i \in 1 .. m /\ k \in 1 .. Len(Tables[stack[i].table])
          /\ stack'[i].table = stack[i].table /\ v[i] = stack[i]
          /\ k > stack'[i].at \/ (i = m /\ k = stack'[i].at)
      BY <1>3, <2>1, <2>4 DEF ToCome
    <2>6. k > stack[i].at /\ i \in 1 .. n
      BY <1>1, <2>2, <2>4, <2>5
    <2> QED BY <2>5, <2>6 DEF ToCome
  <1>4. ToCome(stack, FALSE, i, k) => ToCome(stack, TRUE, i, k)
    BY DEF ToCome
  <1> QED BY <1>2, <1>3, <1>4

\* What the entry on top marks, the entry that every call is at marks.
LEMMA MarksAll ==
    ASSUME StackInv, AtEntry, NEW o, EntryMarks(Entry, o)
    PROVE  \A i \in 1 .. Len(stack) : /\ stack[i].at \in 1 .. Len(Tables[stack[i].table])
                                      /\ stack[i].table \in DOMAIN Tables
                                      /\ EntryMarks(Tables[stack[i].table][stack[i].at], o)
  <1> DEFINE n == Len(stack)
             E(i) == Tables[stack[i].table][stack[i].at]
             R == {d \in Nat : d < n => EntryMarks(E(n - d), o)}
  <1>1. n \in Nat /\ n >= 1 /\ Top = stack[n] /\ Entry = E(n)
    BY TopFacts
  <1>2. ASSUME NEW i \in 1 .. n
        PROVE  stack[i].at \in 1 .. Len(Tables[stack[i].table]) /\ stack[i].table \in DOMAIN Tables
    <2>1. stack[i] \in Frame
      BY DEF StackInv
    <2>2. /\ stack[i].table \in DOMAIN Tables /\ stack[i].at \in Nat /\ stack[i].at >= 1
          /\ Len(Tables[stack[i].table]) \in Nat
      BY <2>1, TablesAssumption DEF Frame
    <2>3. CASE i = n
      BY <1>1, <2>2, <2>3, EntryFacts
    <2>4. CASE i # n
      <3>1. i \in 1 .. n - 1
        BY <1>1, <2>4
      <3>2. stack[i].at =< Len(Tables[stack[i].table])
        BY <3>1 DEF StackInv
      <3> QED BY <2>2, <3>2
    <2> QED BY <2>3, <2>4
  <1>3. 0 \in R
    <2>1. n - 0 = n
      BY <1>1
    <2> QED BY <1>1, <2>1
  <1>4. ASSUME NEW d \in Nat, d \in R PROVE d + 1 \in R
    <2>1. SUFFICES ASSUME d + 1 < n PROVE EntryMarks(E(n - (d + 1)), o)
      OBVIOUS
    <2> DEFINE i == n - (d + 1)
               g == stack[i + 1].table
    <2>2. i \in 1 .. n /\ i \in 1 .. n - 1 /\ i + 1 = n - d /\ i + 1 \in 1 .. n /\ d < n
      BY <1>1, <2>1
    <2>3. EntryMarks(E(i + 1), o)
      BY <1>4, <2>2
    <2>4. E(i).num = g
      BY <2>2 DEF StackInv, NumAt
    <2>5. g \in DOMAIN Tables /\ stack[i + 1].at \in 1 .. Len(Tables[g])
      BY <1>2, <2>2
    <2>6. MayMark(g, o)
      BY <2>3, <2>5, MarksFold
    <2> QED BY <2>4, <2>5, <2>6 DEF EntryMarks, IsGroup
  <1> HIDE DEF R, n, E
  <1>5. \A d \in Nat : d \in R
    BY <1>3, <1>4, EveryNumber
  <1>6. ASSUME NEW i \in 1 .. n PROVE EntryMarks(E(i), o)
    <2>1. n - i \in Nat /\ n - i < n /\ n - (n - i) = i
      BY <1>1
    <2> QED BY <1>5, <2>1 DEF R
  <1> QED BY <1>2, <1>6 DEF n, E

\* Marking the last run of what is about to run, or is passed over.
LEMMA Marking ==
    ASSUME StackInv, LastInv, AtEntry, ~IsGroup(Entry.num)
    PROVE  /\ Marked(Entry) \subseteq DOMAIN Needs \cup DOMAIN Tables
           /\ \A o \in Marked(Entry) \cap DOMAIN Needs : \A i, k \in Nat :
                ToCome(stack, FALSE, i, k) => ~EntryRuns(Tables[stack[i].table][k], o)
           /\ Entry.num \in Marked(Entry) => MarksLastRun(Entry)
  <1>1. /\ Entry.num \in DOMAIN Needs /\ running = NoRun
        /\ Top.table \in DOMAIN Tables /\ Top.at \in 1 .. Len(Tables[Top.table])
        /\ Entry = Tables[Top.table][Top.at]
    BY EntryFacts, TopFacts
  <1>2. Marked(Entry) \subseteq DOMAIN Needs \cup DOMAIN Tables
    BY <1>1 DEF Marked, LastInv
  <1>3. ASSUME NEW o \in Marked(Entry) \cap DOMAIN Needs, NEW i \in Nat, NEW k \in Nat,
               ToCome(stack, FALSE, i, k)
        PROVE  ~EntryRuns(Tables[stack[i].table][k], o)
    <2>1. CASE o \in lastRun
      BY <1>1, <1>3, <2>1, ComeBefore DEF LastInv
    <2>2. CASE o \notin lastRun
      <3>1. o = Entry.num /\ MarksLastRun(Entry)
        BY <1>3, <2>2 DEF Marked
      <3>2. EntryMarks(Entry, o)
        BY <3>1 DEF EntryMarks
      <3>3. i \in 1 .. Len(stack) /\ k \in 1 .. Len(Tables[stack[i].table]) /\ k > stack[i].at
        BY <1>3 DEF ToCome
      <3>4. /\ stack[i].at \in 1 .. Len(Tables[stack[i].table]) /\ stack[i].table \in DOMAIN Tables
            /\ EntryMarks(Tables[stack[i].table][stack[i].at], o)
        BY <3>2, <3>3, MarksAll
      <3>5. stack[i].at < k
        BY <3>3, <3>4
      <3> QED BY <1>3, <3>3, <3>4, <3>5, LastRunsAssumption
    <2> QED BY <2>1, <2>2
  <1>4. ASSUME Entry.num \in Marked(Entry) PROVE MarksLastRun(Entry)
    <2>1. Entry.num \notin lastRun
      <3>1. SUFFICES ASSUME Entry.num \in lastRun PROVE FALSE
        OBVIOUS
      <3>2. Len(stack) \in Nat /\ Len(stack) >= 1 /\ Top = stack[Len(stack)]
        BY TopFacts
      <3>3. ToCome(stack, TRUE, Len(stack), Top.at) /\ Top.at \in Nat
        BY <1>1, <3>2 DEF ToCome
      <3>4. ~EntryRuns(Entry, Entry.num)
        BY <1>1, <3>1, <3>2, <3>3 DEF LastInv
      <3> QED BY <3>4 DEF EntryRuns
    <2> QED BY <1>4, <2>1 DEF Marked
  <1> QED BY <1>2, <1>3, <1>4

LEMMA LastKept ==
    ASSUME StackInv, LastInv, [Next]_vars
    PROVE  LastInv'
  <1>1. CASE Skip
    <2>1. /\ Advances /\ AtEntry /\ running' = NoRun /\ ~IsGroup(Entry.num)
      BY <1>1, StackMoves, CountMoves, TopFacts
    <2>2. lastRun' = Marked(Entry)
      BY <1>1 DEF Skip
    <2>3. /\ lastRun' \subseteq DOMAIN Needs \cup DOMAIN Tables
          /\ \A o \in lastRun' \cap DOMAIN Needs : \A i, k \in Nat :
               ToCome(stack, FALSE, i, k) => ~EntryRuns(Tables[stack[i].table][k], o)
      BY <2>1, <2>2, Marking
    <2>4. ASSUME NEW o \in lastRun' \cap DOMAIN Needs, NEW i \in Nat, NEW k \in Nat,
                 ToCome(stack', TRUE, i, k)
          PROVE  ~EntryRuns(Tables[stack'[i].table][k], o)
      BY <2>1, <2>3, <2>4, ComeBefore
    <2> QED BY <2>1, <2>3, <2>4 DEF LastInv
  <1>2. CASE Prepare
    <2>1. /\ stack' = stack /\ AtEntry /\ ~IsGroup(Entry.num) /\ running'.opt = Entry.num
          /\ running' # NoRun
      BY <1>2, StackMoves, CountMoves
    <2>2. lastRun' = Marked(Entry)
      BY <1>2 DEF Prepare
    <2>3. Entry' = Entry
      BY <2>1 DEF Entry, Top
    <2>4. /\ lastRun' \subseteq DOMAIN Needs \cup DOMAIN Tables
          /\ \A o \in lastRun' \cap DOMAIN Needs : \A i, k \in Nat :
               ToCome(stack, FALSE, i, k) => ~EntryRuns(Tables[stack[i].table][k], o)
          /\ Entry.num \in lastRun' => MarksLastRun(Entry)
      BY <2>1, <2>2, Marking
    <2>5. (running' = NoRun) = FALSE
      BY <2>1
    <2> QED BY <2>1, <2>3, <2>4, <2>5 DEF LastInv
  <1>3. ASSUME lastRun' = lastRun, running' = NoRun,
               \A i, k \in Nat : ToCome(stack', TRUE, i, k) =>
                 ToCome(stack, FALSE, i, k) /\ stack'[i].table = stack[i].table
        PROVE  LastInv'
    <2>1. ASSUME NEW o \in lastRun \cap DOMAIN Needs, NEW i \in Nat, NEW k \in Nat,
                 ToCome(stack', TRUE, i, k)
          PROVE  ~EntryRuns(Tables[stack'[i].table][k], o)
      <3>1. ToCome(stack, FALSE, i, k) /\ stack'[i].table = stack[i].table
        BY <1>3, <2>1
      <3>2. ToCome(stack, running = NoRun, i, k)
        BY <3>1 DEF ToCome
      <3> QED BY <3>1, <3>2 DEF LastInv
    <2> QED BY <1>3, <2>1 DEF LastInv
  <1>4. CASE Perform
    <2>1. lastRun' = lastRun
      BY <1>4 DEF Perform
    <2> QED BY <1>3, <1>4, <2>1, StackMoves, ComeBefore
  <1>5. CASE LeaveGroup
    <2>1. lastRun' = lastRun
      BY <1>5 DEF LeaveGroup
    <2>2. Leaves /\ Len(stack) > 1 /\ running' = NoRun
      BY <1>5, StackMoves
    <2> QED BY <1>3, <2>1, <2>2, ComeBefore
  <1>6. CASE EnterGroup
    <2> DEFINE n == Len(stack)
               g == Entry.num
               x == [table |-> g, at |-> 1]
    <2>1. Enters /\ AtEntry /\ IsGroup(g) /\ running' = running /\ running = NoRun
      BY <1>6, StackMoves, TopFacts
    <2>2. lastRun' = lastRun /\ g \in DOMAIN Tables
      BY <1>6, <2>1, EntryFacts DEF EnterGroup
    <2>3. /\ n \in Nat /\ n >= 1 /\ stack \in Seq(Frame) /\ Top = stack[n]
          /\ Entry = Tables[Top.table][Top.at] /\ Top.at \in 1 .. Len(Tables[Top.table])
      BY <2>1, TopFacts, EntryFacts DEF StackInv
    <2>4. x \in Frame /\ x.table = g /\ x.at = 1
      BY <2>2 DEF Frame
    <2>5. stack' = Append(stack, x)
      BY <2>1 DEF Enters
    <2> HIDE DEF x
    <2>6. Len(stack') = n + 1 /\ stack'[n + 1] = x /\ \A i \in 1 .. n : stack'[i] = stack[i]
      BY <2>3, <2>4, <2>5, AppendFacts
    <2>7. ASSUME NEW o \in lastRun \cap DOMAIN Needs, NEW i \in Nat, NEW k \in Nat,
                 ToCome(stack', TRUE, i, k)
          PROVE  ~EntryRuns(Tables[stack'[i].table][k], o)
      <3>1. CASE i = n + 1
        <4>1. k \in 1 .. Len(Tables[g]) /\ stack'[i].table = g
          BY <2>4, <2>6, <2>7, <3>1 DEF ToCome
        <4>2. ToCome(stack, TRUE, n, Top.at) /\ Top.at \in Nat
          BY <2>3 DEF ToCome
        <4>3. ~EntryRuns(Entry, o)
          BY <2>1, <2>3, <4>2 DEF LastInv
        <4>4. ~MayRun(g, o)
          BY <2>1, <4>3 DEF EntryRuns
        <4> QED BY <2>2, <4>1, <4>4, RunsUnfold
      <3>2. CASE i # n + 1
        <4>1. i \in 1 .. n /\ stack'[i] = stack[i]
          BY <2>3, <2>6, <2>7, <3>2 DEF ToCome
        <4>2. ToCome(stack, FALSE, i, k)
          BY <2>3, <2>6, <2>7, <3>2, <4>1 DEF ToCome
        <4>3. ToCome(stack, TRUE, i, k)
          BY <4>2, ComeBefore
        <4> QED BY <2>1, <4>1, <4>3 DEF LastInv
      <3> QED BY <3>1, <3>2
    <2> QED BY <2>1, <2>2, <2>7 DEF LastInv
  <1>7. CASE RemoveDeadNodes \/ Done \/ UNCHANGED vars
    <2>1. lastRun' = lastRun
      BY <1>7 DEF RemoveDeadNodes, Done, vars
    <2>2. stack' = stack /\ running' = running
      BY <1>7, StackMoves
    <2> QED BY <2>1, <2>2 DEF LastInv, Entry, Top
  <1> QED BY <1>1, <1>2, <1>4, <1>5, <1>6, <1>7 DEF Next

LEMMA InvLast ==
    ASSUME StackInv, LastInv
    PROVE  LastRunRespected
  BY DEF StackInv, LastInv, LastRunRespected

-----------------------------------------------------------------------------
(***************************************************************************)
(* Requests                                                                *)
(***************************************************************************)

\* A request of the constructor stays until it is served, and unless the limit
\* was passed an entry that serves it is still to come.
RequestInv ==
  /\ limit \in Nat
  /\ requests \in [Requestable -> SUBSET (Blocks \cup {StartBlock})]
  /\ \A o \in Requested : /\ requests[o] \subseteq {StartBlock}
                          /\ o \notin ran => requests[o] = {StartBlock}
  /\ running.opt \in Requested => running.whole
  /\ \A o \in Requested :
       MayRun(strategy, o) =>
         \/ o \in ran \/ failed \/ optIndex > limit \/ running.opt = o
         \/ \E i, k \in Nat : /\ ToCome(stack, running = NoRun, i, k)
                              /\ EntryRuns(Tables[stack[i].table][k], o)

\* What was to come still is, or was the entry of the step.
LEMMA ComeAfter ==
    ASSUME StackInv, NEW i \in Nat, NEW k \in Nat
    PROVE  /\ Advances /\ ToCome(stack, FALSE, i, k) =>
                ToCome(stack', TRUE, i, k) /\ stack'[i].table = stack[i].table
           /\ Leaves /\ Len(stack) > 1 /\ Top.at > Len(Tables[Top.table])
              /\ ToCome(stack, TRUE, i, k) =>
                ToCome(stack', TRUE, i, k) /\ stack'[i].table = stack[i].table
           /\ ToCome(stack, TRUE, i, k) =>
                ToCome(stack, FALSE, i, k) \/ Tables[stack[i].table][k] = Entry
  <1> DEFINE n == Len(stack)
  <1>1. /\ n \in Nat /\ n >= 1 /\ stack \in Seq(Frame) /\ Top = stack[n]
        /\ Entry = Tables[Top.table][Top.at] /\ \A x \in 1 .. n : stack[x].at \in Nat
    <2>1. \A x \in 1 .. n : stack[x] \in Frame
      BY DEF StackInv
    <2>2. \A x \in 1 .. n : stack[x].at \in Nat
      BY <2>1 DEF Frame
    <2> QED BY <2>2, TopFacts DEF StackInv
  <1>2. ASSUME Advances, ToCome(stack, FALSE, i, k)
        PROVE  ToCome(stack', TRUE, i, k) /\ stack'[i].table = stack[i].table
    <2>1. /\ Len(stack') = n
          /\ \A x \in 1 .. n : stack'[x].table = stack[x].table /\ (x # n => stack'[x] = stack[x])
          /\ stack'[n].at = stack[n].at + 1
      BY <1>1, <1>2, MovedFacts DEF Advances
    <2>2. i \in 1 .. n /\ k \in 1 .. Len(Tables[stack[i].table]) /\ k > stack[i].at
      BY <1>2 DEF ToCome
    <2>3. k > stack'[i].at \/ (i = n /\ k = stack'[i].at)
      BY <1>1, <2>1, <2>2
    <2> QED BY <2>1, <2>2, <2>3 DEF ToCome
  <1>3. ASSUME Leaves, n > 1, Top.at > Len(Tables[Top.table]), ToCome(stack, TRUE, i, k)
        PROVE  ToCome(stack', TRUE, i, k) /\ stack'[i].table = stack[i].table
    <2> DEFINE v == Front(stack)
               m == n - 1
    <2>1. v \in Seq(Frame) /\ Len(v) = m /\ \A x \in 1 .. m : v[x] = stack[x]
      BY <1>1, <1>3, FrontFrames
    <2>2. m \in Nat /\ m >= 1 /\ \A x \in 1 .. m : x \in 1 .. n
      BY <1>1, <1>3
    <2> HIDE DEF v
    <2>3. stack' = Moved(v)
      BY <1>3 DEF Leaves, v
    <2>4. /\ Len(stack') = m
          /\ \A x \in 1 .. m : stack'[x].table = v[x].table /\ (x # m => stack'[x] = v[x])
          /\ stack'[m].at = v[m].at + 1
      BY <2>1, <2>2, <2>3, MovedFacts
    <2>5. i \in 1 .. n /\ k \in 1 .. Len(Tables[stack[i].table]) /\ k >= stack[i].at
          /\ (i # n => k > stack[i].at)
      BY <1>1, <1>3 DEF ToCome
    <2>6. Len(Tables[Top.table]) \in Nat
      BY TopFacts, TablesAssumption
    <2>7. i # n
      <3>1. SUFFICES ASSUME i = n PROVE FALSE
        OBVIOUS
      <3>2. k =< Len(Tables[Top.table]) /\ k >= Top.at /\ Top.at \in Nat
        BY <1>1, <2>5, <2>6, <3>1
      <3> QED BY <1>3, <2>6, <3>2
    <2>8. i \in 1 .. m /\ k > stack[i].at
      BY <1>1, <2>5, <2>7
    <2>9. stack'[i].table = stack[i].table /\ (k > stack'[i].at \/ (i = m /\ k = stack'[i].at))
      BY <1>1, <2>1, <2>2, <2>4, <2>8
    <2> QED BY <2>4, <2>5, <2>8, <2>9 DEF ToCome
  <1>4. ASSUME ToCome(stack, TRUE, i, k)
        PROVE  ToCome(stack, FALSE, i, k) \/ Tables[stack[i].table][k] = Entry
    BY <1>1, <1>4 DEF ToCome
  <1> QED BY <1>2, <1>3, <1>4

\* What is requested is an optimization, and nothing runs under its name when
\* nothing runs.
LEMMA RequestedFacts ==
    ASSUME NEW o \in Requested
    PROVE  /\ o \in Requestable /\ o \in DOMAIN Needs /\ o # "none" /\ ~IsGroup(o)
           /\ o \in Managers \ Declining
  <1>1. o \in DOMAIN Needs /\ o \in Managers \ Declining
    BY RequestedAssumption
  <1>2. o # "none" /\ ~IsGroup(o)
    BY <1>1, TablesAssumption DEF IsGroup
  <1> QED BY <1>1, <1>2, RequestAssumption

\* An entry that names what was requested and has not run is wanted.
LEMMA RequestedWanted ==
    ASSUME StackInv, RequestInv, AtEntry, Entry.num \in Requested
    PROVE  /\ Entry.num \notin ran => \A facts : Wanted(Entry, facts)
           /\ \A facts : Wanted(Entry, facts) =>
                Entry.options # "IfEnabled" \/ StartBlock \in requests[Entry.num]
  <1>1. /\ Top.table \in DOMAIN Tables /\ Top.at \in 1 .. Len(Tables[Top.table])
        /\ Entry = Tables[Top.table][Top.at]
    BY EntryFacts
  <1>2. Entry.options \in {"Always", "MarkLastRun", "IfEnabled"}
    BY <1>1, RequestedAssumption
  <1>3. /\ Entry.num \in Requestable /\ requests[Entry.num] \subseteq {StartBlock}
        /\ Entry.num \notin ran => requests[Entry.num] # {}
    BY RequestedFacts DEF RequestInv
  <1>4. Entry.options = "IfEnabled" =>
          \A facts : Wanted(Entry, facts) <=> Entry.num \in Requestable /\ requests[Entry.num] # {}
    BY DEF Wanted
  <1>5. Entry.options # "IfEnabled" => \A facts : Wanted(Entry, facts)
    BY <1>2 DEF Wanted
  <1> QED BY <1>3, <1>4, <1>5

\* Requests and withdrawals.
LEMMA RequestMoves ==
    ASSUME StackInv, RequestInv, [Next]_vars
    PROVE  /\ limit' \in Nat /\ strategy' = strategy /\ limit' = limit
           /\ requests' \in [Requestable -> SUBSET (Blocks \cup {StartBlock})]
           /\ \A o \in Requested : /\ requests'[o] \subseteq {StartBlock}
                                   /\ o \notin ran' => requests'[o] = {StartBlock}
           /\ running'.opt \in Requested => running'.whole
           /\ ran \subseteq ran'
  <1> DEFINE B == Blocks \cup {StartBlock}
             A(r, done) == /\ r \in [Requestable -> SUBSET B]
                           /\ \A o \in Requested : /\ r[o] \subseteq {StartBlock}
                                                   /\ o \notin done => r[o] = {StartBlock}
  <1>1. limit \in Nat /\ A(requests, ran) /\ (running.opt \in Requested => running.whole)
    BY DEF RequestInv
  <1>2. strategy' = strategy /\ limit' = limit
    BY DEF Next, EnterGroup, Skip, Prepare, Perform, LeaveGroup, RemoveDeadNodes, Done, vars
  <1>3. CASE Perform
    <2> DEFINE p == running.opt
               served == Served(requests, p)
               done == ran \cup ({p} \cap Requested)
    <2>1. ran' = done /\ running' = NoRun
      BY <1>3 DEF Perform
    <2>2. A(served, done)
      <3>1. CASE p \notin Requestable
        BY <1>1, <3>1, RequestAssumption DEF Served
      <3>2. CASE p \in Requestable
        <4>1. served = [requests EXCEPT ![p] = {}]
          BY <3>2 DEF Served, SetRequested
        <4> QED BY <1>1, <3>2, <4>1, RequestAssumption
      <3> QED BY <3>1, <3>2
    <2>3. \/ requests' = served
          \/ \E o \in Requestable \ Requested, b \in SUBSET B : requests' = SetRequested(served, o, b)
      BY <1>3 DEF Perform
    <2> HIDE DEF served
    <2>4. ASSUME NEW o \in Requestable \ Requested, NEW b \in SUBSET B
          PROVE  A(SetRequested(served, o, b), done)
      <3> DEFINE x == IF b = {} THEN {} ELSE served[o] \cup b
      <3>1. SetRequested(served, o, b) = [served EXCEPT ![o] = x]
        BY DEF SetRequested
      <3>2. x \in SUBSET B
        BY <2>2
      <3> HIDE DEF x
      <3> QED BY <2>2, <3>1, <3>2, RequestAssumption
    <2>5. A(requests', done)
      BY <2>2, <2>3, <2>4
    <2>6. running'.opt \notin Requested
      BY <2>1, RequestedFacts DEF NoRun
    <2> QED BY <1>1, <1>2, <2>1, <2>5, <2>6
  <1>4. CASE EnterGroup
    <2>1. /\ requests' = [o \in Requestable |-> IF o = Entry.num THEN {} ELSE requests[o]]
          /\ ran' = ran /\ running' = running /\ IsGroup(Entry.num)
      BY <1>4 DEF EnterGroup
    <2>2. \A o \in Requested : o \in Requestable /\ o # Entry.num
      BY <2>1, RequestedFacts
    <2>3. A(requests', ran')
      BY <1>1, <2>1, <2>2
    <2> QED BY <1>1, <1>2, <2>1, <2>3
  <1>5. CASE Prepare
    <2>1. requests' = requests /\ ran' = ran /\ AtEntry
      BY <1>5 DEF Prepare
    <2>2. /\ running' = [opt |-> Entry.num, whole |-> Entry.options # "IfEnabled"
                                            \/ {StartBlock, EndBlock} \cap requests[Entry.num] # {}]
          /\ \E facts \in Facts : Wanted(Entry, facts)
      BY <1>5 DEF Prepare
    <2>3. running'.opt \in Requested => running'.whole
      BY <2>1, <2>2, RequestedWanted
    <2> QED BY <1>1, <1>2, <2>1, <2>3
  <1>6. CASE Skip \/ LeaveGroup \/ RemoveDeadNodes \/ Done \/ UNCHANGED vars
    <2>1. requests' = requests /\ ran' = ran /\ running' = running
      BY <1>6 DEF Skip, LeaveGroup, RemoveDeadNodes, Done, vars
    <2> QED BY <1>1, <1>2, <2>1
  <1> QED BY <1>3, <1>4, <1>5, <1>6 DEF Next

\* An entry that serves a request is still to come.
Coming(o) ==
  \E i, k \in Nat : ToCome(stack, running = NoRun, i, k) /\ EntryRuns(Tables[stack[i].table][k], o)

LEMMA ComingKept ==
    ASSUME StackInv, RequestInv, CountInv, [Next]_vars, NEW o \in Requested, Coming(o), o \notin ran
    PROVE  o \in ran' \/ failed' \/ optIndex' > limit \/ running'.opt = o \/ Coming(o)'
  <1>1. /\ o \in Requestable /\ o \in DOMAIN Needs /\ ~IsGroup(o) /\ o \in Managers \ Declining
        /\ limit \in Nat /\ optIndex \in Nat
    BY RequestedFacts DEF RequestInv, CountInv
  <1>2. PICK i \in Nat, k \in Nat :
          ToCome(stack, running = NoRun, i, k) /\ EntryRuns(Tables[stack[i].table][k], o)
    BY DEF Coming
  <1>3. ASSUME running' = NoRun, ToCome(stack', TRUE, i, k), stack'[i].table = stack[i].table
        PROVE  Coming(o)'
    <2>1. (running' = NoRun) = TRUE
      BY <1>3
    <2> QED BY <1>2, <1>3, <2>1 DEF Coming
  <1>4. CASE Skip
    <2>1. Advances /\ AtEntry /\ running' = NoRun /\ running = NoRun /\ ~IsGroup(Entry.num)
          /\ optIndex' = optIndex + 1
      BY <1>4, StackMoves, CountMoves, TopFacts
    <2>2. ToCome(stack, TRUE, i, k)
      BY <1>2, <2>1
    <2>3. CASE ToCome(stack, FALSE, i, k)
      BY <1>3, <2>1, <2>3, ComeAfter
    <2>4. CASE Tables[stack[i].table][k] = Entry
      <3>1. Entry.num = o
        BY <1>2, <2>1, <2>4 DEF EntryRuns
      <3>2. \A facts : Wanted(Entry, facts)
        BY <2>1, <3>1, RequestedWanted
      <3>3. optIndex >= limit
        BY <1>1, <1>4, <3>1, <3>2 DEF Skip
      <3> QED BY <1>1, <2>1, <3>3
    <2> QED BY <2>2, <2>3, <2>4, ComeAfter
  <1>5. CASE Prepare
    <2>1. /\ stack' = stack /\ AtEntry /\ running = NoRun /\ ~IsGroup(Entry.num)
          /\ running'.opt = Entry.num /\ running' # NoRun
      BY <1>5, StackMoves, CountMoves, TopFacts
    <2>2. ToCome(stack, TRUE, i, k)
      BY <1>2, <2>1
    <2>3. CASE ToCome(stack, FALSE, i, k)
      <3>1. (running' = NoRun) = FALSE
        BY <2>1
      <3> QED BY <1>2, <2>1, <2>3, <3>1 DEF Coming
    <2>4. CASE Tables[stack[i].table][k] = Entry
      BY <1>2, <2>1, <2>4 DEF EntryRuns
    <2> QED BY <2>2, <2>3, <2>4, ComeAfter
  <1>6. CASE Perform
    <2>1. Advances /\ running # NoRun /\ running' = NoRun
      BY <1>6, StackMoves
    <2>2. ToCome(stack, FALSE, i, k)
      <3>1. (running = NoRun) = FALSE
        BY <2>1
      <3> QED BY <1>2, <3>1
    <2> QED BY <1>3, <2>1, <2>2, ComeAfter
  <1>7. CASE LeaveGroup
    <2>1. /\ Leaves /\ Len(stack) > 1 /\ Top.at > Len(Tables[Top.table]) /\ running = NoRun
          /\ running' = NoRun
      BY <1>7, StackMoves
    <2>2. ToCome(stack, TRUE, i, k)
      BY <1>2, <2>1
    <2> QED BY <1>3, <2>1, <2>2, ComeAfter
  <1>8. CASE EnterGroup
    <2> DEFINE n == Len(stack)
               g == Entry.num
               x == [table |-> g, at |-> 1]
    <2>1. Enters /\ AtEntry /\ IsGroup(g) /\ running' = NoRun /\ running = NoRun
      BY <1>8, StackMoves, TopFacts
    <2>2. g \in DOMAIN Tables /\ n \in Nat /\ n >= 1 /\ stack \in Seq(Frame)
      BY <2>1, TopFacts DEF StackInv, IsGroup
    <2>3. x \in Frame /\ x.table = g /\ x.at = 1
      BY <2>2 DEF Frame
    <2>4. stack' = Append(stack, x)
      BY <2>1 DEF Enters
    <2> HIDE DEF x
    <2>5. Len(stack') = n + 1 /\ stack'[n + 1] = x /\ \A j \in 1 .. n : stack'[j] = stack[j]
      BY <2>2, <2>3, <2>4, AppendFacts
    <2>6. ToCome(stack, TRUE, i, k)
      BY <1>2, <2>1
    <2>7. CASE ToCome(stack, FALSE, i, k)
      <3>1. i \in 1 .. n /\ k \in 1 .. Len(Tables[stack[i].table]) /\ k > stack[i].at
        BY <2>7 DEF ToCome
      <3>2. stack'[i] = stack[i] /\ i \in 1 .. n + 1
        BY <2>2, <2>5, <3>1
      <3>3. ToCome(stack', TRUE, i, k)
        BY <2>5, <3>1, <3>2 DEF ToCome
      <3> QED BY <1>3, <2>1, <3>2, <3>3
    <2>8. CASE Tables[stack[i].table][k] = Entry
      <3>1. MayRun(g, o)
        BY <1>1, <1>2, <2>1, <2>8 DEF EntryRuns
      <3>2. PICK q \in 1 .. Len(Tables[g]) : EntryRuns(Tables[g][q], o)
        BY <2>2, <3>1, RunsUnfold
      <3>3. q \in Nat /\ (q > 1 \/ q = 1) /\ n + 1 \in Nat /\ n + 1 \in 1 .. n + 1
        BY <2>2
      <3>4. ToCome(stack', TRUE, n + 1, q) /\ stack'[n + 1].table = g
        BY <2>3, <2>5, <3>3 DEF ToCome
      <3>5. (running' = NoRun) = TRUE
        BY <2>1
      <3> QED BY <3>2, <3>3, <3>4, <3>5 DEF Coming
    <2> QED BY <2>6, <2>7, <2>8, ComeAfter
  <1>9. CASE RemoveDeadNodes \/ Done \/ UNCHANGED vars
    BY <1>9, StackMoves DEF Coming
  <1> QED BY <1>4, <1>5, <1>6, <1>7, <1>8, <1>9 DEF Next

LEMMA RequestKept ==
    ASSUME StackInv, CountInv, RequestInv, [Next]_vars
    PROVE  RequestInv'
  <1>1. /\ limit' \in Nat /\ strategy' = strategy /\ limit' = limit
        /\ requests' \in [Requestable -> SUBSET (Blocks \cup {StartBlock})]
        /\ \A o \in Requested : /\ requests'[o] \subseteq {StartBlock}
                                /\ o \notin ran' => requests'[o] = {StartBlock}
        /\ running'.opt \in Requested => running'.whole
        /\ ran \subseteq ran'
    BY RequestMoves
  <1>2. ASSUME NEW o \in Requested, MayRun(strategy, o)
        PROVE  o \in ran' \/ failed' \/ optIndex' > limit' \/ running'.opt = o \/ Coming(o)'
    <2>1. o \in ran \/ failed \/ optIndex > limit \/ running.opt = o \/ Coming(o)
      BY <1>2 DEF RequestInv, Coming
    <2>2. CASE o \in ran
      BY <1>1, <2>2
    <2>3. CASE failed
      BY <2>3 DEF Next, EnterGroup, Skip, Prepare, Perform, LeaveGroup, RemoveDeadNodes, Done, vars,
                  AtEntry
    <2>4. CASE optIndex > limit
      <3>1. optIndex' = optIndex \/ optIndex' = optIndex + 1
        BY CountMoves DEF Next
      <3> QED BY <1>1, <2>4, <3>1 DEF CountInv
    <2>5. CASE running.opt = o
      <3>1. running # NoRun
        BY <2>5, RequestedFacts DEF NoRun
      <3>2. CASE Perform
        BY <2>5, <3>2 DEF Perform
      <3>3. CASE ~Perform
        BY <2>5, <3>1, <3>3
           DEF Next, EnterGroup, Skip, Prepare, LeaveGroup, RemoveDeadNodes, Done, vars, AtEntry
      <3> QED BY <3>2, <3>3
    <2>6. CASE Coming(o) /\ o \notin ran
      BY <1>1, <2>6, ComingKept
    <2> QED BY <2>1, <2>2, <2>3, <2>4, <2>5, <2>6
  <1> QED BY <1>1, <1>2 DEF RequestInv, Coming

LEMMA RequestInit ==
    ASSUME Init
    PROVE  LastInv /\ RequestInv
  <1>1. /\ strategy \in DOMAIN Tables /\ limit \in Nat /\ running = NoRun /\ ran = {}
        /\ lastRun = {} /\ stack = << [table |-> strategy, at |-> 1] >>
        /\ requests = [o \in Requestable |-> IF o \in Requested THEN {StartBlock} ELSE {}]
    BY TablesAssumption, LimitsAssumption DEF Init
  <1>2. LastInv
    BY <1>1 DEF LastInv
  <1>3. /\ requests \in [Requestable -> SUBSET (Blocks \cup {StartBlock})]
        /\ \A o \in Requested : requests[o] = {StartBlock}
    BY <1>1, RequestAssumption
  <1>4. ASSUME NEW o \in Requested, MayRun(strategy, o)
        PROVE  \E i, k \in Nat : /\ ToCome(stack, running = NoRun, i, k)
                                 /\ EntryRuns(Tables[stack[i].table][k], o)
    <2>1. PICK k \in 1 .. Len(Tables[strategy]) : EntryRuns(Tables[strategy][k], o)
      BY <1>1, <1>4, RunsUnfold
    <2>2. Len(stack) = 1 /\ stack[1].table = strategy /\ stack[1].at = 1
      BY <1>1
    <2>3. 1 \in Nat /\ k \in Nat /\ (k > 1 \/ k = 1) /\ 1 \in 1 .. 1
      OBVIOUS
    <2>4. ToCome(stack, TRUE, 1, k)
      BY <2>2, <2>3 DEF ToCome
    <2>5. (running = NoRun) = TRUE
      BY <1>1
    <2> QED BY <2>1, <2>2, <2>3, <2>4, <2>5
  <1>5. running.opt \notin Requested
    BY <1>1, RequestedFacts DEF NoRun
  <1>6. RequestInv
    BY <1>1, <1>3, <1>4, <1>5 DEF RequestInv
  <1> QED BY <1>2, <1>6

\* At the end nothing is to come.
LEMMA InvRequests ==
    ASSUME StackInv, CountInv, LastInv, RequestInv
    PROVE  RequestsRespected
  <1>1. TypeOK
    <2>1. ASSUME NEW i \in 1 .. Len(stack)
          PROVE  stack[i].at \in 1 .. Len(Tables[stack[i].table]) + 1
      <3>1. stack[i] \in Frame /\ stack[i].at =< Len(Tables[stack[i].table]) + 1
        BY DEF StackInv
      <3>2. stack[i].at \in Nat /\ stack[i].at >= 1 /\ Len(Tables[stack[i].table]) \in Nat
        BY <3>1, TablesAssumption DEF Frame
      <3> QED BY <3>1, <3>2
    <2> QED BY <2>1 DEF TypeOK, LastInv, RequestInv
  <1>2. LastRunRespected
    BY InvLast
  <1>3. ASSUME Ended, ~failed, optIndex =< limit, NEW o \in Requested, MayRun(strategy, o)
        PROVE  o \in ran
    <2>1. running = NoRun /\ Len(stack) = 1 /\ Top.at > Len(Tables[Top.table])
      BY <1>3 DEF Ended
    <2>2. /\ Top = stack[1] /\ Top.at \in Nat /\ Len(Tables[Top.table]) \in Nat
      BY <2>1, TopFacts, TablesAssumption
    <2>3. ASSUME NEW i \in Nat, NEW k \in Nat PROVE ~ToCome(stack, running = NoRun, i, k)
      <3>1. SUFFICES ASSUME ToCome(stack, running = NoRun, i, k) PROVE FALSE
        OBVIOUS
      <3>2. i = 1 /\ k \in 1 .. Len(Tables[Top.table]) /\ (k > Top.at \/ k = Top.at)
        BY <2>1, <2>2, <3>1 DEF ToCome
      <3> QED BY <2>1, <2>2, <3>2
    <2>4. running.opt # o
      BY <2>1, RequestedFacts DEF NoRun
    <2>5. ~(optIndex > limit)
      BY <1>3 DEF RequestInv, CountInv
    <2> QED BY <1>3, <2>3, <2>4, <2>5 DEF RequestInv
  <1> QED BY <1>1, <1>2, <1>3 DEF RequestsRespected, RequestedRuns, RequestInv

-----------------------------------------------------------------------------
(***************************************************************************)
(* The theorems                                                            *)
(***************************************************************************)

\* Whatever strategies, groups, managers and requests there are and whatever
\* each optimization does to the trees, the flow graph and the symbol
\* references: an optimization runs with the analyses it needs, of the kind it
\* needs, unless they were found to be impossible, and none of those it finds
\* was made wrong by an earlier optimization (performOptimization,
\* prepareForNodeRemoval).
THEOREM AnalysesAlwaysCurrent == Spec => []AnalysesCurrent
  <1>1. Init => Inv
    BY InitInv
  <1>2. Inv /\ [Next]_vars => Inv'
    BY NextStep
  <1>3. Inv => AnalysesCurrent
    BY InvCurrent
  <1> QED BY <1>1, <1>2, <1>3, PTL DEF Spec

RunInv == StackInv /\ CountInv /\ LastInv /\ RequestInv

LEMMA RunInvAlways == Spec => []RunInv
  <1>1. Init => RunInv
    BY CountInit, RequestInit DEF RunInv
  <1>2. RunInv /\ [Next]_vars => RunInv'
    BY RequestMoves, StackStep, CountKept, LastKept, RequestKept DEF RunInv
  <1> QED BY <1>1, <1>2, PTL DEF Spec

\* For any tables in which groups are unconditional and in no group of their
\* own: the index of an entry depends only on the strategy, never on what was
\* skipped, run or requested before it (performOptimization).
THEOREM IndexAlwaysStable == Spec => []IndexStable
  <1>1. RunInv => IndexStable
    BY InvIndex DEF RunInv
  <1> QED BY <1>1, RunInvAlways, PTL

\* For any tables in which nothing comes after what marks a last run: no
\* optimization runs after the entry that marks its last run, and what the
\* constructor requested has run for the whole method when the strategy has
\* ended, whatever was requested and withdrawn meanwhile (performOptimization,
\* OptimizationManager::setRequested).
THEOREM RequestsAlwaysRespected == Spec => []RequestsRespected
  <1>1. RunInv => RequestsRespected
    BY InvRequests DEF RunInv
  <1> QED BY <1>1, RunInvAlways, PTL
=============================================================================
