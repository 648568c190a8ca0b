----------------------------- MODULE Dominators -----------------------------
(***************************************************************************)
(* Dominators and post-dominators (Dominators.cpp): the algorithm of       *)
(* Lengauer and Tarjan with balanced linking.  Blocks are numbered in      *)
(* depth-first order, semidominators are found from the last to the first  *)
(* with a forest whose paths are compressed, and immediate dominators are  *)
(* adjusted in a last pass.  The blocks controlled by a block are found    *)
(* from the post-dominators.  The graph is any of the graphs given.        *)
(***************************************************************************)
EXTENDS Integers, Sequences, FiniteSets, SequencesExt

CONSTANTS
  Blocks,           \* block numbers
  Start,            \* the entry block
  End,              \* the exit block
  Graphs,           \* control flow graphs: sets of pairs of blocks
  PostDominators    \* _postDominators

\* What is assumed of the parameters.
BlocksAssumption ==
  /\ IsFiniteSet(Blocks) /\ Blocks \subseteq Nat /\ {Start, End} \subseteq Blocks
  /\ PostDominators \in BOOLEAN

VARIABLES
  graph,      \* the edges of the control flow graph
  stack,      \* the stack of initialize: [rest, parent], top last
  dfNumbers,  \* _dfNumbers
  info,       \* _info, index 0 .. _topDfNum
  at,         \* the index findDominators is at
  dominators, \* _dominators; NoBlock before they are set
  isValid     \* _isValid

vars == << graph, stack, dfNumbers, info, at, dominators, isValid >>

NoBlock == -1

\* The edges in the direction of the analysis.
Direction == IF PostDominators THEN {<< e[2], e[1] >> : e \in graph} ELSE graph
Root == IF PostDominators THEN End ELSE Start
Other == IF PostDominators THEN Start ELSE End
After(b) == {n \in Blocks : << b, n >> \in Direction}
Before(b) == {n \in Blocks : << n, b >> \in Direction}

-----------------------------------------------------------------------------
\* initialize: depth-first numbers

\* The first (dummy) entry.
Dummy == [block |-> NoBlock, parent |-> -1, idom |-> -1, ancestor |-> 0, label |-> 0,
          child |-> -1, sdno |-> -1, size |-> 0, bucket |-> {}]

TopDfNum == Len(info) - 1   \* info is kept as a sequence that begins with 0
Info(in, i) == in[i + 1]

\* The entry of block b, the next to be numbered.
NewInfo(b, parent) ==
  [block |-> b, parent |-> parent, idom |-> -1, ancestor |-> 0, label |-> TopDfNum + 1,
   child |-> 0, sdno |-> TopDfNum + 1, size |-> 1, bucket |-> {}]

Numbered == {Info(info, i).block : i \in 1 .. TopDfNum}

\* One round of the loop: the next block of the list on top of the stack.
Number ==
  /\ stack # << >>
  /\ LET top == Last(stack)
         b == Head(top.rest)
         below == IF Len(top.rest) = 1 THEN Front(stack)
                  ELSE Append(Front(stack), [top EXCEPT !.rest = Tail(@)])
         next == SetToSortSeq(After(b), <)
     IN \/ b \in Numbered /\ stack' = below /\ UNCHANGED << dfNumbers, info, at >>
        \/ /\ b \notin Numbered
           /\ info' = Append(info, NewInfo(b, top.parent))
           /\ dfNumbers' = [dfNumbers EXCEPT ![b] = TopDfNum]
           /\ stack' = IF next = << >> THEN below
                       ELSE Append(below, [rest |-> next, parent |-> TopDfNum + 1])
           /\ at' = TopDfNum + 1
  /\ UNCHANGED << graph, dominators, isValid >>

-----------------------------------------------------------------------------
\* The forest

Sdno(in, i) == Info(in, i).sdno
LabelSdno(in, i) == Sdno(in, Info(in, i).label)
Set(in, i, r) == [in EXCEPT ![i + 1] = r]

\* compress.
RECURSIVE Compress(_, _)
Compress(in, i) ==
  LET a == Info(in, i).ancestor
  IN IF Info(in, a).ancestor = 0 THEN in
     ELSE LET c == Compress(in, a)
          IN Set(c, i, [Info(c, i) EXCEPT
               !.label = IF LabelSdno(c, a) < LabelSdno(c, i) THEN Info(c, a).label ELSE @,
               !.ancestor = Info(c, a).ancestor])

\* eval: the forest it leaves and what it returns.
Eval(in, i) ==
  IF Info(in, i).ancestor = 0 THEN [info |-> in, label |-> Info(in, i).label]
  ELSE LET c == Compress(in, i)
           a == Info(c, i).ancestor
       IN [info |-> c, label |-> IF LabelSdno(c, a) >= LabelSdno(c, i)
                                 THEN Info(c, i).label ELSE Info(c, a).label]

\* The first loop of link, from node s on; it also gives the last node.
RECURSIVE Rebalance(_, _, _)
Rebalance(in, s, sdno) ==
  LET k == Info(in, s).child
      kid == Info(in, k)
  IN IF sdno >= LabelSdno(in, k) THEN [info |-> in, last |-> s]
     ELSE IF Info(in, s).size + Info(in, kid.child).size >= 2 * kid.size
     THEN Rebalance(Set(Set(in, k, [kid EXCEPT !.ancestor = s]), s,
                        [Info(in, s) EXCEPT !.child = kid.child]), s, sdno)
     ELSE Rebalance(Set(Set(in, k, [kid EXCEPT !.size = Info(in, s).size]), s,
                        [Info(in, s) EXCEPT !.ancestor = k]), k, sdno)

\* The last loop of link: the nodes from s on hang from p.
RECURSIVE Hang(_, _, _)
Hang(in, p, s) ==
  IF s = 0 THEN in
  ELSE Hang(Set(in, s, [Info(in, s) EXCEPT !.ancestor = p]), p, Info(in, s).child)

\* link.
Link(in, p, c) ==
  LET r == Rebalance(in, c, LabelSdno(in, c))
      labelled == Set(r.info, r.last, [Info(r.info, r.last) EXCEPT !.label = Info(r.info, c).label])
      size == Info(labelled, p).size + Info(labelled, c).size
      swap == size < 2 * Info(labelled, c).size
      grown == Set(labelled, p, [Info(labelled, p) EXCEPT
                 !.size = size, !.child = IF swap THEN r.last ELSE @])
  IN Hang(grown, p, IF swap THEN Info(labelled, p).child ELSE r.last)

-----------------------------------------------------------------------------
\* findDominators

\* The semidominator of i: the least number that eval finds for a predecessor.
Semidominator(in, i) ==
  FoldLeft(LAMBDA acc, p :
             LET e == Eval(acc.info, dfNumbers[p] + 1)
                 s == Sdno(e.info, e.label)
             IN [info |-> e.info, sdno |-> IF s < acc.sdno THEN s ELSE acc.sdno],
           [info |-> in, sdno |-> Sdno(in, i)],
           SetToSortSeq(Before(Info(in, i).block), <))

\* Immediate dominators, as far as known, for the bucket of parent p.
EmptyBucket(in, p) ==
  LET filled == FoldLeft(LAMBDA acc, b :
        LET e == Eval(acc, b)
        IN Set(e.info, b, [Info(e.info, b) EXCEPT
             !.idom = IF Sdno(e.info, e.label) < Info(e.info, b).sdno THEN e.label ELSE p]),
        in, SetToSortSeq(Info(in, p).bucket, <))
  IN Set(filled, p, [Info(filled, p) EXCEPT !.bucket = {}])

\* One round of the first loop.
FindSemidominator ==
  /\ stack = << >> /\ dominators = << >> /\ at > 1
  /\ LET s == Semidominator(info, at)
         w == Set(s.info, at, [Info(s.info, at) EXCEPT !.sdno = s.sdno])
         v == Set(w, s.sdno, [Info(w, s.sdno) EXCEPT !.bucket = @ \cup {at}])
         p == Info(info, at).parent
     IN info' = EmptyBucket(Link(v, p, at), p)
  /\ at' = at - 1
  /\ UNCHANGED << graph, stack, dfNumbers, dominators, isValid >>

\* Mutant: no adjustment.
AdjustedNot(in) == in

\* The second loop: immediate dominators that differ from the semidominator.
Adjusted(in) ==
  FoldLeft(LAMBDA acc, i :
             IF Info(acc, i).idom = Info(acc, i).sdno THEN acc
             ELSE Set(acc, i, [Info(acc, i) EXCEPT !.idom = Info(acc, Info(acc, i).idom).idom]),
           in, [i \in 1 .. TopDfNum - 1 |-> i + 1])

\* Every node was found, but for the block at the other end.
AllFound == Numbered \cup {Other} = Blocks

\* The rest of the constructor.  A start (exit) that is not reached gets the
\* highest number; then every block must be numbered.
Finish ==
  /\ stack = << >> /\ dominators = << >> /\ at =< 1
  /\ LET adjusted == Adjusted(info)
         Index(b) == {i \in 2 .. TopDfNum : Info(info, i).block = b}
     IN dominators' = [b \in Blocks |->
          IF Index(b) = {} THEN NoBlock
          ELSE Info(adjusted, Info(adjusted, CHOOSE i \in Index(b) : TRUE).idom).block]
  /\ dfNumbers' = IF Other \in Numbered THEN dfNumbers ELSE [dfNumbers EXCEPT ![Other] = TopDfNum]
  /\ isValid' = (PostDominators => AllFound)
  /\ UNCHANGED << graph, stack, info, at >>

Done == dominators # << >> /\ UNCHANGED vars

-----------------------------------------------------------------------------
\* What clients ask

\* dominates(b, o): the loop along the dominators of o.
RECURSIVE Climb(_, _)
Climb(b, d) ==
  /\ d # NoBlock /\ dfNumbers[d] >= dfNumbers[b]
  /\ d = b \/ Climb(b, dominators[d])
Dominates(b, o) == o = b \/ Climb(b, o)

\* getSuccessors(), which is every edge here: there are no exception edges.
Successors(b) == {n \in Blocks : << b, n >> \in graph}

\* Mutant: a block never controls itself.
RECURSIVE ControlledFromNotSelf(_, _)
ControlledFromNotSelf(b, p) ==
  IF p \in {b, dominators[b]} THEN {} ELSE {p} \cup ControlledFromNotSelf(b, dominators[p])

\* The walk of findControlDependents from a successor p of b.
RECURSIVE ControlledFrom(_, _)
ControlledFrom(b, p) ==
  IF p = dominators[b] THEN {} ELSE {p} \cup ControlledFrom(b, dominators[p])

\* findControlDependents for block b; the entry and the exit are not visited.
DirectControlDependents(b) ==
  IF b \in {Start, End} THEN {} ELSE UNION {ControlledFrom(b, s) : s \in Successors(b)}

\* countBlocksControlled: the number and the blocks seen.
RECURSIVE CountBlocksControlled(_, _)
CountBlocksControlled(b, seen) ==
  FoldLeft(LAMBDA acc, i :
             IF i \in acc.seen THEN acc
             ELSE LET c == CountBlocksControlled(i, acc.seen \cup {i})
                  IN [number |-> acc.number + 1 + c.number, seen |-> c.seen],
           [number |-> 0, seen |-> seen], SetToSortSeq(DirectControlDependents(b), <))

-----------------------------------------------------------------------------
Init ==
  /\ graph \in Graphs
  /\ stack = << [rest |-> << Root >>, parent |-> -1] >>
  /\ dfNumbers = [b \in Blocks |-> IF b = Other THEN -1 ELSE 0]
  /\ info = << Dummy >> /\ at = 0
  /\ dominators = << >> /\ isValid = TRUE

Next == Number \/ FindSemidominator \/ Finish \/ Done
Spec == Init /\ [][Next]_vars

-----------------------------------------------------------------------------
\* Properties

\* The blocks reached from the root, without going through b.
Avoiding(b) ==
  LET reach[i \in 0 .. Cardinality(Blocks)] ==
        IF i = 0 THEN {Root} \ {b}
        ELSE LET r == reach[i - 1] IN (r \cup UNION {After(n) : n \in r}) \ {b}
  IN reach[Cardinality(Blocks)]
Reached == Avoiding(NoBlock)

\* By definition, a dominates b when no path from the root avoids a.
IsDominator(a, b) == a = b \/ b \notin Avoiding(a)

Finished == dominators # << >> /\ isValid

\* The indices in a block's entry lie in the table, and a block is numbered
\* behind its parent.
TypeOK ==
  \A i \in 1 .. TopDfNum :
    LET w == Info(info, i)
    IN /\ w.label \in 1 .. TopDfNum /\ w.ancestor \in 0 .. TopDfNum
       /\ w.child \in 0 .. TopDfNum /\ w.sdno \in 1 .. i
       /\ (i > 1 => w.parent \in 1 .. i - 1) /\ w.bucket \subseteq i + 1 .. TopDfNum

\* The immediate dominator of a block is the strict dominator that all its
\* other strict dominators dominate (getDominator).
ImmediateExact ==
  LET reached == Reached
      dominated == [a \in reached |-> {a} \cup (reached \ Avoiding(a))]
  IN Finished => \A b \in reached \ {Root} :
       LET d == dominators[b]
           strict == {a \in reached \ {b} : b \in dominated[a]}
       IN d \in strict /\ \A a \in strict : d \in dominated[a]

\* dominates answers by the definition for every two blocks, the block that
\* may be unreachable included, although its walk stops by numbers only.
DominatesExact ==
  Finished => \A a \in Blocks : LET avoiding == Avoiding(a)
    IN \A b \in Reached : Dominates(a, b) <=> a \in Reached /\ (a = b \/ b \notin avoiding)

\* A block controls those that post-dominate one of its successors and do not
\* strictly post-dominate the block itself (findControlDependents).
ControlExact ==
  Finished /\ PostDominators => \A b \in Blocks \ {Start, End} :
    DirectControlDependents(b) =
      {x \in Reached : /\ \E s \in Successors(b) : IsDominator(x, s)
                       /\ ~(x # b /\ IsDominator(x, b))}

\* The blocks controlled by b, at any distance.
Controlled(b) ==
  LET reach[i \in Nat] == IF i = 0 THEN DirectControlDependents(b)
                          ELSE LET r == reach[i - 1] IN r \cup UNION {DirectControlDependents(n) : n \in r}
  IN reach[Cardinality(Blocks)]

\* numberOfBlocksControlled counts each of them once, although the table has
\* cycles and several ways to a block.
CountExact ==
  Finished /\ PostDominators => \A b \in Blocks :
    CountBlocksControlled(b, {}).number = Cardinality(Controlled(b))

\* Post-dominators are declared invalid exactly when a block other than the
\* entry cannot reach the exit (_isValid).
ValidExact ==
  dominators # << >> /\ PostDominators => (isValid <=> Blocks \ Reached \subseteq {Other})
=============================================================================
