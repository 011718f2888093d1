-------------------------- MODULE WorkspaceProofs ---------------------------
(***************************************************************************)
(* For every workspace file, every set of flags and every number of        *)
(* failures, a run over the members keeps to the dependencies and works on *)
(* every member once.  The argument: the levels are disjoint and a member  *)
(* of a level depends only on members of earlier ones (PlanInv); the       *)
(* results, the goroutines and the members that have none yet share out    *)
(* the levels up to the running one, and every level before it has been    *)
(* done (RunInv).                                                          *)
(*                                                                         *)
(* For every file of releases, the three ways to order a graph agree: a    *)
(* file is refused exactly when it has a cycle or an unknown name.  The    *)
(* queue of Kahn's algorithm holds the names whose dependencies are all in *)
(* the order (KahnInv), and those left over at its end each depend on      *)
(* another of them; the stack of the search is a path of the graph         *)
(* (SearchInv), which a visit to one of its own names closes to a cycle.   *)
(***************************************************************************)
EXTENDS CrossRelease, SequenceTheorems, FiniteSetTheorems, FunctionTheorems, NaturalsInduction, TLAPS

(* No name twice, and every name after what it depends on.                 *)
Once(order) == \A i, j \in DOMAIN order : order[i] = order[j] => i = j
AfterDeps(order) == \A j \in DOMAIN order : \A d \in xgraph[order[j]] : \E i \in 1 .. j - 1 : order[i] = d
Straight == IF xop = "uninstall" THEN Reverse(xorder) ELSE xorder
Frame == [name : Releases, deps : SUBSET XName]

CrossType ==
    /\ xgraph \in XGraphs /\ xop \in {"install", "upgrade", "uninstall", "plan", "members"}
    /\ xresult \in {"unread", "sorting", "refused", "none", "failed", "ok"}
    /\ xindeg \in [Releases -> SUBSET XName] /\ xqueue \subseteq Releases
    /\ xleft \in Seq(Releases) /\ xstack \in Seq(Frame) /\ xorder \in Seq(Releases)
    /\ xpos \in Nat

Closed == \A n \in Releases : xgraph[n] \subseteq Releases

(* The order that grows.                                                   *)
OrderInv ==
    /\ xresult = "unread" => xorder = <<>> /\ xstack = <<>>
    /\ xresult \in {"unread", "sorting"} => Once(xorder) /\ AfterDeps(xorder)

KahnInv ==
    Kahn /\ xresult = "sorting" =>
        /\ Closed
        /\ \A m \in Releases : xindeg[m] = xgraph[m] \ Visited
        /\ xqueue = {m \in Releases \ Visited : xindeg[m] = {}}

(* The stack is a path of the graph, from a declared name to the one that  *)
(* is visited next, if any; what a name depends on is done, still to be    *)
(* visited, or next on the path; no declared name is forgotten.            *)
Paths(left, stack, next) ==
    /\ \A k, l \in DOMAIN stack : stack[k].name = stack[l].name => k = l
    /\ \A k \in DOMAIN stack :
         /\ stack[k].name \notin Visited
         /\ stack[k].deps \subseteq xgraph[stack[k].name]
         /\ k < Len(stack) => stack[k + 1].name \in xgraph[stack[k].name]
         /\ k = Len(stack) => next \subseteq xgraph[stack[k].name]
         /\ \A d \in xgraph[stack[k].name] :
              \/ d \in stack[k].deps \/ d \in Visited
              \/ k < Len(stack) /\ d = stack[k + 1].name
              \/ k = Len(stack) /\ d \in next
    /\ \A n \in Releases : n \in Range(left) \/ n \in Visited \/ n \in next \/ \E k \in DOMAIN stack : stack[k].name = n

SearchInv == ~Kahn /\ xresult \in {"unread", "sorting"} => Paths(xleft, xstack, {})

ResultInv ==
    /\ xresult = "refused" => ~WellFormed(xgraph)
    /\ xresult \in {"none", "failed", "ok"} =>
         /\ WellFormed(xgraph) /\ Once(Straight) /\ AfterDeps(Straight)
         /\ Straight \in Seq(Releases) /\ Range(Straight) = Releases
         /\ Len(Straight) = Cardinality(Releases)

(* What is done is a beginning of the order; only its last can have failed *)
(* when a failure ends the command.                                        *)
RunXInv ==
    /\ xpos <= Len(xorder)
    /\ xresult \in {"unread", "sorting", "refused"} => xpos = 0
    /\ xresult # "failed" /\ xop # "uninstall" => xfailed = {}
    /\ xop # "uninstall" => \A n \in xfailed : xpos > 0 /\ n = xorder[xpos]

CrossInv == CrossType /\ OrderInv /\ KahnInv /\ SearchInv /\ ResultInv /\ RunXInv

(* What a file is, and the sequences of its names.                         *)
LEMMA FileFacts ==
  ASSUME CrossType
  PROVE  /\ IsFiniteSet(Releases) /\ Cardinality(Releases) \in Nat /\ Releases \subseteq XName
         /\ xgraph \in [Releases -> SUBSET XName] /\ XName \subseteq Nat
BY XNameAssumption, XGraphsAssumption, FS_CardinalityType DEF CrossType, Releases

LEMMA SeqFacts ==
  ASSUME NEW S, NEW s \in Seq(S)
  PROVE  /\ Len(s) \in Nat /\ DOMAIN s = 1 .. Len(s) /\ \A i \in 1 .. Len(s) : s[i] \in S
BY ElementOfSeq

-----------------------------------------------------------------------------
(* A set of positive numbers has a least one.                              *)
LEMMA LeastPosition ==
  ASSUME NEW S \in SUBSET Nat, S # {}
  PROVE  \E v \in S : \A w \in S : v <= w
<1>1. PICK v \in S : \A w \in S : ~(<<w, v>> \in OpToRel(<, Nat))
  BY NatLessThanWellFounded, WFMin
<1>2. ASSUME NEW w \in S, w < v PROVE FALSE
  <2>1. <<w, v>> \in Nat \X Nat /\ <<w, v>>[1] < <<w, v>>[2]
    BY <1>2
  <2>2. <<w, v>> \in OpToRel(<, Nat)
    BY <2>1, Zenon DEF OpToRel
  <2> QED BY <1>1, <2>2
<1> QED BY <1>2

(* Min picks a member of a set of names.                                   *)
LEMMA MinIsIn ==
  ASSUME NEW S \in SUBSET XName, S # {}
  PROVE  Min(S) \in S
<1>1. \E v \in S : \A w \in S : v <= w
  BY LeastPosition, XNameAssumption
<1> QED BY <1>1 DEF Min

(* The stack without its last frame.                                       *)
LEMMA FrontFacts ==
  ASSUME NEW S, NEW s \in Seq(S), s # <<>>
  PROVE  /\ Front(s) \in Seq(S) /\ Len(Front(s)) = Len(s) - 1
         /\ \A i \in 1 .. Len(s) - 1 : Front(s)[i] = s[i]
         /\ Last(s) \in S /\ Last(s) = s[Len(s)] /\ Len(s) \in Nat \ {0}
<1>1. Len(s) \in Nat \ {0}
  BY EmptySeq
<1>2. /\ 1 \in Int /\ Len(s) - 1 \in Int /\ Len(s) \in 1 .. Len(s)
      /\ \A i \in 1 .. Len(s) - 1 : i \in 1 .. Len(s) /\ s[1 + i - 1] = s[i]
  BY <1>1
<1>3. Last(s) \in S
  BY <1>2, ElementOfSeq DEF Last
<1>4. /\ Front(s) \in Seq(S) /\ Len(Front(s)) = Len(s) - 1
      /\ \A i \in 1 .. Len(s) - 1 : Front(s)[i] = s[i]
  <2>1. \A i \in 1 .. Len(s) - 1 : s[i] \in S
    BY <1>2, ElementOfSeq
  <2>2. /\ Front(s) \in Seq(S)
        /\ Len(Front(s)) = IF 1 <= Len(s) - 1 THEN (Len(s) - 1) - 1 + 1 ELSE 0
        /\ \A i \in 1 .. (Len(s) - 1) - 1 + 1 : Front(s)[i] = s[1 + i - 1]
    BY <1>2, <2>1, SubSeqProperties DEF Front
  <2>3. (IF 1 <= Len(s) - 1 THEN (Len(s) - 1) - 1 + 1 ELSE 0) = Len(s) - 1 /\ (Len(s) - 1) - 1 + 1 = Len(s) - 1
    BY <1>1
  <2> QED BY <1>2, <2>2, <2>3
<1> QED BY <1>1, <1>3, <1>4 DEF Last

(* Reverse reads the same elements from the other end.                     *)
LEMMA ReverseFacts ==
  ASSUME NEW S, NEW s \in Seq(S)
  PROVE  /\ Reverse(s) \in Seq(S) /\ Len(Reverse(s)) = Len(s)
         /\ \A i \in 1 .. Len(s) : Reverse(s)[i] = s[Len(s) - i + 1]
         /\ Reverse(Reverse(s)) = s
<1>1. /\ Reverse(s) \in Seq(S) /\ Len(Reverse(s)) = Len(s)
      /\ \A i \in 1 .. Len(s) : Reverse(s)[i] = s[Len(s) - i + 1]
  <2>1. \A i \in 1 .. Len(s) : Len(s) - i + 1 \in 1 .. Len(s)
    OBVIOUS
  <2>2. Reverse(s) \in [1 .. Len(s) -> S]
    BY <2>1 DEF Reverse
  <2> QED BY <2>1, <2>2 DEF Reverse
<1>2. DEFINE r == Reverse(s)
<1>3. /\ Reverse(r) \in Seq(S) /\ Len(Reverse(r)) = Len(r)
      /\ \A i \in 1 .. Len(r) : Reverse(r)[i] = r[Len(r) - i + 1]
  <2>0. r \in Seq(S)
    BY <1>1
  <2> HIDE DEF r
  <2>1. \A i \in 1 .. Len(r) : Len(r) - i + 1 \in 1 .. Len(r)
    BY <2>0
  <2>2. Reverse(r) \in [1 .. Len(r) -> S]
    BY <2>0, <2>1 DEF Reverse
  <2> QED BY <2>0, <2>1, <2>2 DEF Reverse
<1>4. \A i \in 1 .. Len(s) : Reverse(r)[i] = s[i]
  <2> SUFFICES ASSUME NEW i \in 1 .. Len(s) PROVE Reverse(r)[i] = s[i]
    OBVIOUS
  <2>1. Reverse(r)[i] = r[Len(s) - i + 1]
    BY <1>1, <1>3
  <2>2. r[Len(s) - i + 1] = s[Len(s) - (Len(s) - i + 1) + 1]
    BY <1>1
  <2> QED BY <2>1, <2>2
<1>5. Reverse(r) = s
  <2>1. Len(r) = Len(s)
    BY <1>1
  <2> HIDE DEF r
  <2> QED BY <1>3, <1>4, <2>1, SeqEqual
<1> QED BY <1>1, <1>5

(* A file whose names are all in an order that respects it has no cycle.   *)
LEMMA OrderedIsAcyclic ==
  ASSUME CrossType, NEW o \in Seq(Releases), AfterDeps(o), Releases \subseteq Range(o)
  PROVE  Acyclic(xgraph)
<1> SUFFICES ASSUME NEW S \in SUBSET Releases, S # {}
             PROVE  \E m \in S : xgraph[m] \cap S = {}
  BY DEF Acyclic, Releases
<1> DEFINE P == {i \in 1 .. Len(o) : o[i] \in S}
<1>1. P \in SUBSET Nat /\ P # {}
  BY DEF Range
<1>2. PICK v \in P : \A w \in P : v <= w
  <2> HIDE DEF P
  <2> QED BY <1>1, LeastPosition
<1>3. ASSUME NEW d \in xgraph[o[v]], d \in S PROVE FALSE
  <2>1. PICK i \in 1 .. v - 1 : o[i] = d
    BY <1>2 DEF AfterDeps
  <2>2. i \in P /\ i < v
    BY <1>2, <1>3, <2>1
  <2> QED BY <1>2, <2>2
<1> QED BY <1>2, <1>3

(* Names that each depend on another of them are a cycle.                  *)
LEMMA CycleFound ==
  ASSUME NEW S \in SUBSET Releases, S # {}, \A m \in S : xgraph[m] \cap S # {}
  PROVE  ~WellFormed(xgraph)
BY DEF WellFormed, Acyclic, Releases

(* An order without repetition that holds every name has their number.     *)
LEMMA OrderLength ==
  ASSUME CrossType, NEW o \in Seq(Releases), Once(o)
  PROVE  Len(o) = Cardinality(Releases) <=> Range(o) = Releases
<1>1. IsFiniteSet(Releases) /\ Range(o) \subseteq Releases
  <2>1. IsFiniteSet(Releases)
    BY FileFacts
  <2>2. \A i \in DOMAIN o : o[i] \in Releases
    BY ElementOfSeq
  <2> QED BY <2>1, <2>2 DEF Range
<1>2. /\ IsFiniteSet(1 .. Len(o)) /\ Cardinality(1 .. Len(o)) = Len(o)
  <2>1. Len(o) \in Nat
    OBVIOUS
  <2> QED BY <2>1, FS_Interval
<1>3. o \in Bijection(1 .. Len(o), Range(o))
  <2>1. o \in [1 .. Len(o) -> Range(o)]
    BY DEF Range
  <2>2. \A a, b \in 1 .. Len(o) : o[a] = o[b] => a = b
    BY DEF Once
  <2>3. \A t \in Range(o) : \E a \in 1 .. Len(o) : o[a] = t
    BY DEF Range
  <2> QED BY <2>1, <2>2, <2>3 DEF Bijection, Injection, Surjection, IsInjective
<1>4. IsFiniteSet(Range(o)) /\ Cardinality(Range(o)) = Len(o)
  <2>1. ExistsBijection(1 .. Len(o), Range(o))
    BY <1>3 DEF ExistsBijection
  <2> QED BY <1>1, <1>2, <2>1, FS_Bijection, FS_Subset
<1>5. Cardinality(Range(o)) = Cardinality(Releases) => Range(o) = Releases
  BY <1>1, FS_Subset
<1> QED BY <1>4, <1>5
-----------------------------------------------------------------------------
(* The order grows by a name whose dependencies it holds.                  *)
LEMMA OrderGrows ==
  ASSUME CrossType, Once(xorder), AfterDeps(xorder), UNCHANGED xgraph,
         NEW n \in Releases, n \notin Visited, xgraph[n] \subseteq Visited, xorder' = Append(xorder, n)
  PROVE  /\ xorder' \in Seq(Releases) /\ Once(xorder') /\ AfterDeps(xorder)'
         /\ Visited' = Visited \cup {n} /\ Releases' = Releases
<1>1. /\ xorder' \in Seq(Releases) /\ Len(xorder') = Len(xorder) + 1
      /\ \A i \in 1 .. Len(xorder) : xorder'[i] = xorder[i]
      /\ xorder'[Len(xorder) + 1] = n
  <2>1. xorder \in Seq(Releases)
    BY DEF CrossType
  <2> QED BY <2>1
<1>2. /\ DOMAIN xorder = 1 .. Len(xorder) /\ DOMAIN xorder' = 1 .. Len(xorder) + 1
      /\ Len(xorder) \in Nat
  <2>1. xorder \in Seq(Releases)
    BY DEF CrossType
  <2> QED BY <1>1, <2>1, SeqFacts
<1>3. Visited' = Visited \cup {n}
  BY <1>1, <1>2 DEF Visited, Range
<1>4. \A i \in DOMAIN xorder : xorder[i] # n
  BY DEF Visited, Range
<1>5. Once(xorder')
  BY <1>1, <1>2, <1>4 DEF Once
<1>6. ASSUME NEW j \in 1 .. Len(xorder) + 1, NEW d \in xgraph[xorder'[j]]
      PROVE  \E i \in 1 .. j - 1 : xorder'[i] = d
  <2>1. CASE j \in 1 .. Len(xorder)
    <3>1. PICK i \in 1 .. j - 1 : xorder[i] = d
      BY <1>1, <1>2, <1>6, <2>1 DEF AfterDeps
    <3> QED BY <1>1, <1>2, <2>1, <3>1
  <2>2. CASE j = Len(xorder) + 1
    <3>1. PICK i \in DOMAIN xorder : xorder[i] = d
      BY <1>1, <1>6, <2>2 DEF Visited, Range
    <3> QED BY <1>1, <1>2, <2>2, <3>1
  <2> QED BY <1>2, <2>1, <2>2
<1>7. AfterDeps(xorder)'
  BY <1>2, <1>6 DEF AfterDeps
<1> QED BY <1>1, <1>3, <1>5, <1>7 DEF Releases

LEMMA InitCross == CrossInit => CrossInv
<1> SUFFICES ASSUME CrossInit PROVE CrossInv
  OBVIOUS
<1>1. /\ xgraph \in XGraphs /\ xop \in {"install", "upgrade", "uninstall", "plan", "members"}
      /\ xresult = "unread" /\ xindeg = [n \in Releases |-> {}] /\ xqueue = {}
      /\ xstack = <<>> /\ xorder = <<>> /\ xpos = 0 /\ xfailed = {} /\ xleft \in Listings(Releases)
  BY DEF CrossInit
<1>2. Cardinality(Releases) \in Nat /\ DOMAIN xorder = {} /\ DOMAIN xstack = {} /\ Len(xorder) = 0
  <2>1. Cardinality(Releases) \in Nat
    BY <1>1, XGraphsAssumption, FS_CardinalityType DEF Releases
  <2>2. <<>> \in Seq(Releases) /\ <<>> \in Seq(Frame)
    OBVIOUS
  <2>3. DOMAIN xorder = {} /\ DOMAIN xstack = {} /\ Len(xorder) = 0
    BY <1>1
  <2> QED BY <2>1, <2>3
<1>3. xleft \in Seq(Releases) /\ Range(xleft) = Releases
  <2>1. xleft \in [1 .. Cardinality(Releases) -> Releases] /\ Range(xleft) = Releases
    BY <1>1 DEF Listings
  <2> QED BY <1>2, <2>1
<1>4. CrossType
  <2>1. xorder \in Seq(Releases) /\ xstack \in Seq(Frame)
    BY <1>1
  <2>2. xindeg \in [Releases -> SUBSET XName] /\ xqueue \subseteq Releases
    BY <1>1
  <2> QED BY <1>1, <1>3, <2>1, <2>2 DEF CrossType
<1>5. OrderInv
  BY <1>1, <1>2 DEF OrderInv, Once, AfterDeps
<1>6. KahnInv /\ ResultInv
  BY <1>1 DEF KahnInv, ResultInv
<1>7. SearchInv
  BY <1>2, <1>3 DEF SearchInv, Paths
<1>8. RunXInv
  <2>1. xpos <= Len(xorder) /\ xpos = 0 /\ \A n \in xfailed : FALSE
    BY <1>1, <1>2
  <2> QED BY <1>1, <2>1 DEF RunXInv
<1> QED BY <1>4, <1>5, <1>6, <1>7, <1>8 DEF CrossInv

(* An operation that is not under way: what its invariants say stays.      *)
LEMMA RefusedStep ==
  ASSUME CrossInv, Refused, xresult \in {"unread", "sorting"}, ~WellFormed(xgraph)
  PROVE  CrossInv'
<1> USE DEF Refused, sorting, working
<1>1. CrossType' /\ OrderInv' /\ KahnInv' /\ SearchInv'
  BY DEF CrossInv, CrossType, Releases, Frame, OrderInv, KahnInv, SearchInv
<1>2. ResultInv'
  BY DEF ResultInv, WellFormed, Acyclic
<1>3. RunXInv'
  BY DEF CrossInv, RunXInv
<1> QED BY <1>1, <1>2, <1>3 DEF CrossInv

LEMMA ReadReleasesStep == CrossInv /\ ReadReleases => CrossInv'
<1> SUFFICES ASSUME CrossInv, ReadReleases PROVE CrossInv'
  OBVIOUS
<1>1. CASE \E n \in Releases : ~(xgraph[n] \subseteq Releases)
  <2>1. ~WellFormed(xgraph)
    BY <1>1 DEF WellFormed, Releases
  <2> QED BY <1>1, <2>1, RefusedStep DEF ReadReleases
<1>2. CASE ~(\E n \in Releases : ~(xgraph[n] \subseteq Releases))
  <2> USE <1>2 DEF ReadReleases, working
  <2>1. xgraph \in [Releases -> SUBSET XName]
    BY FileFacts DEF CrossInv
  <2>2. CrossType'
    BY <2>1 DEF CrossInv, CrossType, Releases, Frame
  <2>3. OrderInv'
    BY DEF CrossInv, OrderInv, Once, AfterDeps
  <2>4. Visited' = {} /\ Releases' = Releases
    BY DEF CrossInv, OrderInv, Visited, Range, Releases
  <2>5. KahnInv'
    BY <2>1, <2>4 DEF KahnInv, Closed, Kahn
  <2>6. SearchInv' /\ ResultInv'
    BY DEF SearchInv, ResultInv, Kahn
  <2>7. RunXInv'
    BY DEF CrossInv, RunXInv
  <2> QED BY <2>2, <2>3, <2>5, <2>6, <2>7 DEF CrossInv
<1> QED BY <1>1, <1>2

LEMMA DequeueStep == CrossInv /\ Dequeue => CrossInv'
<1> SUFFICES ASSUME CrossInv, Dequeue PROVE CrossInv'
  OBVIOUS
<1> DEFINE n == Min(xqueue)
<1>1. n \in xqueue
  <2>1. xqueue \in SUBSET XName
    BY FileFacts DEF CrossInv, CrossType
  <2> QED BY <2>1, MinIsIn DEF Dequeue
<1>2. n \in Releases /\ n \notin Visited /\ xindeg[n] = {} /\ xgraph[n] \subseteq Visited
  BY <1>1 DEF CrossInv, CrossType, KahnInv, Dequeue
<1>3. /\ xresult = "sorting" /\ Kahn /\ UNCHANGED <<xgraph, xop, xresult, xleft, xstack, working>>
      /\ xorder' = Append(xorder, n) /\ xindeg' = [m \in Releases |-> xindeg[m] \ {n}]
      /\ xqueue' = (xqueue \ {n}) \cup Freed(n)
  BY DEF Dequeue
<1> HIDE DEF n
<1>4. CrossType /\ Once(xorder) /\ AfterDeps(xorder)
  BY <1>3 DEF CrossInv, OrderInv
<1>5. /\ xorder' \in Seq(Releases) /\ Once(xorder') /\ AfterDeps(xorder)'
      /\ Visited' = Visited \cup {n} /\ Releases' = Releases
  BY <1>2, <1>3, <1>4, OrderGrows
<1>6. CrossType'
  <2>1. xindeg' \in [Releases -> SUBSET XName] /\ xqueue' \subseteq Releases
    BY <1>3, <1>4 DEF CrossType, Freed
  <2>2. xpos' = xpos /\ UNCHANGED <<xgraph, xop, xresult, xleft, xstack>>
    BY <1>3 DEF working
  <2> QED BY <1>4, <1>5, <2>1, <2>2 DEF CrossType, Frame
<1>7. OrderInv'
  BY <1>3, <1>5 DEF OrderInv, Once
<1>8. KahnInv'
  <2>1. /\ Closed /\ \A m \in Releases : xindeg[m] = xgraph[m] \ Visited
        /\ xqueue = {m \in Releases \ Visited : xindeg[m] = {}}
    BY <1>3 DEF CrossInv, KahnInv
  <2>2. Closed' /\ \A m \in Releases : xindeg'[m] = xgraph[m] \ Visited'
    BY <1>3, <1>5, <2>1 DEF Closed
  <2>3. ASSUME NEW m \in Releases PROVE m \in xqueue' <=> m \notin Visited' /\ xindeg'[m] = {}
    <3>1. CASE m \in Visited
      <4>1. xindeg[m] = {}
        <5>1. PICK j \in DOMAIN xorder : xorder[j] = m
          BY <3>1 DEF Visited, Range
        <5>2. \A d \in xgraph[m] : \E i \in 1 .. j - 1 : xorder[i] = d
          BY <1>4, <5>1 DEF AfterDeps
        <5>3. \A i \in 1 .. j - 1 : i \in DOMAIN xorder
          BY <1>4, <5>1 DEF CrossType
        <5> QED BY <2>1, <5>2, <5>3 DEF Visited, Range
      <4> QED BY <1>3, <1>5, <2>1, <3>1, <4>1 DEF Freed
    <3>2. CASE m \notin Visited
      BY <1>2, <1>3, <1>5, <2>1, <3>2 DEF Freed
    <3> QED BY <3>1, <3>2
  <2>4. xqueue' \subseteq Releases
    BY <1>5, <1>6 DEF CrossType
  <2> QED BY <1>3, <1>5, <2>2, <2>3, <2>4 DEF KahnInv
<1>9. SearchInv' /\ ResultInv'
  BY <1>3 DEF SearchInv, ResultInv, Kahn
<1>10. RunXInv'
  BY <1>3, <1>4, <1>5 DEF CrossInv, RunXInv, CrossType, working
<1> QED BY <1>6, <1>7, <1>8, <1>9, <1>10 DEF CrossInv

(* The order is complete: a file without a cycle, printed or run through.  *)
LEMMA Complete ==
  ASSUME CrossType, Once(xorder), AfterDeps(xorder), Range(xorder) = Releases
  PROVE  WellFormed(xgraph) /\ Len(xorder) = Cardinality(Releases)
<1>1. Acyclic(xgraph) /\ Len(xorder) = Cardinality(Releases)
  BY OrderedIsAcyclic, OrderLength DEF CrossType
<1>2. ASSUME NEW m \in Releases, NEW d \in xgraph[m] PROVE d \in Releases
  <2>1. PICK j \in DOMAIN xorder : xorder[j] = m
    BY DEF Range
  <2>2. PICK i \in 1 .. j - 1 : xorder[i] = d
    BY <2>1 DEF AfterDeps
  <2>3. i \in 1 .. Len(xorder)
    BY <2>1, SeqFacts DEF CrossType
  <2> QED BY <2>2, <2>3, SeqFacts DEF CrossType
<1> QED BY <1>1, <1>2 DEF WellFormed, Releases

LEMMA SortedStep == CrossInv /\ Sorted => CrossInv'
<1> SUFFICES ASSUME CrossInv, Sorted PROVE CrossInv'
  OBVIOUS
<1>1. /\ xresult = "sorting" /\ Kahn /\ xqueue = {}
      /\ CrossType /\ Once(xorder) /\ AfterDeps(xorder) /\ Closed
      /\ \A m \in Releases : xindeg[m] = xgraph[m] \ Visited
      /\ \A m \in Releases \ Visited : xindeg[m] # {}
  BY DEF Sorted, CrossInv, OrderInv, KahnInv
<1>2. xorder \in Seq(Releases)
  BY <1>1 DEF CrossType
<1>3. CASE Len(xorder) # Cardinality(Releases)
  <2> DEFINE S == Releases \ Visited
  <2>1. S # {}
    <3>1. Visited \subseteq Releases
      BY <1>2, SeqFacts DEF Visited, Range
    <3>2. Range(xorder) # Releases
      BY <1>1, <1>2, <1>3, OrderLength
    <3> QED BY <3>1, <3>2 DEF Visited
  <2>2. \A m \in S : xgraph[m] \cap S # {}
    BY <1>1 DEF Closed
  <2>3. ~WellFormed(xgraph)
    <3> HIDE DEF S
    <3>1. S \subseteq Releases
      BY DEF S
    <3> QED BY <2>1, <2>2, <3>1, CycleFound
  <2> QED BY <1>1, <1>3, <2>3, RefusedStep DEF Sorted
<1>4. CASE Len(xorder) = Cardinality(Releases)
  <2>1. /\ xresult' \in {"ok", "none"} /\ xorder' = IF xop = "uninstall" THEN Reverse(xorder) ELSE xorder
        /\ UNCHANGED <<xgraph, xop, xindeg, xqueue, xleft, xstack, working>>
    BY <1>4 DEF Sorted
  <2>2. /\ Reverse(xorder) \in Seq(Releases) /\ Len(Reverse(xorder)) = Len(xorder)
        /\ Reverse(Reverse(xorder)) = xorder
    BY <1>2, ReverseFacts
  <2>3. Straight' = xorder /\ Releases' = Releases /\ xorder' \in Seq(Releases) /\ Len(xorder') = Len(xorder)
    BY <1>2, <2>1, <2>2 DEF Straight, Releases
  <2>4. CrossType'
    BY <1>1, <2>1, <2>3 DEF CrossType, Frame, working
  <2>5. ResultInv'
    <3>1. Range(xorder) = Releases
      BY <1>1, <1>2, <1>4, OrderLength
    <3>2. WellFormed(xgraph)
      BY <1>1, <3>1, Complete
    <3>3. WellFormed(xgraph)' /\ AfterDeps(Straight)' /\ Once(Straight)'
      BY <1>1, <2>1, <2>3, <3>2 DEF WellFormed, Acyclic, AfterDeps, Once
    <3> QED BY <1>2, <1>4, <2>1, <2>3, <3>1, <3>3 DEF ResultInv
  <2>6. OrderInv' /\ KahnInv' /\ SearchInv'
    BY <2>1 DEF OrderInv, KahnInv, SearchInv
  <2>7. RunXInv'
    <3>1. xpos = 0 /\ xpos' = 0 /\ xfailed' = xfailed /\ Len(xorder) \in Nat
      BY <1>1, <1>2, <2>1 DEF CrossInv, RunXInv, working
    <3> QED BY <1>1, <2>1, <2>3, <3>1 DEF CrossInv, RunXInv
  <2> QED BY <2>4, <2>5, <2>6, <2>7 DEF CrossInv
<1> QED BY <1>3, <1>4

(* The name that is visited next is put on the stack, or is done.          *)
LEMMA Pushed ==
  ASSUME CrossType, NEW left, NEW stack \in Seq(Frame), NEW n \in Releases, Paths(left, stack, {n}),
         n \notin Visited, \A k \in DOMAIN stack : stack[k].name # n
  PROVE  /\ Append(stack, [name |-> n, deps |-> xgraph[n]]) \in Seq(Frame)
         /\ Paths(left, Append(stack, [name |-> n, deps |-> xgraph[n]]), {})
<1> DEFINE f == [name |-> n, deps |-> xgraph[n]]
           s == Append(stack, f)
<1>1. f \in Frame /\ f.name = n /\ f.deps = xgraph[n]
  BY FileFacts DEF Frame
<1>2. /\ s \in Seq(Frame) /\ Len(s) = Len(stack) + 1 /\ s[Len(stack) + 1] = f
      /\ \A k \in 1 .. Len(stack) : s[k] = stack[k]
      /\ DOMAIN s = 1 .. Len(stack) + 1 /\ DOMAIN stack = 1 .. Len(stack) /\ Len(stack) \in Nat
  <2> HIDE DEF f
  <2> QED BY <1>1
<1> HIDE DEF f, s
<1>3. \A k, l \in DOMAIN s : s[k].name = s[l].name => k = l
  BY <1>1, <1>2 DEF Paths
<1>4. ASSUME NEW k \in DOMAIN s
      PROVE  /\ s[k].name \notin Visited
             /\ s[k].deps \subseteq xgraph[s[k].name]
             /\ k < Len(s) => s[k + 1].name \in xgraph[s[k].name]
             /\ \A d \in xgraph[s[k].name] :
                  d \in s[k].deps \/ d \in Visited \/ (k < Len(s) /\ d = s[k + 1].name)
  <2>1. CASE k = Len(stack) + 1
    BY <1>1, <1>2, <2>1
  <2>2. CASE k = Len(stack)
    BY <1>1, <1>2, <2>2 DEF Paths
  <2>3. CASE k \in 1 .. Len(stack) - 1
    <3>1. k \in DOMAIN stack /\ k < Len(stack) /\ s[k] = stack[k] /\ s[k + 1] = stack[k + 1] /\ k < Len(s)
      BY <1>2, <2>3
    <3> QED BY <1>2, <2>3, <3>1 DEF Paths
  <2> QED BY <1>2, <2>1, <2>2, <2>3
<1>5. ASSUME NEW m \in Releases
      PROVE  m \in Range(left) \/ m \in Visited \/ \E k \in DOMAIN s : s[k].name = m
  BY <1>1, <1>2 DEF Paths
<1>6. Paths(left, s, {})
  BY <1>3, <1>4, <1>5 DEF Paths
<1> QED BY <1>2, <1>6 DEF s, f

LEMMA PassedOver ==
  ASSUME NEW left, NEW stack, NEW n \in Visited, Paths(left, stack, {n})
  PROVE  Paths(left, stack, {})
BY DEF Paths

LEMMA VisitStep ==
  ASSUME CrossInv, xresult = "sorting", ~Kahn,
         NEW n, NEW left \in Seq(Releases), NEW stack \in Seq(Frame), Visit(n, left, stack),
         Paths(left, stack, {n}),
         DOMAIN stack = DOMAIN xstack, \A k \in DOMAIN stack : stack[k].name = xstack[k].name,
         n \in Visiting \/ n \notin Releases => ~WellFormed(xgraph)
  PROVE  CrossInv'
<1>1. CASE n \in Visiting \/ n \notin Releases
  BY <1>1, RefusedStep DEF Visit
<1>2. CASE n \notin Visiting /\ n \in Releases
  <2> DEFINE pushed == Append(stack, [name |-> n, deps |-> xgraph[n]])
  <2>1. /\ xleft' = left /\ xstack' = IF n \in Visited THEN stack ELSE pushed
        /\ UNCHANGED <<xgraph, xop, xresult, xindeg, xqueue, xorder, working>>
    BY <1>2 DEF Visit
  <2>2. CrossType /\ \A k \in DOMAIN stack : stack[k].name # n
    BY <1>2 DEF CrossInv, Visiting
  <2>3. xstack' \in Seq(Frame) /\ Paths(xleft', xstack', {})
    BY <1>2, <2>1, <2>2, Pushed, PassedOver
  <2>4. CrossType'
    BY <2>1, <2>2, <2>3 DEF CrossType, Frame, Releases, working
  <2>5. OrderInv' /\ KahnInv' /\ ResultInv'
    BY <2>1 DEF CrossInv, OrderInv, Once, AfterDeps, KahnInv, Kahn, ResultInv
  <2>6. SearchInv'
    BY <2>1, <2>3 DEF SearchInv, Paths, Visited, Releases
  <2>7. RunXInv'
    BY <2>1 DEF CrossInv, RunXInv, working
  <2> QED BY <2>4, <2>5, <2>6, <2>7 DEF CrossInv
<1> QED BY <1>1, <1>2

LEMMA ReadMembersStep == CrossInv /\ ReadMembers => CrossInv'
<1> SUFFICES ASSUME CrossInv, ReadMembers PROVE CrossInv'
  OBVIOUS
<1>1. ~Kahn /\ xresult = "unread" /\ xresult' = "sorting" /\ UNCHANGED <<xgraph, xop, sorting, working>>
  BY DEF ReadMembers
<1>2. CrossType' /\ RunXInv'
  BY <1>1 DEF CrossInv, CrossType, Frame, Releases, RunXInv, sorting, working
<1>3. OrderInv' /\ KahnInv' /\ ResultInv'
  BY <1>1 DEF CrossInv, OrderInv, Once, AfterDeps, KahnInv, Kahn, ResultInv, sorting
<1>4. SearchInv'
  BY <1>1 DEF CrossInv, SearchInv, Paths, Visited, Releases, Kahn, sorting
<1> QED BY <1>2, <1>3, <1>4 DEF CrossInv

LEMMA VisitMemberStep == CrossInv /\ VisitMember => CrossInv'
<1> SUFFICES ASSUME CrossInv, VisitMember PROVE CrossInv'
  OBVIOUS
<1> DEFINE n == Head(xleft)
           left == Tail(xleft)
<1>1. /\ xresult = "sorting" /\ ~Kahn /\ xstack = <<>> /\ xleft # <<>> /\ Visit(n, left, <<>>)
      /\ xleft \in Seq(Releases)
  BY DEF VisitMember, CrossInv, CrossType
<1>2. /\ left \in Seq(Releases) /\ n \in Releases /\ <<>> \in Seq(Frame) /\ DOMAIN xstack = {}
      /\ Range(xleft) \subseteq Range(left) \cup {n}
  <2>1. /\ left \in Seq(Releases) /\ n \in Releases /\ DOMAIN xstack = {}
        /\ \A i \in 1 .. Len(xleft) : xleft[i] = n \/ \E j \in 1 .. Len(left) : left[j] = xleft[i]
    <3>1. /\ left \in Seq(Releases) /\ n \in Releases /\ Len(left) = Len(xleft) - 1 /\ n = xleft[1]
          /\ \A j \in 1 .. Len(xleft) - 1 : left[j] = xleft[j + 1]
      BY <1>1, HeadTailProperties
    <3>2. ASSUME NEW i \in 1 .. Len(xleft), i # 1 PROVE \E j \in 1 .. Len(left) : left[j] = xleft[i]
      <4>1. i - 1 \in 1 .. Len(left) /\ left[i - 1] = xleft[i]
        BY <1>1, <3>1, <3>2
      <4> QED BY <4>1
    <3> QED BY <1>1, <3>1, <3>2
  <2> HIDE DEF left, n
  <2>2. DOMAIN left = 1 .. Len(left) /\ DOMAIN xleft = 1 .. Len(xleft)
    BY <1>1, <2>1
  <2> QED BY <2>1, <2>2 DEF Range
<1> HIDE DEF n, left
<1>3. Paths(left, <<>>, {n})
  <2>1. Paths(xleft, xstack, {})
    BY <1>1 DEF CrossInv, SearchInv
  <2>2. \A k \in DOMAIN xstack : FALSE
    BY <1>2
  <2> QED BY <1>1, <1>2, <2>1, <2>2 DEF Paths
<1>4. ~(n \in Visiting \/ n \notin Releases)
  BY <1>2 DEF Visiting
<1>5. DOMAIN <<>> = DOMAIN xstack /\ \A k \in DOMAIN <<>> : <<>>[k].name = xstack[k].name
  BY <1>1, <1>2
<1> QED BY <1>1, <1>2, <1>3, <1>4, <1>5, VisitStep

LEMMA VisitDependencyStep == CrossInv /\ VisitDependency => CrossInv'
<1> SUFFICES ASSUME CrossInv, VisitDependency PROVE CrossInv'
  OBVIOUS
<1> DEFINE top == Last(xstack)
           d == Min(top.deps)
           f == [top EXCEPT !.deps = @ \ {d}]
           stack == Append(Front(xstack), f)
<1>1. /\ xresult = "sorting" /\ ~Kahn /\ xstack # <<>> /\ top.deps # {} /\ Visit(d, xleft, stack)
      /\ xstack \in Seq(Frame) /\ xleft \in Seq(Releases) /\ Paths(xleft, xstack, {})
  BY DEF VisitDependency, CrossInv, CrossType, SearchInv
<1>2. /\ Front(xstack) \in Seq(Frame) /\ Len(Front(xstack)) = Len(xstack) - 1
      /\ \A k \in 1 .. Len(xstack) - 1 : Front(xstack)[k] = xstack[k]
      /\ top \in Frame /\ top = xstack[Len(xstack)] /\ Len(xstack) \in Nat \ {0}
      /\ DOMAIN xstack = 1 .. Len(xstack)
  <2>1. xstack \in Seq(Frame) /\ xstack # <<>>
    BY <1>1
  <2> HIDE DEF d, f, stack
  <2> QED BY <2>1, FrontFacts, SeqFacts
<1>3. d \in top.deps
  BY <1>1, <1>2, MinIsIn DEF Frame
<1>4. f \in Frame /\ f.name = top.name /\ f.deps = top.deps \ {d}
  BY <1>2 DEF Frame
<1>5. /\ stack \in Seq(Frame) /\ Len(stack) = Len(xstack) /\ DOMAIN stack = 1 .. Len(xstack)
      /\ stack[Len(xstack)] = f /\ \A k \in 1 .. Len(xstack) - 1 : stack[k] = xstack[k]
  <2> DEFINE fr == Front(xstack)
  <2>1. fr \in Seq(Frame) /\ Len(fr) = Len(xstack) - 1
    BY <1>2
  <2> HIDE DEF f, fr
  <2>2. /\ Append(fr, f) \in Seq(Frame) /\ Len(Append(fr, f)) = Len(xstack)
        /\ DOMAIN Append(fr, f) = 1 .. Len(xstack)
        /\ Append(fr, f)[Len(xstack)] = f /\ \A k \in 1 .. Len(xstack) - 1 : Append(fr, f)[k] = fr[k]
    BY <1>2, <1>4, <2>1
  <2> USE DEF fr
  <2> QED BY <1>2, <2>2
<1> HIDE DEF top, d, f, stack
<1>6. \A k \in DOMAIN stack : stack[k].name = xstack[k].name
  BY <1>2, <1>4, <1>5
<1>7. Paths(xleft, stack, {d})
  <2>1. \A k, l \in DOMAIN stack : stack[k].name = stack[l].name => k = l
    BY <1>1, <1>2, <1>5, <1>6 DEF Paths
  <2>2. ASSUME NEW k \in DOMAIN stack
        PROVE  /\ stack[k].name \notin Visited
               /\ stack[k].deps \subseteq xgraph[stack[k].name]
               /\ k < Len(stack) => stack[k + 1].name \in xgraph[stack[k].name]
               /\ k = Len(stack) => {d} \subseteq xgraph[stack[k].name]
               /\ \A e \in xgraph[stack[k].name] :
                    \/ e \in stack[k].deps \/ e \in Visited
                    \/ k < Len(stack) /\ e = stack[k + 1].name
                    \/ k = Len(stack) /\ e \in {d}
    <3>0. k \in DOMAIN xstack /\ stack[k].name = xstack[k].name
      BY <1>2, <1>5, <1>6
    <3>1. CASE k = Len(xstack)
      BY <1>1, <1>2, <1>3, <1>4, <1>5, <3>0, <3>1 DEF Paths
    <3>2. CASE k \in 1 .. Len(xstack) - 1
      <4>1. k < Len(stack) /\ k < Len(xstack) /\ k + 1 \in DOMAIN stack /\ stack[k + 1].name = xstack[k + 1].name
        BY <1>2, <1>5, <1>6, <3>2
      <4>2. stack[k].deps = xstack[k].deps
        BY <1>5, <3>2
      <4> QED BY <1>1, <1>5, <3>0, <4>1, <4>2 DEF Paths
    <3> QED BY <1>2, <1>5, <3>1, <3>2
  <2>3. \A m \in Releases : m \in Range(xleft) \/ m \in Visited \/ \E k \in DOMAIN stack : stack[k].name = m
    BY <1>1, <1>2, <1>5, <1>6 DEF Paths
  <2> QED BY <2>1, <2>2, <2>3 DEF Paths
<1>8. d \in Visiting \/ d \notin Releases => ~WellFormed(xgraph)
  <2>1. CASE d \notin Releases
    <3>1. top.name \in Releases /\ d \in xgraph[top.name]
      BY <1>1, <1>2, <1>3 DEF Paths, Frame
    <3> QED BY <2>1, <3>1 DEF WellFormed, Releases
  <2>2. CASE d \in Visiting
    <3>1. PICK l \in DOMAIN xstack : xstack[l].name = d
      BY <2>2 DEF Visiting
    <3> DEFINE S == {xstack[k].name : k \in l .. Len(xstack)}
    <3>2. S \subseteq Releases /\ S # {}
      <4>1. \A k \in l .. Len(xstack) : xstack[k] \in Frame
        BY <1>1, <1>2, <3>1, SeqFacts
      <4>2. l \in l .. Len(xstack)
        BY <1>2, <3>1
      <4> QED BY <4>1, <4>2 DEF Frame
    <3>3. ASSUME NEW k \in l .. Len(xstack) PROVE xgraph[xstack[k].name] \cap S # {}
      <4>1. CASE k = Len(xstack)
        <5>1. d \in S
          BY <1>2, <3>1
        <5>2. d \in xgraph[xstack[k].name]
          BY <1>1, <1>2, <1>3, <4>1 DEF Paths
        <5> QED BY <5>1, <5>2
      <4>2. CASE k # Len(xstack)
        <5>1. k + 1 \in l .. Len(xstack) /\ k \in DOMAIN xstack /\ k < Len(xstack)
          BY <1>2, <3>1, <4>2
        <5>2. xstack[k + 1].name \in xgraph[xstack[k].name]
          BY <1>1, <5>1 DEF Paths
        <5>3. xstack[k + 1].name \in S
          BY <5>1
        <5> QED BY <5>2, <5>3
      <4> QED BY <4>1, <4>2
    <3>4. \A m \in S : xgraph[m] \cap S # {}
      BY <3>3
    <3> HIDE DEF S
    <3> QED BY <3>2, <3>4, CycleFound
  <2> QED BY <2>1, <2>2
<1> QED BY <1>1, <1>2, <1>5, <1>6, <1>7, <1>8, VisitStep

LEMMA VisitReturnsStep == CrossInv /\ VisitReturns => CrossInv'
<1> SUFFICES ASSUME CrossInv, VisitReturns PROVE CrossInv'
  OBVIOUS
<1> DEFINE top == Last(xstack)
<1>1. /\ xresult = "sorting" /\ ~Kahn /\ xstack # <<>> /\ top.deps = {}
      /\ xorder' = Append(xorder, top.name) /\ xstack' = Front(xstack)
      /\ UNCHANGED <<xgraph, xop, xresult, xindeg, xqueue, xleft, working>>
      /\ xstack \in Seq(Frame) /\ Paths(xleft, xstack, {})
      /\ CrossType /\ Once(xorder) /\ AfterDeps(xorder)
  BY DEF VisitReturns, CrossInv, CrossType, SearchInv, OrderInv
<1>2. /\ xstack' \in Seq(Frame) /\ Len(xstack') = Len(xstack) - 1
      /\ \A k \in 1 .. Len(xstack) - 1 : xstack'[k] = xstack[k]
      /\ top \in Frame /\ top = xstack[Len(xstack)] /\ Len(xstack) \in Nat \ {0}
      /\ DOMAIN xstack = 1 .. Len(xstack) /\ DOMAIN xstack' = 1 .. Len(xstack) - 1
  <2>1. xstack \in Seq(Frame) /\ xstack # <<>> /\ xstack' = Front(xstack)
    BY <1>1
  <2>2. /\ xstack' \in Seq(Frame) /\ Len(xstack') = Len(xstack) - 1
        /\ \A k \in 1 .. Len(xstack) - 1 : xstack'[k] = xstack[k]
        /\ top \in Frame /\ top = xstack[Len(xstack)] /\ Len(xstack) \in Nat \ {0}
    BY <2>1, FrontFacts
  <2>3. DOMAIN xstack = 1 .. Len(xstack) /\ DOMAIN xstack' = 1 .. Len(xstack')
    BY <2>1, <2>2, SeqFacts
  <2> HIDE DEF top
  <2> QED BY <2>2, <2>3
<1>3. /\ top.name \in Releases /\ top.name \notin Visited /\ xgraph[top.name] \subseteq Visited
  BY <1>1, <1>2 DEF Paths, Frame
<1> HIDE DEF top
<1>4. /\ xorder' \in Seq(Releases) /\ Once(xorder') /\ AfterDeps(xorder)'
      /\ Visited' = Visited \cup {top.name} /\ Releases' = Releases
  BY <1>1, <1>3, OrderGrows
<1>5. CrossType'
  BY <1>1, <1>2, <1>4 DEF CrossType, Frame, working
<1>6. OrderInv' /\ KahnInv' /\ ResultInv'
  BY <1>1, <1>4 DEF OrderInv, Once, KahnInv, Kahn, ResultInv
<1>7. SearchInv'
  <2>1. \A k, l \in DOMAIN xstack' : xstack'[k].name = xstack'[l].name => k = l
    <3>1. \A k, l \in DOMAIN xstack : xstack[k].name = xstack[l].name => k = l
      BY <1>1 DEF Paths
    <3>2. \A k \in DOMAIN xstack' : k \in DOMAIN xstack /\ xstack'[k] = xstack[k]
      BY <1>2
    <3> QED BY <3>1, <3>2
  <2>2. ASSUME NEW k \in DOMAIN xstack'
        PROVE  /\ xstack'[k].name \notin Visited'
               /\ xstack'[k].deps \subseteq xgraph[xstack'[k].name]
               /\ k < Len(xstack') => xstack'[k + 1].name \in xgraph[xstack'[k].name]
               /\ \A e \in xgraph[xstack'[k].name] :
                    \/ e \in xstack'[k].deps \/ e \in Visited'
                    \/ k < Len(xstack') /\ e = xstack'[k + 1].name
    <3>1. k \in DOMAIN xstack /\ k < Len(xstack) /\ xstack'[k] = xstack[k] /\ Len(xstack) \in DOMAIN xstack
      BY <1>2
    <3>2. xstack[k].name # top.name
      BY <1>1, <1>2, <3>1 DEF Paths
    <3>3. CASE k = Len(xstack) - 1
      <4>1. k + 1 = Len(xstack) /\ ~(k < Len(xstack')) /\ xstack[k + 1] = top
        BY <1>2, <3>3
      <4> QED BY <1>1, <1>4, <3>1, <3>2, <4>1 DEF Paths
    <3>4. CASE k # Len(xstack) - 1
      <4>1. k < Len(xstack') /\ xstack'[k + 1] = xstack[k + 1]
        BY <1>2, <3>4
      <4> QED BY <1>1, <1>4, <3>1, <3>2, <4>1 DEF Paths
    <3> QED BY <3>3, <3>4
  <2>3. ASSUME NEW m \in Releases
        PROVE  m \in Range(xleft) \/ m \in Visited' \/ \E k \in DOMAIN xstack' : xstack'[k].name = m
    <3>1. ASSUME NEW k \in DOMAIN xstack, xstack[k].name = m
          PROVE  m \in Visited' \/ \E l \in DOMAIN xstack' : xstack'[l].name = m
      BY <1>2, <1>4, <3>1
    <3> QED BY <1>1, <1>4, <3>1 DEF Paths
  <2>4. Paths(xleft, xstack, {})'
    BY <1>1, <1>4, <2>1, <2>2, <2>3 DEF Paths
  <2> QED BY <2>4 DEF SearchInv
<1>8. RunXInv'
  <2>1. Len(xorder) \in Nat /\ Len(xorder') = Len(xorder) + 1
    BY <1>1 DEF CrossType
  <2> QED BY <1>1, <2>1 DEF CrossInv, RunXInv, CrossType, working
<1> QED BY <1>5, <1>6, <1>7, <1>8 DEF CrossInv

LEMMA PlanPrintedStep == CrossInv /\ PlanPrinted => CrossInv'
<1> SUFFICES ASSUME CrossInv, PlanPrinted PROVE CrossInv'
  OBVIOUS
<1>1. /\ xresult = "sorting" /\ ~Kahn /\ xstack = <<>> /\ xleft = <<>> /\ xresult' = "ok"
      /\ UNCHANGED <<xgraph, xop, sorting, working>>
      /\ CrossType /\ Once(xorder) /\ AfterDeps(xorder) /\ Paths(xleft, xstack, {}) /\ xorder \in Seq(Releases)
  BY DEF PlanPrinted, CrossInv, CrossType, SearchInv, OrderInv
<1>2. Range(xorder) = Releases
  <2>1. (\A k \in DOMAIN xstack : FALSE) /\ Range(xleft) = {}
    BY <1>1 DEF Range
  <2>2. Releases \subseteq Range(xorder)
    BY <1>1, <2>1 DEF Paths, Visited
  <2>3. Range(xorder) \subseteq Releases
    BY <1>1, SeqFacts DEF Range
  <2> QED BY <2>2, <2>3
<1>3. WellFormed(xgraph) /\ Len(xorder) = Cardinality(Releases)
  BY <1>1, <1>2, Complete
<1>4. Straight = xorder /\ Straight' = xorder /\ Releases' = Releases
  BY <1>1 DEF Straight, Kahn, sorting, Releases
<1>5. CrossType' /\ RunXInv'
  BY <1>1, <1>4 DEF CrossInv, CrossType, Frame, RunXInv, sorting, working
<1>6. OrderInv' /\ KahnInv' /\ SearchInv'
  BY <1>1 DEF OrderInv, KahnInv, SearchInv
<1>7. ResultInv'
  <2>1. WellFormed(xgraph)' /\ AfterDeps(Straight)' /\ Once(Straight)'
    BY <1>1, <1>3, <1>4 DEF WellFormed, Acyclic, AfterDeps, Once
  <2> QED BY <1>1, <1>2, <1>3, <1>4, <2>1 DEF ResultInv
<1> QED BY <1>5, <1>6, <1>7 DEF CrossInv

(* What a step of the operations leaves alone.                             *)
LEMMA SameOrder ==
  ASSUME CrossInv, UNCHANGED <<xgraph, xop, sorting>>, xresult = "none", xresult' \in {"none", "failed", "ok"},
         xpos' \in Nat
  PROVE  CrossType' /\ OrderInv' /\ KahnInv' /\ SearchInv' /\ ResultInv'
<1>1. CrossType' /\ OrderInv' /\ KahnInv' /\ SearchInv'
  BY DEF CrossInv, CrossType, Frame, Releases, OrderInv, KahnInv, SearchInv, sorting
<1>2. Straight' = Straight /\ Releases' = Releases
  BY DEF Straight, Releases, sorting
<1>3. ResultInv'
  BY <1>2 DEF CrossInv, ResultInv, WellFormed, Acyclic, AfterDeps, Once
<1> QED BY <1>1, <1>3

LEMMA ReleaseStep == CrossInv /\ Release => CrossInv'
<1> SUFFICES ASSUME CrossInv, Release PROVE CrossInv'
  OBVIOUS
<1>1. /\ xresult = "none" /\ xpos < Len(xorder) /\ xpos' = xpos + 1 /\ UNCHANGED <<xgraph, xop, sorting>>
      /\ \/ UNCHANGED <<xfailed, xresult>>
         \/ /\ xfailed' = xfailed \cup {xorder[xpos + 1]}
            /\ xresult' = IF xop = "uninstall" THEN "none" ELSE "failed"
      /\ xpos \in Nat /\ Len(xorder) \in Nat
      /\ xop # "uninstall" => xfailed = {}
  BY DEF Release, AfterFailure, CrossInv, CrossType, RunXInv
<1>2. CrossType' /\ OrderInv' /\ KahnInv' /\ SearchInv' /\ ResultInv'
  BY <1>1, SameOrder
<1>3. RunXInv'
  BY <1>1 DEF RunXInv, sorting
<1> QED BY <1>2, <1>3 DEF CrossInv

LEMMA FinishedStep == CrossInv /\ Finished => CrossInv'
<1> SUFFICES ASSUME CrossInv, Finished PROVE CrossInv'
  OBVIOUS
<1>1. /\ xresult = "none" /\ xresult' = "ok" /\ UNCHANGED <<xgraph, xop, sorting, working>> /\ xpos \in Nat
  BY DEF Finished, CrossInv, CrossType
<1>2. CrossType' /\ OrderInv' /\ KahnInv' /\ SearchInv' /\ ResultInv'
  BY <1>1, SameOrder DEF working
<1>3. RunXInv'
  BY <1>1 DEF CrossInv, RunXInv, sorting, working
<1> QED BY <1>2, <1>3 DEF CrossInv

LEMMA CrossInvariant == CrossSpec => []CrossInv
<1>1. CrossInv /\ [CrossStep]_xvars => CrossInv'
  <2>1. CrossInv /\ UNCHANGED xvars => CrossInv'
    <3> SUFFICES ASSUME CrossInv, UNCHANGED xvars PROVE CrossInv'
      OBVIOUS
    <3>1. UNCHANGED <<xgraph, xop, xresult, xindeg, xqueue, xleft, xstack, xorder, xpos, xfailed>>
      BY DEF xvars, sorting, working
    <3>2. CrossType' /\ OrderInv' /\ KahnInv' /\ RunXInv'
      BY <3>1 DEF CrossInv, CrossType, Frame, Releases, OrderInv, Once, AfterDeps, KahnInv, Closed, Kahn,
                  Visited, RunXInv
    <3>3. SearchInv'
      BY <3>1 DEF CrossInv, SearchInv, Paths, Visited, Releases, Kahn
    <3>4. ResultInv'
      BY <3>1 DEF CrossInv, ResultInv, WellFormed, Acyclic, Straight, Once, AfterDeps, Releases
    <3> QED BY <3>2, <3>3, <3>4 DEF CrossInv
  <2> QED BY <2>1, ReadReleasesStep, DequeueStep, SortedStep, ReadMembersStep, VisitMemberStep,
             VisitDependencyStep, VisitReturnsStep, PlanPrintedStep, ReleaseStep, FinishedStep DEF CrossStep
<1> QED BY <1>1, InitCross, PTL DEF CrossSpec

(* runReleasesAction: for every file of releases, and whatever fails, the  *)
(* releases already done include all a release depends on, without a       *)
(* failure, and for uninstall all that depend on it.                       *)
THEOREM ReleasesOrdered == CrossSpec => []ReleasesInOrder
<1>1. CrossInv => ReleasesInOrder
  <2> SUFFICES ASSUME CrossInv, NEW j \in 1 .. xpos
               PROVE  IF xop = "uninstall"
                      THEN \A n \in Releases : xorder[j] \in xgraph[n] => \E i \in 1 .. j - 1 : xorder[i] = n
                      ELSE /\ \A d \in xgraph[xorder[j]] : d \notin xfailed /\ \E i \in 1 .. j - 1 : xorder[i] = d
                           /\ xresult = "ok" => xfailed = {}
    BY DEF ReleasesInOrder
  <2>1. /\ xpos \in Nat /\ xpos <= Len(xorder) /\ xresult \in {"none", "failed", "ok"}
        /\ xorder \in Seq(Releases) /\ Len(xorder) \in Nat /\ DOMAIN xorder = 1 .. Len(xorder)
    <3>1. xpos \in Nat /\ xpos # 0
      BY DEF CrossInv, CrossType
    <3> QED BY <3>1, SeqFacts DEF CrossInv, CrossType, RunXInv
  <2>2. Once(Straight) /\ AfterDeps(Straight) /\ Range(Straight) = Releases
    BY <2>1 DEF CrossInv, ResultInv
  <2>3. CASE xop # "uninstall"
    <3>1. Straight = xorder
      BY <2>3 DEF Straight
    <3>2. ASSUME NEW d \in xgraph[xorder[j]] PROVE d \notin xfailed /\ \E i \in 1 .. j - 1 : xorder[i] = d
      <4>1. PICK i \in 1 .. j - 1 : xorder[i] = d
        BY <2>1, <2>2, <3>1 DEF AfterDeps
      <4>2. ASSUME d \in xfailed PROVE FALSE
        <5>1. xorder[xpos] = d
          BY <2>3, <4>2 DEF CrossInv, RunXInv
        <5>2. i \in DOMAIN xorder /\ xpos \in DOMAIN xorder /\ i < xpos
          BY <2>1
        <5> QED BY <2>2, <3>1, <4>1, <5>1, <5>2 DEF Once
      <4> QED BY <4>1, <4>2
    <3>3. xresult = "ok" => xfailed = {}
      BY <2>3 DEF CrossInv, RunXInv
    <3> QED BY <2>3, <3>2, <3>3
  <2>4. CASE xop = "uninstall"
    <3> DEFINE o == Reverse(xorder)
               L == Len(xorder)
    <3>1. /\ Straight = o /\ o \in Seq(Releases) /\ Len(o) = L /\ DOMAIN o = 1 .. L
          /\ \A i \in 1 .. L : o[i] = xorder[L - i + 1]
      BY <2>1, <2>4, ReverseFacts, SeqFacts DEF Straight
    <3> HIDE DEF o
    <3>2. ASSUME NEW n \in Releases, xorder[j] \in xgraph[n]
          PROVE  \E i \in 1 .. j - 1 : xorder[i] = n
      <4>1. PICK k \in 1 .. L : o[k] = n
        BY <2>2, <3>1 DEF Range
      <4>2. PICK i \in 1 .. k - 1 : o[i] = xorder[j]
        <5>1. AfterDeps(o) /\ k \in DOMAIN o /\ xorder[j] \in xgraph[o[k]]
          BY <2>2, <3>1, <3>2, <4>1
        <5> QED BY <5>1 DEF AfterDeps
      <4>3. i \in DOMAIN o /\ L - j + 1 \in DOMAIN o /\ o[L - j + 1] = xorder[j]
        <5>1. L - j + 1 \in 1 .. L /\ L - (L - j + 1) + 1 = j
          BY <2>1
        <5> QED BY <2>1, <3>1, <5>1
      <4>4. i = L - j + 1
        BY <2>2, <3>1, <4>2, <4>3 DEF Once
      <4>5. L - k + 1 \in 1 .. j - 1 /\ xorder[L - k + 1] = n
        BY <2>1, <3>1, <4>1, <4>4
      <4> QED BY <4>5
    <3> QED BY <2>4, <3>2
  <2> QED BY <2>3, <2>4
<1> QED BY <1>1, CrossInvariant, PTL

-----------------------------------------------------------------------------
(* The run over the members of a workspace.                                *)

(* The members of the n-th level to run, and those that have a result.     *)
At(n) == levels[Nth(n)]
Worked == {completed[i].member : i \in DOMAIN completed}
DoneTo(k) == \A n \in 1 .. k : \A m \in At(n) : Done(m)

(* The number of the running level is the number of a level.               *)
LevelInv ==
    /\ level <= Len(levels)
    /\ pc \in {"run", "gate", "decide"} => level > 0

PlanInv ==
    /\ \A i \in DOMAIN levels : levels[i] \subseteq Member
    /\ \A i, j \in DOMAIN levels : \A m \in levels[i] : m \in levels[j] => i = j
    /\ \A i \in DOMAIN levels : \A m \in levels[i] : \A d \in graph[m] :
         \E j \in 1 .. i - 1 : d \in levels[j]
    /\ pc = "load" => levels = <<>>
    /\ pc = "levels" => \A m \in Member : indeg[m] = graph[m] \ Placed
    /\ pc \in {"next", "run", "gate", "decide"} => Placed = Member

RunInv ==
    /\ pc \in {"load", "levels"} => level = 0 /\ completed = <<>>
    /\ pc # "run" => todo = {} /\ running = {}
    /\ pc = "run" =>
         /\ todo \cup running \subseteq At(level)
         /\ At(level) \subseteq todo \cup running \cup Worked
         /\ todo \cap running = {} /\ (todo \cup running) \cap Worked = {}
    /\ pc \in {"gate", "decide"} => At(level) \subseteq Worked
    /\ pc = "next" => DoneTo(level)
    /\ pc \in {"run", "gate", "decide"} => DoneTo(level - 1)
    /\ \A i, j \in DOMAIN completed : completed[i].member = completed[j].member => i = j
    /\ \A m \in Worked : \E n \in 1 .. level : m \in At(n)
    /\ pc = "undo" => ~opts.goOn
    /\ pc = "done" /\ (result = "ok" \/ (result = "failed" /\ opts.goOn)) =>
         Worked = Member /\ (result = "ok" <=> Failures = {})

TypeInv == WorkspaceTypeOK /\ LevelInv
WorkspaceInv == TypeInv /\ PlanInv /\ RunInv

USE NameAssumption, GraphsAssumption, OptionsAssumption, FaultsAssumption

-----------------------------------------------------------------------------
(* Types.                                                                  *)

(* The members of a workspace file are names, and so is what they depend   *)
(* on.                                                                     *)
LEMMA GraphType ==
  ASSUME graph \in Graphs
  PROVE  Member \subseteq Name /\ graph \in [Member -> SUBSET Name]
BY DEF Member

(* The n-th level to run is one of the levels, and the order of the run    *)
(* covers them all.                                                        *)
LEMMA NthLevel ==
  ASSUME WorkspaceTypeOK, NEW n \in 1 .. Len(levels)
  PROVE  /\ Nth(n) \in 1 .. Len(levels)
         /\ Nth(Nth(n)) = n
BY DEF WorkspaceTypeOK, Nth

LEMMA LevelType ==
  ASSUME WorkspaceTypeOK, NEW n \in 1 .. Len(levels)
  PROVE  levels[Nth(n)] \subseteq Name
<1>1. Nth(n) \in 1 .. Len(levels)
  BY NthLevel
<1>. QED
  BY <1>1, ElementOfSeq DEF WorkspaceTypeOK

(* The variables have their types when the command starts.                 *)
LEMMA InitType == WorkspaceInit => TypeInv
<1>. SUFFICES ASSUME WorkspaceInit
              PROVE  TypeInv
  OBVIOUS
<1>1. rel \in [Name -> Content]
  BY DEF WorkspaceInit, Content
<1>2. indeg \in [Name -> SUBSET Name]
  BY DEF WorkspaceInit
<1>. QED
  BY <1>1, <1>2 DEF WorkspaceInit, WorkspaceTypeOK, TypeInv, LevelInv

(* Every step of the command keeps them.                                   *)
LEMMA StepType == TypeInv /\ [WorkspaceNext]_wvars => TypeInv'
<1>. SUFFICES ASSUME TypeInv, [WorkspaceNext]_wvars
              PROVE  TypeInv'
  OBVIOUS
<1>. USE DEF TypeInv, LevelInv
<1>1. CASE Load
  <2>1. CASE ~Acceptable
    BY <1>1, <2>1 DEF Load, Refuse, WorkspaceTypeOK
  <2>2. CASE Acceptable
    <3>1. indeg' \in [Name -> SUBSET Name]
      <4>1. \A m \in Member : graph[m] \subseteq Name
        BY GraphType DEF WorkspaceTypeOK
      <4>. QED
        BY <1>1, <2>2, <4>1 DEF Load, WorkspaceTypeOK
    <3>. QED
      BY <1>1, <2>2, <3>1 DEF Load, WorkspaceTypeOK
  <2>. QED
    BY <2>1, <2>2
<1>2. CASE Peel
  <2>1. Next0 \subseteq Name
    BY GraphType DEF Next0, WorkspaceTypeOK
  <2>2. levels' \in Seq(SUBSET Name) /\ Len(levels') = Len(levels) + 1
    BY <1>2, <2>1 DEF Peel, WorkspaceTypeOK
  <2>3. indeg' \in [Name -> SUBSET Name]
    BY <1>2 DEF Peel, WorkspaceTypeOK
  <2>. QED
    BY <1>2, <2>2, <2>3 DEF Peel, WorkspaceTypeOK
<1>3. CASE Planned
  BY <1>3 DEF Planned, Refuse, WorkspaceTypeOK
<1>4. CASE Advance
  <2>1. CASE level < Len(levels)
    <3>1. level + 1 \in 1 .. Len(levels)
      BY <2>1 DEF WorkspaceTypeOK
    <3>2. levels[Nth(level + 1)] \subseteq Name
      BY <3>1, LevelType
    <3>. QED
      BY <1>4, <2>1, <3>1, <3>2 DEF Advance, plan, WorkspaceTypeOK
  <2>2. CASE ~(level < Len(levels))
    BY <1>4, <2>2 DEF Advance, plan, WorkspaceTypeOK
  <2>. QED
    BY <2>1, <2>2
<1>5. CASE LevelDone
  <2>1. level \in 1 .. Len(levels)
    BY <1>5 DEF LevelDone, WorkspaceTypeOK
  <2>2. levels[Nth(level)] \subseteq Name
    BY <2>1, LevelType
  <2>. QED
    BY <1>5, <2>2 DEF LevelDone, plan, WorkspaceTypeOK
<1>6. CASE GateDone
  BY <1>6 DEF GateDone, plan, WorkspaceTypeOK
<1>7. CASE Decide
  BY <1>7 DEF Decide, plan, WorkspaceTypeOK
<1>8. CASE Undo
  <2>1. undo[Len(undo)] \in Result
    BY <1>8 DEF Undo, WorkspaceTypeOK
  <2>2. rel' \in [Name -> Content]
    BY <1>8, <2>1 DEF Undo, WorkspaceTypeOK, Result, Content
  <2>3. undo' \in Seq(Result)
    BY <1>8 DEF Undo, WorkspaceTypeOK
  <2>4. faults' \in 0 .. MaxFaults
    BY <1>8 DEF Undo, WorkspaceTypeOK
  <2>. QED
    BY <1>8, <2>2, <2>3, <2>4 DEF Undo, plan, WorkspaceTypeOK
<1>9. CASE UndoDone
  BY <1>9 DEF UndoDone, plan, WorkspaceTypeOK
<1>10. ASSUME NEW m \in Name, Start(m)
       PROVE  TypeInv'
  BY <1>10 DEF Start, plan, WorkspaceTypeOK
<1>11. ASSUME NEW m \in Name, Finish(m)
       PROVE  TypeInv'
  <2>1. PICK ok \in BOOLEAN : /\ IF ok THEN Succeeds(m) ELSE Fails(m)
                              /\ completed' = Append(completed, [member |-> m, ok |-> ok])
    BY <1>11 DEF Finish
  <2>2. rel' \in [Name -> Content] /\ faults' \in 0 .. MaxFaults
    <3>1. CASE Succeeds(m)
      <4>1. /\ rel' \in {rel, [rel EXCEPT ![m] = "absent"], [rel EXCEPT ![m] = "new"]}
            /\ faults' \in {faults, faults - 1} /\ (faults' = faults \/ faults > 0)
        BY <3>1 DEF Succeeds
      <4> QED BY <4>1 DEF WorkspaceTypeOK, Content
    <3>2. CASE Fails(m)
      <4>1. rel' \in {rel, [rel EXCEPT ![m] = "torn"]} /\ faults' \in {faults, faults - 1}
            /\ (faults' = faults \/ faults > 0)
        BY <3>2 DEF Fails
      <4> QED BY <4>1 DEF WorkspaceTypeOK, Content
    <3> QED BY <2>1, <3>1, <3>2
  <2>3. completed' \in Seq(Result)
    <3>1. [member |-> m, ok |-> ok] \in Result
      BY DEF Result
    <3>. QED
      BY <2>1, <3>1 DEF WorkspaceTypeOK
  <2>. QED
    BY <1>11, <2>2, <2>3 DEF Finish, plan, WorkspaceTypeOK
<1>12. ASSUME NEW m \in Name, GatePasses(m)
       PROVE  TypeInv'
  BY <1>12 DEF GatePasses, plan, WorkspaceTypeOK
<1>13. ASSUME NEW m \in Name, GateFails(m)
       PROVE  TypeInv'
  BY <1>13 DEF GateFails, plan, WorkspaceTypeOK
<1>14. CASE WorkspaceRest \/ UNCHANGED wvars
  BY <1>14 DEF WorkspaceRest, wvars, WorkspaceTypeOK
<1>. QED
  BY <1>1, <1>2, <1>3, <1>4, <1>5, <1>6, <1>7, <1>8, <1>9, <1>10, <1>11, <1>12, <1>13,
     <1>14 DEF WorkspaceNext, WorkspaceStep

-----------------------------------------------------------------------------
(* The levels.                                                             *)

(* Before a file is loaded there is no level.                              *)
LEMMA InitPlan == WorkspaceInit => PlanInv
BY DEF WorkspaceInit, PlanInv, Placed

(* A round of Levels adds a level that is disjoint from the ones before    *)
(* it and depends only on them: what is left of the dependencies of each   *)
(* of its members is empty.                                                *)
LEMMA PeelPlan == TypeInv /\ PlanInv /\ Peel => PlanInv'
<1>. SUFFICES ASSUME TypeInv, PlanInv, Peel
              PROVE  PlanInv'
  OBVIOUS
<1>1. /\ pc = "levels" /\ pc' = "levels" /\ graph' = graph /\ Member' = Member
      /\ Next0 \subseteq Name /\ levels \in Seq(SUBSET Name)
  BY GraphType DEF Peel, Next0, Member, TypeInv, WorkspaceTypeOK
<1> DEFINE L == Len(levels)
<1>2. /\ L \in Nat /\ DOMAIN levels = 1 .. L
      /\ levels' = Append(levels, Next0) /\ DOMAIN levels' = 1 .. L + 1
      /\ \A i \in 1 .. L : levels'[i] = levels[i]
      /\ levels'[L + 1] = Next0
  BY <1>1 DEF Peel
<1>3. Placed' = Placed \cup Next0
  BY <1>2 DEF Placed
<1>4. \A m \in Next0 : m \in Member /\ m \notin Placed /\ graph[m] \subseteq Placed
  BY <1>1 DEF Next0, PlanInv
<1>5. \A i \in 1 .. L + 1 : levels'[i] \subseteq Member
  BY <1>2, <1>4 DEF PlanInv
<1>6. ASSUME NEW i \in 1 .. L + 1, NEW j \in 1 .. L + 1, NEW m \in levels'[i], m \in levels'[j]
      PROVE  i = j
  <2>1. \A k \in 1 .. L : \A n \in levels[k] : n \notin Next0
    BY <1>2, <1>4 DEF Placed
  <2>2. CASE i \in 1 .. L /\ j \in 1 .. L
    BY <1>2, <1>6, <2>2 DEF PlanInv
  <2>3. CASE i = L + 1 /\ j \in 1 .. L
    BY <1>2, <1>6, <2>1, <2>3
  <2>4. CASE i \in 1 .. L /\ j = L + 1
    BY <1>2, <1>6, <2>1, <2>4
  <2>. QED
    BY <1>2, <2>2, <2>3, <2>4
<1>7. ASSUME NEW i \in 1 .. L + 1, NEW m \in levels'[i], NEW d \in graph[m]
      PROVE  \E j \in 1 .. i - 1 : d \in levels'[j]
  <2>1. CASE i \in 1 .. L
    <3>1. \E j \in 1 .. i - 1 : d \in levels[j]
      BY <1>2, <1>7, <2>1 DEF PlanInv
    <3>. QED
      BY <1>2, <2>1, <3>1
  <2>2. CASE i = L + 1
    <3>1. d \in Placed
      BY <1>2, <1>4, <2>2
    <3>2. PICK j \in 1 .. L : d \in levels[j]
      BY <1>2, <3>1 DEF Placed
    <3>. QED
      BY <1>2, <2>2, <3>2
  <2>. QED
    BY <1>2, <2>1, <2>2
<1>8. \A m \in Member : indeg'[m] = graph[m] \ Placed'
  <2>. SUFFICES ASSUME NEW m \in Member
                PROVE  indeg'[m] = graph[m] \ (Placed \cup Next0)
    BY <1>3
  <2>1. m \in Name /\ indeg[m] = graph[m] \ Placed
    BY <1>1, GraphType DEF PlanInv, TypeInv, WorkspaceTypeOK
  <2>2. indeg'[m] = indeg[m] \ Next0
    BY <2>1 DEF Peel
  <2>. QED
    BY <2>1, <2>2
<1>9. DOMAIN levels' = 1 .. L + 1 /\ pc' = "levels" /\ graph' = graph /\ Member' = Member
  BY <1>1, <1>2
<1>. HIDE DEF L
<1>. QED
  BY <1>5, <1>6, <1>7, <1>8, <1>9 DEF PlanInv

(* No other step touches the levels, and a run starts only when they hold  *)
(* every member.                                                           *)
LEMMA StepPlan == TypeInv /\ PlanInv /\ [WorkspaceNext]_wvars => PlanInv'
<1>. SUFFICES ASSUME TypeInv, PlanInv, [WorkspaceNext]_wvars
              PROVE  PlanInv'
  OBVIOUS
<1>1. CASE Load
  <2>1. /\ UNCHANGED <<graph, levels>> /\ levels = <<>>
        /\ pc' = "done" \/ (pc' = "levels" /\ Acceptable
                            /\ indeg' = [m \in Name |-> IF m \in Member THEN graph[m] ELSE {}])
    BY <1>1 DEF Load, Refuse, PlanInv
  <2>2. \A m \in Member : m \in Name
    BY GraphType DEF TypeInv, WorkspaceTypeOK
  <2>3. Placed' = {} /\ Member' = Member /\ DOMAIN levels' = {} /\ levels' = <<>>
    BY <2>1 DEF Placed, Member
  <2>4. pc' = "levels" => \A m \in Member : indeg'[m] = graph[m]
    BY <2>1, <2>2
  <2>5. pc' \in {"done", "levels"} /\ graph' = graph
    BY <2>1
  <2>. QED
    BY <2>3, <2>4, <2>5 DEF PlanInv
<1>2. CASE Peel
  BY <1>2, PeelPlan
<1>3. CASE Planned
  <2>1. /\ UNCHANGED <<graph, levels>>
        /\ pc' = "done" \/ (pc' = "next" /\ Placed = Member)
    BY <1>3 DEF Planned, Refuse, Stuck
  <2>. QED
    BY <2>1 DEF PlanInv, Placed, Member
<1>4. CASE ~Load /\ ~Peel /\ ~Planned
  <2>1. UNCHANGED plan /\ (pc' \in {"next", "run", "gate", "decide"} =>
                             pc' = pc \/ pc \in {"next", "run", "gate", "decide"})
        /\ (pc' \in {"load", "levels"} => pc' = pc)
    BY <1>4, Zenon DEF WorkspaceNext, WorkspaceStep, Advance, LevelDone, GateDone, Decide, Undo, UndoDone,
               Start, Finish, GatePasses, GateFails, WorkspaceRest, wvars, plan
  <2>. QED
    BY <2>1 DEF plan, PlanInv, Placed, Member
<1>. QED
  BY <1>1, <1>2, <1>3, <1>4

-----------------------------------------------------------------------------
(* The run.                                                                *)

(* Different turns of the run belong to disjoint levels.                   *)
LEMMA DisjointTurns ==
  ASSUME TypeInv, PlanInv, NEW i \in 1 .. Len(levels), NEW j \in 1 .. Len(levels),
         NEW m \in At(i), m \in At(j)
  PROVE  i = j
<1>1. /\ Nth(i) \in 1 .. Len(levels) /\ Nth(Nth(i)) = i
      /\ Nth(j) \in 1 .. Len(levels) /\ Nth(Nth(j)) = j
  BY NthLevel DEF TypeInv
<1>2. DOMAIN levels = 1 .. Len(levels)
  BY DEF TypeInv, WorkspaceTypeOK
<1>3. Nth(i) = Nth(j)
  BY <1>1, <1>2 DEF PlanInv, At
<1>. QED
  BY <1>1, <1>3

(* After the last level every member of the file has had its turn.         *)
LEMMA EveryTurn ==
  ASSUME TypeInv, PlanInv, Placed = Member, NEW m \in Member
  PROVE  \E n \in 1 .. Len(levels) : m \in At(n)
<1>1. PICK k \in 1 .. Len(levels) : m \in levels[k]
  BY DEF Placed, TypeInv, WorkspaceTypeOK
<1>2. Nth(k) \in 1 .. Len(levels) /\ Nth(Nth(k)) = k
  BY NthLevel DEF TypeInv
<1>. QED
  BY <1>1, <1>2 DEF At

(* A member that counts as done has a result, and one that has a result    *)
(* counts as done unless its failure ends the run.                         *)
LEMMA DoneIsWorked ==
  ASSUME NEW m, Done(m)
  PROVE  m \in Worked
BY DEF Done, Worked

LEMMA WorkedIsDone ==
  ASSUME NEW m \in Worked, Failures = {} \/ opts.goOn
  PROVE  Done(m)
BY DEF Done, Worked, Failures

(* What is said of the levels and of the results does not change with the  *)
(* other variables.                                                        *)
LEMMA SameResults ==
  ASSUME UNCHANGED <<graph, opts, levels, completed>>
  PROVE  /\ \A n : At(n)' = At(n)
         /\ Worked' = Worked /\ Member' = Member /\ Failures' = Failures
         /\ \A m : Done(m)' = Done(m)
         /\ \A k : DoneTo(k)' = DoneTo(k)
BY DEF At, Nth, Worked, Member, Failures, Done, DoneTo

LEMMA InitRun == WorkspaceInit => RunInv
BY DEF WorkspaceInit, RunInv, Worked

(* The next level: its members have no result, since those that have one   *)
(* belong to levels that had their turn before.                            *)
LEMMA AdvanceRun == TypeInv /\ PlanInv /\ RunInv /\ Advance => RunInv'
<1>. SUFFICES ASSUME TypeInv, PlanInv, RunInv, Advance
              PROVE  RunInv'
  OBVIOUS
<1>1. /\ UNCHANGED <<graph, opts, levels, completed, running>>
      /\ pc = "next" /\ todo = {} /\ running = {} /\ DoneTo(level) /\ Placed = Member
      /\ level \in Nat /\ Len(levels) \in Nat /\ level <= Len(levels)
  BY DEF Advance, plan, RunInv, PlanInv, TypeInv, LevelInv, WorkspaceTypeOK
<1>2. \A m \in Worked : \E n \in 1 .. level : m \in At(n)
  BY DEF RunInv
<1>3. \A i, j \in DOMAIN completed : completed[i].member = completed[j].member => i = j
  BY DEF RunInv
<1>4. CASE level < Len(levels)
  <2>1. level' = level + 1 /\ todo' = At(level + 1) /\ pc' = "run"
    BY <1>4 DEF Advance, At
  <2>2. At(level + 1) \cap Worked = {}
    <3>. SUFFICES ASSUME NEW m \in At(level + 1), m \in Worked
                  PROVE  FALSE
      OBVIOUS
    <3>1. PICK n \in 1 .. level : m \in At(n)
      BY <1>2
    <3>2. n \in 1 .. Len(levels) /\ level + 1 \in 1 .. Len(levels) /\ n # level + 1
      BY <1>1, <1>4
    <3>. QED
      BY <3>1, <3>2, DisjointTurns
  <2>3. level' - 1 = level
    BY <1>1, <2>1
  <2>4. \A m \in Worked : \E n \in 1 .. level' : m \in At(n)
    BY <1>1, <1>2, <2>1
  <2>. QED
    BY <1>1, <1>3, <2>1, <2>2, <2>3, <2>4, SameResults DEF RunInv
<1>5. CASE ~(level < Len(levels))
  <2>1. level = Len(levels) /\ level' = level /\ todo' = todo /\ pc' = "done"
        /\ result' = (IF Failures = {} THEN "ok" ELSE "failed")
    BY <1>1, <1>5 DEF Advance
  <2>2. \A m \in Member : m \in Worked
    <3>. SUFFICES ASSUME NEW m \in Member
                  PROVE  m \in Worked
      OBVIOUS
    <3>1. PICK n \in 1 .. level : m \in At(n)
      BY <1>1, <2>1, EveryTurn
    <3>. QED
      BY <1>1, <3>1, DoneIsWorked DEF DoneTo
  <2>3. \A m \in Worked : m \in Member
    <3>. SUFFICES ASSUME NEW m \in Worked
                  PROVE  m \in Member
      OBVIOUS
    <3>1. PICK n \in 1 .. Len(levels) : m \in At(n)
      BY <1>2, <2>1
    <3>2. Nth(n) \in DOMAIN levels
      BY NthLevel DEF TypeInv, WorkspaceTypeOK
    <3>. QED
      BY <3>1, <3>2 DEF PlanInv, At
  <2>4. Worked' = Member' /\ (result' = "ok" <=> Failures' = {})
    BY <1>1, <2>1, <2>2, <2>3, SameResults
  <2>5. \A m \in Worked' : \E n \in 1 .. level' : m \in At(n)'
    BY <1>1, <1>2, <2>1, SameResults
  <2>. QED
    BY <1>1, <1>3, <2>1, <2>4, <2>5 DEF RunInv
<1>. QED
  BY <1>4, <1>5

(* After the last result of a level the run goes on only if each of its    *)
(* members counts as done.                                                 *)
LEMMA DecideRun == TypeInv /\ RunInv /\ Decide => RunInv'
<1>. SUFFICES ASSUME TypeInv, RunInv, Decide
              PROVE  RunInv'
  OBVIOUS
<1>1. /\ UNCHANGED <<graph, opts, levels, completed, running, todo, level>>
      /\ pc = "decide" /\ todo = {} /\ running = {} /\ DoneTo(level - 1)
      /\ At(level) \subseteq Worked /\ level \in Nat /\ level > 0
      /\ pc' \in {"next", "undo", "done"}
      /\ pc' = "next" => Failures = {} \/ opts.goOn
      /\ pc' = "undo" => ~opts.goOn
      /\ pc' = "done" => ~opts.goOn /\ result' = "failed"
  BY DEF Decide, plan, RunInv, TypeInv, LevelInv, WorkspaceTypeOK
<1>2. pc' = "next" => DoneTo(level)
  <2>. SUFFICES ASSUME pc' = "next", NEW n \in 1 .. level, NEW m \in At(n)
                PROVE  Done(m)
    BY DEF DoneTo
  <2>1. CASE n \in 1 .. level - 1
    BY <1>1, <2>1 DEF DoneTo
  <2>2. CASE n = level
    BY <1>1, <2>2, WorkedIsDone
  <2>. QED
    BY <1>1, <2>1, <2>2
<1>. QED
  BY <1>1, <1>2, SameResults DEF RunInv

(* A goroutine that returns passes its member from the running ones to     *)
(* those with a result.                                                    *)
LEMMA FinishRun ==
  ASSUME TypeInv, RunInv, NEW m \in Name, Finish(m)
  PROVE  RunInv'
<1>1. PICK ok \in BOOLEAN : completed' = Append(completed, [member |-> m, ok |-> ok])
  BY DEF Finish
<1>2. /\ UNCHANGED <<graph, opts, levels, todo, level, pc, result>>
      /\ pc = "run" /\ m \in running /\ running' = running \ {m}
  BY DEF Finish, plan
<1>3. /\ todo \cup running \subseteq At(level)
      /\ At(level) \subseteq todo \cup running \cup Worked
      /\ todo \cap running = {} /\ (todo \cup running) \cap Worked = {}
      /\ DoneTo(level - 1) /\ level \in Nat /\ level > 0
      /\ \A k \in Worked : \E n \in 1 .. level : k \in At(n)
  BY <1>2 DEF RunInv, TypeInv, LevelInv, WorkspaceTypeOK
<1> DEFINE L == Len(completed)
<1>4. /\ L \in Nat /\ DOMAIN completed = 1 .. L /\ DOMAIN completed' = 1 .. L + 1
      /\ \A i \in 1 .. L : completed'[i] = completed[i]
      /\ completed'[L + 1] = [member |-> m, ok |-> ok]
  BY <1>1 DEF TypeInv, WorkspaceTypeOK
<1>. HIDE DEF L
<1>5. completed'[L + 1].member = m
  BY <1>4
<1>6. Worked' = Worked \cup {m}
  BY <1>4, <1>5 DEF Worked
<1>7. \A k : Done(k) => Done(k)'
  BY <1>2, <1>4 DEF Done
<1>8. \A n : At(n)' = At(n)
  BY <1>2 DEF At, Nth
<1>9. DoneTo(level - 1)'
  BY <1>2, <1>3, <1>7, <1>8 DEF DoneTo
<1>10. \A i \in 1 .. L : completed[i].member # m
  BY <1>2, <1>3, <1>4 DEF Worked
<1>11. \A i, j \in 1 .. L + 1 : completed'[i].member = completed'[j].member => i = j
  <2>. SUFFICES ASSUME NEW i \in 1 .. L + 1, NEW j \in 1 .. L + 1,
                       completed'[i].member = completed'[j].member
                PROVE  i = j
    OBVIOUS
  <2>1. CASE i \in 1 .. L /\ j \in 1 .. L
    BY <1>4, <2>1 DEF RunInv
  <2>2. CASE i = L + 1 /\ j \in 1 .. L
    BY <1>4, <1>5, <1>10, <2>2
  <2>3. CASE i \in 1 .. L /\ j = L + 1
    BY <1>4, <1>5, <1>10, <2>3
  <2>. QED
    BY <1>4, <2>1, <2>2, <2>3
<1>12. \A k \in Worked' : \E n \in 1 .. level : k \in At(n)
  <2>1. m \in At(level) /\ level \in 1 .. level
    BY <1>2, <1>3
  <2>. QED
    BY <1>3, <1>6, <2>1
<1>13. /\ todo' \cup running' \subseteq At(level)' /\ At(level)' \subseteq todo' \cup running' \cup Worked'
       /\ todo' \cap running' = {} /\ (todo' \cup running') \cap Worked' = {}
  BY <1>2, <1>3, <1>6, <1>8
<1>. QED
  BY <1>2, <1>4, <1>8, <1>9, <1>11, <1>12, <1>13 DEF RunInv

(* The other steps leave the results alone.                                *)
LEMMA StepRun == TypeInv /\ PlanInv /\ RunInv /\ [WorkspaceNext]_wvars => RunInv'
<1>. SUFFICES ASSUME TypeInv, PlanInv, RunInv, [WorkspaceNext]_wvars
              PROVE  RunInv'
  OBVIOUS
<1>1. CASE Load \/ Peel \/ Planned
  <2>1. /\ UNCHANGED <<opts, level, todo, running, completed>>
        /\ level = 0 /\ completed = <<>> /\ todo = {} /\ running = {}
        /\ pc' \in {"levels", "next"} \/ (pc' = "done" /\ result' = "refused")
    BY <1>1 DEF Load, Peel, Planned, Refuse, RunInv
  <2>2. Worked' = {} /\ DOMAIN completed' = {} /\ DoneTo(level)'
    BY <2>1 DEF Worked, DoneTo
  <2>. QED
    BY <2>1, <2>2 DEF RunInv
<1>2. CASE Advance
  BY <1>2, AdvanceRun
<1>3. CASE LevelDone
  <2>1. /\ UNCHANGED <<graph, opts, levels, completed, level, todo, running>>
        /\ pc = "run" /\ todo = {} /\ running = {} /\ pc' \in {"gate", "decide"}
    BY <1>3 DEF LevelDone, plan
  <2>2. At(level) \subseteq Worked
    BY <2>1 DEF RunInv
  <2>. QED
    BY <2>1, <2>2, SameResults DEF RunInv
<1>4. CASE GateDone \/ \E m \in Name : GatePasses(m) \/ GateFails(m)
  <2>1. /\ UNCHANGED <<graph, opts, levels, completed, level, todo, running>>
        /\ pc = "gate" /\ (pc' \in {"gate", "decide"} \/ (pc' = "done" /\ result' = "unhealthy"))
    BY <1>4 DEF GateDone, GatePasses, GateFails, plan
  <2>. QED
    BY <2>1, SameResults DEF RunInv
<1>5. CASE Decide
  BY <1>5, DecideRun
<1>6. CASE Undo \/ UndoDone
  <2>1. /\ UNCHANGED <<graph, opts, levels, completed, level, todo, running>>
        /\ pc = "undo" /\ (pc' = "undo" \/ (pc' = "done" /\ result' = "failed"))
    BY <1>6 DEF Undo, UndoDone, plan
  <2>. QED
    BY <2>1, SameResults DEF RunInv
<1>7. ASSUME NEW m \in Name, Start(m)
      PROVE  RunInv'
  <2>1. /\ UNCHANGED <<graph, opts, levels, completed, level, pc, result>>
        /\ pc = "run" /\ m \in todo /\ todo' = todo \ {m} /\ running' = running \cup {m}
    BY <1>7 DEF Start, plan
  <2>. QED
    BY <2>1, SameResults DEF RunInv
<1>8. ASSUME NEW m \in Name, Finish(m)
      PROVE  RunInv'
  BY <1>8, FinishRun
<1>9. CASE WorkspaceRest \/ UNCHANGED wvars
  <2>1. UNCHANGED wvars
    BY <1>9 DEF WorkspaceRest
  <2>. QED
    BY <2>1, SameResults DEF wvars, RunInv
<1>. QED
  BY <1>1, <1>2, <1>3, <1>4, <1>5, <1>6, <1>7, <1>8, <1>9 DEF WorkspaceNext, WorkspaceStep

-----------------------------------------------------------------------------
(* The theorems.                                                           *)

(* The invariant holds from the start and in every step.                   *)
LEMMA WorkspaceInvariant == WorkspaceSpec => []WorkspaceInv
<1>1. WorkspaceInit => WorkspaceInv
  BY InitType, InitPlan, InitRun DEF WorkspaceInv
<1>2. WorkspaceInv /\ [WorkspaceNext]_wvars => WorkspaceInv'
  BY StepType, StepPlan, StepRun DEF WorkspaceInv
<1>. QED
  BY <1>1, <1>2, PTL DEF WorkspaceSpec

(* In every file, with every flag and every failure, the variables have    *)
(* their types: in particular the command has a result exactly when it has *)
(* returned (runWorkspaceParallel).                                        *)
THEOREM WorkspaceTypeCorrect == WorkspaceSpec => []WorkspaceTypeOK
<1>1. WorkspaceInv => WorkspaceTypeOK
  BY DEF WorkspaceInv, TypeInv
<1>. QED
  BY <1>1, WorkspaceInvariant, PTL

(* Levels and runWorkspaceParallel: for every file, however long its       *)
(* chains and however wide its levels, and every --parallel, no member is  *)
(* worked on before those it depends on, nor removed before those that     *)
(* depend on it.                                                           *)
THEOREM WorkspaceOrdered == WorkspaceSpec => []DependenciesFirst
<1>1. WorkspaceInv => DependenciesFirst
  <2>. SUFFICES ASSUME WorkspaceInv, NEW m \in running
                PROVE  IF opts.op = "uninstall"
                       THEN \A n \in Member : m \in graph[n] => Done(n)
                       ELSE \A d \in graph[m] : Done(d)
    BY DEF DependenciesFirst
  <2>1. /\ pc = "run" /\ m \in At(level) /\ DoneTo(level - 1) /\ Placed = Member
        /\ level \in 1 .. Len(levels) /\ Len(levels) \in Nat
        /\ DOMAIN levels = 1 .. Len(levels)
    BY DEF WorkspaceInv, TypeInv, LevelInv, WorkspaceTypeOK, PlanInv, RunInv
  <2>2. Nth(level) \in 1 .. Len(levels)
    BY <2>1, NthLevel DEF WorkspaceInv, TypeInv
  <2>3. CASE opts.op = "uninstall"
    <3>. SUFFICES ASSUME NEW n \in Member, m \in graph[n]
                  PROVE  Done(n)
      BY <2>3
    <3>1. PICK k \in 1 .. Len(levels) : n \in levels[k]
      BY <2>1 DEF Placed
    <3>2. PICK j \in 1 .. k - 1 : m \in levels[j]
      BY <2>1, <3>1 DEF WorkspaceInv, PlanInv
    <3>3. j = Nth(level)
      BY <2>1, <2>2, <3>2 DEF WorkspaceInv, PlanInv, At
    <3>4. Nth(level) = Len(levels) + 1 - level /\ Nth(k) = Len(levels) + 1 - k
          /\ Nth(Nth(k)) = k
      BY <2>1, <2>3 DEF Nth
    <3>5. Nth(k) \in 1 .. level - 1
      BY <2>1, <3>2, <3>3, <3>4
    <3>6. n \in At(Nth(k))
      BY <3>1, <3>4 DEF At
    <3>. QED
      BY <2>1, <3>5, <3>6 DEF DoneTo
  <2>4. CASE opts.op # "uninstall"
    <3>. SUFFICES ASSUME NEW d \in graph[m]
                  PROVE  Done(d)
      BY <2>4
    <3>1. \A k : Nth(k) = k
      BY <2>4 DEF Nth
    <3>2. PICK j \in 1 .. level - 1 : d \in levels[j]
      BY <2>1, <3>1 DEF WorkspaceInv, PlanInv, At
    <3>3. d \in At(j)
      BY <3>1, <3>2 DEF At
    <3>. QED
      BY <2>1, <3>2, <3>3 DEF DoneTo
  <2>. QED
    BY <2>3, <2>4
<1>. QED
  BY <1>1, WorkspaceInvariant, PTL

(* The summary of runWorkspaceParallel: a run that reports success, or     *)
(* that continued on errors to its end, has one result for each member,    *)
(* and reports success exactly if none of them is a failure.               *)
THEOREM WorkspaceComplete == WorkspaceSpec => []EveryMemberOnce
<1>1. WorkspaceInv => EveryMemberOnce
  <2>. SUFFICES ASSUME WorkspaceInv, pc = "done",
                       result = "ok" \/ (result = "failed" /\ opts.goOn)
                PROVE  /\ Worked = Member /\ Len(completed) = Cardinality(Member)
                       /\ result = "ok" <=> Failures = {}
    BY DEF EveryMemberOnce, Worked
  <2>1. Worked = Member /\ (result = "ok" <=> Failures = {})
    BY DEF WorkspaceInv, RunInv
  <2> DEFINE L == Len(completed)
             f == [i \in 1 .. L |-> completed[i].member]
  <2>2. L \in Nat /\ DOMAIN completed = 1 .. L
    BY DEF WorkspaceInv, TypeInv, WorkspaceTypeOK
  <2>3. f \in Bijection(1 .. L, Worked)
    <3>1. f \in [1 .. L -> Worked]
      BY <2>2 DEF Worked
    <3>2. \A a, b \in 1 .. L : f[a] = f[b] => a = b
      BY <2>2 DEF WorkspaceInv, RunInv
    <3>3. \A w \in Worked : \E a \in 1 .. L : f[a] = w
      BY <2>2 DEF Worked
    <3>. QED
      BY <3>1, <3>2, <3>3, Fun_IsBij
  <2>4. ExistsBijection(1 .. L, Worked)
    BY <2>3 DEF ExistsBijection
  <2>5. IsFiniteSet(1 .. L) /\ Cardinality(1 .. L) = L
    <3>1. 1 \in Int /\ L \in Int
      BY <2>2
    <3>2. IsFiniteSet(1 .. L) /\ Cardinality(1 .. L) = (IF 1 > L THEN 0 ELSE L - 1 + 1)
      BY <3>1, FS_Interval, Zenon
    <3>. QED
      BY <2>2, <3>2
  <2>6. Cardinality(Worked) = L
    BY <2>4, <2>5, FS_Bijection
  <2>. QED
    BY <2>1, <2>6
<1>. QED
  BY <1>1, WorkspaceInvariant, PTL

-----------------------------------------------------------------------------
(* The account of the failures.                                            *)

(* The successes with an index above k that are still there, and the       *)
(* account: each of them, and outside install each failed member, is paid  *)
(* for with one of the failures of the run.                                *)
Left(k) == {i \in DOMAIN completed \ Failures : i > k /\ rel[completed[i].member] # "absent"}
Spent(S) == Cardinality(S) + (IF opts.op = "install" THEN 0 ELSE Cardinality(Failures))
              <= MaxFaults - faults

AccountInv ==
    /\ pc \notin {"load", "done"} => ~(opts.atomic /\ opts.goOn)
    /\ pc = "next" => Failures = {} \/ opts.goOn
    /\ pc \notin {"undo", "done"} => Spent({})
    /\ pc = "undo" => /\ Len(undo) <= Len(completed)
                      /\ \A i \in 1 .. Len(undo) : undo[i] = completed[i]
                      /\ Spent(Left(Len(undo)))
    /\ pc = "done" /\ result = "failed" /\ opts.atomic => Spent(Left(0))

(* The sets that are counted are finite.                                   *)
LEMMA FiniteSets ==
  ASSUME TypeInv
  PROVE  /\ IsFiniteSet(Failures) /\ Cardinality(Failures) \in Nat
         /\ \A k : IsFiniteSet(Left(k)) /\ Cardinality(Left(k)) \in Nat
         /\ Cardinality({}) = 0
<1>1. /\ Len(completed) \in Nat /\ DOMAIN completed = 1 .. Len(completed)
  BY DEF TypeInv, WorkspaceTypeOK
<1>2. IsFiniteSet(1 .. Len(completed))
  <2>1. 1 \in Int /\ Len(completed) \in Int
    BY <1>1
  <2>. QED
    BY <2>1, FS_Interval, Zenon
<1>3. Failures \subseteq 1 .. Len(completed) /\ \A k : Left(k) \subseteq 1 .. Len(completed)
  BY <1>1 DEF Failures, Left
<1>. QED
  BY <1>2, <1>3, FS_Subset, FS_CardinalityType, FS_EmptySet

LEMMA InitAccount == WorkspaceInit => AccountInv
<1>. SUFFICES ASSUME WorkspaceInit
              PROVE  AccountInv
  OBVIOUS
<1>1. Failures = {} /\ Cardinality({}) = 0
  BY FS_EmptySet DEF WorkspaceInit, Failures
<1>. QED
  BY <1>1 DEF WorkspaceInit, AccountInv, Spent

(* A failure of a member is one of the failures of the run, unless install *)
(* finds a release in its way.                                             *)
LEMMA FinishAccount ==
  ASSUME TypeInv, AccountInv, NEW m \in Name, Finish(m)
  PROVE  AccountInv'
<1>1. PICK ok \in BOOLEAN : /\ IF ok THEN Succeeds(m) ELSE Fails(m)
                            /\ completed' = Append(completed, [member |-> m, ok |-> ok])
  BY DEF Finish
<1>2. UNCHANGED <<opts, pc>> /\ pc = "run" /\ opts \in Flags
      /\ faults \in Nat /\ MaxFaults \in Nat
  BY DEF Finish, plan, TypeInv, WorkspaceTypeOK
<1> DEFINE L == Len(completed)
<1>3. /\ L \in Nat /\ DOMAIN completed = 1 .. L /\ DOMAIN completed' = 1 .. L + 1
      /\ \A i \in 1 .. L : completed'[i] = completed[i]
      /\ completed'[L + 1] = [member |-> m, ok |-> ok]
  BY <1>1 DEF TypeInv, WorkspaceTypeOK
<1>. HIDE DEF L
<1>4. /\ IsFiniteSet(Failures) /\ Cardinality(Failures) \in Nat /\ Cardinality({}) = 0
      /\ Spent({}) /\ ~(opts.atomic /\ opts.goOn)
  BY <1>2, FiniteSets DEF AccountInv
<1>5. completed'[L + 1].ok = ok
  BY <1>3
<1>6. CASE ok
  <2>1. Failures' = Failures
    BY <1>3, <1>5, <1>6 DEF Failures
  <2>2. faults' = faults \/ (faults > 0 /\ faults' = faults - 1)
    BY <1>1, <1>6 DEF Succeeds
  <2>. QED
    BY <1>2, <1>4, <2>1, <2>2 DEF AccountInv, Spent
<1>7. CASE ~ok
  <2>1. Failures' = Failures \cup {L + 1} /\ L + 1 \notin Failures
    BY <1>3, <1>5, <1>7 DEF Failures
  <2>2. Cardinality(Failures') = Cardinality(Failures) + 1
    BY <1>4, <2>1, FS_AddElement
  <2>3. (opts.op = "install" /\ faults' = faults) \/ (faults > 0 /\ faults' = faults - 1)
    BY <1>1, <1>7 DEF Fails
  <2>4. Spent({})'
    BY <1>2, <1>4, <2>2, <2>3 DEF Spent
  <2>. QED
    BY <1>2, <1>4, <2>4 DEF AccountInv
<1>. QED
  BY <1>6, <1>7

(* The rollback takes a success away, passes over a failure, or spends a   *)
(* failure on a success it leaves behind; the members differ, so it does   *)
(* not bring back one it took away before.                                 *)
LEMMA UndoAccount == TypeInv /\ RunInv /\ AccountInv /\ Undo => AccountInv'
<1>. SUFFICES ASSUME TypeInv, RunInv, AccountInv, Undo
              PROVE  AccountInv'
  OBVIOUS
<1>1. /\ UNCHANGED <<opts, pc, completed>> /\ pc = "undo" /\ undo # <<>>
      /\ undo \in Seq(Result) /\ undo' = SubSeq(undo, 1, Len(undo) - 1)
      /\ completed \in Seq(Result) /\ rel \in [Name -> Content]
      /\ faults \in Nat /\ MaxFaults \in Nat /\ ~(opts.atomic /\ opts.goOn)
  BY DEF Undo, plan, TypeInv, WorkspaceTypeOK, AccountInv
<1>2. PICK k \in Nat : k = Len(undo) /\ k > 0
  BY <1>1
<1>3. /\ Len(completed) \in Nat /\ k \in 1 .. Len(completed)
      /\ DOMAIN completed = 1 .. Len(completed)
      /\ \A i \in 1 .. k : undo[i] = completed[i]
      /\ Spent(Left(k)) /\ Failures' = Failures
  BY <1>1, <1>2 DEF AccountInv, Failures
<1>4. Len(undo') = k - 1 /\ \A i \in 1 .. k - 1 : undo'[i] = undo[i]
  BY <1>1, <1>2
<1>5. PICK r : r = completed[k]
  OBVIOUS
<1>6. \A i \in DOMAIN completed : completed[i] \in Result /\ completed[i].member \in Name
  <2>1. \A i \in DOMAIN completed : completed[i] \in Result
    BY <1>1
  <2>. QED
    BY <2>1 DEF Result
<1>7. \A i \in DOMAIN completed : i > k =>
        rel'[completed[i].member] = rel[completed[i].member]
  <2>1. \A n \in Name : n # r.member => rel'[n] = rel[n]
    BY <1>1, <1>2, <1>3, <1>5 DEF Undo
  <2>2. \A i \in DOMAIN completed : completed[i].member = r.member => i = k
    BY <1>3, <1>5 DEF RunInv
  <2>3. \A i \in DOMAIN completed : i > k => i # k
    BY <1>3
  <2>. QED
    BY <1>6, <2>1, <2>2, <2>3
<1>8. \A i \in DOMAIN completed : i > k - 1 <=> i > k \/ i = k
  BY <1>3
<1>9. /\ k \notin Left(k) /\ IsFiniteSet(Left(k))
      /\ Cardinality(Left(k)) \in Nat /\ Cardinality(Failures) \in Nat
  <2>1. k \notin Left(k)
    BY <1>3 DEF Left
  <2>. QED
    BY <2>1, FiniteSets
<1>10. Left(k - 1)' = {i \in DOMAIN completed \ Failures :
                         i > k - 1 /\ rel'[completed[i].member] # "absent"}
  BY <1>1, <1>3 DEF Left
<1>11. CASE ~r.ok /\ faults' = faults
  <2>1. k \in Failures
    BY <1>3, <1>5, <1>11 DEF Failures
  <2>2. Left(k - 1)' = Left(k)
    BY <1>7, <1>8, <1>10, <2>1 DEF Left
  <2>. QED
    BY <1>1, <1>3, <1>4, <1>11, <2>2 DEF AccountInv, Spent
<1>12. CASE r.ok /\ rel' = [rel EXCEPT ![r.member] = "absent"] /\ faults' = faults
  <2>1. rel'[completed[k].member] = "absent"
    BY <1>1, <1>3, <1>5, <1>6, <1>12
  <2>2. Left(k - 1)' = Left(k)
    BY <1>7, <1>8, <1>10, <2>1 DEF Left
  <2>. QED
    BY <1>1, <1>3, <1>4, <1>12, <2>2 DEF AccountInv, Spent
<1>13. CASE r.ok /\ faults > 0 /\ faults' = faults - 1
  <2>1. Left(k - 1)' = Left(k) \/ Left(k - 1)' = Left(k) \cup {k}
    <3>1. CASE k \in Failures \/ rel'[completed[k].member] = "absent"
      BY <1>7, <1>8, <1>10, <3>1 DEF Left
    <3>2. CASE k \notin Failures /\ rel'[completed[k].member] # "absent"
      BY <1>3, <1>7, <1>8, <1>10, <3>2 DEF Left
    <3>. QED
      BY <3>1, <3>2
  <2>2. Cardinality(Left(k) \cup {k}) = Cardinality(Left(k)) + 1
    BY <1>9, FS_AddElement
  <2>3. \E n \in {Cardinality(Left(k)), Cardinality(Left(k)) + 1} :
          Cardinality(Left(k - 1)') = n
    BY <2>1, <2>2
  <2>4. Spent(Left(k - 1))'
    BY <1>1, <1>3, <1>9, <1>13, <2>3 DEF Spent
  <2>. QED
    BY <1>1, <1>3, <1>4, <2>4 DEF AccountInv
<1>. QED
  BY <1>2, <1>3, <1>5, <1>11, <1>12, <1>13 DEF Undo, Ok

(* Every step keeps the account.                                           *)
LEMMA StepAccount ==
  TypeInv /\ RunInv /\ AccountInv /\ [WorkspaceNext]_wvars => AccountInv'
<1>. SUFFICES ASSUME TypeInv, RunInv, AccountInv, [WorkspaceNext]_wvars
              PROVE  AccountInv'
  OBVIOUS
<1>0. /\ faults \in Nat /\ MaxFaults \in Nat /\ opts \in Flags
      /\ Cardinality(Failures) \in Nat /\ Cardinality({}) = 0
  BY FiniteSets DEF TypeInv, WorkspaceTypeOK
<1>1. CASE Load \/ Peel \/ Planned
  <2>1. /\ UNCHANGED <<opts, completed, faults>> /\ Failures = {} /\ Failures' = {}
        /\ pc \in {"load", "levels"}
        /\ \/ pc' \in {"levels", "next"} /\ (pc = "load" => Acceptable)
           \/ pc' = "done" /\ result' = "refused"
    BY <1>1 DEF Load, Peel, Planned, Refuse, RunInv, Failures
  <2>. QED
    BY <2>1 DEF AccountInv, Spent, Acceptable
<1>2. CASE Advance
  <2>1. /\ UNCHANGED <<opts, completed, faults>> /\ pc = "next" /\ Failures' = Failures
        /\ \/ pc' = "run"
           \/ pc' = "done" /\ result' = (IF Failures = {} THEN "ok" ELSE "failed")
    BY <1>2 DEF Advance, plan, Failures
  <2>. QED
    BY <2>1 DEF AccountInv, Spent
<1>3. CASE LevelDone
  <2>1. UNCHANGED <<opts, completed, faults>> /\ pc = "run" /\ pc' \in {"gate", "decide"}
        /\ Failures' = Failures
    BY <1>3 DEF LevelDone, plan, Failures
  <2>. QED
    BY <2>1 DEF AccountInv, Spent
<1>4. CASE GateDone \/ \E m \in Name : GatePasses(m) \/ GateFails(m)
  <2>1. /\ UNCHANGED <<opts, completed>> /\ pc = "gate" /\ Failures' = Failures
        /\ faults' = faults \/ faults' = faults - 1
        /\ pc' \in {"gate", "decide"} \/ (pc' = "done" /\ result' = "unhealthy")
    BY <1>4 DEF GateDone, GatePasses, GateFails, plan, Failures
  <2>. QED
    BY <1>0, <2>1 DEF AccountInv, Spent
<1>5. CASE Decide
  <2>1. /\ UNCHANGED <<opts, completed, faults>> /\ pc = "decide" /\ Failures' = Failures
        /\ \/ pc' = "next" /\ (Failures = {} \/ opts.goOn)
           \/ pc' = "undo" /\ undo' = completed
           \/ pc' = "done" /\ ~opts.atomic
    BY <1>5 DEF Decide, plan, Failures
  <2>2. Left(Len(completed))' = {} /\ Len(completed) \in Nat
    <3>1. Len(completed') = Len(completed) /\ Len(completed) \in Nat
          /\ \A i \in DOMAIN completed' : ~(i > Len(completed))
      BY <2>1 DEF TypeInv, WorkspaceTypeOK
    <3>. QED
      BY <3>1 DEF Left
  <2>3. CASE pc' = "undo"
    <3>1. undo' = completed /\ undo' = completed' /\ Spent({})
      BY <2>1, <2>3 DEF AccountInv
    <3>2. Left(Len(undo))' = {}
      BY <2>1, <2>2, <3>1
    <3>3. Spent(Left(Len(undo)))'
      BY <2>1, <3>1, <3>2 DEF Spent
    <3>4. Len(undo') <= Len(completed') /\ \A i \in 1 .. Len(undo') : undo'[i] = completed'[i]
      BY <2>1, <2>2, <3>1
    <3>. QED
      BY <2>1, <2>3, <3>3, <3>4 DEF AccountInv
  <2>4. CASE pc' # "undo"
    BY <2>1, <2>4 DEF AccountInv, Spent
  <2>. QED
    BY <2>3, <2>4
<1>6. CASE Undo
  BY <1>6, UndoAccount
<1>7. CASE UndoDone
  <2>1. /\ UNCHANGED <<opts, completed, faults, rel>> /\ pc = "undo" /\ Len(undo) = 0
        /\ pc' = "done" /\ Failures' = Failures
    BY <1>7 DEF UndoDone, plan, Failures
  <2>2. Left(0)' = Left(0)
    BY <2>1 DEF Left
  <2>. QED
    BY <2>1, <2>2 DEF AccountInv, Spent
<1>8. ASSUME NEW m \in Name, Start(m)
      PROVE  AccountInv'
  <2>1. UNCHANGED <<opts, completed, faults, pc>> /\ pc = "run" /\ Failures' = Failures
    BY <1>8 DEF Start, plan, Failures
  <2>. QED
    BY <2>1 DEF AccountInv, Spent
<1>9. ASSUME NEW m \in Name, Finish(m)
      PROVE  AccountInv'
  BY <1>9, FinishAccount
<1>10. CASE WorkspaceRest \/ UNCHANGED wvars
  <2>1. UNCHANGED wvars /\ Failures' = Failures /\ \A k : Left(k)' = Left(k)
    BY <1>10 DEF WorkspaceRest, wvars, Failures, Left
  <2>. QED
    BY <2>1 DEF wvars, AccountInv, Spent
<1>. QED
  BY <1>1, <1>2, <1>3, <1>4, <1>5, <1>6, <1>7, <1>8, <1>9, <1>10 DEF WorkspaceNext, WorkspaceStep

(* rollbackWorkspace: for every number of members and of failures, no more *)
(* successes survive the rollback of an atomic run than uninstalls failed. *)
THEOREM WorkspaceUndone == WorkspaceSpec => []AtomicUndoesTheSuccesses
<1>1. WorkspaceInit => AccountInv
  BY InitAccount
<1>2. WorkspaceInv /\ AccountInv /\ [WorkspaceNext]_wvars => AccountInv'
  BY StepAccount DEF WorkspaceInv
<1>3. WorkspaceInv /\ AccountInv => AtomicUndoesTheSuccesses
  <2>. SUFFICES ASSUME WorkspaceInv, AccountInv, pc = "done", result = "failed", opts.atomic
                PROVE  Cardinality({i \in DOMAIN completed \ Failures :
                                      rel[completed[i].member] # "absent"})
                         + (IF opts.op = "install" THEN 0 ELSE Cardinality(Failures))
                       <= MaxFaults - faults
    BY DEF AtomicUndoesTheSuccesses
  <2>1. \A i \in DOMAIN completed : i > 0
    BY DEF WorkspaceInv, TypeInv, WorkspaceTypeOK
  <2>2. Left(0) = {i \in DOMAIN completed \ Failures : rel[completed[i].member] # "absent"}
    BY <2>1 DEF Left
  <2>. QED
    BY <2>2 DEF AccountInv, Spent
<1>. QED
  BY <1>1, <1>2, <1>3, WorkspaceInvariant, PTL DEF WorkspaceSpec

-----------------------------------------------------------------------------
(* Levels refuses a file whose names are all declared when members are     *)
(* left over, and only then.                                               *)
LevelsInv ==
    /\ result = "refused" /\ Acceptable => ~WellFormed(graph)
    /\ pc \notin {"load", "levels"} /\ result # "refused" => Acceptable /\ Placed = Member
    /\ pc = "levels" => Acceptable

LEMMA InitLevels == WorkspaceInit => LevelsInv
BY DEF WorkspaceInit, LevelsInv

LEMMA StepLevels == TypeInv /\ PlanInv /\ LevelsInv /\ [WorkspaceNext]_wvars => LevelsInv'
<1> SUFFICES ASSUME TypeInv, PlanInv, LevelsInv, [WorkspaceNext]_wvars
             PROVE  LevelsInv'
  OBVIOUS
<1>1. CASE Load
  <2>1. /\ UNCHANGED <<graph, opts, levels>>
        /\ \/ ~Acceptable /\ pc' = "done" /\ result' = "refused"
           \/ Acceptable /\ pc' = "levels" /\ result' = result /\ result # "refused"
    BY <1>1 DEF Load, Refuse, TypeInv, WorkspaceTypeOK
  <2> QED BY <2>1 DEF LevelsInv, Acceptable, Member
<1>2. CASE Peel
  BY <1>2 DEF Peel, LevelsInv, TypeInv, WorkspaceTypeOK, Acceptable, Member
<1>3. CASE Planned
  <2>1. /\ pc = "levels" /\ Next0 = {} /\ UNCHANGED <<graph, opts, levels>>
        /\ \/ Placed # Member /\ pc' = "done" /\ result' = "refused"
           \/ Placed = Member /\ pc' = "next" /\ result' = result
    BY <1>3 DEF Planned, Refuse, Stuck
  <2>2. Acceptable /\ result # "refused"
    BY <2>1 DEF LevelsInv, TypeInv, WorkspaceTypeOK
  <2>3. ASSUME Placed # Member PROVE ~WellFormed(graph)
    <3> DEFINE S == Member \ Placed
    <3>1. S # {}
      BY <2>3 DEF PlanInv, Placed
    <3>2. ASSUME NEW m \in S PROVE graph[m] \cap S # {}
      <4>1. indeg[m] = graph[m] \ Placed /\ indeg[m] # {}
        BY <2>1, <3>2 DEF PlanInv, Next0
      <4>2. graph[m] \subseteq Member
        BY <2>2, <3>2 DEF Acceptable
      <4> QED BY <4>1, <4>2
    <3>3. S \in (SUBSET DOMAIN graph) \ {{}}
      BY <3>1 DEF Member
    <3> HIDE DEF S
    <3> QED BY <3>2, <3>3 DEF WellFormed, Acyclic
  <2>4. Acceptable' /\ Placed' = Placed /\ Member' = Member /\ WellFormed(graph)' = WellFormed(graph)
    BY <2>1, <2>2 DEF Acceptable, Placed, Member, WellFormed, Acyclic
  <2> QED BY <2>1, <2>2, <2>3, <2>4 DEF LevelsInv
<1>4. CASE ~Load /\ ~Peel /\ ~Planned
  <2>1. /\ UNCHANGED plan
        /\ result' = result \/ result' # "refused"
        /\ (pc \notin {"load", "levels"} /\ result = "none") \/ UNCHANGED <<pc, result>>
        /\ pc' \in {"load", "levels"} => pc' = pc
    BY <1>4 DEF WorkspaceNext, WorkspaceStep, Advance, LevelDone, GateDone, Decide, Undo, UndoDone,
             Start, Finish, GatePasses, GateFails, WorkspaceRest, wvars, plan, TypeInv, WorkspaceTypeOK
  <2>2. Acceptable' = Acceptable /\ Placed' = Placed /\ Member' = Member /\ WellFormed(graph)' = WellFormed(graph)
    BY <2>1 DEF plan, Acceptable, Placed, Member, WellFormed, Acyclic
  <2> QED BY <2>1, <2>2 DEF LevelsInv
<1> QED BY <1>1, <1>2, <1>3, <1>4

(* A file whose members are all in levels has no cycle: those of a level   *)
(* depend on earlier ones only.                                            *)
LEMMA LevelledIsAcyclic ==
  ASSUME TypeInv, PlanInv, Placed = Member
  PROVE  Acyclic(graph)
<1> SUFFICES ASSUME NEW S \in SUBSET Member, S # {}
             PROVE  \E m \in S : graph[m] \cap S = {}
  BY DEF Acyclic, Member
<1> DEFINE P == {i \in DOMAIN levels : levels[i] \cap S # {}}
<1>1. P \in SUBSET Nat /\ P # {}
  <2>1. DOMAIN levels \subseteq Nat
    BY DEF TypeInv, WorkspaceTypeOK
  <2>2. PICK m \in S : TRUE
    OBVIOUS
  <2>3. PICK i \in DOMAIN levels : m \in levels[i]
    BY <2>2 DEF Placed
  <2> QED BY <2>1, <2>2, <2>3
<1>2. PICK v \in P : \A w \in P : v <= w
  <2> HIDE DEF P
  <2> QED BY <1>1, LeastPosition
<1>3. PICK m \in S : m \in levels[v]
  BY <1>2
<1>4. ASSUME NEW d \in graph[m], d \in S PROVE FALSE
  <2>1. PICK j \in 1 .. v - 1 : d \in levels[j]
    BY <1>2, <1>3 DEF PlanInv
  <2>2. j \in DOMAIN levels /\ j < v
    BY <1>2, <2>1 DEF TypeInv, WorkspaceTypeOK
  <2>3. j \in P
    BY <1>4, <2>1, <2>2
  <2>4. v <= j /\ v \in Nat /\ j \in Nat
    <3> HIDE DEF P
    <3> QED BY <1>1, <1>2, <2>3
  <2> QED BY <2>2, <2>4
<1> QED BY <1>3, <1>4

(* topoSortReleases, TopologicalOrder and Levels: every file is refused    *)
(* exactly when it has a cycle or an unknown name; otherwise an order has  *)
(* every name once, after all it depends on.                               *)
THEOREM OrdersAgree == WorkspaceSpec /\ CrossSpec => []OrdersRespectDependencies
<1>1. WorkspaceSpec => []LevelsInv
  <2>1. WorkspaceInv /\ LevelsInv /\ [WorkspaceNext]_wvars => LevelsInv'
    BY StepLevels DEF WorkspaceInv
  <2> QED BY <2>1, InitLevels, WorkspaceInvariant, PTL DEF WorkspaceSpec
<1>2. WorkspaceInv /\ LevelsInv /\ CrossInv => OrdersRespectDependencies
  <2> SUFFICES ASSUME WorkspaceInv, LevelsInv, CrossInv PROVE OrdersRespectDependencies
    OBVIOUS
  <2>1. xresult = "refused" => ~WellFormed(xgraph)
    BY DEF CrossInv, ResultInv
  <2>2. ASSUME xresult \in {"none", "ok", "failed"}
        PROVE  WellFormed(xgraph) /\ Respects(Straight, xgraph)
    <3>1. /\ WellFormed(xgraph) /\ Once(Straight) /\ AfterDeps(Straight)
          /\ Straight \in Seq(Releases) /\ Range(Straight) = Releases /\ Len(Straight) = Cardinality(Releases)
      BY <2>2 DEF CrossInv, ResultInv
    <3>2. ASSUME NEW i \in DOMAIN Straight, NEW j \in DOMAIN Straight, Straight[i] \in xgraph[Straight[j]]
          PROVE  i < j
      <4>1. PICK k \in 1 .. j - 1 : Straight[k] = Straight[i]
        BY <3>1, <3>2 DEF AfterDeps
      <4>2. DOMAIN Straight = 1 .. Len(Straight) /\ Len(Straight) \in Nat
        BY <3>1, SeqFacts
      <4>3. k \in DOMAIN Straight /\ k < j
        BY <3>2, <4>2
      <4> QED BY <3>1, <3>2, <4>1, <4>3 DEF Once
    <3> QED BY <3>1, <3>2 DEF Respects, Releases
  <2>3. ASSUME pc = "done", Acceptable PROVE result = "refused" <=> ~WellFormed(graph)
    <3>1. result # "refused" => Acyclic(graph)
      BY <2>3, LevelledIsAcyclic DEF LevelsInv, WorkspaceInv
    <3>2. \A m \in DOMAIN graph : graph[m] \subseteq DOMAIN graph
      BY <2>3 DEF Acceptable, Member
    <3> QED BY <2>3, <3>1, <3>2 DEF LevelsInv, WellFormed
  <2> QED BY <2>1, <2>2, <2>3 DEF OrdersRespectDependencies, Straight
<1> QED BY <1>1, <1>2, WorkspaceInvariant, CrossInvariant, PTL
=============================================================================
