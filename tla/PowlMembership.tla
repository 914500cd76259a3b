--------------------------- MODULE PowlMembership ---------------------------
(***************************************************************************)
(* The static membership check of powl/membership: whether a trace is a    *)
(* word of a tree, decided from the structure, without the language.  It   *)
(* decides trees whose composites all run once.                            *)
(***************************************************************************)
EXTENDS Powl

RunsOnce(m) == \A p \in Composites(m) : m[p].freq = Once

\* Every label sequence that one traversal of each node can emit: a choice
\* graph is enumerated over its simple walks.
LabelOptions(m) ==
  LET options[p \in DOMAIN m] ==
        LET node == m[p]
            below == [i \in 1..node.n |-> options[Append(p, i)]]
            inOrder[i \in 0..node.n] == IF i = 0 THEN Epsilon ELSE Concat(inOrder[i-1], below[i])
            walks[cur \in 1..node.n, visited \in SUBSET (1..node.n)] ==
              IF cur = node.end THEN below[cur]
              ELSE Concat(below[cur],
                          UNION {walks[e[2], visited \cup {e[2]}] :
                                   e \in {f \in node.edges : f[1] = cur /\ f[2] \notin visited}})
        IN CASE node.kind = "Atom"         -> {<<node.label>>}
             [] node.kind = "Silent"       -> Epsilon
             [] node.kind = "PartialOrder" -> inOrder[node.n]
             [] node.kind = "ChoiceGraph"  -> walks[node.start, {node.start}]
  IN options

\* The children in topological order: whoever has no predecessor left joins
\* the queue, k of whose members have been taken.
TopologicalOrder(node) ==
  LET preds(j) == {e[1] : e \in {f \in node.closure : f[2] = j}}
      queue[k \in 0..node.n] ==
        IF k = 0 THEN SetToSortSeq({j \in 1..node.n : preds(j) = {}}, <)
        ELSE LET before == queue[k-1]
                 freed == {j \in 1..node.n : before[k] \in preds(j) /\ preds(j) \subseteq ToSet(SubSeq(before, 1, k))}
             IN before \o SetToSortSeq(freed, <)
  IN queue[node.n]

\* The positions of the trace go to the children: the k-th occurrence of a
\* label goes to the k-th slot for it, slots being in topological order.
Assigned(node, trace, labels) ==
  LET order == TopologicalOrder(node)
      slots(l) == FlattenSeq([r \in 1..node.n |->
                    [k \in 1..Len(SelectSeq(labels[order[r]], LAMBDA x : x = l)) |-> order[r]]])
      nth(k) == Cardinality({j \in 1..k : trace[j] = trace[k]})
  IN [k \in DOMAIN trace |-> slots(trace[k])[nth(k)]]

SameLabels(trace, labels) ==
  LET all == FlattenSeq(labels)
  IN \A l \in Range(trace) \cup Range(all) :
       Cardinality({k \in DOMAIN trace : trace[k] = l}) = Cardinality({k \in DOMAIN all : all[k] = l})

\* A subtree emits the same number of labels whatever its branches.
FixedLength(options) == Cardinality({Len(o) : o \in options}) = 1

\* Whether the trace is accepted.
TraceInLanguage(m, trace) ==
  LET options == LabelOptions(m)
      accepts[p \in DOMAIN m, t \in Seq(Range(trace))] ==
        LET node == m[p]
            child(i) == Append(p, i)
            fits(labels) ==
              /\ SameLabels(t, labels)
              /\ LET childOf == Assigned(node, t, labels) IN
                 /\ \A e \in node.closure : \A j, k \in DOMAIN t :
                      childOf[j] = e[1] /\ childOf[k] = e[2] => j < k
                 /\ \A i \in 1..node.n :
                      LET own == SetToSortSeq({k \in DOMAIN t : childOf[k] = i}, <)
                      IN accepts[child(i), [k \in DOMAIN own |-> t[own[k]]]]
            length(i) == Len(CHOOSE o \in options[child(i)] : TRUE)
            step(s) == {<<s[1] + length(s[2]), e[2]>> : e \in {f \in node.edges : f[1] = s[2]}}
            matched(s) == /\ s[1] + length(s[2]) <= Len(t)
                          /\ accepts[child(s[2]), SubSeq(t, s[1] + 1, s[1] + length(s[2]))]
            frontier[k \in Nat] ==
              IF k = 0 THEN {<<0, node.start>>}
              ELSE LET reached == frontier[k-1]
                   IN reached \cup UNION {step(s) : s \in {r \in reached : matched(r)}}
        IN CASE node.kind = "Atom"         -> t = <<node.label>>
             [] node.kind = "Silent"       -> t = <<>>
             [] node.kind = "PartialOrder" ->
                  \E labels \in {c \in [1..node.n -> UNION {options[child(i)] : i \in 1..node.n}] :
                                   \A i \in 1..node.n : c[i] \in options[child(i)]} : fits(labels)
             [] node.kind = "ChoiceGraph"  ->
                  /\ \A i \in 1..node.n : FixedLength(options[child(i)])
                  /\ \E s \in frontier[node.n * (Len(t) + 1)] :
                       s[2] = node.end /\ matched(s) /\ s[1] + length(s[2]) = Len(t)
  IN accepts[<<>>, trace]
=============================================================================
