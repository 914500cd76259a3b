-------------------------------- MODULE Powl --------------------------------
(***************************************************************************)
(* The partially ordered workflow language of autofde_lab (powl/algebra,   *)
(* powl/frequency, powl/identity, powl/semantics): its trees, and the set  *)
(* of words that a tree denotes.                                           *)
(*                                                                         *)
(* A tree is a function from the paths of its nodes to the nodes.  A path  *)
(* is the sequence of child numbers from the root, counted from 1 (the     *)
(* program counts from 0).  A word is a sequence of atom labels.           *)
(***************************************************************************)
EXTENDS Integers, Sequences, SequencesExt, FiniteSets, FiniteSetsExt, Functions

CONSTANT MaxUnrolls    \* how often a walk visits one node, a body unbounded in number repeats

ASSUME MaxUnrollsAssumption == MaxUnrolls \in Nat \ {0}

-----------------------------------------------------------------------------
(* Nodes *)

\* A frequency without an upper bound (the program's max = None).
Unbounded == -1

Frequency(min, max) == [min |-> min, max |-> max]

Once == Frequency(1, 1)

Allows(freq, n) == freq.min <= n /\ (freq.max = Unbounded \/ n <= freq.max)

Skippable(freq) == freq.min = 0

\* The frequencies that can be constructed.
IsFrequency(freq) ==
  freq.min \in Nat /\ (freq.max = Unbounded \/ (freq.max \in Nat /\ freq.min <= freq.max))

\* A node stands at the root of its tree, children are trees.
Graft(root, children) ==
  LET below == {<<i, q>> : i \in DOMAIN children, q \in UNION {DOMAIN children[j] : j \in DOMAIN children}}
  IN [p \in {<<>>} \cup {<<b[1]>> \o b[2] : b \in {c \in below : c[2] \in DOMAIN children[c[1]]}} |->
        IF p = <<>> THEN root ELSE children[Head(p)][Tail(p)]]

Atom(label) == Graft([kind |-> "Atom", label |-> label], <<>>)

\* Start, End and Silent: leaves that a run passes without a word of its own.
Silent(name) == Graft([kind |-> "Silent", label |-> name], <<>>)

\* What the pairs of a relation imply of pairs further apart.
TransitiveClosure(edges, n) ==
  LET reach[k \in 0..n] ==
        IF k = 0 THEN edges
        ELSE LET near == reach[k-1]
             IN near \cup {<<ef[1][1], ef[2][2]>> : ef \in {g \in near \X edges : g[1][2] = g[2][1]}}
  IN reach[n]

\* The children, ordered by the closure of edges, run in any order it allows.
PartialOrder(children, edges, freq) ==
  Graft([kind |-> "PartialOrder", n |-> Len(children), freq |-> freq,
         closure |-> TransitiveClosure(edges, Len(children))], children)

\* One walk through the children, from the first to the last.
ChoiceGraph(children, edges, freq) ==
  Graft([kind |-> "ChoiceGraph", n |-> Len(children), freq |-> freq,
         edges |-> edges, start |-> 1, end |-> Len(children)], children)

\* What the constructors refuse is no tree.
WellFormed(m) ==
  \A p \in DOMAIN m : LET node == m[p] IN
    CASE node.kind = "PartialOrder" ->
           IsFrequency(node.freq) /\ node.n >= 2 /\ \A i \in 1..node.n : <<i, i>> \notin node.closure
      [] node.kind = "ChoiceGraph" ->
           /\ IsFrequency(node.freq) /\ node.n >= 2 /\ node.start # node.end
           /\ \A e \in node.edges : e[2] # node.start /\ e[1] # node.end
      [] OTHER -> TRUE

IsLeaf(node) == node.kind \in {"Atom", "Silent"}

Leaves(m) == {p \in DOMAIN m : IsLeaf(m[p])}

Composites(m) == DOMAIN m \ Leaves(m)

\* The paths of a tree are what Graft makes of them: every node but the root is
\* a child of a composite that has that many, and none is infinitely deep.
IsTree(m) ==
  /\ <<>> \in DOMAIN m /\ DOMAIN m \subseteq Seq(Nat)
  /\ \E deepest \in DOMAIN m : \A p \in DOMAIN m : Len(p) <= Len(deepest)
  /\ \A p \in DOMAIN m \ {<<>>} : Front(p) \in Composites(m) /\ Last(p) \in 1..m[Front(p)].n
  /\ \A p \in Composites(m) :
       /\ m[p].n \in Nat /\ \A i \in 1..m[p].n : Append(p, i) \in DOMAIN m
       /\ \/ /\ m[p].kind = "PartialOrder" /\ m[p].closure \subseteq (1..m[p].n) \X (1..m[p].n)
             /\ \A e, f \in m[p].closure : e[2] = f[1] => <<e[1], f[2]>> \in m[p].closure
          \/ /\ m[p].kind = "ChoiceGraph" /\ m[p].edges \subseteq (1..m[p].n) \X (1..m[p].n)
             /\ m[p].start \in 1..m[p].n /\ m[p].end \in 1..m[p].n

Children(m, p) == [i \in 1..m[p].n |-> Append(p, i)]

\* Content address: what occurrences of a leaf are counted by.
ActivityOf(m, p) == m[p].label

Labels(m) == {m[p].label : p \in {q \in DOMAIN m : m[q].kind = "Atom"}}

-----------------------------------------------------------------------------
(* Words *)

Epsilon == {<<>>}

Concat(left, right) == {u \o v : u \in left, v \in right}

\* The words of body, repeated as often as the frequency allows.
BoundedPower(body, freq) ==
  LET high == IF freq.max = Unbounded THEN MaxUnrolls ELSE freq.max
      power[n \in 0..high] == IF n = 0 THEN Epsilon ELSE Concat(power[n-1], body)
  IN UNION {power[n] : n \in {k \in 0..high : Allows(freq, k)}}

\* The merges of the words t[i] in which a word starts only after the words
\* before it in the order have been used up; pos says how far each one is.
Merges(t, closure) ==
  LET n == Len(t)
      ready(pos) == {i \in 1..n : pos[i] < Len(t[i]) /\ \A e \in closure : e[2] = i => pos[e[1]] = Len(t[e[1]])}
      rest[pos \in [1..n -> Nat]] ==
        IF \A i \in 1..n : pos[i] = Len(t[i]) THEN Epsilon
        ELSE UNION {Concat({<<t[i][pos[i]+1]>>}, rest[[pos EXCEPT ![i] = @ + 1]]) : i \in ready(pos)}
  IN rest[[i \in 1..n |-> 0]]

PartialOrderBody(node, words) ==
  UNION {Merges(t, node.closure) :
           t \in {c \in [1..node.n -> UNION Range(words)] : \A i \in 1..node.n : c[i] \in words[i]}}

\* The words of the walks from start to end that visit no child more than
\* MaxUnrolls times; seen counts the visits so far.
ChoiceGraphBody(node, words) ==
  LET rest[cur \in 1..node.n, seen \in [1..node.n -> Nat]] ==
        IF seen[cur] >= MaxUnrolls THEN {}
        ELSE IF cur = node.end THEN words[cur]
        ELSE Concat(words[cur],
                    UNION {rest[e[2], [seen EXCEPT ![cur] = @ + 1]] : e \in {f \in node.edges : f[1] = cur}})
  IN rest[node.start, [i \in 1..node.n |-> 0]]

\* The bounded language of a tree.
Language(m) ==
  LET words[p \in DOMAIN m] ==
        LET below == [i \in 1..m[p].n |-> words[Append(p, i)]]
        IN CASE m[p].kind = "Atom"         -> {<<m[p].label>>}
             [] m[p].kind = "Silent"       -> Epsilon
             [] m[p].kind = "PartialOrder" -> BoundedPower(PartialOrderBody(m[p], below), m[p].freq)
             [] m[p].kind = "ChoiceGraph"  -> BoundedPower(ChoiceGraphBody(m[p], below), m[p].freq)
  IN words[<<>>]

-----------------------------------------------------------------------------
(* The labels that may come first, read off the structure without bounds *)

Nullable(m) ==
  LET nullable[p \in DOMAIN m] ==
        CASE m[p].kind = "Atom"         -> FALSE
          [] m[p].kind = "Silent"       -> TRUE
          [] m[p].kind = "PartialOrder" -> Skippable(m[p].freq) \/ \A i \in 1..m[p].n : nullable[Append(p, i)]
          [] m[p].kind = "ChoiceGraph"  ->
               LET steps == {e \in m[p].edges : nullable[Append(p, e[1])] /\ nullable[Append(p, e[2])]}
               IN Skippable(m[p].freq) \/ <<m[p].start, m[p].end>> \in TransitiveClosure(steps, m[p].n)
  IN nullable

EnabledLabels(m) ==
  LET first[p \in DOMAIN m] ==
        CASE m[p].kind = "Atom"   -> {m[p].label}
          [] m[p].kind = "Silent" -> {}
          [] OTHER ->
               LET early(i) ==
                     IF m[p].kind = "PartialOrder"
                     THEN \A e \in m[p].closure : e[2] = i => Nullable(m)[Append(p, e[1])]
                     ELSE \/ i = m[p].start
                          \/ <<m[p].start, i>> \in
                               TransitiveClosure({e \in m[p].edges : Nullable(m)[Append(p, e[1])]}, m[p].n)
               IN IF m[p].freq.max = 0 THEN {}
                  ELSE UNION {first[Append(p, i)] : i \in {j \in 1..m[p].n : early(j)}}
  IN first[<<>>]
=============================================================================
