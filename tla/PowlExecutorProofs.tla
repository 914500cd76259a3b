------------------------- MODULE PowlExecutorProofs -------------------------
(***************************************************************************)
(* What the executor makes of a marking, for every tree and every bound.   *)
(*                                                                         *)
(* A fire enters the choice graphs above the leaf from the root down, and  *)
(* closes rounds from the leaf up.  Both forget progress, and neither      *)
(* forgets a visit.  What makes a visit certain is that a cursor is never  *)
(* on a leaf that has yet to be completed (Arrived): the choice graph of   *)
(* an enabled leaf then has to enter it, which counts, and is only enabled *)
(* to while the count is below the cap.                                    *)
(*                                                                         *)
(* A run is made again from its records, and by its events: a traversal    *)
(* does not depend on the occurrences that are counted (Alike).  A         *)
(* traversal goes on because a finished round is banked at once, and only  *)
(* begun where the frequency allows one more (Going).  Last, what the      *)
(* constructors of the algebra make has the shape that all this is about.  *)
(***************************************************************************)
EXTENDS PowlExecutor, NaturalSets, FiniteSetTheorems, TLAPS

-----------------------------------------------------------------------------
(* Paths *)

\* Paths that agree in every place are the same.
LEMMA SamePath ==
  ASSUME NEW p \in Seq(Nat), NEW q \in Seq(Nat), Len(p) = Len(q), \A i \in 1..Len(p) : p[i] = q[i]
  PROVE  p = q
<1>1. p = [i \in 1..Len(p) |-> p[i]] /\ q = [i \in 1..Len(q) |-> q[i]]
  OBVIOUS
<1>2. QED
  BY <1>1

\* A node is under another when its path begins with the path of the other.
LEMMA UnderIs ==
  ASSUME NEW p \in Seq(Nat), NEW q \in Seq(Nat)
  PROVE  Under(p, q) <=> Len(p) <= Len(q) /\ \A i \in 1..Len(p) : p[i] = q[i]
<1>. /\ Len(p) \in Nat /\ Len(q) \in Nat /\ DOMAIN p = 1..Len(p) /\ DOMAIN q = 1..Len(q)
     /\ p = [i \in 1..Len(p) |-> p[i]] /\ q = [i \in 1..Len(q) |-> q[i]]
  OBVIOUS
<1>1. ASSUME Len(p) <= Len(q)
      PROVE  SubSeq(p, 1, Len(p)) = SubSeq(q, 1, Len(p)) <=> \A i \in 1..Len(p) : p[i] = q[i]
  <2>1. SubSeq(p, 1, Len(p)) = [i \in 1..Len(p) |-> p[i]]
    OBVIOUS
  <2>2. SubSeq(q, 1, Len(p)) = [i \in 1..Len(p) |-> q[i]]
    BY <1>1
  <2>3. QED
    BY <2>1, <2>2
<1>2. QED
  BY <1>1 DEF Under, IsPrefix

\* The beginnings of a path.
Upper(p, d) == SubSeq(p, 1, d)

\* The beginning of a path that is d steps long.
LEMMA UpperIs ==
  ASSUME NEW p \in Seq(Nat), NEW d \in 0..Len(p)
  PROVE  /\ Upper(p, d) \in Seq(Nat) /\ Len(Upper(p, d)) = d /\ \A i \in 1..d : Upper(p, d)[i] = p[i]
         /\ d # 0 => Upper(p, d) = Append(Upper(p, d - 1), p[d])
         /\ d # 0 => Upper(p, d - 1) = Front(Upper(p, d)) /\ p[d] = Last(Upper(p, d))
         /\ Upper(p, 0) = <<>> /\ Upper(p, Len(p)) = p
         /\ Under(Upper(p, d), p)
<1>0. Len(p) \in Nat /\ DOMAIN p = 1..Len(p) /\ p = [i \in 1..Len(p) |-> p[i]]
  OBVIOUS
<1>1. ASSUME NEW e \in 0..Len(p)
      PROVE  Upper(p, e) \in Seq(Nat) /\ Len(Upper(p, e)) = e /\ \A i \in 1..e : Upper(p, e)[i] = p[i]
  BY <1>0 DEF Upper
<1>2. ASSUME d # 0
      PROVE  Upper(p, d) = Append(Upper(p, d - 1), p[d])
  <2>1. d - 1 \in 0..Len(p) /\ p[d] \in Nat
    BY <1>0, <1>2
  <2>. DEFINE u == Upper(p, d - 1)
  <2>2. u \in Seq(Nat) /\ Len(u) = d - 1 /\ \A i \in 1..d - 1 : u[i] = p[i]
    BY <1>1, <2>1
  <2>3. Upper(p, d) \in Seq(Nat) /\ Len(Upper(p, d)) = d /\ \A i \in 1..d : Upper(p, d)[i] = p[i]
    BY <1>1
  <2>. HIDE DEF u
  <2>4. Append(u, p[d]) \in Seq(Nat) /\ Len(Append(u, p[d])) = d
    BY <2>1, <2>2
  <2>5. \A i \in 1..d : Append(u, p[d])[i] = p[i]
    BY <2>1, <2>2
  <2>6. Upper(p, d) = Append(u, p[d])
    BY <2>3, <2>4, <2>5, SamePath
  <2>7. QED
    BY <2>6 DEF u
<1>3. ASSUME d # 0
      PROVE  Upper(p, d - 1) = Front(Upper(p, d)) /\ p[d] = Last(Upper(p, d))
  BY <1>0, <1>1, <1>3 DEF Front, Last, Upper
<1>4. Upper(p, 0) = <<>> /\ Upper(p, Len(p)) = p
  BY <1>0 DEF Upper
<1>5. Under(Upper(p, d), p)
  BY <1>0, <1>1, UnderIs
<1>6. QED
  BY <1>1, <1>2, <1>3, <1>4, <1>5

\* A child is one step further down.
LEMMA ChildIs ==
  ASSUME NEW p \in Seq(Nat), NEW i \in Nat
  PROVE  /\ Append(p, i) \in Seq(Nat) /\ Len(Append(p, i)) = Len(p) + 1 /\ Len(p) \in Nat
         /\ Front(Append(p, i)) = p /\ Last(Append(p, i)) = i
         /\ Append(p, i)[Len(p) + 1] = i
         /\ \A k \in 1..Len(p) : Append(p, i)[k] = p[k]
         /\ Under(p, Append(p, i)) /\ ~Under(Append(p, i), p)
<1>1. /\ Append(p, i) \in Seq(Nat) /\ Len(Append(p, i)) = Len(p) + 1 /\ Len(p) \in Nat
      /\ Last(Append(p, i)) = i /\ Append(p, i)[Len(p) + 1] = i
      /\ \A k \in 1..Len(p) : Append(p, i)[k] = p[k]
  BY DEF Last
<1>2. Front(Append(p, i)) = p
  <2>. DEFINE q == Append(p, i)
  <2>1. /\ Len(q) = Len(p) + 1 /\ Len(p) \in Nat /\ \A k \in 1..Len(p) : q[k] = p[k]
        /\ q \in Seq(Nat)
    BY <1>1
  <2>. HIDE DEF q
  <2>2. Front(q) \in Seq(Nat) /\ Len(Front(q)) = Len(p) /\ \A k \in 1..Len(p) : Front(q)[k] = p[k]
    BY <2>1 DEF Front
  <2>3. QED
    BY <2>2, SamePath DEF q
<1>3. Under(p, Append(p, i)) /\ ~Under(Append(p, i), p)
  <2>. DEFINE q == Append(p, i)
  <2>1. q \in Seq(Nat) /\ Len(q) = Len(p) + 1 /\ Len(p) \in Nat /\ \A k \in 1..Len(p) : q[k] = p[k]
    BY <1>1
  <2>. HIDE DEF q
  <2>2. Under(p, q) /\ ~Under(q, p)
    BY <2>1, UnderIs, SMTT(30)
  <2>3. QED
    BY <2>2 DEF q
<1>4. QED
  BY <1>1, <1>2, <1>3

\* Under is reflexive.
LEMMA UnderItself == ASSUME NEW p \in Seq(Nat) PROVE Under(p, p)
BY UnderIs

\* And transitive.
LEMMA UnderUnder ==
  ASSUME NEW p \in Seq(Nat), NEW q \in Seq(Nat), NEW r \in Seq(Nat), Under(p, q), Under(q, r)
  PROVE  Under(p, r)
<1>1. Len(p) \in Nat /\ Len(q) \in Nat /\ Len(r) \in Nat
  OBVIOUS
<1>2. /\ Len(p) <= Len(q) /\ \A i \in 1..Len(p) : p[i] = q[i]
      /\ Len(q) <= Len(r) /\ \A i \in 1..Len(q) : q[i] = r[i]
  BY UnderIs
<1>3. QED
  BY <1>1, <1>2, UnderIs

\* What a node is under, its child is under, and no less but itself.
LEMMA UnderChild ==
  ASSUME NEW r \in Seq(Nat), NEW p \in Seq(Nat), NEW i \in Nat
  PROVE  Under(r, Append(p, i)) <=> r = Append(p, i) \/ Under(r, p)
<1>. DEFINE q == Append(p, i)
<1>1. /\ q \in Seq(Nat) /\ Len(q) = Len(p) + 1 /\ Len(p) \in Nat /\ q[Len(p) + 1] = i
      /\ \A k \in 1..Len(p) : q[k] = p[k]
      /\ Under(p, q)
  BY ChildIs
<1>. HIDE DEF q
<1>2. Len(r) \in Nat
  OBVIOUS
<1>3. ASSUME Under(r, q), ~Under(r, p) PROVE r = q
  <2>1. Len(r) <= Len(q) /\ \A k \in 1..Len(r) : r[k] = q[k]
    BY <1>1, <1>3, UnderIs
  <2>2. ~(Len(r) <= Len(p))
    BY <1>1, <1>2, <1>3, <2>1, UnderIs
  <2>3. Len(r) = Len(q)
    BY <1>1, <1>2, <2>1, <2>2
  <2>4. QED
    BY <1>1, <2>1, <2>3
<1>4. Under(r, p) => Under(r, q)
  BY <1>1, UnderUnder
<1>5. Under(q, q)
  BY <1>1, UnderItself
<1>6. QED
  BY <1>3, <1>4, <1>5 DEF q

-----------------------------------------------------------------------------
(* Trees *)

\* What a tree has: nodes, leaves and composites, whose children are nodes.
LEMMA TreeIs ==
  ASSUME NEW m, IsTree(m)
  PROVE  /\ <<>> \in DOMAIN m /\ DOMAIN m \subseteq Seq(Nat)
         /\ Leaves(m) \subseteq DOMAIN m /\ Composites(m) \subseteq DOMAIN m
         /\ \A p \in DOMAIN m : p \in Leaves(m) <=> IsLeaf(m[p])
         /\ \A p \in DOMAIN m : p \in Composites(m) <=> ~IsLeaf(m[p])
         /\ \A p \in Composites(m) :
              /\ m[p].n \in Nat /\ \A i \in 1..m[p].n : Append(p, i) \in DOMAIN m
              /\ m[p].kind \in {"PartialOrder", "ChoiceGraph"}
              /\ m[p].kind = "ChoiceGraph" =>
                   /\ m[p].edges \subseteq (1..m[p].n) \X (1..m[p].n)
                   /\ m[p].start \in 1..m[p].n /\ m[p].end \in 1..m[p].n
BY DEF IsTree, Leaves, Composites

\* No path is longer than a certain depth.
LEMMA DeepestIs ==
  ASSUME NEW m, IsTree(m)
  PROVE  \E depth \in Nat : \A p \in DOMAIN m : Len(p) \in Nat /\ Len(p) <= depth
<1>1. PICK deepest \in DOMAIN m : \A p \in DOMAIN m : Len(p) <= Len(deepest)
  BY DEF IsTree
<1>2. \A p \in DOMAIN m : Len(p) \in Nat
  BY DEF IsTree
<1>3. QED
  BY <1>1, <1>2

\* The beginnings of a path are the nodes above it.
LEMMA AboveIs ==
  ASSUME NEW m, IsTree(m), NEW p \in DOMAIN m, NEW d \in 0..Len(p)
  PROVE  /\ Upper(p, d) \in DOMAIN m
         /\ d < Len(p) => Upper(p, d) \in Composites(m) /\ p[d + 1] \in 1..m[Upper(p, d)].n
<1>. DEFINE S == {j \in Nat : j <= Len(p) => Upper(p, Len(p) - j) \in DOMAIN m}
<1>0. p \in Seq(Nat) /\ Len(p) \in Nat
  BY DEF IsTree
<1>1. ASSUME NEW e \in 1..Len(p), Upper(p, e) \in DOMAIN m
      PROVE  Upper(p, e - 1) \in Composites(m) /\ p[e] \in 1..m[Upper(p, e - 1)].n
  <2>0. e # 0 /\ e \in 0..Len(p)
    BY <1>0
  <2>1. /\ Upper(p, e) \in Seq(Nat) /\ Len(Upper(p, e)) = e
        /\ Upper(p, e - 1) = Front(Upper(p, e)) /\ p[e] = Last(Upper(p, e))
    BY <1>0, <2>0, UpperIs
  <2>2. Upper(p, e) # <<>>
    BY <2>1
  <2>3. QED
    BY <1>1, <2>0, <2>1, <2>2 DEF IsTree
<1>2. 0 \in S
  BY <1>0, UpperIs
<1>3. ASSUME NEW j \in Nat, j \in S PROVE j + 1 \in S
  <2>1. CASE j + 1 <= Len(p)
    <3>1. Len(p) - j \in 1..Len(p) /\ (Len(p) - j) - 1 = Len(p) - (j + 1)
      BY <1>0, <2>1
    <3>. DEFINE e == Len(p) - j
    <3>2. Upper(p, e) \in DOMAIN m
      BY <1>0, <1>3, <2>1
    <3>3. e \in 1..Len(p) /\ e - 1 = Len(p) - (j + 1)
      BY <3>1
    <3>. HIDE DEF e
    <3>4. Upper(p, e - 1) \in Composites(m)
      BY <1>1, <3>2, <3>3
    <3>5. Upper(p, Len(p) - (j + 1)) \in DOMAIN m
      BY <3>3, <3>4, TreeIs
    <3>6. QED
      BY <3>5
  <2>2. QED
    BY <2>1
<1>4. ASSUME NEW e \in 0..Len(p) PROVE Upper(p, e) \in DOMAIN m
  <2>. HIDE DEF S
  <2>1. Nat \subseteq S
    BY <1>2, <1>3, NaturalInduction
  <2>2. Len(p) - e \in S
    BY <1>0, <2>1
  <2>3. QED
    BY <1>0, <2>2 DEF S
<1>5. ASSUME d < Len(p)
      PROVE  Upper(p, d) \in Composites(m) /\ p[d + 1] \in 1..m[Upper(p, d)].n
  <2>1. d + 1 \in 1..Len(p) /\ d + 1 \in 0..Len(p) /\ (d + 1) - 1 = d
    BY <1>0, <1>5
  <2>2. QED
    BY <1>1, <1>4, <2>1
<1>6. QED
  BY <1>4, <1>5

-----------------------------------------------------------------------------
(* What is complete *)

\* c says of every node of m whether marking mk completes it.
Completes(c, m, mk) == c = [p \in DOMAIN m |-> NodeComplete(m, mk, p, c)]

\* Whether a node is complete depends on its children alone.
LEMMA CompleteBelow ==
  ASSUME NEW m, IsTree(m), NEW mk, NEW p \in DOMAIN m, NEW c, NEW d,
         p \in Composites(m) => \A i \in 1..m[p].n : c[Append(p, i)] = d[Append(p, i)]
  PROVE  NodeComplete(m, mk, p, c) = NodeComplete(m, mk, p, d)
<1>1. CASE p \in Leaves(m)
  BY <1>1 DEF NodeComplete, Leaves
<1>2. CASE p \in Composites(m)
  <2>1. /\ m[p].kind \in {"PartialOrder", "ChoiceGraph"}
        /\ m[p].kind = "ChoiceGraph" => m[p].end \in 1..m[p].n
    BY <1>2, TreeIs
  <2>2. BodyDone(m[p], p, mk.cursor[p], c) = BodyDone(m[p], p, mk.cursor[p], d)
    BY <1>2, <2>1 DEF BodyDone
  <2>3. QED
    BY <2>2 DEF NodeComplete
<1>3. QED
  BY <1>1, <1>2 DEF Composites

\* The recursion of Complete has a solution, made level by level from the deepest.
LEMMA CompleteSome ==
  ASSUME NEW m, IsTree(m), NEW mk
  PROVE  \E c : Completes(c, m, mk)
<1>1. PICK depth \in Nat : \A p \in DOMAIN m : Len(p) \in Nat /\ Len(p) <= depth
  BY DeepestIs
<1>. DEFINE Right(c, j) == \A p \in DOMAIN m : Len(p) + j > depth => c[p] = NodeComplete(m, mk, p, c)
            S == {j \in Nat : \E c : Right(c, j)}
<1>2. 0 \in S
  BY <1>1
<1>3. ASSUME NEW j \in Nat, j \in S PROVE j + 1 \in S
  <2>1. PICK c : Right(c, j)
    BY <1>3
  <2>. DEFINE d == [p \in DOMAIN m |-> IF Len(p) + j = depth THEN NodeComplete(m, mk, p, c) ELSE c[p]]
  <2>2. ASSUME NEW p \in DOMAIN m, Len(p) + (j + 1) > depth
        PROVE  d[p] = NodeComplete(m, mk, p, d)
    <3>1. d[p] = NodeComplete(m, mk, p, c)
      BY <1>1, <2>1, <2>2
    <3>2. ASSUME p \in Composites(m), NEW i \in 1..m[p].n
          PROVE  c[Append(p, i)] = d[Append(p, i)]
      <4>1. Append(p, i) \in DOMAIN m /\ Len(Append(p, i)) = Len(p) + 1
        BY <3>2, TreeIs, ChildIs
      <4>2. ~(Len(Append(p, i)) + j = depth)
        BY <1>1, <2>2, <4>1
      <4>3. QED
        BY <4>1, <4>2
    <3>. HIDE DEF d
    <3>3. NodeComplete(m, mk, p, c) = NodeComplete(m, mk, p, d)
      BY <3>2, CompleteBelow
    <3>4. QED
      BY <3>1, <3>3
  <2>. HIDE DEF d
  <2>3. Right(d, j + 1)
    BY <2>2
  <2>4. QED
    BY <2>3
<1>. HIDE DEF Right
<1>4. depth + 1 \in S
  BY <1>2, <1>3, NaturalInduction
<1>5. PICK c : Right(c, depth + 1)
  BY <1>4
<1>. DEFINE d == [p \in DOMAIN m |-> c[p]]
<1>6. ASSUME NEW p \in DOMAIN m PROVE d[p] = NodeComplete(m, mk, p, d)
  <2>1. d[p] = NodeComplete(m, mk, p, c)
    BY <1>1, <1>5 DEF Right
  <2>2. p \in Composites(m) => \A i \in 1..m[p].n : c[Append(p, i)] = d[Append(p, i)]
    BY TreeIs
  <2>. HIDE DEF d
  <2>3. QED
    BY <2>1, <2>2, CompleteBelow
<1>7. d = [p \in DOMAIN m |-> d[p]]
  OBVIOUS
<1>. HIDE DEF d
<1>8. d = [p \in DOMAIN m |-> NodeComplete(m, mk, p, d)]
  BY <1>6, <1>7
<1>9. QED
  BY <1>8 DEF Completes

\* So Complete satisfies it.
LEMMA CompleteIs ==
  ASSUME NEW m, IsTree(m), NEW mk
  PROVE  \A p \in DOMAIN m : Complete(m, mk)[p] = NodeComplete(m, mk, p, Complete(m, mk))
<1>. DEFINE c == CHOOSE g : g = [p \in DOMAIN m |-> NodeComplete(m, mk, p, g)]
<1>1. Complete(m, mk) = c
  BY DEF Complete
<1>2. c = [p \in DOMAIN m |-> NodeComplete(m, mk, p, c)]
  <2>1. \E g : g = [p \in DOMAIN m |-> NodeComplete(m, mk, p, g)]
    BY CompleteSome DEF Completes
  <2>2. QED
    BY <2>1, Zenon
<1>. HIDE DEF c
<1>3. QED
  BY <1>1, <1>2

\* A leaf is complete when it is on record.
LEMMA LeafComplete ==
  ASSUME NEW m, IsTree(m), NEW mk, NEW p \in Leaves(m)
  PROVE  IsComplete(m, mk, p) <=> p \in mk.paths
<1>1. p \in DOMAIN m /\ IsLeaf(m[p])
  BY DEF Leaves
<1>2. IsComplete(m, mk, p) = NodeComplete(m, mk, p, Complete(m, mk))
  BY <1>1, CompleteIs DEF IsComplete
<1>3. QED
  BY <1>1, <1>2 DEF NodeComplete

-----------------------------------------------------------------------------
(* Markings *)

\* The shape of a marking of tree m.
Fits(m, mk) ==
  /\ DOMAIN mk = {"completed", "cursor", "visits", "fires", "paths", "rounds"}
  /\ mk.paths \subseteq Leaves(m)
  /\ DOMAIN mk.cursor = Composites(m) /\ \A p \in Composites(m) : mk.cursor[p] \in 0..m[p].n
  /\ DOMAIN mk.visits = Composites(m)
  /\ \A p \in Composites(m) : DOMAIN mk.visits[p] = 0..m[p].n /\ \A i \in 0..m[p].n : mk.visits[p][i] \in Nat

\* What a purge forgets.
LEMMA PurgedIs ==
  ASSUME NEW m, NEW mk, Fits(m, mk), NEW root, NEW kept
  PROVE  LET v == PurgedBut(mk, root, kept)
         IN  /\ DOMAIN v = DOMAIN mk /\ v.visits = mk.visits
             /\ v.paths = {p \in mk.paths : ~Under(root, p)}
             /\ DOMAIN v.cursor = Composites(m)
             /\ \A p \in Composites(m) : v.cursor[p] = IF Under(root, p) THEN 0 ELSE mk.cursor[p]
BY DEF PurgedBut, Fits

\* A purged marking is a marking.
LEMMA PurgedFits ==
  ASSUME NEW m, IsTree(m), NEW mk, Fits(m, mk), NEW root, NEW kept
  PROVE  Fits(m, PurgedBut(mk, root, kept))
<1>. DEFINE v == PurgedBut(mk, root, kept)
<1>1. /\ DOMAIN v = DOMAIN mk /\ v.visits = mk.visits
      /\ v.paths = {p \in mk.paths : ~Under(root, p)}
      /\ DOMAIN v.cursor = Composites(m)
      /\ \A p \in Composites(m) : v.cursor[p] = IF Under(root, p) THEN 0 ELSE mk.cursor[p]
  BY PurgedIs
<1>. HIDE DEF v
<1>2. \A p \in Composites(m) : m[p].n \in Nat
  BY TreeIs
<1>3. Fits(m, v)
  BY <1>1, <1>2 DEF Fits
<1>4. QED
  BY <1>3 DEF v

-----------------------------------------------------------------------------
(* What is enabled *)

\* Where an offer of a composite comes from.
LEMMA OfferVia ==
  ASSUME NEW m, IsTree(m), NEW mk, Fits(m, mk), NEW cap, NEW p \in Composites(m), NEW a \in BOOLEAN, NEW f,
         NEW q \in Offers(m, mk, cap, p, a, f)
  PROVE  \E i \in 1..m[p].n, b \in BOOLEAN :
           /\ q \in f[<<Append(p, i), b>>]
           /\ m[p].kind = "ChoiceGraph" =>
                \/ a = FALSE /\ mk.cursor[p] = i /\ ~IsComplete(m, mk, Append(p, i))
                \/ ~Capped(mk.visits[p][i], cap)
<1>. DEFINE node == m[p]
            view == IF a THEN Purged(mk, p) ELSE mk
            complete == Complete(m, view)
            child(i) == Append(p, i)
            ready == {i \in 1..node.n : /\ ~complete[child(i)]
                                        /\ \A e \in node.closure : e[2] = i => complete[child(e[1])]}
            cur == view.cursor[p]
            next == IF cur = 0 THEN {node.start} ELSE {e[2] : e \in {x \in node.edges : x[1] = cur}}
<1>0. /\ ~IsLeaf(node) /\ node.n \in Nat /\ p \in Seq(Nat)
      /\ node.kind \in {"PartialOrder", "ChoiceGraph"}
      /\ node.kind = "ChoiceGraph" =>
           /\ node.edges \subseteq (1..node.n) \X (1..node.n)
           /\ node.start \in 1..node.n
  BY TreeIs
<1>1. /\ cur \in 0..node.n /\ view.visits = mk.visits
      /\ a => cur = 0
      /\ ~a => view = mk
  <2>1. CASE a
    <3>1. Under(p, p)
      BY <1>0, UnderItself
    <3>2. view.cursor[p] = 0 /\ view.visits = mk.visits
      BY <2>1, <3>1, PurgedIs DEF Purged
    <3>3. QED
      BY <1>0, <2>1, <3>2
  <2>2. CASE ~a
    BY <2>2 DEF Fits
  <2>3. QED
    BY <2>1, <2>2
<1>2. q \in (IF IsLeaf(node) THEN {p} \ view.paths
     ELSE IF Exhausted(node, p, view, cap) THEN {}
     ELSE IF node.kind = "PartialOrder" THEN UNION {f[<<child(i), a>>] : i \in ready}
     ELSE IF cur # 0 /\ ~complete[child(cur)] THEN f[<<child(cur), a>>]
     ELSE IF cur = node.end THEN {}
     ELSE UNION {f[<<child(i), TRUE>>] : i \in {j \in next : ~Capped(view.visits[p][j], cap)}})
  BY DEF Offers
<1>3. next \subseteq 1..node.n \/ node.kind = "PartialOrder"
  BY <1>0
<1>. HIDE DEF node, view, complete, ready, cur, next
<1>4. CASE node.kind = "PartialOrder"
  <2>1. PICK i \in ready : q \in f[<<child(i), a>>]
    BY <1>0, <1>2, <1>4
  <2>2. i \in 1..node.n
    BY DEF ready
  <2>3. QED
    BY <1>4, <2>1, <2>2 DEF node
<1>5. CASE node.kind = "ChoiceGraph" /\ cur # 0 /\ ~complete[child(cur)]
  <2>1. q \in f[<<child(cur), a>>] /\ cur \in 1..node.n
    BY <1>0, <1>1, <1>2, <1>5
  <2>2. a = FALSE /\ view = mk
    BY <1>1, <1>5
  <2>3. mk.cursor[p] = cur /\ ~IsComplete(m, mk, child(cur))
    BY <1>5, <2>2 DEF cur, complete, IsComplete
  <2>4. QED
    BY <2>1, <2>2, <2>3 DEF node
<1>6. CASE node.kind = "ChoiceGraph" /\ ~(cur # 0 /\ ~complete[child(cur)])
  <2>1. PICK i \in next : q \in f[<<child(i), TRUE>>] /\ ~Capped(view.visits[p][i], cap)
    BY <1>0, <1>2, <1>6
  <2>2. i \in 1..node.n /\ ~Capped(mk.visits[p][i], cap)
    BY <1>1, <1>3, <1>6, <2>1
  <2>3. QED
    BY <2>1, <2>2 DEF node
<1>7. QED
  BY <1>0, <1>4, <1>5, <1>6

\* f and g offer the same below p.
SameBelow(f, g, m, p) ==
  p \in Composites(m) => \A i \in 1..m[p].n, b \in BOOLEAN : f[<<Append(p, i), b>>] = g[<<Append(p, i), b>>]

\* What a node offers depends on its children alone.
LEMMA OffersBelow ==
  ASSUME NEW m, IsTree(m), NEW mk, Fits(m, mk), NEW cap, NEW p \in DOMAIN m, NEW a \in BOOLEAN, NEW f, NEW g,
         SameBelow(f, g, m, p)
  PROVE  Offers(m, mk, cap, p, a, f) = Offers(m, mk, cap, p, a, g)
<1>. DEFINE node == m[p]
            view == IF a THEN Purged(mk, p) ELSE mk
            complete == Complete(m, view)
            child(i) == Append(p, i)
            ready == {i \in 1..node.n : /\ ~complete[child(i)]
                                        /\ \A e \in node.closure : e[2] = i => complete[child(e[1])]}
            cur == view.cursor[p]
            next == IF cur = 0 THEN {node.start} ELSE {e[2] : e \in {x \in node.edges : x[1] = cur}}
            open == {j \in next : ~Capped(view.visits[p][j], cap)}
            Offer(h) == IF IsLeaf(node) THEN {p} \ view.paths
               ELSE IF Exhausted(node, p, view, cap) THEN {}
               ELSE IF node.kind = "PartialOrder" THEN UNION {h[<<child(i), a>>] : i \in ready}
               ELSE IF cur # 0 /\ ~complete[child(cur)] THEN h[<<child(cur), a>>]
               ELSE IF cur = node.end THEN {}
               ELSE UNION {h[<<child(i), TRUE>>] : i \in open}
<1>1. \A h : Offers(m, mk, cap, p, a, h) = Offer(h)
  BY DEF Offers
<1>2. CASE p \in Leaves(m)
  BY <1>1, <1>2, TreeIs
<1>3. CASE p \in Composites(m)
  <2>0. /\ ~IsLeaf(node) /\ node.n \in Nat /\ p \in Seq(Nat)
        /\ node.kind \in {"PartialOrder", "ChoiceGraph"}
        /\ node.kind = "ChoiceGraph" =>
             /\ node.edges \subseteq (1..node.n) \X (1..node.n)
             /\ node.start \in 1..node.n
    BY <1>3, TreeIs
  <2>1. cur \in 0..node.n
    <3>1. CASE a
      <4>1. Fits(m, view)
        BY <3>1, PurgedFits DEF Purged
      <4>2. QED
        BY <1>3, <4>1 DEF Fits
    <3>2. CASE ~a
      BY <1>3, <3>2 DEF Fits
    <3>3. QED
      BY <3>1, <3>2
  <2>2. ready \subseteq 1..node.n /\ (node.kind = "ChoiceGraph" => open \subseteq 1..node.n)
    BY <2>0
  <2>3. \A i \in 1..node.n, b \in BOOLEAN : f[<<child(i), b>>] = g[<<child(i), b>>]
    BY <1>3 DEF SameBelow
  <2>. HIDE DEF node, view, complete, child, ready, cur, next, open
  <2>4. CASE node.kind = "PartialOrder"
    <3>1. \A i \in ready : f[<<child(i), a>>] = g[<<child(i), a>>]
      BY <2>2, <2>3
    <3>2. UNION {f[<<child(i), a>>] : i \in ready} = UNION {g[<<child(i), a>>] : i \in ready}
      BY <3>1
    <3>3. QED
      BY <1>1, <2>4, <3>2
  <2>5. CASE node.kind = "ChoiceGraph"
    <3>1. \A i \in open : f[<<child(i), TRUE>>] = g[<<child(i), TRUE>>]
      BY <2>2, <2>3, <2>5
    <3>2. UNION {f[<<child(i), TRUE>>] : i \in open} = UNION {g[<<child(i), TRUE>>] : i \in open}
      BY <3>1
    <3>3. cur # 0 => f[<<child(cur), a>>] = g[<<child(cur), a>>]
      BY <2>0, <2>1, <2>3
    <3>4. QED
      BY <1>1, <2>5, <3>2, <3>3
  <2>6. QED
    BY <2>0, <2>4, <2>5
<1>4. QED
  BY <1>2, <1>3, TreeIs DEF Composites

\* f solves the recursion of EnabledUnder.
Offered(f, m, mk, cap) ==
  f = [at \in (DOMAIN m) \X BOOLEAN |-> Offers(m, mk, cap, at[1], at[2], f)]

\* There is a solution, made level by level from the deepest.
LEMMA OfferedSome ==
  ASSUME NEW m, IsTree(m), NEW mk, Fits(m, mk), NEW cap
  PROVE  \E f : Offered(f, m, mk, cap)
<1>1. PICK depth \in Nat : \A p \in DOMAIN m : Len(p) \in Nat /\ Len(p) <= depth
  BY DeepestIs
<1>. DEFINE D == (DOMAIN m) \X BOOLEAN
            Right(f, j) == \A p \in DOMAIN m, a \in BOOLEAN :
                             Len(p) + j > depth => f[<<p, a>>] = Offers(m, mk, cap, p, a, f)
            S == {j \in Nat : \E f : Right(f, j)}
<1>2. 0 \in S
  BY <1>1
<1>3. ASSUME NEW j \in Nat, j \in S PROVE j + 1 \in S
  <2>1. PICK f : Right(f, j)
    BY <1>3
  <2>. DEFINE g == [at \in D |-> IF Len(at[1]) + j = depth THEN Offers(m, mk, cap, at[1], at[2], f) ELSE f[at]]
  <2>2. ASSUME NEW p \in DOMAIN m, NEW a \in BOOLEAN, Len(p) + (j + 1) > depth
        PROVE  g[<<p, a>>] = Offers(m, mk, cap, p, a, g)
    <3>1. g[<<p, a>>] = Offers(m, mk, cap, p, a, f)
      BY <1>1, <2>1, <2>2
    <3>2. ASSUME p \in Composites(m), NEW i \in 1..m[p].n, NEW b \in BOOLEAN
          PROVE  f[<<Append(p, i), b>>] = g[<<Append(p, i), b>>]
      <4>1. Append(p, i) \in DOMAIN m /\ Len(Append(p, i)) = Len(p) + 1
        BY <3>2, TreeIs, ChildIs
      <4>2. ~(Len(Append(p, i)) + j = depth)
        BY <1>1, <2>2, <4>1
      <4>3. QED
        BY <4>1, <4>2
    <3>. HIDE DEF g
    <3>3. SameBelow(f, g, m, p)
      BY <3>2 DEF SameBelow
    <3>4. Offers(m, mk, cap, p, a, f) = Offers(m, mk, cap, p, a, g)
      BY <3>3, OffersBelow
    <3>5. QED
      BY <3>1, <3>4
  <2>. HIDE DEF g
  <2>3. Right(g, j + 1)
    BY <2>2
  <2>4. QED
    BY <2>3
<1>. HIDE DEF Right
<1>4. depth + 1 \in S
  BY <1>2, <1>3, NaturalInduction
<1>5. PICK f : Right(f, depth + 1)
  BY <1>4
<1>. DEFINE g == [at \in D |-> f[at]]
<1>6. ASSUME NEW p \in DOMAIN m, NEW a \in BOOLEAN
      PROVE  g[<<p, a>>] = Offers(m, mk, cap, p, a, g)
  <2>1. g[<<p, a>>] = Offers(m, mk, cap, p, a, f)
    BY <1>1, <1>5 DEF Right
  <2>2. SameBelow(f, g, m, p)
    BY TreeIs DEF SameBelow
  <2>. HIDE DEF g
  <2>3. QED
    BY <2>1, <2>2, OffersBelow
<1>7. g = [at \in D |-> g[at]]
  OBVIOUS
<1>8. \A at \in D : at[1] \in DOMAIN m /\ at[2] \in BOOLEAN /\ at = <<at[1], at[2]>>
  OBVIOUS
<1>. HIDE DEF g, D
<1>9. \A at \in D : g[at] = Offers(m, mk, cap, at[1], at[2], g)
  BY <1>6, <1>8
<1>10. g = [at \in D |-> Offers(m, mk, cap, at[1], at[2], g)]
  BY <1>7, <1>9
<1>11. QED
  BY <1>10 DEF Offered, D

\* What a solution says of the nodes, one by one.
Offering(f, m, mk, cap) ==
  \A p \in DOMAIN m, a \in BOOLEAN : f[<<p, a>>] = Offers(m, mk, cap, p, a, f)

\* What is enabled is what a solution offers at the root.
LEMMA EnabledIsOffered ==
  ASSUME NEW m, IsTree(m), NEW mk, Fits(m, mk), NEW cap
  PROVE  \E f : /\ Offering(f, m, mk, cap)
                /\ EnabledUnder(m, mk, cap) = f[<< <<>>, FALSE >>]
<1>. DEFINE D == (DOMAIN m) \X BOOLEAN
            f == CHOOSE g : g = [at \in D |-> Offers(m, mk, cap, at[1], at[2], g)]
<1>1. EnabledUnder(m, mk, cap) = f[<< <<>>, FALSE >>]
  BY DEF EnabledUnder
<1>2. f = [at \in D |-> Offers(m, mk, cap, at[1], at[2], f)]
  <2>1. \E g : Offered(g, m, mk, cap)
    BY OfferedSome
  <2>2. \E g : g = [at \in D |-> Offers(m, mk, cap, at[1], at[2], g)]
    BY <2>1 DEF Offered
  <2>3. QED
    BY <2>2, Zenon
<1>. HIDE DEF f
<1>3. ASSUME NEW p \in DOMAIN m, NEW a \in BOOLEAN PROVE f[<<p, a>>] = Offers(m, mk, cap, p, a, f)
  BY <1>2
<1>4. QED
  BY <1>1, <1>3 DEF Offering

\* A node offers leaves that are under it.
LEMMA OffersUnder ==
  ASSUME NEW m, IsTree(m), NEW mk, Fits(m, mk), NEW cap, NEW f,
         Offering(f, m, mk, cap)
  PROVE  \A p \in DOMAIN m, a \in BOOLEAN : \A q \in f[<<p, a>>] : q \in Leaves(m) /\ Under(p, q)
<1>1. PICK depth \in Nat : \A p \in DOMAIN m : Len(p) \in Nat /\ Len(p) <= depth
  BY DeepestIs
<1>. DEFINE Right(p) == \A a \in BOOLEAN : \A q \in f[<<p, a>>] : q \in Leaves(m) /\ Under(p, q)
            S == {j \in Nat : \A p \in DOMAIN m : Len(p) + j > depth => Right(p)}
<1>2. 0 \in S
  BY <1>1
<1>3. ASSUME NEW j \in Nat, j \in S PROVE j + 1 \in S
  <2>1. ASSUME NEW p \in DOMAIN m, Len(p) + (j + 1) > depth PROVE Right(p)
    <3>1. SUFFICES ASSUME NEW a \in BOOLEAN, NEW q \in f[<<p, a>>] PROVE q \in Leaves(m) /\ Under(p, q)
      OBVIOUS
    <3>2. p \in Seq(Nat)
      BY TreeIs
    <3>3. q \in Offers(m, mk, cap, p, a, f)
      BY <3>1 DEF Offering
    <3>4. CASE p \in Leaves(m)
      <4>1. q = p
        BY <3>3, <3>4, TreeIs DEF Offers
      <4>2. QED
        BY <3>2, <3>4, <4>1, UnderItself
    <3>5. CASE p \in Composites(m)
      <4>1. PICK i \in 1..m[p].n, b \in BOOLEAN : q \in f[<<Append(p, i), b>>]
        BY <3>3, <3>5, OfferVia
      <4>2. Append(p, i) \in DOMAIN m /\ i \in Nat
        BY <3>5, TreeIs
      <4>3. Len(Append(p, i)) = Len(p) + 1 /\ Append(p, i) \in Seq(Nat) /\ Under(p, Append(p, i))
        BY <3>2, <4>2, ChildIs
      <4>4. Len(Append(p, i)) + j > depth
        BY <1>1, <2>1, <4>3
      <4>5. Right(Append(p, i))
        BY <1>3, <4>2, <4>4
      <4>6. q \in Leaves(m) /\ Under(Append(p, i), q)
        BY <4>1, <4>5
      <4>7. q \in Seq(Nat)
        BY <4>6, TreeIs
      <4>8. QED
        BY <3>2, <4>3, <4>6, <4>7, UnderUnder
    <3>6. QED
      BY <3>4, <3>5, TreeIs DEF Composites
  <2>. HIDE DEF Right
  <2>2. QED
    BY <2>1
<1>. HIDE DEF Right
<1>4. depth + 1 \in S
  BY <1>2, <1>3, NaturalInduction
<1>5. ASSUME NEW p \in DOMAIN m PROVE Right(p)
  BY <1>1, <1>4
<1>6. QED
  BY <1>5 DEF Right

\* A leaf that is offered is offered by every node above it.
LEMMA OfferedAbove ==
  ASSUME NEW m, IsTree(m), NEW mk, Fits(m, mk), NEW cap, NEW f,
         Offering(f, m, mk, cap), NEW q \in Leaves(m), q \in f[<< <<>>, FALSE >>]
  PROVE  \A d \in 0..Len(q) : \E a \in BOOLEAN : q \in f[<<Upper(q, d), a>>]
<1>. DEFINE S == {d \in Nat : d <= Len(q) => \E a \in BOOLEAN : q \in f[<<Upper(q, d), a>>]}
<1>0. q \in DOMAIN m /\ q \in Seq(Nat) /\ Len(q) \in Nat
  BY TreeIs
<1>1. 0 \in S
  <2>1. Upper(q, 0) = <<>>
    BY <1>0, UpperIs
  <2>2. QED
    BY <2>1
<1>2. ASSUME NEW d \in Nat, d \in S PROVE d + 1 \in S
  <2>1. SUFFICES ASSUME d + 1 <= Len(q) PROVE \E a \in BOOLEAN : q \in f[<<Upper(q, d + 1), a>>]
    OBVIOUS
  <2>. DEFINE p == Upper(q, d)
  <2>2. d \in 0..Len(q) /\ d + 1 \in 0..Len(q) /\ d < Len(q) /\ d + 1 \in 1..Len(q)
    BY <1>0, <2>1
  <2>3. p \in Composites(m) /\ p \in Seq(Nat) /\ Len(p) = d /\ p \in DOMAIN m
    BY <1>0, <2>2, AboveIs, UpperIs
  <2>4. PICK a \in BOOLEAN : q \in f[<<p, a>>]
    <3>1. d <= Len(q)
      BY <2>2
    <3>2. QED
      BY <1>2, <3>1
  <2>5. q \in Offers(m, mk, cap, p, a, f)
    BY <2>3, <2>4 DEF Offering
  <2>. HIDE DEF p
  <2>6. PICK i \in 1..m[p].n, b \in BOOLEAN : q \in f[<<Append(p, i), b>>]
    BY <2>3, <2>5, OfferVia
  <2>7. Append(p, i) \in DOMAIN m /\ i \in Nat
    BY <2>3, TreeIs
  <2>8. /\ Append(p, i) \in Seq(Nat) /\ Len(Append(p, i)) = d + 1 /\ Append(p, i)[d + 1] = i
    BY <2>3, <2>7, ChildIs
  <2>9. Under(Append(p, i), q)
    BY <2>6, <2>7, OffersUnder
  <2>10. q[d + 1] = i
    <3>1. \A k \in 1..Len(Append(p, i)) : Append(p, i)[k] = q[k]
      BY <1>0, <2>8, <2>9, UnderIs
    <3>2. d + 1 \in 1..Len(Append(p, i))
      BY <2>2, <2>8
    <3>3. QED
      BY <2>8, <3>1, <3>2
  <2>11. Upper(q, d + 1) = Append(Upper(q, d), q[d + 1])
    <3>1. d + 1 # 0 /\ (d + 1) - 1 = d
      BY <2>2
    <3>2. QED
      BY <1>0, <2>2, <3>1, UpperIs
  <2>12. Upper(q, d + 1) = Append(p, i)
    BY <2>10, <2>11 DEF p
  <2>13. QED
    BY <2>6, <2>12
<1>. HIDE DEF S
<1>3. Nat \subseteq S
  BY <1>1, <1>2, NaturalInduction
<1>4. QED
  BY <1>0, <1>3 DEF S

\* Whatever is enabled is a leaf.  If it is the child of a choice graph, then
\* the cursor is on it and it is not complete, or it may be entered once more.
LEMMA EnabledIs ==
  ASSUME NEW m, IsTree(m), NEW mk, Fits(m, mk), NEW cap, NEW q \in EnabledUnder(m, mk, cap)
  PROVE  /\ q \in Leaves(m)
         /\ q # <<>> /\ m[Front(q)].kind = "ChoiceGraph" =>
              \/ mk.cursor[Front(q)] = Last(q) /\ q \notin mk.paths
              \/ ~Capped(mk.visits[Front(q)][Last(q)], cap)
<1>1. PICK f : /\ Offering(f, m, mk, cap)
               /\ EnabledUnder(m, mk, cap) = f[<< <<>>, FALSE >>]
  BY EnabledIsOffered
<1>2. q \in Leaves(m) /\ q \in f[<< <<>>, FALSE >>]
  <2>1. <<>> \in DOMAIN m /\ q \in f[<< <<>>, FALSE >>]
    BY <1>1, TreeIs
  <2>2. QED
    BY <1>1, <2>1, OffersUnder
<1>3. q \in DOMAIN m /\ q \in Seq(Nat) /\ Len(q) \in Nat
  BY <1>2, TreeIs
<1>4. ASSUME q # <<>>, m[Front(q)].kind = "ChoiceGraph"
      PROVE  \/ mk.cursor[Front(q)] = Last(q) /\ q \notin mk.paths
             \/ ~Capped(mk.visits[Front(q)][Last(q)], cap)
  <2>. DEFINE p == Front(q)
  <2>0. Len(q) # 0
    BY <1>3, <1>4
  <2>1. Len(q) - 1 \in 0..Len(q) /\ Len(q) - 1 < Len(q) /\ Len(q) \in 1..Len(q) /\ Len(q) \in 0..Len(q)
    BY <1>3, <2>0
  <2>2. p = Upper(q, Len(q) - 1)
    BY DEF Front, Upper
  <2>. HIDE DEF p
  <2>3. p \in Composites(m) /\ p \in DOMAIN m
    BY <1>3, <2>1, <2>2, AboveIs
  <2>4. p \in Seq(Nat) /\ Len(p) = Len(q) - 1
    BY <1>3, <2>1, <2>2, UpperIs
  <2>5. PICK a \in BOOLEAN : q \in f[<<p, a>>]
    <3>1. \A d \in 0..Len(q) : \E a \in BOOLEAN : q \in f[<<Upper(q, d), a>>]
      BY <1>1, <1>2, OfferedAbove
    <3>2. QED
      BY <2>1, <2>2, <3>1
  <2>6. q \in Offers(m, mk, cap, p, a, f)
    BY <1>1, <2>3, <2>5 DEF Offering
  <2>7. PICK i \in 1..m[p].n, b \in BOOLEAN :
           /\ q \in f[<<Append(p, i), b>>]
           /\ m[p].kind = "ChoiceGraph" =>
                \/ a = FALSE /\ mk.cursor[p] = i /\ ~IsComplete(m, mk, Append(p, i))
                \/ ~Capped(mk.visits[p][i], cap)
    BY <2>3, <2>6, OfferVia, ZenonT(30)
  <2>8. Append(p, i) \in DOMAIN m /\ i \in Nat
    BY <2>3, TreeIs
  <2>9. /\ Append(p, i) \in Seq(Nat) /\ Len(Append(p, i)) = Len(q) /\ Append(p, i)[Len(q)] = i
    BY <1>3, <2>4, <2>8, ChildIs
  <2>10. Under(Append(p, i), q)
    BY <1>1, <2>7, <2>8, OffersUnder
  <2>11. Append(p, i) = q
    BY <1>3, <2>9, <2>10, UnderIs, SamePath
  <2>12. Last(q) = i
    BY <2>9, <2>11 DEF Last
  <2>13. IsComplete(m, mk, q) <=> q \in mk.paths
    BY <1>2, LeafComplete
  <2>14. QED
    BY <1>4, <2>7, <2>11, <2>12, <2>13 DEF p
<1>5. QED
  BY <1>2, <1>4

-----------------------------------------------------------------------------
(* Entering *)

\* The cursor of q is on a leaf that is not on record.
Ahead(m, mk, q) ==
  /\ m[q].kind = "ChoiceGraph" /\ mk.cursor[q] # 0
  /\ Append(q, mk.cursor[q]) \in Leaves(m) \ mk.paths

\* A cursor is on a leaf only when it has been completed.
Arrived(m, mk) == \A q \in Composites(m) : ~Ahead(m, mk, q)

\* How often leaf c was entered from the node above it.
Times(mk, c) == mk.visits[Front(c)][Last(c)]

\* What is left of marking mk once the nodes above path have been entered.
OnTheWay(m, mk, e, path) ==
  /\ Fits(m, e) /\ Arrived(m, e)
  /\ \A c \in Leaves(m) \ {<<>>} : Times(e, c) = Times(mk, c)
  /\ \/ e.cursor[Front(path)] = 0
     \/ e.cursor[Front(path)] = mk.cursor[Front(path)] /\ (path \in e.paths <=> path \in mk.paths)

\* And of mk, once path itself has been.
There(m, mk, e, path) ==
  /\ Fits(m, e)
  /\ \A q \in Composites(m) : Ahead(m, e, q) => Append(q, e.cursor[q]) = path
  /\ \A c \in Leaves(m) \ {<<>>} :
       Times(e, c) = IF c = path /\ m[Front(c)].kind = "ChoiceGraph" THEN Times(mk, c) + 1 ELSE Times(mk, c)

\* A leaf that is not the root is a child of the composite above it.
LEMMA LeafIs ==
  ASSUME NEW m, IsTree(m), NEW c \in Leaves(m), c # <<>>
  PROVE  /\ c \in DOMAIN m /\ c \in Seq(Nat) /\ c = Append(Front(c), Last(c)) /\ Front(c) = Upper(c, Len(c) - 1)
         /\ Front(c) \in Composites(m) /\ Front(c) \in Seq(Nat) /\ Last(c) \in 1..m[Front(c)].n
         /\ Len(c) \in Nat \ {0} /\ Len(Front(c)) = Len(c) - 1 /\ Last(c) = c[Len(c)]
<1>1. c \in DOMAIN m /\ c \in Seq(Nat) /\ Len(c) \in Nat
  BY TreeIs
<1>2. Len(c) # 0
  BY <1>1
<1>3. Len(c) \in 0..Len(c) /\ Len(c) - 1 \in 0..Len(c)
  BY <1>1, <1>2
<1>4. Front(c) = Upper(c, Len(c) - 1) /\ Last(c) = c[Len(c)]
  BY DEF Front, Last, Upper
<1>5. c = Append(Upper(c, Len(c) - 1), c[Len(c)])
  BY <1>1, <1>2, <1>3, UpperIs
<1>6. Front(c) \in Composites(m) /\ Last(c) \in 1..m[Front(c)].n
  BY <1>1 DEF IsTree
<1>7. Front(c) \in Seq(Nat) /\ Len(Front(c)) = Len(c) - 1
  BY <1>1, <1>3, <1>4, UpperIs, ZenonT(30)
<1>8. QED
  BY <1>1, <1>2, <1>4, <1>5, <1>6, <1>7

\* Entering child i of p resets what is under the child, and counts a visit.
LEMMA EnterIs ==
  ASSUME NEW m, IsTree(m), NEW mk, Fits(m, mk), NEW p \in Composites(m), NEW i \in 1..m[p].n,
         m[p].kind = "ChoiceGraph", mk.cursor[p] # i \/ IsComplete(m, mk, Append(p, i))
  PROVE  LET e == Enter(m, mk, p, i)
         IN  /\ Fits(m, e)
             /\ e.cursor[p] = i
             /\ \A q \in Composites(m) \ {p} :
                  e.cursor[q] = IF Under(Append(p, i), q) THEN 0 ELSE mk.cursor[q]
             /\ e.paths = {q \in mk.paths : ~Under(Append(p, i), q)}
             /\ e.visits[p][i] = mk.visits[p][i] + 1
             /\ \A q \in Composites(m) : \A j \in 0..m[q].n : q # p \/ j # i => e.visits[q][j] = mk.visits[q][j]
<1>. DEFINE v == Purged(mk, Append(p, i))
            e == [v EXCEPT !.cursor[p] = i, !.visits[p][i] = @ + 1]
<1>1. Enter(m, mk, p, i) = e
  BY DEF Enter
<1>2. /\ DOMAIN v = DOMAIN mk /\ v.visits = mk.visits /\ Fits(m, v)
      /\ v.paths = {q \in mk.paths : ~Under(Append(p, i), q)}
      /\ DOMAIN v.cursor = Composites(m)
      /\ \A q \in Composites(m) : v.cursor[q] = IF Under(Append(p, i), q) THEN 0 ELSE mk.cursor[q]
  BY PurgedIs, PurgedFits DEF Purged
<1>. HIDE DEF v
<1>3. /\ DOMAIN e = DOMAIN v /\ e.paths = v.paths
      /\ e.cursor = [v.cursor EXCEPT ![p] = i] /\ e.visits = [v.visits EXCEPT ![p][i] = @ + 1]
  BY <1>2 DEF Fits
<1>. HIDE DEF e
<1>4. /\ DOMAIN e.cursor = Composites(m) /\ e.cursor[p] = i
      /\ \A q \in Composites(m) \ {p} : e.cursor[q] = v.cursor[q]
  BY <1>2, <1>3
<1>6. m[p].n \in Nat /\ i \in 0..m[p].n
  BY TreeIs
<1>5. /\ DOMAIN e.visits = Composites(m) /\ DOMAIN e.visits[p] = 0..m[p].n
      /\ e.visits[p][i] = mk.visits[p][i] + 1
      /\ \A j \in 0..m[p].n : j # i => e.visits[p][j] = mk.visits[p][j]
      /\ \A q \in Composites(m) \ {p} : e.visits[q] = mk.visits[q]
  <2>1. DOMAIN mk.visits = Composites(m) /\ DOMAIN mk.visits[p] = 0..m[p].n
    BY DEF Fits
  <2>2. e.visits = [mk.visits EXCEPT ![p] = [mk.visits[p] EXCEPT ![i] = mk.visits[p][i] + 1]]
    BY <1>2, <1>3
  <2>3. e.visits[p] = [mk.visits[p] EXCEPT ![i] = mk.visits[p][i] + 1]
    BY <2>1, <2>2
  <2>4. DOMAIN e.visits = Composites(m) /\ \A q \in Composites(m) \ {p} : e.visits[q] = mk.visits[q]
    BY <2>1, <2>2
  <2>5. QED
    BY <1>6, <2>1, <2>3, <2>4
<1>7. Fits(m, e)
  <2>1. \A q \in Composites(m) : e.cursor[q] \in 0..m[q].n
    BY <1>2, <1>4, <1>6 DEF Fits
  <2>2. \A q \in Composites(m) : DOMAIN e.visits[q] = 0..m[q].n /\ \A j \in 0..m[q].n : e.visits[q][j] \in Nat
    <3>1. SUFFICES ASSUME NEW q \in Composites(m)
                   PROVE  DOMAIN e.visits[q] = 0..m[q].n /\ \A j \in 0..m[q].n : e.visits[q][j] \in Nat
      OBVIOUS
    <3>2. DOMAIN mk.visits[q] = 0..m[q].n /\ \A j \in 0..m[q].n : mk.visits[q][j] \in Nat
      BY DEF Fits
    <3>3. CASE q = p
      BY <1>5, <1>6, <3>2, <3>3, SMTT(30)
    <3>4. CASE q # p
      BY <1>5, <3>2, <3>4
    <3>5. QED
      BY <3>3, <3>4
  <2>3. QED
    BY <1>2, <1>3, <1>4, <1>5, <2>1, <2>2 DEF Fits
<1>8. \A q \in Composites(m) : \A j \in 0..m[q].n : q # p \/ j # i => e.visits[q][j] = mk.visits[q][j]
  BY <1>5
<1>9. QED
  BY <1>1, <1>2, <1>3, <1>4, <1>5, <1>7, <1>8

\* No cursor comes to be ahead but that of p.
LEMMA EnterArrives ==
  ASSUME NEW m, IsTree(m), NEW mk, Fits(m, mk), Arrived(m, mk), NEW p \in Composites(m), NEW i \in 1..m[p].n,
         m[p].kind = "ChoiceGraph", mk.cursor[p] # i \/ IsComplete(m, mk, Append(p, i))
  PROVE  \A q \in Composites(m) \ {p} : ~Ahead(m, Enter(m, mk, p, i), q)
<1>. DEFINE e == Enter(m, mk, p, i)
<1>1. /\ \A q \in Composites(m) \ {p} :
           e.cursor[q] = IF Under(Append(p, i), q) THEN 0 ELSE mk.cursor[q]
      /\ e.paths = {q \in mk.paths : ~Under(Append(p, i), q)}
  BY EnterIs
<1>. HIDE DEF e
<1>2. SUFFICES ASSUME NEW q \in Composites(m) \ {p}, Ahead(m, e, q) PROVE FALSE
  BY DEF e
<1>3. /\ e.cursor[q] = mk.cursor[q] /\ ~Under(Append(p, i), q) /\ mk.cursor[q] # 0
  BY <1>1, <1>2 DEF Ahead
<1>. DEFINE c == Append(q, mk.cursor[q])
<1>4. c \in Leaves(m) /\ c \notin e.paths /\ m[q].kind = "ChoiceGraph"
  BY <1>2, <1>3 DEF Ahead
<1>5. c \in mk.paths
  BY <1>3, <1>4 DEF Arrived, Ahead
<1>6. Under(Append(p, i), c)
  BY <1>1, <1>4, <1>5
<1>7. mk.cursor[q] \in Nat /\ q \in Seq(Nat) /\ p \in Seq(Nat) /\ i \in Nat
  BY TreeIs DEF Fits
<1>8. Append(p, i) \in Seq(Nat) /\ Front(Append(p, i)) = p /\ Front(c) = q
  BY <1>7, ChildIs
<1>9. Append(p, i) = c
  BY <1>3, <1>6, <1>7, <1>8, UnderChild
<1>10. QED
  BY <1>2, <1>8, <1>9

\* Entry further up the path leaves the marking on the way.
LEMMA EnterOnTheWay ==
  ASSUME NEW m, IsTree(m), NEW mk, NEW path \in Leaves(m) \ {<<>>}, NEW d \in 1..Len(path) - 1,
         NEW e, OnTheWay(m, mk, e, path)
  PROVE  OnTheWay(m, mk, Enter(m, e, Upper(path, d - 1), path[d]), path)
<1>. DEFINE p == Upper(path, d - 1)
            i == path[d]
            root == Upper(path, d)
            next == Enter(m, e, p, i)
<1>1. /\ path \in DOMAIN m /\ path \in Seq(Nat) /\ Front(path) = Upper(path, Len(path) - 1)
      /\ Front(path) \in Composites(m) /\ Front(path) \in Seq(Nat)
      /\ Len(path) \in Nat \ {0} /\ Len(Front(path)) = Len(path) - 1
  BY LeafIs
<1>2. /\ d \in 0..Len(path) /\ d - 1 \in 0..Len(path) /\ d # 0 /\ d < Len(path) /\ d - 1 < Len(path)
      /\ (d - 1) + 1 = d /\ Len(path) - 1 \in 0..Len(path)
  BY <1>1
<1>3. /\ p \in Composites(m) /\ i \in 1..m[p].n /\ root \in Composites(m)
  BY <1>1, <1>2, AboveIs
<1>4. /\ p \in Seq(Nat) /\ Len(p) = d - 1 /\ root \in Seq(Nat) /\ Len(root) = d /\ root = Append(p, i)
      /\ \A k \in 1..d : root[k] = path[k]
      /\ \A k \in 1..Len(path) - 1 : Front(path)[k] = path[k]
  <2>1. p \in Seq(Nat) /\ Len(p) = d - 1
    BY <1>1, <1>2, UpperIs
  <2>2. root \in Seq(Nat) /\ Len(root) = d /\ root = Append(p, i) /\ \A k \in 1..d : root[k] = path[k]
    BY <1>1, <1>2, UpperIs
  <2>3. \A k \in 1..Len(path) - 1 : Upper(path, Len(path) - 1)[k] = path[k]
    BY <1>1, <1>2, UpperIs
  <2>4. QED
    BY <1>1, <2>1, <2>2, <2>3
<1>5. Under(root, Front(path)) /\ Front(path) # p
  <2>. HIDE DEF p, i, root
  <2>1. Len(root) <= Len(Front(path)) /\ \A k \in 1..Len(root) : root[k] = Front(path)[k]
    <3>1. d <= Len(path) - 1
      OBVIOUS
    <3>2. Len(root) <= Len(Front(path))
      BY <1>1, <1>4, <3>1
    <3>3. ASSUME NEW k \in 1..Len(root) PROVE root[k] = Front(path)[k]
      <4>1. k \in 1..d /\ k \in 1..Len(path) - 1
        BY <1>1, <1>2, <1>4, <3>1
      <4>2. QED
        BY <1>4, <4>1
    <3>4. QED
      BY <3>2, <3>3
  <2>2. Under(root, Front(path))
    BY <1>1, <1>4, <2>1, UnderIs
  <2>3. Front(path) # p
    BY <1>1, <1>2, <1>4
  <2>4. QED
    BY <2>2, <2>3
<1>6. /\ Fits(m, e) /\ Arrived(m, e)
      /\ \A c \in Leaves(m) \ {<<>>} : Times(e, c) = Times(mk, c)
  BY DEF OnTheWay
<1>. HIDE DEF p, i, root
<1>7. CASE ~(m[p].kind = "ChoiceGraph" /\ (e.cursor[p] # i \/ IsComplete(m, e, Append(p, i))))
  <2>1. next = e
    BY <1>7 DEF Enter
  <2>2. QED
    BY <2>1 DEF p, i
<1>8. CASE m[p].kind = "ChoiceGraph" /\ (e.cursor[p] # i \/ IsComplete(m, e, Append(p, i)))
  <2>1. /\ Fits(m, next) /\ next.cursor[p] = i
        /\ \A q \in Composites(m) \ {p} : next.cursor[q] = IF Under(Append(p, i), q) THEN 0 ELSE e.cursor[q]
        /\ \A q \in Composites(m) : \A j \in 0..m[q].n : q # p \/ j # i => next.visits[q][j] = e.visits[q][j]
    BY <1>3, <1>6, <1>8, EnterIs
  <2>2. \A q \in Composites(m) \ {p} : ~Ahead(m, next, q)
    BY <1>3, <1>6, <1>8, EnterArrives
  <2>. HIDE DEF next
  <2>3. ~Ahead(m, next, p)
    BY <1>3, <1>4, <2>1 DEF Ahead, Composites
  <2>4. next.cursor[Front(path)] = 0
    BY <1>1, <1>4, <1>5, <2>1
  <2>5. ASSUME NEW c \in Leaves(m) \ {<<>>} PROVE Times(next, c) = Times(mk, c)
    <3>1. c = Append(Front(c), Last(c)) /\ Front(c) \in Composites(m) /\ Last(c) \in 1..m[Front(c)].n
      BY LeafIs
    <3>2. m[Front(c)].n \in Nat
      BY <3>1, TreeIs
    <3>3. Last(c) \in 0..m[Front(c)].n
      BY <3>1, <3>2
    <3>4. Front(c) # p \/ Last(c) # i
      BY <1>3, <1>4, <3>1 DEF Composites
    <3>5. Times(next, c) = Times(e, c)
      BY <2>1, <3>1, <3>3, <3>4 DEF Times
    <3>6. QED
      BY <1>6, <3>5
  <2>6. Arrived(m, next)
    BY <2>2, <2>3 DEF Arrived
  <2>7. OnTheWay(m, mk, next, path)
    BY <2>1, <2>4, <2>5, <2>6 DEF OnTheWay
  <2>8. QED
    BY <2>7 DEF next, p, i
<1>9. QED
  BY <1>7, <1>8

\* Entry of the leaf itself: a choice graph cannot fail to count it.
LEMMA EnterThere ==
  ASSUME NEW m, IsTree(m), NEW mk, Fits(m, mk), Arrived(m, mk), NEW path \in Leaves(m) \ {<<>>},
         NEW e, OnTheWay(m, mk, e, path)
  PROVE  There(m, mk, Enter(m, e, Front(path), Last(path)), path)
<1>. DEFINE p == Front(path)
            i == Last(path)
            next == Enter(m, e, p, i)
<1>1. /\ path = Append(p, i) /\ p \in Composites(m) /\ i \in 1..m[p].n
  BY LeafIs
<1>2. /\ Fits(m, e) /\ Arrived(m, e)
      /\ \A c \in Leaves(m) \ {<<>>} : Times(e, c) = Times(mk, c)
      /\ e.cursor[p] = 0 \/ (e.cursor[p] = mk.cursor[p] /\ (path \in e.paths <=> path \in mk.paths))
  BY DEF OnTheWay
<1>0. m[p].n \in Nat /\ i # 0
  BY <1>1, TreeIs
<1>. HIDE DEF p, i
<1>3. CASE m[p].kind # "ChoiceGraph"
  <2>1. next = e
    BY <1>3 DEF Enter
  <2>2. There(m, mk, e, path)
    BY <1>2, <1>3 DEF There, Arrived, p
  <2>3. QED
    BY <2>1, <2>2 DEF p, i
<1>4. CASE m[p].kind = "ChoiceGraph"
  <2>1. e.cursor[p] # i \/ IsComplete(m, e, Append(p, i))
    <3>1. SUFFICES ASSUME e.cursor[p] = i PROVE path \in e.paths
      BY <1>1, LeafComplete
    <3>2. QED
      BY <1>0, <1>1, <1>2, <1>4, <3>1 DEF Arrived, Ahead
  <2>2. /\ Fits(m, next) /\ next.cursor[p] = i
        /\ next.visits[p][i] = e.visits[p][i] + 1
        /\ \A q \in Composites(m) : \A j \in 0..m[q].n : q # p \/ j # i => next.visits[q][j] = e.visits[q][j]
    BY <1>1, <1>2, <1>4, <2>1, EnterIs
  <2>3. \A q \in Composites(m) \ {p} : ~Ahead(m, next, q)
    BY <1>1, <1>2, <1>4, <2>1, EnterArrives
  <2>. HIDE DEF next
  <2>4. ASSUME NEW q \in Composites(m), Ahead(m, next, q) PROVE Append(q, next.cursor[q]) = path
    BY <1>1, <2>2, <2>3, <2>4
  <2>5. ASSUME NEW c \in Leaves(m) \ {<<>>}
        PROVE  Times(next, c) = IF c = path /\ m[Front(c)].kind = "ChoiceGraph" THEN Times(mk, c) + 1 ELSE Times(mk, c)
    <3>1. c = Append(Front(c), Last(c)) /\ Front(c) \in Composites(m) /\ Last(c) \in 1..m[Front(c)].n
      BY LeafIs
    <3>2. m[Front(c)].n \in Nat
      BY <3>1, TreeIs
    <3>3. Last(c) \in 0..m[Front(c)].n
      BY <3>1, <3>2
    <3>4. CASE c = path
      <4>1. Front(c) = p /\ Last(c) = i
        BY <3>4 DEF p, i
      <4>2. Times(next, c) = Times(e, c) + 1
        BY <2>2, <4>1 DEF Times
      <4>3. QED
        BY <1>2, <1>4, <3>4, <4>1, <4>2
    <3>5. CASE c # path
      <4>1. Front(c) # p \/ Last(c) # i
        BY <1>1, <3>1, <3>5
      <4>2. Times(next, c) = Times(e, c)
        BY <2>2, <3>1, <3>3, <4>1 DEF Times
      <4>3. QED
        BY <1>2, <3>5, <4>2
    <3>6. QED
      BY <3>4, <3>5
  <2>6. There(m, mk, next, path)
    BY <2>2, <2>4, <2>5 DEF There
  <2>7. QED
    BY <2>6 DEF next, p, i
<1>5. QED
  BY <1>3, <1>4

\* f enters the nodes above path one after the other.
Entered(f, m, mk, path) ==
  \A d \in 0..Len(path) : f[d] = IF d = 0 THEN mk ELSE Enter(m, f[d - 1], Upper(path, d - 1), path[d])

\* f solves the recursion of EnterChoices.
Enters(f, m, mk, path) ==
  f = [d \in 0..Len(path) |-> IF d = 0 THEN mk ELSE Enter(m, f[d - 1], Upper(path, d - 1), path[d])]

\* There is a solution, made from the root down.
LEMMA EnteredSome ==
  ASSUME NEW m, NEW mk, NEW path \in Seq(Nat)
  PROVE  \E f : Enters(f, m, mk, path)
<1>. DEFINE Right(f, n) == \A d \in 0..n : f[d] = IF d = 0 THEN mk ELSE Enter(m, f[d - 1], Upper(path, d - 1), path[d])
            S == {n \in Nat : \E f : Right(f, n)}
<1>1. 0 \in S
  <2>1. Right([d \in 0..0 |-> mk], 0)
    OBVIOUS
  <2>. HIDE DEF Right
  <2>2. QED
    BY <2>1
<1>2. ASSUME NEW n \in Nat, n \in S PROVE n + 1 \in S
  <2>1. PICK f : Right(f, n)
    BY <1>2
  <2>. DEFINE g == [d \in 0..n + 1 |-> IF d = n + 1 THEN Enter(m, f[n], Upper(path, n), path[n + 1]) ELSE f[d]]
  <2>2. ASSUME NEW d \in 0..n + 1
        PROVE  g[d] = IF d = 0 THEN mk ELSE Enter(m, g[d - 1], Upper(path, d - 1), path[d])
    <3>1. CASE d = n + 1
      <4>1. d # 0 /\ d - 1 = n /\ n \in 0..n + 1 /\ n # n + 1
        BY <3>1
      <4>2. g[d] = Enter(m, f[n], Upper(path, n), path[n + 1]) /\ g[n] = f[n]
        BY <3>1, <4>1
      <4>. HIDE DEF g
      <4>3. QED
        BY <3>1, <4>1, <4>2
    <3>2. CASE d # n + 1
      <4>1. d \in 0..n /\ g[d] = f[d]
        BY <3>2
      <4>2. d # 0 => d - 1 \in 0..n + 1 /\ d - 1 # n + 1
        BY <3>2
      <4>3. d # 0 => g[d - 1] = f[d - 1]
        BY <4>2
      <4>4. f[d] = IF d = 0 THEN mk ELSE Enter(m, f[d - 1], Upper(path, d - 1), path[d])
        BY <2>1, <4>1
      <4>. HIDE DEF g
      <4>5. QED
        BY <4>1, <4>3, <4>4
    <3>3. QED
      BY <3>1, <3>2
  <2>. HIDE DEF g
  <2>3. Right(g, n + 1)
    BY <2>2
  <2>. HIDE DEF Right
  <2>4. QED
    BY <2>3
<1>3. Len(path) \in S
  <2>. HIDE DEF S
  <2>1. QED
    BY <1>1, <1>2, NaturalInduction, SMTT(30)
<1>4. PICK f : Right(f, Len(path))
  BY <1>3
<1>. DEFINE g == [d \in 0..Len(path) |-> f[d]]
<1>5. ASSUME NEW d \in 0..Len(path)
      PROVE  g[d] = IF d = 0 THEN mk ELSE Enter(m, g[d - 1], Upper(path, d - 1), path[d])
  <2>1. f[d] = IF d = 0 THEN mk ELSE Enter(m, f[d - 1], Upper(path, d - 1), path[d])
    BY <1>4
  <2>2. d # 0 => d - 1 \in 0..Len(path)
    OBVIOUS
  <2>3. g[d] = f[d] /\ (d # 0 => g[d - 1] = f[d - 1])
    BY <2>2
  <2>. HIDE DEF g, Right
  <2>4. QED
    BY <2>1, <2>3
<1>6. g = [d \in 0..Len(path) |-> g[d]]
  OBVIOUS
<1>. HIDE DEF g
<1>7. g = [d \in 0..Len(path) |-> IF d = 0 THEN mk ELSE Enter(m, g[d - 1], Upper(path, d - 1), path[d])]
  BY <1>5, <1>6
<1>8. QED
  BY <1>7 DEF Enters

\* So EnterChoices is the last value of one.
LEMMA EnterChoicesIs ==
  ASSUME NEW m, NEW mk, NEW path \in Seq(Nat)
  PROVE  \E f : Entered(f, m, mk, path) /\ EnterChoices(m, mk, path) = f[Len(path)]
<1>. DEFINE f == CHOOSE g : g = [d \in 0..Len(path) |-> IF d = 0 THEN mk ELSE Enter(m, g[d - 1], Upper(path, d - 1), path[d])]
<1>1. EnterChoices(m, mk, path) = f[Len(path)]
  BY DEF EnterChoices, Upper
<1>2. f = [d \in 0..Len(path) |-> IF d = 0 THEN mk ELSE Enter(m, f[d - 1], Upper(path, d - 1), path[d])]
  <2>1. \E g : g = [d \in 0..Len(path) |-> IF d = 0 THEN mk ELSE Enter(m, g[d - 1], Upper(path, d - 1), path[d])]
    <3>1. \E g : Enters(g, m, mk, path)
      BY EnteredSome
    <3>2. QED
      BY <3>1 DEF Enters
  <2>2. QED
    BY <2>1, Zenon
<1>. HIDE DEF f
<1>3. Entered(f, m, mk, path)
  BY <1>2 DEF Entered
<1>4. QED
  BY <1>1, <1>3

\* What every fire makes of the nodes above the leaf.
LEMMA EnteredIs ==
  ASSUME NEW m, IsTree(m), NEW mk, Fits(m, mk), Arrived(m, mk), NEW path \in Leaves(m)
  PROVE  There(m, mk, EnterChoices(m, mk, path), path)
<1>0. path \in Seq(Nat) /\ Len(path) \in Nat
  BY TreeIs
<1>1. PICK f : Entered(f, m, mk, path) /\ EnterChoices(m, mk, path) = f[Len(path)]
  BY <1>0, EnterChoicesIs
<1>2. f[0] = mk /\ \A d \in 1..Len(path) : f[d] = Enter(m, f[d - 1], Upper(path, d - 1), path[d])
  BY <1>0, <1>1 DEF Entered
<1>3. CASE path = <<>>
  <2>1. Len(path) = 0
    BY <1>3
  <2>2. There(m, mk, mk, path)
    BY <1>3 DEF There, Arrived
  <2>3. QED
    BY <1>1, <1>2, <2>1, <2>2
<1>4. CASE path # <<>>
  <2>0. path \in Leaves(m) \ {<<>>}
    BY <1>4
  <2>1. /\ Len(path) \in Nat \ {0} /\ Front(path) = Upper(path, Len(path) - 1) /\ Last(path) = path[Len(path)]
    BY <2>0, LeafIs
  <2>. DEFINE S == {d \in Nat : d < Len(path) => OnTheWay(m, mk, f[d], path)}
  <2>2. 0 \in S
    BY <1>2 DEF OnTheWay
  <2>3. ASSUME NEW d \in Nat, d \in S PROVE d + 1 \in S
    <3>1. SUFFICES ASSUME d + 1 < Len(path) PROVE OnTheWay(m, mk, f[d + 1], path)
      OBVIOUS
    <3>2. d + 1 \in 1..Len(path) - 1 /\ d + 1 \in 1..Len(path) /\ (d + 1) - 1 = d /\ d < Len(path)
      BY <2>1, <3>1
    <3>3. OnTheWay(m, mk, f[d], path)
      BY <2>3, <3>2
    <3>4. OnTheWay(m, mk, Enter(m, f[d], Upper(path, d), path[d + 1]), path)
      BY <2>0, <3>2, <3>3, EnterOnTheWay
    <3>5. QED
      BY <1>2, <3>2, <3>4
  <2>. HIDE DEF S
  <2>4. Len(path) - 1 \in S
    BY <2>1, <2>2, <2>3, NaturalInduction
  <2>5. OnTheWay(m, mk, f[Len(path) - 1], path)
    BY <2>1, <2>4 DEF S
  <2>6. There(m, mk, Enter(m, f[Len(path) - 1], Front(path), Last(path)), path)
    BY <2>0, <2>5, EnterThere
  <2>7. Len(path) \in 1..Len(path)
    BY <2>1
  <2>8. QED
    BY <1>1, <1>2, <2>1, <2>6, <2>7
<1>5. QED
  BY <1>3, <1>4

-----------------------------------------------------------------------------
(* Banking *)

\* Nothing that a marking says of leaves is undone.
Settled(m, mk, e) ==
  /\ Fits(m, e) /\ Arrived(m, e)
  /\ \A c \in Leaves(m) \ {<<>>} : Times(e, c) = Times(mk, c)

\* A round is banked without a trace on the leaves: what is reset is not ahead.
LEMMA BankIs ==
  ASSUME NEW m, IsTree(m), NEW mk, Fits(m, mk), Arrived(m, mk), NEW p \in Composites(m)
  PROVE  Settled(m, mk, Bank(m, mk, p))
<1>. DEFINE v == PurgedBut(mk, p, {p})
            e == [v EXCEPT !.rounds[p] = @ + 1, !.visits[p][0] = @ + 1]
<1>1. CASE Bank(m, mk, p) = mk
  BY <1>1 DEF Settled
<1>2. CASE Bank(m, mk, p) = e
  <2>1. /\ DOMAIN v = DOMAIN mk /\ v.visits = mk.visits /\ Fits(m, v)
        /\ v.paths = {q \in mk.paths : ~Under(p, q)}
        /\ DOMAIN v.cursor = Composites(m)
        /\ \A q \in Composites(m) : v.cursor[q] = IF Under(p, q) THEN 0 ELSE mk.cursor[q]
    BY PurgedIs, PurgedFits
  <2>. HIDE DEF v
  <2>2. /\ DOMAIN e = DOMAIN v /\ e.paths = v.paths
        /\ e.cursor = v.cursor /\ e.visits = [v.visits EXCEPT ![p][0] = @ + 1]
    BY <2>1 DEF Fits
  <2>. HIDE DEF e
  <2>3. /\ DOMAIN mk.visits = Composites(m) /\ DOMAIN mk.visits[p] = 0..m[p].n /\ m[p].n \in Nat /\ 0 \in 0..m[p].n
        /\ mk.visits[p][0] \in Nat
    BY TreeIs DEF Fits
  <2>4. e.visits = [mk.visits EXCEPT ![p] = [mk.visits[p] EXCEPT ![0] = mk.visits[p][0] + 1]]
    BY <2>1, <2>2
  <2>5. e.visits[p] = [mk.visits[p] EXCEPT ![0] = mk.visits[p][0] + 1]
    BY <2>3, <2>4
  <2>6. DOMAIN e.visits = Composites(m) /\ \A q \in Composites(m) \ {p} : e.visits[q] = mk.visits[q]
    BY <2>3, <2>4
  <2>7. ASSUME NEW q \in Composites(m)
        PROVE  DOMAIN e.visits[q] = 0..m[q].n /\ \A j \in 0..m[q].n : e.visits[q][j] \in Nat
    <3>1. DOMAIN mk.visits[q] = 0..m[q].n /\ \A j \in 0..m[q].n : mk.visits[q][j] \in Nat
      BY DEF Fits
    <3>2. CASE q = p
      BY <2>3, <2>5, <3>1, <3>2
    <3>3. CASE q # p
      BY <2>6, <3>1, <3>3
    <3>4. QED
      BY <3>2, <3>3
  <2>8. Fits(m, e)
    BY <2>1, <2>2, <2>6, <2>7 DEF Fits
  <2>9. ASSUME NEW c \in Leaves(m) \ {<<>>} PROVE Times(e, c) = Times(mk, c)
    <3>1. Front(c) \in Composites(m) /\ Last(c) \in 1..m[Front(c)].n
      BY LeafIs
    <3>2. CASE Front(c) = p
      BY <2>3, <2>5, <3>1, <3>2 DEF Times
    <3>3. CASE Front(c) # p
      BY <2>6, <3>1, <3>3 DEF Times
    <3>4. QED
      BY <3>2, <3>3
  <2>10. ASSUME NEW q \in Composites(m), Ahead(m, e, q) PROVE FALSE
    <3>1. e.cursor[q] = mk.cursor[q] /\ ~Under(p, q) /\ mk.cursor[q] # 0
      BY <2>1, <2>2, <2>10 DEF Ahead
    <3>. DEFINE c == Append(q, mk.cursor[q])
    <3>2. c \in Leaves(m) /\ c \notin e.paths /\ m[q].kind = "ChoiceGraph"
      BY <2>10, <3>1 DEF Ahead
    <3>3. c \in mk.paths
      BY <3>1, <3>2 DEF Arrived, Ahead
    <3>4. Under(p, c)
      BY <2>1, <2>2, <3>2, <3>3
    <3>5. mk.cursor[q] \in Nat /\ q \in Seq(Nat) /\ p \in Seq(Nat)
      BY TreeIs DEF Fits
    <3>6. p = c
      BY <3>1, <3>4, <3>5, UnderChild
    <3>7. QED
      BY <3>2, <3>6 DEF Composites
  <2>11. QED
    BY <1>2, <2>8, <2>9, <2>10 DEF Settled, Arrived
<1>3. QED
  BY <1>1, <1>2 DEF Bank

-----------------------------------------------------------------------------
(* Firing *)

\* f solves the recursion of CloseRounds.
Closes(f, m, mk, path) ==
  f = [d \in 0..Len(path) |-> IF d = Len(path) THEN mk ELSE Bank(m, f[d + 1], Upper(path, d))]

\* There is a solution, made from the leaf up.
LEMMA ClosedSome ==
  ASSUME NEW m, NEW mk, NEW path \in Seq(Nat)
  PROVE  \E f : Closes(f, m, mk, path)
<1>. DEFINE n == Len(path)
            Then(f, d) == IF d = n THEN mk ELSE Bank(m, f[d + 1], Upper(path, d))
            Right(f, j) == \A d \in 0..n : d + j > n => f[d] = Then(f, d)
            S == {j \in Nat : \E f : Right(f, j)}
<1>0. n \in Nat
  OBVIOUS
<1>. HIDE DEF n
<1>1. 0 \in S
  BY <1>0
<1>2. ASSUME NEW j \in Nat, j \in S PROVE j + 1 \in S
  <2>1. PICK f : Right(f, j)
    BY <1>2
  <2>. DEFINE g == [d \in 0..n |-> IF d + j = n THEN Then(f, d) ELSE f[d]]
  <2>2. ASSUME NEW d \in 0..n, d + (j + 1) > n PROVE g[d] = Then(g, d)
    <3>1. g[d] = Then(f, d)
      <4>1. CASE d + j = n
        BY <4>1
      <4>2. CASE d + j # n
        <5>1. d + j > n
          BY <1>0, <2>2, <4>2
        <5>2. f[d] = Then(f, d)
          BY <2>1, <5>1
        <5>. HIDE DEF Then
        <5>3. QED
          BY <4>2, <5>2
      <4>3. QED
        BY <4>1, <4>2
    <3>2. CASE d = n
      BY <3>1, <3>2
    <3>3. CASE d # n
      <4>1. d + 1 \in 0..n /\ ~((d + 1) + j = n)
        BY <1>0, <2>2, <3>3
      <4>2. g[d + 1] = f[d + 1]
        BY <4>1
      <4>. HIDE DEF g
      <4>3. QED
        BY <3>1, <3>3, <4>2
    <3>4. QED
      BY <3>2, <3>3
  <2>. HIDE DEF g, Then
  <2>3. Right(g, j + 1)
    BY <2>2
  <2>. HIDE DEF Right
  <2>4. QED
    BY <2>3
<1>3. n + 1 \in S
  <2>. HIDE DEF S
  <2>1. QED
    BY <1>0, <1>1, <1>2, NaturalInduction
<1>4. PICK f : Right(f, n + 1)
  BY <1>3
<1>. DEFINE g == [d \in 0..n |-> f[d]]
<1>5. ASSUME NEW d \in 0..n PROVE g[d] = Then(g, d)
  <2>1. d + (n + 1) > n
    BY <1>0
  <2>2. f[d] = Then(f, d)
    BY <1>4, <2>1
  <2>3. d # n => d + 1 \in 0..n
    BY <1>0
  <2>4. g[d] = f[d] /\ (d # n => g[d + 1] = f[d + 1])
    BY <2>3
  <2>. HIDE DEF g, Right
  <2>5. QED
    BY <2>2, <2>4
<1>6. g = [d \in 0..n |-> g[d]]
  OBVIOUS
<1>. HIDE DEF g
<1>7. g = [d \in 0..n |-> IF d = n THEN mk ELSE Bank(m, g[d + 1], Upper(path, d))]
  BY <1>5, <1>6
<1>8. QED
  BY <1>7 DEF Closes, n

\* So CloseRounds is the first value of one.
LEMMA CloseRoundsIs ==
  ASSUME NEW m, NEW mk, NEW path \in Seq(Nat)
  PROVE  \E f : Closes(f, m, mk, path) /\ CloseRounds(m, path, mk) = f[0]
<1>. DEFINE f == CHOOSE g : g = [d \in 0..Len(path) |-> IF d = Len(path) THEN mk ELSE Bank(m, g[d + 1], Upper(path, d))]
<1>1. CloseRounds(m, path, mk) = f[0]
  BY DEF CloseRounds, Upper
<1>2. f = [d \in 0..Len(path) |-> IF d = Len(path) THEN mk ELSE Bank(m, f[d + 1], Upper(path, d))]
  <2>1. \E g : Closes(g, m, mk, path)
    BY ClosedSome
  <2>2. \E g : g = [d \in 0..Len(path) |-> IF d = Len(path) THEN mk ELSE Bank(m, g[d + 1], Upper(path, d))]
    BY <2>1 DEF Closes
  <2>3. QED
    BY <2>2, Zenon
<1>. HIDE DEF f
<1>3. QED
  BY <1>1, <1>2 DEF Closes

\* Rounds are banked on the nodes above a leaf without a trace on the leaves.
LEMMA ClosedIs ==
  ASSUME NEW m, IsTree(m), NEW mk, Fits(m, mk), Arrived(m, mk), NEW path \in Leaves(m)
  PROVE  Settled(m, mk, CloseRounds(m, path, mk))
<1>0. path \in DOMAIN m /\ path \in Seq(Nat) /\ Len(path) \in Nat
  BY TreeIs
<1>1. PICK f : Closes(f, m, mk, path) /\ CloseRounds(m, path, mk) = f[0]
  BY <1>0, CloseRoundsIs
<1>2. \A d \in 0..Len(path) : f[d] = IF d = Len(path) THEN mk ELSE Bank(m, f[d + 1], Upper(path, d))
  BY <1>1 DEF Closes
<1>. DEFINE S == {j \in Nat : j <= Len(path) => Settled(m, mk, f[Len(path) - j])}
<1>3. 0 \in S
  BY <1>0, <1>2 DEF Settled
<1>4. ASSUME NEW j \in Nat, j \in S PROVE j + 1 \in S
  <2>1. SUFFICES ASSUME j + 1 <= Len(path) PROVE Settled(m, mk, f[Len(path) - (j + 1)])
    OBVIOUS
  <2>. DEFINE d == Len(path) - (j + 1)
              e == f[d + 1]
  <2>2. d \in 0..Len(path) /\ d < Len(path) /\ d + 1 = Len(path) - j /\ j <= Len(path)
    BY <1>0, <2>1
  <2>3. Settled(m, mk, e)
    BY <1>4, <2>2
  <2>. HIDE DEF d
  <2>4. Upper(path, d) \in Composites(m)
    BY <1>0, <2>2, AboveIs
  <2>5. f[d] = Bank(m, e, Upper(path, d))
    BY <1>2, <2>2
  <2>. HIDE DEF e
  <2>6. Settled(m, e, f[d])
    BY <2>3, <2>4, <2>5, BankIs DEF Settled
  <2>7. Settled(m, mk, f[d])
    BY <2>3, <2>6 DEF Settled
  <2>8. QED
    BY <2>7 DEF d
<1>. HIDE DEF S
<1>5. Len(path) \in S
  BY <1>0, <1>3, <1>4, NaturalInduction
<1>6. QED
  BY <1>0, <1>1, <1>5 DEF S

\* A fire that is not refused is the fire of a leaf.  It leaves every cursor on
\* work that has been done, counts one visit of the leaf if a choice graph
\* offers it, and does so only below the cap.
LEMMA FireIs ==
  ASSUME NEW m, IsTree(m), NEW mk, Fits(m, mk), Arrived(m, mk), NEW path, NEW context,
         ~IsRefused(Fire(m, mk, path, context))
  PROVE  LET next == Fire(m, mk, path, context)
         IN  /\ path \in Leaves(m)
             /\ Fits(m, next) /\ Arrived(m, next)
             /\ \A c \in Leaves(m) \ {<<>>} : m[Front(c)].kind = "ChoiceGraph" =>
                  /\ Times(next, c) = IF c = path THEN Times(mk, c) + 1 ELSE Times(mk, c)
                  /\ c = path => Times(mk, c) < MaxNodeVisits
<1>. DEFINE entered == EnterChoices(m, mk, path)
            done == [entered EXCEPT !.completed = @ \cup {NextKey(mk, ActivityOf(m, path), context)},
                                    !.paths = @ \cup {path}, !.fires = @ + 1]
            next == Fire(m, mk, path, context)
<1>0. \A reason : IsRefused(Refused(reason))
  BY DEF IsRefused, Refused
<1>1. path \in Enabled(m, mk) /\ next = CloseRounds(m, path, done)
  BY <1>0 DEF Fire
<1>. HIDE DEF next
<1>2. path \in EnabledUnder(m, mk, MaxNodeVisits)
  BY <1>1 DEF Enabled
<1>3. /\ path \in Leaves(m)
      /\ path # <<>> /\ m[Front(path)].kind = "ChoiceGraph" =>
           \/ mk.cursor[Front(path)] = Last(path) /\ path \notin mk.paths
           \/ ~Capped(mk.visits[Front(path)][Last(path)], MaxNodeVisits)
  BY <1>2, EnabledIs
<1>4. There(m, mk, entered, path)
  BY <1>3, EnteredIs
<1>. HIDE DEF entered
<1>5. /\ DOMAIN done = DOMAIN entered /\ done.paths = entered.paths \cup {path}
      /\ done.cursor = entered.cursor /\ done.visits = entered.visits
  BY <1>4 DEF There, Fits
<1>. HIDE DEF done
<1>6. Fits(m, done)
  BY <1>3, <1>4, <1>5 DEF There, Fits
<1>7. Arrived(m, done)
  <2>1. SUFFICES ASSUME NEW q \in Composites(m), Ahead(m, done, q) PROVE FALSE
    BY DEF Arrived
  <2>2. Ahead(m, entered, q)
    BY <1>5, <2>1 DEF Ahead
  <2>3. Append(q, entered.cursor[q]) = path
    BY <1>4, <2>2 DEF There
  <2>4. QED
    BY <1>5, <2>1, <2>3 DEF Ahead
<1>8. Settled(m, done, next)
  BY <1>1, <1>3, <1>6, <1>7, ClosedIs
<1>9. ASSUME NEW c \in Leaves(m) \ {<<>>}, m[Front(c)].kind = "ChoiceGraph"
      PROVE  /\ Times(next, c) = IF c = path THEN Times(mk, c) + 1 ELSE Times(mk, c)
             /\ c = path => Times(mk, c) < MaxNodeVisits
  <2>1. Times(next, c) = Times(done, c)
    BY <1>8 DEF Settled
  <2>2. Times(done, c) = Times(entered, c)
    BY <1>5 DEF Times
  <2>3. Times(entered, c) = IF c = path THEN Times(mk, c) + 1 ELSE Times(mk, c)
    BY <1>4, <1>9 DEF There
  <2>4. ASSUME c = path PROVE Times(mk, c) < MaxNodeVisits
    <3>1. /\ c = Append(Front(c), Last(c)) /\ Front(c) \in Composites(m) /\ Last(c) \in 1..m[Front(c)].n
      BY LeafIs
    <3>2. m[Front(c)].n \in Nat
      BY <3>1, TreeIs
    <3>3. Last(c) \in 0..m[Front(c)].n /\ Last(c) # 0
      BY <3>1, <3>2
    <3>4. ~(mk.cursor[Front(c)] = Last(c) /\ c \notin mk.paths)
      BY <1>9, <3>1, <3>3 DEF Arrived, Ahead
    <3>5. ~Capped(Times(mk, c), MaxNodeVisits)
      BY <1>3, <1>9, <2>4, <3>4 DEF Times
    <3>6. Times(mk, c) \in Nat
      BY <3>1, <3>3 DEF Fits, Times
    <3>7. MaxNodeVisits \in Nat
      BY ExecutionBoundAssumption
    <3>8. QED
      BY <3>5, <3>6, <3>7 DEF Capped, NoCap, Unbounded
  <2>5. QED
    BY <2>1, <2>2, <2>3, <2>4
<1>10. QED
  BY <1>3, <1>8, <1>9 DEF next, Settled

-----------------------------------------------------------------------------
(* The marking of an epoch that starts *)

\* A set of numbers up to n that is not empty has a greatest one.
LEMMA GreatestNatural ==
  ASSUME NEW n \in Nat, NEW T, T \subseteq 0..n, T # {}
  PROVE  Max(T) \in T /\ \A x \in T : Max(T) >= x
<1>. DEFINE D == {n - x : x \in T}
<1>0. \A x \in T : x \in 0..n /\ n - x \in Nat
  <2>1. ASSUME NEW x \in T PROVE x \in 0..n
    OBVIOUS
  <2>2. QED
    BY <2>1
<1>1. D \subseteq Nat /\ D # {}
  BY <1>0
<1>2. PICK least \in D : \A d \in D : least <= d
  <2>. HIDE DEF D
  <2>1. QED
    BY <1>1, LeastNatural, Zenon
<1>3. PICK top \in T : least = n - top
  BY <1>2
<1>4. \A x \in T : top >= x
  <2>1. ASSUME NEW x \in T PROVE top >= x
    <3>1. least <= n - x
      BY <1>2
    <3>2. x \in Nat /\ top \in Nat
      BY <1>0
    <3>3. QED
      BY <1>3, <3>1, <3>2
  <2>2. QED
    BY <2>1
<1>5. \E x \in T : \A y \in T : x >= y
  BY <1>4
<1>6. QED
  BY <1>5, Zenon DEF Max

\* A marking is made of what fits.
LEMMA MarkingFits ==
  ASSUME NEW m, IsTree(m), NEW keys, NEW cursor, NEW visits, NEW fires, NEW paths,
         paths \subseteq Leaves(m),
         DOMAIN cursor = Composites(m), \A p \in Composites(m) : cursor[p] \in 0..m[p].n,
         DOMAIN visits = Composites(m),
         \A p \in Composites(m) : DOMAIN visits[p] = 0..m[p].n /\ \A i \in 0..m[p].n : visits[p][i] \in Nat
  PROVE  LET mk == Marking(m, keys, cursor, visits, fires, paths)
         IN  Fits(m, mk) /\ mk.cursor = cursor /\ mk.paths = paths
BY DEF Fits, Marking

\* An epoch that starts empty.
LEMMA InitialIs ==
  ASSUME NEW m, IsTree(m)
  PROVE  Fits(m, InitialMarking(m)) /\ Arrived(m, InitialMarking(m))
<1>. DEFINE cursor == [p \in Composites(m) |-> 0]
            mk == InitialMarking(m)
<1>1. \A p \in Composites(m) : m[p].n \in Nat
  BY TreeIs
<1>2. /\ DOMAIN NoVisits(m) = Composites(m)
      /\ \A p \in Composites(m) : DOMAIN NoVisits(m)[p] = 0..m[p].n /\ \A i \in 0..m[p].n : NoVisits(m)[p][i] \in Nat
  BY DEF NoVisits
<1>3. DOMAIN cursor = Composites(m) /\ \A p \in Composites(m) : cursor[p] \in 0..m[p].n
  BY <1>1
<1>4. Fits(m, mk) /\ mk.cursor = cursor
  BY <1>2, <1>3, MarkingFits DEF InitialMarking
<1>. HIDE DEF mk
<1>5. Arrived(m, mk)
  BY <1>4 DEF Arrived, Ahead
<1>6. QED
  BY <1>4, <1>5 DEF mk

-----------------------------------------------------------------------------
(* Runs and their records *)

\* The context to fire record c under: its own, or none.
ContextOf(c, context) == IF context = "own" THEN c.context ELSE ""

\* f is what the recorded fires make of the marking that they start from.
Runs(f, m, choices, start, context) ==
  /\ f[0] = start
  /\ \A k \in 1..Len(choices) :
       f[k] = Fire(m, f[k - 1], choices[k].chosen, ContextOf(choices[k], context))
  /\ \A k \in 0..Len(choices) : Fits(m, f[k]) /\ Arrived(m, f[k])

\* Every record says what was enabled when it was made.
Telling(f, m, choices) == \A k \in 1..Len(choices) : choices[k].enabled = Enabled(m, f[k - 1])

\* What fits a tree is not the refusal of a fire.
LEMMA FitsIsNoRefusal ==
  ASSUME NEW m, NEW mk, Fits(m, mk)
  PROVE  ~IsRefused(mk)
BY DEF Fits, IsRefused

\* A fire that is not refused, and its record, continue a run.
LEMMA RunGrows ==
  ASSUME NEW m, IsTree(m), NEW f, NEW S, NEW choices \in Seq(S), NEW start, NEW context,
         Runs(f, m, choices, start, context),
         NEW record \in S, NEW next,
         next = Fire(m, f[Len(choices)], record.chosen, ContextOf(record, context)),
         ~IsRefused(next)
  PROVE  LET g == [k \in 0..Len(choices) + 1 |-> IF k = Len(choices) + 1 THEN next ELSE f[k]]
         IN  /\ Runs(g, m, Append(choices, record), start, context)
             /\ g[Len(choices) + 1] = next
             /\ \A k \in 0..Len(choices) : g[k] = f[k]
<1>. DEFINE n == Len(choices)
            g == [k \in 0..n + 1 |-> IF k = n + 1 THEN next ELSE f[k]]
            longer == Append(choices, record)
<1>1. n \in Nat /\ Len(longer) = n + 1
  OBVIOUS
<1>2. longer[n + 1] = record /\ \A k \in 1..n : longer[k] = choices[k]
  OBVIOUS
<1>3. g[n + 1] = next /\ \A k \in 0..n : g[k] = f[k]
  <2>1. n + 1 \in 0..n + 1 /\ \A k \in 0..n : k \in 0..n + 1 /\ k # n + 1
    BY <1>1
  <2>2. QED
    BY <2>1
<1>. HIDE DEF g, longer
<1>4. Fits(m, next) /\ Arrived(m, next)
  <2>1. n \in 0..n
    BY <1>1
  <2>2. Fits(m, f[n]) /\ Arrived(m, f[n])
    BY <2>1 DEF Runs
  <2>3. QED
    BY <2>2, FireIs
<1>5. ASSUME NEW k \in 1..n + 1
      PROVE  g[k] = Fire(m, g[k - 1], longer[k].chosen, ContextOf(longer[k], context))
  <2>1. CASE k = n + 1
    <3>1. k - 1 = n /\ n \in 0..n
      BY <1>1, <2>1
    <3>2. g[k] = next /\ g[k - 1] = f[n] /\ longer[k] = record
      BY <1>2, <1>3, <2>1, <3>1
    <3>3. QED
      BY <3>2
  <2>2. CASE k # n + 1
    <3>1. k \in 1..n /\ k \in 0..n /\ k - 1 \in 0..n
      BY <1>1, <2>2
    <3>2. g[k] = f[k] /\ g[k - 1] = f[k - 1] /\ longer[k] = choices[k]
      BY <1>2, <1>3, <3>1
    <3>3. f[k] = Fire(m, f[k - 1], choices[k].chosen, ContextOf(choices[k], context))
      BY <3>1 DEF Runs
    <3>4. QED
      BY <3>2, <3>3
  <2>3. QED
    BY <2>1, <2>2
<1>6. ASSUME NEW k \in 0..n + 1
      PROVE  Fits(m, g[k]) /\ Arrived(m, g[k])
  <2>1. CASE k = n + 1
    BY <1>3, <1>4, <2>1
  <2>2. CASE k # n + 1
    <3>1. k \in 0..n
      BY <1>1, <2>2
    <3>2. QED
      BY <1>3, <3>1 DEF Runs
  <2>3. QED
    BY <2>1, <2>2
<1>7. g[0] = start
  <2>1. 0 \in 0..n
    BY <1>1
  <2>2. QED
    BY <1>3, <2>1 DEF Runs
<1>8. Runs(g, m, longer, start, context)
  BY <1>1, <1>5, <1>6, <1>7 DEF Runs
<1>9. QED
  BY <1>3, <1>8 DEF g, longer

\* How a replay goes on from marking mk with record c.
ReplayOn(m, mk, c) ==
  IF IsRefused(mk) THEN mk
  ELSE IF Enabled(m, mk) # c.enabled \/ c.chosen \notin c.enabled THEN Refused("REPLAY_DIVERGED")
  ELSE Fire(m, mk, c.chosen, c.context)

\* Records that say what was enabled replay the run that they were made of.
LEMMA ReplayFollows ==
  ASSUME NEW m, IsTree(m), NEW f, NEW S, NEW choices \in Seq(S), NEW start,
         Runs(f, m, choices, start, "own"), Telling(f, m, choices)
  PROVE  Replay(m, choices, start) = f[Len(choices)]
<1>. DEFINE n == Len(choices)
            g == [k \in 0..n |-> f[k]]
            h == CHOOSE x : x = [k \in 0..n |-> IF k = 0 THEN start ELSE ReplayOn(m, x[k - 1], choices[k])]
<1>0. n \in Nat
  OBVIOUS
<1>1. Replay(m, choices, start) = h[n]
  BY DEF Replay, ReplayOn
<1>2. ASSUME NEW k \in 1..n
      PROVE  f[k] = ReplayOn(m, f[k - 1], choices[k])
  <2>1. k \in 0..n /\ k - 1 \in 0..n
    BY <1>0
  <2>2. /\ f[k] = Fire(m, f[k - 1], choices[k].chosen, choices[k].context)
        /\ ~IsRefused(f[k]) /\ ~IsRefused(f[k - 1])
    BY <2>1, FitsIsNoRefusal DEF Runs, ContextOf
  <2>3. choices[k].chosen \in Enabled(m, f[k - 1])
    BY <2>2 DEF Fire, IsRefused, Refused
  <2>4. choices[k].enabled = Enabled(m, f[k - 1])
    BY DEF Telling
  <2>5. QED
    BY <2>2, <2>3, <2>4 DEF ReplayOn
<1>3. g = [k \in 0..n |-> IF k = 0 THEN start ELSE ReplayOn(m, g[k - 1], choices[k])]
  <2>1. ASSUME NEW k \in 0..n
        PROVE  g[k] = IF k = 0 THEN start ELSE ReplayOn(m, g[k - 1], choices[k])
    <3>1. g[k] = f[k] /\ f[0] = start
      BY DEF Runs
    <3>2. k # 0 => k \in 1..n /\ k - 1 \in 0..n
      BY <1>0
    <3>3. k # 0 => g[k - 1] = f[k - 1]
      BY <3>2
    <3>. HIDE DEF g
    <3>4. QED
      BY <1>2, <3>1, <3>2, <3>3
  <2>2. g = [k \in 0..n |-> g[k]]
    OBVIOUS
  <2>. HIDE DEF g
  <2>3. QED
    BY <2>1, <2>2
<1>4. h = [k \in 0..n |-> IF k = 0 THEN start ELSE ReplayOn(m, h[k - 1], choices[k])]
  <2>1. \E x : x = [k \in 0..n |-> IF k = 0 THEN start ELSE ReplayOn(m, x[k - 1], choices[k])]
    BY <1>3
  <2>2. QED
    BY <2>1, Zenon
<1>. HIDE DEF h
<1>5. n \in {k \in Nat : k \in 0..n => h[k] = f[k]}
  <2>. DEFINE T == {k \in Nat : k \in 0..n => h[k] = f[k]}
  <2>1. 0 \in T
    <3>1. 0 \in 0..n
      BY <1>0
    <3>2. h[0] = start /\ f[0] = start
      BY <1>4, <3>1 DEF Runs
    <3>3. QED
      BY <3>2
  <2>2. ASSUME NEW k \in Nat, k \in T PROVE k + 1 \in T
    <3>1. ASSUME k + 1 \in 0..n
          PROVE  h[k + 1] = f[k + 1]
      <4>1. k \in 0..n /\ k + 1 \in 1..n /\ (k + 1) - 1 = k /\ k + 1 # 0
        BY <1>0, <3>1
      <4>2. h[k] = f[k]
        BY <2>2, <4>1
      <4>3. h[k + 1] = ReplayOn(m, h[k], choices[k + 1])
        BY <1>4, <3>1, <4>1
      <4>4. f[k + 1] = ReplayOn(m, f[k], choices[k + 1])
        BY <1>2, <4>1
      <4>5. QED
        BY <4>2, <4>3, <4>4
    <3>2. QED
      BY <3>1
  <2>. HIDE DEF T
  <2>3. n \in T
    BY <1>0, <2>1, <2>2, NaturalInduction
  <2>4. QED
    BY <2>3 DEF T
<1>6. n \in 0..n
  BY <1>0
<1>7. QED
  BY <1>1, <1>5, <1>6

-----------------------------------------------------------------------------
(* Occurrences leave no trace on a traversal *)

\* Two markings that differ at most in the occurrences that they completed.
Alike(mk, nk) ==
  /\ DOMAIN mk = {"completed", "cursor", "visits", "fires", "paths", "rounds"} /\ DOMAIN nk = DOMAIN mk
  /\ nk.cursor = mk.cursor /\ nk.visits = mk.visits /\ nk.fires = mk.fires
  /\ nk.paths = mk.paths /\ nk.rounds = mk.rounds

\* The recursion of Complete has one solution.
LEMMA CompletesOnce ==
  ASSUME NEW m, IsTree(m), NEW mk, NEW c, NEW d, Completes(c, m, mk), Completes(d, m, mk)
  PROVE  c = d
<1>1. PICK depth \in Nat : \A p \in DOMAIN m : Len(p) \in Nat /\ Len(p) <= depth
  BY DeepestIs
<1>. DEFINE Right(p) == c[p] = d[p]
            S == {j \in Nat : \A p \in DOMAIN m : Len(p) + j > depth => Right(p)}
<1>2. 0 \in S
  BY <1>1
<1>3. ASSUME NEW j \in Nat, j \in S PROVE j + 1 \in S
  <2>1. ASSUME NEW p \in DOMAIN m, Len(p) + (j + 1) > depth PROVE Right(p)
    <3>1. p \in Composites(m) => \A i \in 1..m[p].n : c[Append(p, i)] = d[Append(p, i)]
      <4>1. SUFFICES ASSUME p \in Composites(m), NEW i \in 1..m[p].n PROVE c[Append(p, i)] = d[Append(p, i)]
        OBVIOUS
      <4>2. Append(p, i) \in DOMAIN m /\ Len(Append(p, i)) = Len(p) + 1
        BY <4>1, TreeIs, ChildIs
      <4>3. Len(Append(p, i)) + j > depth
        BY <1>1, <2>1, <4>2
      <4>4. QED
        BY <1>3, <4>2, <4>3
    <3>2. NodeComplete(m, mk, p, c) = NodeComplete(m, mk, p, d)
      BY <3>1, CompleteBelow
    <3>3. c[p] = NodeComplete(m, mk, p, c) /\ d[p] = NodeComplete(m, mk, p, d)
      <4>. DEFINE cc == [q \in DOMAIN m |-> NodeComplete(m, mk, q, c)]
                  dd == [q \in DOMAIN m |-> NodeComplete(m, mk, q, d)]
      <4>1. c = cc /\ d = dd
        BY DEF Completes
      <4>2. cc[p] = NodeComplete(m, mk, p, c) /\ dd[p] = NodeComplete(m, mk, p, d)
        OBVIOUS
      <4>. HIDE DEF cc, dd
      <4>3. QED
        BY <4>1, <4>2
    <3>4. QED
      BY <3>2, <3>3
  <2>. HIDE DEF Right
  <2>2. QED
    BY <2>1
<1>. HIDE DEF Right
<1>4. depth + 1 \in S
  BY <1>2, <1>3, NaturalInduction
<1>5. \A p \in DOMAIN m : c[p] = d[p]
  BY <1>1, <1>4 DEF Right
<1>6. c = [p \in DOMAIN m |-> c[p]] /\ d = [p \in DOMAIN m |-> d[p]]
  BY DEF Completes
<1>7. QED
  BY <1>5, <1>6

\* And Complete is that solution.
LEMMA CompleteCompletes ==
  ASSUME NEW m, IsTree(m), NEW mk
  PROVE  Completes(Complete(m, mk), m, mk)
<1>. DEFINE c == CHOOSE g : g = [p \in DOMAIN m |-> NodeComplete(m, mk, p, g)]
<1>1. Complete(m, mk) = c
  BY DEF Complete
<1>2. c = [p \in DOMAIN m |-> NodeComplete(m, mk, p, c)]
  <2>1. \E g : g = [p \in DOMAIN m |-> NodeComplete(m, mk, p, g)]
    BY CompleteSome DEF Completes
  <2>2. QED
    BY <2>1, Zenon
<1>. HIDE DEF c
<1>3. QED
  BY <1>1, <1>2 DEF Completes

\* What is complete does not depend on occurrences.
LEMMA CompleteAlike ==
  ASSUME NEW m, IsTree(m), NEW mk, NEW nk, Alike(mk, nk)
  PROVE  Complete(m, nk) = Complete(m, mk)
<1>1. \A p : InProgress(nk, p) = InProgress(mk, p)
  BY DEF Alike, InProgress
<1>2. \A p, c : NodeComplete(m, nk, p, c) = NodeComplete(m, mk, p, c)
  <2>1. SUFFICES ASSUME NEW p, NEW c PROVE NodeComplete(m, nk, p, c) = NodeComplete(m, mk, p, c)
    OBVIOUS
  <2>2. InProgress(nk, p) = InProgress(mk, p)
    BY <1>1
  <2>3. QED
    BY <2>2 DEF NodeComplete, Alike
<1>3. Completes(Complete(m, nk), m, nk) /\ Completes(Complete(m, mk), m, mk)
  BY CompleteCompletes
<1>4. Completes(Complete(m, nk), m, mk)
  BY <1>2, <1>3 DEF Completes
<1>5. QED
  BY <1>3, <1>4, CompletesOnce

\* Nor does what a purge leaves.
LEMMA PurgedAlike ==
  ASSUME NEW mk, NEW nk, Alike(mk, nk), NEW root, NEW kept
  PROVE  Alike(PurgedBut(mk, root, kept), PurgedBut(nk, root, kept))
BY DEF Alike, PurgedBut

\* Nor what a node offers.
LEMMA OffersAlike ==
  ASSUME NEW m, IsTree(m), NEW mk, NEW nk, Alike(mk, nk), NEW cap, NEW p, NEW a \in BOOLEAN, NEW f
  PROVE  Offers(m, nk, cap, p, a, f) = Offers(m, mk, cap, p, a, f)
<1>. DEFINE View(x) == IF a THEN Purged(x, p) ELSE x
            v == View(mk)
            w == View(nk)
            c == Complete(m, v)
            d == Complete(m, w)
<1>1. Alike(v, w)
  BY PurgedAlike DEF Purged
<1>. HIDE DEF v, w
<1>2. d = c
  BY <1>1, CompleteAlike
<1>3. w.cursor = v.cursor /\ w.visits = v.visits /\ w.paths = v.paths /\ w.rounds = v.rounds
  BY <1>1 DEF Alike
<1>4. InProgress(w, p) = InProgress(v, p)
  BY <1>1 DEF Alike, InProgress
<1>5. Exhausted(m[p], p, w, cap) = Exhausted(m[p], p, v, cap)
  BY <1>3, <1>4 DEF Exhausted
<1>. DEFINE Offer(view, complete, spent) ==
              LET node == m[p]
                  child(i) == Append(p, i)
                  ready == {i \in 1..node.n : /\ ~complete[child(i)]
                                              /\ \A e \in node.closure : e[2] = i => complete[child(e[1])]}
                  cur == view.cursor[p]
                  next == IF cur = 0 THEN {node.start} ELSE {e[2] : e \in {x \in node.edges : x[1] = cur}}
              IN IF IsLeaf(node) THEN {p} \ view.paths
                 ELSE IF spent = "yes" THEN {}
                 ELSE IF node.kind = "PartialOrder" THEN UNION {f[<<child(i), a>>] : i \in ready}
                 ELSE IF cur # 0 /\ ~complete[child(cur)] THEN f[<<child(cur), a>>]
                 ELSE IF cur = node.end THEN {}
                 ELSE UNION {f[<<child(i), TRUE>>] : i \in {j \in next : ~Capped(view.visits[p][j], cap)}}
            s == IF Exhausted(m[p], p, v, cap) THEN "yes" ELSE "no"
            t == IF Exhausted(m[p], p, w, cap) THEN "yes" ELSE "no"
<1>6. s = t
  BY <1>5
<1>7. Offers(m, mk, cap, p, a, f) = Offer(v, c, s)
  BY DEF Offers, v
<1>8. Offers(m, nk, cap, p, a, f) = Offer(w, d, t)
  BY DEF Offers, w
<1>. HIDE DEF c, d, s, t
<1>9. Offer(w, d, t) = Offer(v, c, s)
  BY <1>2, <1>3, <1>6
<1>. HIDE DEF Offer
<1>10. QED
  BY <1>7, <1>8, <1>9

\* f and g offer the same everywhere.
OfferingAlike(f, g, m) == \A p \in DOMAIN m, a \in BOOLEAN : f[<<p, a>>] = g[<<p, a>>]

\* The recursion of EnabledUnder has one solution.
LEMMA OfferingOnce ==
  ASSUME NEW m, IsTree(m), NEW mk, Fits(m, mk), NEW cap, NEW f, NEW g,
         Offering(f, m, mk, cap), Offering(g, m, mk, cap)
  PROVE  OfferingAlike(f, g, m)
<1>1. PICK depth \in Nat : \A p \in DOMAIN m : Len(p) \in Nat /\ Len(p) <= depth
  BY DeepestIs
<1>. DEFINE Right(p) == \A a \in BOOLEAN : f[<<p, a>>] = g[<<p, a>>]
            S == {j \in Nat : \A p \in DOMAIN m : Len(p) + j > depth => Right(p)}
<1>2. 0 \in S
  BY <1>1
<1>3. ASSUME NEW j \in Nat, j \in S PROVE j + 1 \in S
  <2>1. ASSUME NEW p \in DOMAIN m, Len(p) + (j + 1) > depth PROVE Right(p)
    <3>1. SameBelow(f, g, m, p)
      <4>1. SUFFICES ASSUME p \in Composites(m), NEW i \in 1..m[p].n PROVE Right(Append(p, i))
        BY DEF SameBelow
      <4>2. Append(p, i) \in DOMAIN m /\ Len(Append(p, i)) = Len(p) + 1
        BY <4>1, TreeIs, ChildIs
      <4>3. Len(Append(p, i)) + j > depth
        BY <1>1, <2>1, <4>2
      <4>. HIDE DEF Right
      <4>4. QED
        BY <1>3, <4>2, <4>3
    <3>2. \A a \in BOOLEAN : Offers(m, mk, cap, p, a, f) = Offers(m, mk, cap, p, a, g)
      BY <3>1, OffersBelow
    <3>3. QED
      BY <3>2 DEF Offering
  <2>. HIDE DEF Right
  <2>2. QED
    BY <2>1
<1>. HIDE DEF Right
<1>4. depth + 1 \in S
  BY <1>2, <1>3, NaturalInduction
<1>5. ASSUME NEW p \in DOMAIN m PROVE Right(p)
  BY <1>1, <1>4
<1>6. QED
  BY <1>5 DEF Right, OfferingAlike

\* Occurrences do not make a marking fit.
LEMMA FitsAlike ==
  ASSUME NEW m, NEW mk, NEW nk, Alike(mk, nk), Fits(m, mk)
  PROVE  Fits(m, nk)
BY DEF Alike, Fits

\* What is enabled does not depend on them.
LEMMA EnabledAlike ==
  ASSUME NEW m, IsTree(m), NEW mk, NEW nk, Alike(mk, nk), Fits(m, mk), NEW cap
  PROVE  EnabledUnder(m, nk, cap) = EnabledUnder(m, mk, cap)
<1>1. Fits(m, nk)
  BY FitsAlike
<1>2. PICK f : Offering(f, m, mk, cap) /\ EnabledUnder(m, mk, cap) = f[<< <<>>, FALSE >>]
  BY EnabledIsOffered
<1>3. PICK g : Offering(g, m, nk, cap) /\ EnabledUnder(m, nk, cap) = g[<< <<>>, FALSE >>]
  BY <1>1, EnabledIsOffered
<1>4. \A p, h : \A a \in BOOLEAN : Offers(m, nk, cap, p, a, h) = Offers(m, mk, cap, p, a, h)
  BY OffersAlike
<1>5. Offering(g, m, mk, cap)
  BY <1>3, <1>4 DEF Offering
<1>6. <<>> \in DOMAIN m
  BY TreeIs
<1>7. f[<< <<>>, FALSE >>] = g[<< <<>>, FALSE >>]
  <2>1. OfferingAlike(f, g, m)
    BY <1>2, <1>5, OfferingOnce
  <2>2. QED
    BY <1>6, <2>1 DEF OfferingAlike
<1>8. QED
  BY <1>2, <1>3, <1>7

\* Nor what entering makes of a marking.
LEMMA EnterAlike ==
  ASSUME NEW m, IsTree(m), NEW mk, NEW nk, Alike(mk, nk), NEW p, NEW i
  PROVE  Alike(Enter(m, mk, p, i), Enter(m, nk, p, i))
<1>. DEFINE v == Purged(mk, Append(p, i))
            w == Purged(nk, Append(p, i))
<1>1. Complete(m, nk) = Complete(m, mk)
  BY CompleteAlike
<1>2. Alike(v, w)
  BY PurgedAlike DEF Purged
<1>. HIDE DEF v, w
<1>3. Alike([v EXCEPT !.cursor[p] = i, !.visits[p][i] = @ + 1], [w EXCEPT !.cursor[p] = i, !.visits[p][i] = @ + 1])
  BY <1>2 DEF Alike
<1>4. nk.cursor = mk.cursor
  BY DEF Alike
<1>5. QED
  BY <1>1, <1>3, <1>4 DEF Enter, IsComplete, v, w

\* All the way down.
LEMMA EnterChoicesAlike ==
  ASSUME NEW m, IsTree(m), NEW mk, NEW nk, Alike(mk, nk), NEW path \in Seq(Nat)
  PROVE  Alike(EnterChoices(m, mk, path), EnterChoices(m, nk, path))
<1>0. Len(path) \in Nat
  OBVIOUS
<1>1. PICK f : Entered(f, m, mk, path) /\ EnterChoices(m, mk, path) = f[Len(path)]
  BY EnterChoicesIs
<1>2. PICK g : Entered(g, m, nk, path) /\ EnterChoices(m, nk, path) = g[Len(path)]
  BY EnterChoicesIs
<1>. DEFINE S == {d \in Nat : d <= Len(path) => Alike(f[d], g[d])}
<1>3. 0 \in S
  BY <1>0, <1>1, <1>2 DEF Entered
<1>4. ASSUME NEW d \in Nat, d \in S PROVE d + 1 \in S
  <2>1. SUFFICES ASSUME d + 1 <= Len(path) PROVE Alike(f[d + 1], g[d + 1])
    OBVIOUS
  <2>2. d + 1 \in 0..Len(path) /\ d + 1 # 0 /\ (d + 1) - 1 = d /\ d <= Len(path)
    BY <1>0, <2>1
  <2>3. f[d + 1] = Enter(m, f[d], Upper(path, d), path[d + 1]) /\ g[d + 1] = Enter(m, g[d], Upper(path, d), path[d + 1])
    BY <1>1, <1>2, <2>2 DEF Entered
  <2>4. Alike(f[d], g[d])
    BY <1>4, <2>2
  <2>5. QED
    BY <2>3, <2>4, EnterAlike
<1>. HIDE DEF S
<1>5. Len(path) \in S
  BY <1>0, <1>3, <1>4, NaturalInduction
<1>6. QED
  BY <1>0, <1>1, <1>2, <1>5 DEF S

\* Nor what banking does.
LEMMA BankAlike ==
  ASSUME NEW m, IsTree(m), NEW mk, NEW nk, Alike(mk, nk), NEW p
  PROVE  Alike(Bank(m, mk, p), Bank(m, nk, p))
<1>. DEFINE v == PurgedBut(mk, p, {p})
            w == PurgedBut(nk, p, {p})
<1>1. Complete(m, nk) = Complete(m, mk)
  BY CompleteAlike
<1>2. Alike(v, w)
  BY PurgedAlike
<1>. HIDE DEF v, w
<1>3. Alike([v EXCEPT !.rounds[p] = @ + 1, !.visits[p][0] = @ + 1], [w EXCEPT !.rounds[p] = @ + 1, !.visits[p][0] = @ + 1])
  BY <1>2 DEF Alike
<1>4. nk.cursor = mk.cursor
  BY DEF Alike
<1>5. QED
  BY <1>1, <1>3, <1>4 DEF Bank, v, w

\* All the way up.
LEMMA CloseRoundsAlike ==
  ASSUME NEW m, IsTree(m), NEW mk, NEW nk, Alike(mk, nk), NEW path \in Seq(Nat)
  PROVE  Alike(CloseRounds(m, path, mk), CloseRounds(m, path, nk))
<1>0. Len(path) \in Nat
  OBVIOUS
<1>1. PICK f : Closes(f, m, mk, path) /\ CloseRounds(m, path, mk) = f[0]
  BY CloseRoundsIs
<1>2. PICK g : Closes(g, m, nk, path) /\ CloseRounds(m, path, nk) = g[0]
  BY CloseRoundsIs
<1>3. \A d \in 0..Len(path) : /\ f[d] = IF d = Len(path) THEN mk ELSE Bank(m, f[d + 1], Upper(path, d))
                              /\ g[d] = IF d = Len(path) THEN nk ELSE Bank(m, g[d + 1], Upper(path, d))
  BY <1>1, <1>2 DEF Closes
<1>. DEFINE S == {j \in Nat : j <= Len(path) => Alike(f[Len(path) - j], g[Len(path) - j])}
<1>4. 0 \in S
  BY <1>0, <1>3
<1>5. ASSUME NEW j \in Nat, j \in S PROVE j + 1 \in S
  <2>1. SUFFICES ASSUME j + 1 <= Len(path) PROVE Alike(f[Len(path) - (j + 1)], g[Len(path) - (j + 1)])
    OBVIOUS
  <2>. DEFINE d == Len(path) - (j + 1)
  <2>2. d \in 0..Len(path) /\ d # Len(path) /\ d + 1 = Len(path) - j /\ j <= Len(path)
    BY <1>0, <2>1
  <2>3. Alike(f[d + 1], g[d + 1])
    BY <1>5, <2>2
  <2>. HIDE DEF d
  <2>4. f[d] = Bank(m, f[d + 1], Upper(path, d)) /\ g[d] = Bank(m, g[d + 1], Upper(path, d))
    BY <1>3, <2>2
  <2>5. Alike(f[d], g[d])
    BY <2>3, <2>4, BankAlike
  <2>6. QED
    BY <2>5 DEF d
<1>. HIDE DEF S
<1>6. Len(path) \in S
  BY <1>0, <1>4, <1>5, NaturalInduction
<1>7. QED
  BY <1>0, <1>1, <1>2, <1>6 DEF S

\* So the fire of a leaf does the same under every context: what it completes
\* is counted apart, and never looked at again.
LEMMA FireAlike ==
  ASSUME NEW m, IsTree(m), NEW mk, NEW nk, Alike(mk, nk), Fits(m, mk), NEW path, NEW context, NEW other,
         ~IsRefused(Fire(m, mk, path, context))
  PROVE  ~IsRefused(Fire(m, nk, path, other)) /\ Alike(Fire(m, mk, path, context), Fire(m, nk, path, other))
<1>. DEFINE Filed(entered, key) == [entered EXCEPT !.completed = @ \cup {key}, !.paths = @ \cup {path}, !.fires = @ + 1]
            e == EnterChoices(m, mk, path)
            f == EnterChoices(m, nk, path)
            next == Fire(m, mk, path, context)
            then == Fire(m, nk, path, other)
            key == NextKey(mk, ActivityOf(m, path), context)
            kez == NextKey(nk, ActivityOf(m, path), other)
<1>0. \A reason : IsRefused(Refused(reason))
  BY DEF IsRefused, Refused
<1>1. /\ path \in Enabled(m, mk) /\ ~(mk.fires + 1 > MaxActivityFires)
      /\ ~(Cardinality(e.paths) + 1 > MaxMarkingStates)
      /\ next = CloseRounds(m, path, Filed(e, key))
  BY <1>0 DEF Fire
<1>2. Enabled(m, nk) = Enabled(m, mk)
  BY EnabledAlike DEF Enabled
<1>3. path \in Seq(Nat)
  BY <1>1, EnabledIs, TreeIs DEF Enabled
<1>4. Alike(e, f)
  BY <1>3, EnterChoicesAlike
<1>5. then = CloseRounds(m, path, Filed(f, kez))
  <2>1. nk.fires = mk.fires /\ f.paths = e.paths
    BY <1>4 DEF Alike
  <2>2. QED
    BY <1>1, <1>2, <2>1 DEF Fire
<1>. HIDE DEF e, f, next, then, key, kez
<1>6. Alike(Filed(e, key), Filed(f, kez))
  BY <1>4 DEF Alike
<1>. HIDE DEF Filed
<1>7. Alike(next, then)
  BY <1>1, <1>3, <1>5, <1>6, CloseRoundsAlike
<1>8. ~IsRefused(then)
  BY <1>7 DEF Alike, IsRefused
<1>9. QED
  BY <1>7, <1>8 DEF next, then

-----------------------------------------------------------------------------
(* Token replay *)

\* The leaves that an event may be of.
Candidates(m, mk, event) == {p \in Enabled(m, mk) : EventOf(m, p) = event}

\* How a token replay goes on from marking mk with an event.
TokenOn(m, mk, event) ==
  IF IsRefused(mk) THEN mk
  ELSE IF Candidates(m, mk, event) = {} THEN Refused("DIVERGED")
  ELSE Fire(m, mk, FirstPath(Candidates(m, mk, event)), "")

\* An event that tells its leaf apart leads to the fire of that leaf.
LEMMA TokenFires ==
  ASSUME NEW m, IsTree(m), Unambiguous(m), NEW mk, Fits(m, mk), NEW path,
         ~IsRefused(Fire(m, mk, path, ""))
  PROVE  TokenOn(m, mk, EventOf(m, path)) = Fire(m, mk, path, "")
<1>1. path \in Enabled(m, mk)
  BY DEF Fire, IsRefused, Refused
<1>2. Enabled(m, mk) \subseteq Leaves(m)
  BY EnabledIs DEF Enabled
<1>3. Candidates(m, mk, EventOf(m, path)) = {path}
  BY <1>1, <1>2 DEF Candidates, Unambiguous
<1>4. FirstPath({path}) = path
  BY DEF FirstPath
<1>5. ~IsRefused(mk)
  BY FitsIsNoRefusal
<1>6. QED
  BY <1>3, <1>4, <1>5 DEF TokenOn

\* So the events of a run lead to where the run led.
LEMMA TokenReplayFollows ==
  ASSUME NEW m, IsTree(m), Unambiguous(m), NEW f, NEW S, NEW choices \in Seq(S),
         Runs(f, m, choices, InitialMarking(m), "none")
  PROVE  TokenReplay(m, EventsOf(m, choices)) = f[Len(choices)]
<1>. DEFINE n == Len(choices)
            start == InitialMarking(m)
            events == EventsOf(m, choices)
            g == [k \in 0..n |-> f[k]]
            h == CHOOSE x : x = [k \in 0..Len(events) |-> IF k = 0 THEN start ELSE TokenOn(m, x[k - 1], events[k])]
<1>0. n \in Nat
  OBVIOUS
<1>1. TokenReplay(m, events) = h[Len(events)]
  <2>. HIDE DEF start, events
  <2>1. QED
    BY DEF TokenReplay, TokenOn, Candidates, start
<1>2. Len(events) = n /\ \A k \in 1..n : events[k] = EventOf(m, choices[k].chosen)
  <2>1. DOMAIN choices = 1..n
    OBVIOUS
  <2>2. events = [k \in 1..n |-> EventOf(m, choices[k].chosen)]
    BY <2>1 DEF EventsOf
  <2>. HIDE DEF events, n
  <2>3. QED
    BY <1>0, <2>2
<1>. HIDE DEF start, events
<1>3. ASSUME NEW k \in 1..n
      PROVE  f[k] = TokenOn(m, f[k - 1], events[k])
  <2>1. k \in 0..n /\ k - 1 \in 0..n
    BY <1>0
  <2>2. f[k] = Fire(m, f[k - 1], choices[k].chosen, "") /\ ~IsRefused(f[k]) /\ Fits(m, f[k - 1])
    BY <2>1, FitsIsNoRefusal DEF Runs, ContextOf
  <2>3. TokenOn(m, f[k - 1], EventOf(m, choices[k].chosen)) = Fire(m, f[k - 1], choices[k].chosen, "")
    BY <2>2, TokenFires
  <2>4. QED
    BY <1>2, <2>2, <2>3
<1>4. g = [k \in 0..n |-> IF k = 0 THEN start ELSE TokenOn(m, g[k - 1], events[k])]
  <2>1. ASSUME NEW k \in 0..n
        PROVE  g[k] = IF k = 0 THEN start ELSE TokenOn(m, g[k - 1], events[k])
    <3>1. g[k] = f[k] /\ f[0] = start
      BY DEF Runs, start
    <3>2. k # 0 => k \in 1..n /\ k - 1 \in 0..n
      BY <1>0
    <3>3. k # 0 => g[k - 1] = f[k - 1]
      BY <3>2
    <3>. HIDE DEF g
    <3>4. QED
      BY <1>3, <3>1, <3>2, <3>3
  <2>2. g = [k \in 0..n |-> g[k]]
    OBVIOUS
  <2>. HIDE DEF g
  <2>3. QED
    BY <2>1, <2>2
<1>5. h = [k \in 0..n |-> IF k = 0 THEN start ELSE TokenOn(m, h[k - 1], events[k])]
  <2>1. \E x : x = [k \in 0..n |-> IF k = 0 THEN start ELSE TokenOn(m, x[k - 1], events[k])]
    BY <1>4
  <2>2. h = CHOOSE x : x = [k \in 0..n |-> IF k = 0 THEN start ELSE TokenOn(m, x[k - 1], events[k])]
    BY <1>2
  <2>3. QED
    BY <2>1, <2>2, Zenon
<1>. HIDE DEF h, n
<1>6. n \in {k \in Nat : k \in 0..n => h[k] = f[k]}
  <2>. DEFINE T == {k \in Nat : k \in 0..n => h[k] = f[k]}
  <2>1. 0 \in T
    <3>1. 0 \in 0..n
      BY <1>0
    <3>2. h[0] = start /\ f[0] = start
      BY <1>5, <3>1 DEF Runs, start
    <3>3. QED
      BY <3>2
  <2>2. ASSUME NEW k \in Nat, k \in T PROVE k + 1 \in T
    <3>1. ASSUME k + 1 \in 0..n
          PROVE  h[k + 1] = f[k + 1]
      <4>1. k \in 0..n /\ k + 1 \in 1..n /\ (k + 1) - 1 = k /\ k + 1 # 0
        BY <1>0, <3>1
      <4>2. h[k] = f[k]
        BY <2>2, <4>1
      <4>3. h[k + 1] = TokenOn(m, h[k], events[k + 1])
        BY <1>5, <3>1, <4>1
      <4>4. f[k + 1] = TokenOn(m, f[k], events[k + 1])
        BY <1>3, <4>1
      <4>5. QED
        BY <4>2, <4>3, <4>4
    <3>2. QED
      BY <3>1
  <2>. HIDE DEF T
  <2>3. n \in T
    BY <1>0, <2>1, <2>2, NaturalInduction
  <2>4. QED
    BY <2>3 DEF T
<1>7. n \in 0..n
  BY <1>0
<1>8. QED
  BY <1>1, <1>2, <1>6, <1>7 DEF n, events

-----------------------------------------------------------------------------
(* Progress under a node *)

\* The rounds of a marking of tree m.
Counts(m, mk) == DOMAIN mk.rounds = Composites(m) /\ \A p \in Composites(m) : mk.rounds[p] \in Nat

\* A marking that fits its tree, rounds and all.
Full(m, mk) == Fits(m, mk) /\ Counts(m, mk)

\* Two markings that say the same of everything under p.
SameUnder(m, mk, nk, p) ==
  /\ \A q \in Leaves(m) : Under(p, q) => (q \in nk.paths <=> q \in mk.paths)
  /\ \A q \in Composites(m) : Under(p, q) => nk.cursor[q] = mk.cursor[q] /\ nk.rounds[q] = mk.rounds[q]

\* No progress under p, other than the rounds of p itself.
Reset(m, mk, p) ==
  /\ \A q \in mk.paths : ~Under(p, q)
  /\ \A q \in Composites(m) : Under(p, q) => mk.cursor[q] = 0 /\ (q # p => mk.rounds[q] = 0)

\* No progress at all.
Blank(m, mk, p) == Reset(m, mk, p) /\ (p \in Composites(m) => mk.rounds[p] = 0)

\* The body of composite p has just finished a round.
Done(m, mk, p) == BodyDone(m[p], p, mk.cursor[p], Complete(m, mk))

\* The rounds of composite p are as many as its frequency allows, and nothing
\* is begun after the last one.
Limited(m, mk, p) ==
  m[p].freq.max # Unbounded => mk.rounds[p] <= m[p].freq.max /\ (mk.rounds[p] = m[p].freq.max => ~InProgress(mk, p))

\* A round that has finished and is not banked is one that is allowed.
Banked(m, mk, p) == Done(m, mk, p) => Allows(m[p].freq, mk.rounds[p] + 1)

\* A marking from which the traversal goes on.
Going(m, mk) == Full(m, mk) /\ \A p \in Composites(m) : Limited(m, mk, p) /\ Banked(m, mk, p)

\* Progress under p is equal where markings are the same under p.
LEMMA InProgressSame ==
  ASSUME NEW m, NEW mk, NEW nk, Full(m, mk), Full(m, nk), NEW p, SameUnder(m, mk, nk, p)
  PROVE  InProgress(nk, p) <=> InProgress(mk, p)
<1>1. mk.paths \subseteq Leaves(m) /\ nk.paths \subseteq Leaves(m)
  BY DEF Full, Fits
<1>2. \A q : Under(p, q) => (q \in mk.paths <=> q \in nk.paths)
  BY <1>1 DEF SameUnder
<1>3. DOMAIN mk.cursor = Composites(m) /\ DOMAIN nk.cursor = Composites(m)
  BY DEF Full, Fits
<1>4. DOMAIN mk.rounds = Composites(m) /\ DOMAIN nk.rounds = Composites(m)
  BY DEF Full, Counts
<1>5. (\E q \in mk.paths : Under(p, q) /\ q # p) <=> (\E q \in nk.paths : Under(p, q) /\ q # p)
  BY <1>2
<1>6. (\E q \in DOMAIN mk.cursor : Under(p, q) /\ mk.cursor[q] # 0) <=> (\E q \in DOMAIN nk.cursor : Under(p, q) /\ nk.cursor[q] # 0)
  BY <1>3 DEF SameUnder
<1>7. (\E q \in DOMAIN mk.rounds : Under(p, q) /\ q # p /\ mk.rounds[q] > 0) <=> (\E q \in DOMAIN nk.rounds : Under(p, q) /\ q # p /\ nk.rounds[q] > 0)
  BY <1>4 DEF SameUnder
<1>8. QED
  BY <1>5, <1>6, <1>7 DEF InProgress

\* What is the same under a node is the same under the nodes below it.
LEMMA SameBelowNode ==
  ASSUME NEW m, IsTree(m), NEW mk, NEW nk, NEW p \in Seq(Nat), NEW q \in Seq(Nat), Under(p, q), SameUnder(m, mk, nk, p)
  PROVE  SameUnder(m, mk, nk, q)
<1>1. \A r \in DOMAIN m : Under(q, r) => Under(p, r)
  BY TreeIs, UnderUnder
<1>2. QED
  BY <1>1, TreeIs DEF SameUnder

\* And so is what is complete.
LEMMA CompleteSame ==
  ASSUME NEW m, IsTree(m), NEW mk, NEW nk, Full(m, mk), Full(m, nk), NEW root \in DOMAIN m, SameUnder(m, mk, nk, root)
  PROVE  \A p \in DOMAIN m : Under(root, p) => Complete(m, nk)[p] = Complete(m, mk)[p]
<1>1. PICK depth \in Nat : \A p \in DOMAIN m : Len(p) \in Nat /\ Len(p) <= depth
  BY DeepestIs
<1>. DEFINE c == Complete(m, mk)
            d == Complete(m, nk)
            Right(p) == Under(root, p) => d[p] = c[p]
            S == {j \in Nat : \A p \in DOMAIN m : Len(p) + j > depth => Right(p)}
<1>. HIDE DEF c, d
<1>2. 0 \in S
  BY <1>1
<1>3. ASSUME NEW j \in Nat, j \in S PROVE j + 1 \in S
  <2>1. ASSUME NEW p \in DOMAIN m, Len(p) + (j + 1) > depth PROVE Right(p)
    <3>1. SUFFICES ASSUME Under(root, p) PROVE d[p] = c[p]
      OBVIOUS
    <3>2. root \in Seq(Nat) /\ p \in Seq(Nat)
      BY TreeIs
    <3>3. p \in Composites(m) => \A i \in 1..m[p].n : d[Append(p, i)] = c[Append(p, i)]
      <4>1. SUFFICES ASSUME p \in Composites(m), NEW i \in 1..m[p].n PROVE d[Append(p, i)] = c[Append(p, i)]
        OBVIOUS
      <4>2. /\ Append(p, i) \in DOMAIN m /\ Len(Append(p, i)) = Len(p) + 1 /\ Append(p, i) \in Seq(Nat)
            /\ Under(p, Append(p, i))
        BY <4>1, TreeIs, ChildIs
      <4>3. Len(Append(p, i)) + j > depth
        BY <1>1, <2>1, <4>2
      <4>4. Under(root, Append(p, i))
        BY <3>1, <3>2, <4>2, UnderUnder
      <4>5. QED
        BY <1>3, <4>2, <4>3, <4>4
    <3>4. NodeComplete(m, nk, p, d) = NodeComplete(m, nk, p, c)
      BY <3>3, CompleteBelow
    <3>5. NodeComplete(m, nk, p, c) = NodeComplete(m, mk, p, c)
      <4>1. SameUnder(m, mk, nk, p)
        BY <3>1, <3>2, SameBelowNode
      <4>2. InProgress(nk, p) <=> InProgress(mk, p)
        BY <4>1, InProgressSame
      <4>3. Under(p, p)
        BY <3>2, UnderItself
      <4>4. CASE p \in Leaves(m)
        <5>1. p \in nk.paths <=> p \in mk.paths
          BY <4>1, <4>3, <4>4 DEF SameUnder
        <5>2. IsLeaf(m[p])
          BY <4>4, TreeIs
        <5>3. QED
          BY <5>1, <5>2 DEF NodeComplete
      <4>5. CASE p \in Composites(m)
        <5>1. nk.cursor[p] = mk.cursor[p] /\ nk.rounds[p] = mk.rounds[p]
          BY <4>1, <4>3, <4>5 DEF SameUnder
        <5>2. ~IsLeaf(m[p])
          BY <4>5, TreeIs
        <5>3. QED
          BY <4>2, <5>1, <5>2 DEF NodeComplete
      <4>6. QED
        BY <4>4, <4>5 DEF Composites
    <3>6. d[p] = NodeComplete(m, nk, p, d) /\ c[p] = NodeComplete(m, mk, p, c)
      BY CompleteIs DEF c, d
    <3>7. QED
      BY <3>4, <3>5, <3>6
  <2>. HIDE DEF Right
  <2>2. QED
    BY <2>1
<1>. HIDE DEF Right
<1>4. depth + 1 \in S
  BY <1>2, <1>3, NaturalInduction
<1>5. ASSUME NEW p \in DOMAIN m PROVE Right(p)
  BY <1>1, <1>4
<1>6. QED
  BY <1>5 DEF Right, c, d

\* So a composite is as it was where nothing under it has changed.
LEMMA GoodSame ==
  ASSUME NEW m, IsTree(m), NEW mk, NEW nk, Full(m, mk), Full(m, nk), NEW p \in Composites(m), SameUnder(m, mk, nk, p),
         Limited(m, mk, p), Banked(m, mk, p)
  PROVE  Limited(m, nk, p) /\ Banked(m, nk, p)
<1>1. p \in DOMAIN m /\ p \in Seq(Nat) /\ Under(p, p) /\ m[p].kind \in {"PartialOrder", "ChoiceGraph"}
  BY TreeIs, UnderItself
<1>2. nk.cursor[p] = mk.cursor[p] /\ nk.rounds[p] = mk.rounds[p]
  BY <1>1 DEF SameUnder
<1>3. InProgress(nk, p) <=> InProgress(mk, p)
  BY InProgressSame
<1>4. \A i \in 1..m[p].n : Complete(m, nk)[Append(p, i)] = Complete(m, mk)[Append(p, i)]
  <2>1. SUFFICES ASSUME NEW i \in 1..m[p].n PROVE Complete(m, nk)[Append(p, i)] = Complete(m, mk)[Append(p, i)]
    OBVIOUS
  <2>2. Append(p, i) \in DOMAIN m /\ Under(p, Append(p, i))
    BY <1>1, TreeIs, ChildIs
  <2>3. QED
    BY <1>1, <2>2, CompleteSame
<1>5. m[p].kind = "ChoiceGraph" => m[p].end \in 1..m[p].n
  BY TreeIs
<1>6. Done(m, nk, p) <=> Done(m, mk, p)
  BY <1>1, <1>2, <1>4, <1>5 DEF Done, BodyDone
<1>7. QED
  BY <1>2, <1>3, <1>6 DEF Limited, Banked

-----------------------------------------------------------------------------
(* Nodes without progress *)

\* Below a node that is reset the nodes are blank, and nothing is in progress.
LEMMA ResetIs ==
  ASSUME NEW m, IsTree(m), NEW mk, Full(m, mk), NEW p \in Composites(m), Reset(m, mk, p)
  PROVE  /\ ~InProgress(mk, p) /\ mk.cursor[p] = 0
         /\ \A i \in 1..m[p].n : Append(p, i) \in DOMAIN m /\ Blank(m, mk, Append(p, i))
<1>0. p \in DOMAIN m /\ p \in Seq(Nat) /\ Under(p, p)
  BY TreeIs, UnderItself
<1>1. DOMAIN mk.cursor = Composites(m) /\ DOMAIN mk.rounds = Composites(m)
  BY DEF Full, Fits, Counts
<1>2. ~InProgress(mk, p) /\ mk.cursor[p] = 0
  BY <1>0, <1>1 DEF InProgress, Reset
<1>3. ASSUME NEW i \in 1..m[p].n PROVE Append(p, i) \in DOMAIN m /\ Blank(m, mk, Append(p, i))
  <2>. DEFINE c == Append(p, i)
  <2>1. c \in DOMAIN m /\ c \in Seq(Nat) /\ Under(p, c) /\ ~Under(c, p)
    BY <1>0, TreeIs, ChildIs
  <2>. HIDE DEF c
  <2>2. ASSUME NEW q \in DOMAIN m, Under(c, q) PROVE Under(p, q) /\ q # p
    BY <1>0, <2>1, <2>2, TreeIs, UnderUnder
  <2>3. mk.paths \subseteq DOMAIN m /\ Composites(m) \subseteq DOMAIN m
    BY TreeIs DEF Full, Fits
  <2>4. Reset(m, mk, c)
    BY <2>2, <2>3 DEF Reset
  <2>5. c \in Composites(m) => mk.rounds[c] = 0
    <3>1. Under(c, c)
      BY <2>1, UnderItself
    <3>2. QED
      BY <2>1, <2>2, <3>1 DEF Reset
  <2>6. QED
    BY <2>1, <2>4, <2>5 DEF c, Blank
<1>4. QED
  BY <1>2, <1>3

\* In a continuable tree a node that must run is not complete before it has.
LEMMA BlankIncomplete ==
  ASSUME NEW m, IsTree(m), WellFormed(m), Continuable(m), NEW mk, Full(m, mk)
  PROVE  \A p \in DOMAIN m : Blank(m, mk, p) /\ MustRun(m, p) => ~Complete(m, mk)[p]
<1>1. PICK depth \in Nat : \A p \in DOMAIN m : Len(p) \in Nat /\ Len(p) <= depth
  BY DeepestIs
<1>. DEFINE c == Complete(m, mk)
            Right(p) == Blank(m, mk, p) /\ MustRun(m, p) => ~c[p]
            S == {j \in Nat : \A p \in DOMAIN m : Len(p) + j > depth => Right(p)}
<1>. HIDE DEF c
<1>2. 0 \in S
  BY <1>1
<1>3. ASSUME NEW j \in Nat, j \in S PROVE j + 1 \in S
  <2>1. ASSUME NEW p \in DOMAIN m, Len(p) + (j + 1) > depth PROVE Right(p)
    <3>1. SUFFICES ASSUME Blank(m, mk, p), MustRun(m, p) PROVE ~NodeComplete(m, mk, p, c)
      BY CompleteIs DEF c
    <3>2. p \in Seq(Nat) /\ Under(p, p)
      BY TreeIs, UnderItself
    <3>3. CASE p \in Leaves(m)
      BY <3>1, <3>2, <3>3, TreeIs DEF NodeComplete, Blank, Reset
    <3>4. CASE p \in Composites(m)
      <4>1. mk.rounds[p] = 0 /\ Reset(m, mk, p) /\ ~IsLeaf(m[p]) /\ p \notin Leaves(m)
        BY <3>1, <3>4, TreeIs DEF Blank
      <4>2. ~(m[p].freq.min = 0) /\ m[p].freq.min \in Nat
        BY <3>1, <3>4, <4>1, TreeIs DEF MustRun, Skippable, WellFormed, IsFrequency
      <4>3. ~Allows(m[p].freq, 0)
        BY <4>2 DEF Allows
      <4>4. ~BodyDone(m[p], p, mk.cursor[p], c)
        <5>1. mk.cursor[p] = 0 /\ \A i \in 1..m[p].n : Append(p, i) \in DOMAIN m /\ Blank(m, mk, Append(p, i))
          BY <3>4, <4>1, ResetIs
        <5>2. CASE m[p].kind = "PartialOrder"
          <6>1. PICK i \in 1..m[p].n : MustRun(m, Append(p, i))
            BY <3>4, <5>2 DEF Continuable
          <6>2. Append(p, i) \in DOMAIN m /\ Len(Append(p, i)) = Len(p) + 1
            BY <3>2, <5>1, ChildIs
          <6>3. Len(Append(p, i)) + j > depth
            BY <1>1, <2>1, <6>2
          <6>4. ~c[Append(p, i)]
            BY <1>3, <5>1, <6>1, <6>2, <6>3
          <6>5. QED
            BY <5>2, <6>4 DEF BodyDone
        <5>3. CASE m[p].kind = "ChoiceGraph"
          <6>1. m[p].end \in 1..m[p].n
            BY <3>4, <5>3, TreeIs
          <6>2. QED
            BY <5>1, <5>3, <6>1 DEF BodyDone
        <5>4. QED
          BY <3>4, <5>2, <5>3, TreeIs
      <4>5. QED
        BY <4>1, <4>3, <4>4 DEF NodeComplete
    <3>5. QED
      BY <3>3, <3>4 DEF Composites
  <2>. HIDE DEF Right
  <2>2. QED
    BY <2>1
<1>. HIDE DEF Right
<1>4. depth + 1 \in S
  BY <1>2, <1>3, NaturalInduction
<1>5. ASSUME NEW p \in DOMAIN m PROVE Right(p)
  BY <1>1, <1>4
<1>6. QED
  BY <1>5 DEF Right, c

\* So the body of a composite that is reset has not finished.
LEMMA ResetNotDone ==
  ASSUME NEW m, IsTree(m), WellFormed(m), Continuable(m), NEW mk, Full(m, mk), NEW p \in Composites(m), Reset(m, mk, p)
  PROVE  ~Done(m, mk, p)
<1>1. mk.cursor[p] = 0 /\ \A i \in 1..m[p].n : Append(p, i) \in DOMAIN m /\ Blank(m, mk, Append(p, i))
  BY ResetIs
<1>2. CASE m[p].kind = "PartialOrder"
  <2>1. PICK i \in 1..m[p].n : MustRun(m, Append(p, i))
    BY <1>2 DEF Continuable
  <2>2. ~Complete(m, mk)[Append(p, i)]
    BY <1>1, <2>1, BlankIncomplete
  <2>3. QED
    BY <1>2, <2>2 DEF Done, BodyDone
<1>3. CASE m[p].kind = "ChoiceGraph"
  <2>1. m[p].end \in 1..m[p].n
    BY <1>3, TreeIs
  <2>2. QED
    BY <1>1, <1>3, <2>1 DEF Done, BodyDone
<1>4. QED
  BY <1>2, <1>3, TreeIs

\* And nothing stands in the way of its next one.
LEMMA ResetGood ==
  ASSUME NEW m, IsTree(m), WellFormed(m), Continuable(m), NEW mk, Full(m, mk), NEW p \in Composites(m), Reset(m, mk, p),
         m[p].freq.max # Unbounded => mk.rounds[p] <= m[p].freq.max
  PROVE  Limited(m, mk, p) /\ Banked(m, mk, p)
BY ResetIs, ResetNotDone DEF Limited, Banked

-----------------------------------------------------------------------------
(* A step that may be taken *)

\* i is in T, and nothing in T is before it in the order.
First(order, T, i) == i \in T /\ \A e \in order : e[2] = i => e[1] \notin T

\* In a strict order a set of numbers that is not empty has a first one.
LEMMA FirstSome ==
  ASSUME NEW n \in Nat, NEW order, order \subseteq (1..n) \X (1..n), \A i \in 1..n : <<i, i>> \notin order,
         \A e, f \in order : e[2] = f[1] => <<e[1], f[2]>> \in order,
         NEW T, T \subseteq 1..n, T # {}
  PROVE  \E i \in T : First(order, T, i)
<1>. DEFINE Upto(k) == T \cap (1..k)
            S == {k \in Nat : Upto(k) # {} => \E i \in Upto(k) : First(order, Upto(k), i)}
<1>1. 0 \in S
  OBVIOUS
<1>2. ASSUME NEW k \in Nat, k \in S PROVE k + 1 \in S
  <2>. DEFINE U == Upto(k)
              V == Upto(k + 1)
  <2>0. U # {} => \E i \in U : First(order, U, i)
    BY <1>2
  <2>1. V = IF k + 1 \in T THEN U \cup {k + 1} ELSE U
    OBVIOUS
  <2>2. U \subseteq 1..n /\ k + 1 \notin U /\ (k + 1 \in T => k + 1 \in 1..n)
    OBVIOUS
  <2>. HIDE DEF U, V
  <2>3. V # {} => \E i \in V : First(order, V, i)
    <3>1. CASE k + 1 \notin T
      BY <2>0, <2>1, <3>1
    <3>2. CASE k + 1 \in T /\ (\A e \in order : e[2] = k + 1 => e[1] \notin U)
      <4>1. <<k + 1, k + 1>> \notin order
        BY <2>2, <3>2
      <4>2. \A e \in order : e = <<e[1], e[2]>>
        OBVIOUS
      <4>3. \A e \in order : e[2] = k + 1 => e[1] \notin V
        BY <2>1, <3>2, <4>1, <4>2
      <4>4. QED
        BY <2>1, <3>2, <4>3 DEF First
    <3>3. CASE k + 1 \in T /\ (\E e \in order : e[2] = k + 1 /\ e[1] \in U)
      <4>1. PICK e \in order : e[2] = k + 1 /\ e[1] \in U
        BY <3>3
      <4>2. PICK i \in U : First(order, U, i)
        BY <2>0, <4>1
      <4>3. ASSUME NEW f \in order, f[2] = i PROVE f[1] \notin V
        <5>1. f[1] \notin U
          BY <4>2, <4>3 DEF First
        <5>2. f[1] # k + 1
          <6>1. SUFFICES ASSUME f[1] = k + 1 PROVE FALSE
            OBVIOUS
          <6>2. <<e[1], f[2]>> \in order
            BY <4>1, <6>1
          <6>3. <<e[1], f[2]>>[2] = i /\ <<e[1], f[2]>>[1] = e[1]
            BY <4>3
          <6>4. e[1] \notin U
            BY <4>2, <6>2, <6>3 DEF First
          <6>5. QED
            BY <4>1, <6>4
        <5>3. QED
          BY <2>1, <5>1, <5>2
      <4>4. QED
        BY <2>1, <4>2, <4>3 DEF First
    <3>4. QED
      BY <3>1, <3>2, <3>3
  <2>4. QED
    BY <2>3 DEF V
<1>3. n \in S
  <2>. HIDE DEF S
  <2>1. QED
    BY <1>1, <1>2, NaturalInduction
<1>4. Upto(n) = T
  OBVIOUS
<1>5. QED
  BY <1>3, <1>4

\* The order of the children of a node is strict.
LEMMA OrderIs ==
  ASSUME NEW m, IsTree(m), WellFormed(m), NEW p \in Composites(m), m[p].kind = "PartialOrder",
         NEW T, T \subseteq 1..m[p].n, T # {}
  PROVE  \E i \in T : First(m[p].closure, T, i)
<1>1. p \in DOMAIN m /\ m[p].n \in Nat
  BY TreeIs
<1>2. /\ m[p].closure \subseteq (1..m[p].n) \X (1..m[p].n)
      /\ \A e, f \in m[p].closure : e[2] = f[1] => <<e[1], f[2]>> \in m[p].closure
  BY DEF IsTree
<1>3. \A i \in 1..m[p].n : <<i, i>> \notin m[p].closure
  BY <1>1 DEF WellFormed
<1>4. QED
  BY <1>1, <1>2, <1>3, FirstSome

\* Without a cap a composite is exhausted by its rounds alone.
LEMMA ExhaustedIs ==
  ASSUME NEW node, NEW p, NEW mk
  PROVE  Exhausted(node, p, mk, NoCap) <=> node.freq.max # Unbounded /\ mk.rounds[p] >= node.freq.max
BY DEF Exhausted, Capped

\* The frequency of a composite is one that can be constructed.
LEMMA FrequencyIs ==
  ASSUME NEW m, IsTree(m), WellFormed(m), NEW p \in Composites(m)
  PROVE  /\ m[p].freq.min \in Nat
         /\ m[p].freq.max = Unbounded \/ (m[p].freq.max \in Nat /\ m[p].freq.min <= m[p].freq.max)
<1>1. IsFrequency(m[p].freq)
  BY TreeIs DEF WellFormed
<1>2. QED
  BY <1>1 DEF IsFrequency

\* What a purge does to rounds.
LEMMA PurgedRounds ==
  ASSUME NEW m, IsTree(m), NEW mk, Full(m, mk), NEW root, NEW kept
  PROVE  LET v == PurgedBut(mk, root, kept)
         IN  Full(m, v) /\ \A q \in Composites(m) : v.rounds[q] = IF Under(root, q) /\ q \notin kept THEN 0 ELSE mk.rounds[q]
<1>. DEFINE v == PurgedBut(mk, root, kept)
<1>1. DOMAIN mk = {"completed", "cursor", "visits", "fires", "paths", "rounds"} /\ DOMAIN mk.rounds = Composites(m)
  BY DEF Full, Fits, Counts
<1>2. v.rounds = [q \in Composites(m) |-> IF Under(root, q) /\ q \notin kept THEN 0 ELSE mk.rounds[q]]
  BY <1>1 DEF PurgedBut
<1>3. Fits(m, v)
  BY PurgedFits DEF Full
<1>. HIDE DEF v
<1>4. Counts(m, v)
  BY <1>2 DEF Counts, Full
<1>5. QED
  BY <1>2, <1>3, <1>4 DEF v, Full

\* A purge leaves the node blank.
LEMMA PurgedBlank ==
  ASSUME NEW m, IsTree(m), NEW mk, Full(m, mk), NEW p \in Seq(Nat)
  PROVE  Full(m, Purged(mk, p)) /\ Blank(m, Purged(mk, p), p)
<1>. DEFINE v == PurgedBut(mk, p, {})
<1>1. Fits(m, mk) /\ Under(p, p)
  BY UnderItself DEF Full
<1>2. v.paths = {q \in mk.paths : ~Under(p, q)} /\ \A q \in Composites(m) : v.cursor[q] = IF Under(p, q) THEN 0 ELSE mk.cursor[q]
  BY <1>1, PurgedIs
<1>3. Full(m, v) /\ \A q \in Composites(m) : v.rounds[q] = IF Under(p, q) /\ q \notin {} THEN 0 ELSE mk.rounds[q]
  BY PurgedRounds
<1>. HIDE DEF v
<1>4. Blank(m, v, p)
  BY <1>1, <1>2, <1>3 DEF Blank, Reset
<1>5. QED
  BY <1>3, <1>4 DEF v, Purged

\* A node without progress that is not complete may run.
LEMMA IncompleteMayRun ==
  ASSUME NEW m, IsTree(m), WellFormed(m), NEW mk, Full(m, mk), NEW p \in DOMAIN m, Blank(m, mk, p), ~Complete(m, mk)[p]
  PROVE  MayRun(m, p)
<1>1. SUFFICES ASSUME p \in Composites(m), m[p].freq.max = 0 PROVE FALSE
  BY DEF MayRun, Composites
<1>2. ~InProgress(mk, p) /\ mk.rounds[p] = 0
  BY <1>1, ResetIs DEF Blank
<1>3. Allows(m[p].freq, 0)
  BY <1>1, FrequencyIs DEF Allows, Unbounded
<1>4. ~IsLeaf(m[p])
  BY <1>1, TreeIs
<1>5. NodeComplete(m, mk, p, Complete(m, mk))
  BY <1>2, <1>3, <1>4 DEF NodeComplete
<1>6. QED
  BY <1>5, CompleteIs

\* What an order offers: what its first child that is not complete does.
LEMMA OrderOffers ==
  ASSUME NEW m, IsTree(m), WellFormed(m), NEW mk, NEW p \in Composites(m), NEW a \in BOOLEAN, NEW f,
         m[p].kind = "PartialOrder",
         NEW view, view = (IF a THEN Purged(mk, p) ELSE mk),
         ~Exhausted(m[p], p, view, NoCap),
         \E i \in 1..m[p].n : ~Complete(m, view)[Append(p, i)],
         \A i \in 1..m[p].n : ~Complete(m, view)[Append(p, i)] => f[<<Append(p, i), a>>] # {}
  PROVE  Offers(m, mk, NoCap, p, a, f) # {}
<1>. DEFINE T == {i \in 1..m[p].n : ~Complete(m, view)[Append(p, i)]}
            ready == {i \in 1..m[p].n : /\ ~Complete(m, view)[Append(p, i)]
                                        /\ \A e \in m[p].closure : e[2] = i => Complete(m, view)[Append(p, e[1])]}
<1>1. PICK i \in T : First(m[p].closure, T, i)
  BY OrderIs
<1>2. m[p].closure \subseteq (1..m[p].n) \X (1..m[p].n)
  BY DEF IsTree
<1>3. i \in ready
  <2>1. ASSUME NEW e \in m[p].closure, e[2] = i PROVE Complete(m, view)[Append(p, e[1])]
    <3>1. e[1] \in 1..m[p].n
      BY <1>2
    <3>2. e[1] \notin T
      BY <1>1, <2>1 DEF First
    <3>3. QED
      BY <3>1, <3>2
  <2>2. QED
    BY <2>1
<1>4. f[<<Append(p, i), a>>] # {}
  OBVIOUS
<1>5. ~IsLeaf(m[p])
  BY TreeIs
<1>6. Offers(m, mk, NoCap, p, a, f) = UNION {f[<<Append(p, j), a>>] : j \in ready}
  BY <1>5 DEF Offers
<1>. HIDE DEF ready, T
<1>7. QED
  BY <1>3, <1>4, <1>6


\* What a choice graph offers: what the child does that it is on, as long as
\* that is not complete, and what the children do that it may go on to.
LEMMA ChoiceOffers ==
  ASSUME NEW m, IsTree(m), Continuable(m), NEW mk, Fits(m, mk), NEW p \in Composites(m), NEW a \in BOOLEAN, NEW f,
         m[p].kind = "ChoiceGraph",
         NEW view, view = (IF a THEN Purged(mk, p) ELSE mk), view.cursor[p] \in 0..m[p].n,
         ~Exhausted(m[p], p, view, NoCap),
         view.cursor[p] # 0 /\ ~Complete(m, view)[Append(p, view.cursor[p])] => f[<<Append(p, view.cursor[p]), a>>] # {},
         ~(view.cursor[p] = m[p].end /\ Complete(m, view)[Append(p, m[p].end)]),
         \A i \in 1..m[p].n : f[<<Append(p, i), TRUE>>] # {}
  PROVE  Offers(m, mk, NoCap, p, a, f) # {}
<1>. DEFINE v == IF a THEN Purged(mk, p) ELSE mk
            cur == v.cursor[p]
            next == IF cur = 0 THEN {m[p].start} ELSE {e[2] : e \in {g \in m[p].edges : g[1] = cur}}
<1>00. ~Exhausted(m[p], p, v, NoCap) /\ cur \in 0..m[p].n
      /\ (cur # 0 /\ ~Complete(m, v)[Append(p, cur)] => f[<<Append(p, cur), a>>] # {})
      /\ ~(cur = m[p].end /\ Complete(m, v)[Append(p, m[p].end)])
  OBVIOUS
<1>0. m[p].kind # "PartialOrder" /\ ~IsLeaf(m[p]) /\ m[p].n \in Nat
      /\ m[p].edges \subseteq (1..m[p].n) \X (1..m[p].n) /\ m[p].start \in 1..m[p].n /\ m[p].end \in 1..m[p].n
  BY TreeIs
<1>1. CASE cur # 0 /\ ~Complete(m, v)[Append(p, cur)]
  <2>1. Offers(m, mk, NoCap, p, a, f) = f[<<Append(p, cur), a>>]
    BY <1>0, <1>1, <1>00 DEF Offers
  <2>2. QED
    BY <1>1, <1>00, <2>1
<1>2. CASE ~(cur # 0 /\ ~Complete(m, v)[Append(p, cur)])
  <2>1. cur # m[p].end
    BY <1>0, <1>2, <1>00
  <2>2. Offers(m, mk, NoCap, p, a, f) =
          UNION {f[<<Append(p, i), TRUE>>] : i \in {j \in next : ~Capped(v.visits[p][j], NoCap)}}
    <3>1. Offers(m, mk, NoCap, p, a, f) =
            IF cur # 0 /\ ~Complete(m, v)[Append(p, cur)] THEN f[<<Append(p, cur), a>>]
            ELSE IF cur = m[p].end THEN {}
            ELSE UNION {f[<<Append(p, i), TRUE>>] : i \in {j \in next : ~Capped(v.visits[p][j], NoCap)}}
      BY <1>0, <1>00 DEF Offers
    <3>2. QED
      BY <1>2, <2>1, <3>1
  <2>3. \E i \in next : i \in 1..m[p].n
    <3>1. CASE cur = 0
      BY <1>0, <3>1
    <3>2. CASE cur # 0
      <4>1. cur \in (1..m[p].n) \ {m[p].end}
        BY <1>0, <1>00, <2>1, <3>2
      <4>2. PICK e \in m[p].edges : e[1] = cur
        BY <1>0, <4>1 DEF Continuable
      <4>3. e[2] \in next /\ e[2] \in 1..m[p].n
        BY <1>0, <3>2, <4>2
      <4>4. QED
        BY <4>3
    <3>3. QED
      BY <3>1, <3>2
  <2>4. PICK i \in next : i \in 1..m[p].n
    BY <2>3
  <2>5. ~Capped(v.visits[p][i], NoCap)
    BY DEF Capped
  <2>6. PICK q : q \in f[<<Append(p, i), TRUE>>]
    BY <2>4
  <2>. HIDE DEF next
  <2>7. q \in Offers(m, mk, NoCap, p, a, f)
    BY <2>2, <2>4, <2>5, <2>6
  <2>8. QED
    BY <2>7
<1>3. QED
  BY <1>1, <1>2

\* What a node that is looked at afresh offers, if it may run.
OffersAfresh(f, m, p) == MayRun(m, p) => f[<<p, TRUE>>] # {}

\* What any other node does, as long as it is not complete.
OffersOn(f, m, mk, p) == ~Complete(m, mk)[p] => f[<<p, FALSE>>] # {}

\* Both hold of a node when they hold of its children.
LEMMA OffersUp ==
  ASSUME NEW m, IsTree(m), WellFormed(m), Continuable(m), NEW mk, Going(m, mk), NEW f, Offering(f, m, mk, NoCap),
         NEW p \in DOMAIN m,
         p \in Composites(m) => \A i \in 1..m[p].n : OffersAfresh(f, m, Append(p, i)) /\ OffersOn(f, m, mk, Append(p, i))
  PROVE  OffersAfresh(f, m, p) /\ OffersOn(f, m, mk, p)
<1>0. Full(m, mk) /\ Fits(m, mk) /\ p \in Seq(Nat) /\ Under(p, p)
  BY TreeIs, UnderItself DEF Going, Full
<1>1. \A a \in BOOLEAN : f[<<p, a>>] = Offers(m, mk, NoCap, p, a, f)
  BY DEF Offering
<1>2. ASSUME MayRun(m, p) PROVE Offers(m, mk, NoCap, p, TRUE, f) # {}
  <2>. DEFINE view == Purged(mk, p)
  <2>0. Full(m, view) /\ Blank(m, view, p) /\ Fits(m, view)
    BY <1>0, PurgedBlank DEF Full
  <2>1. view = (IF TRUE THEN Purged(mk, p) ELSE mk)
    OBVIOUS
  <2>. HIDE DEF view
  <2>2. CASE p \in Leaves(m)
    <3>1. p \notin view.paths /\ IsLeaf(m[p])
      BY <1>0, <2>0, <2>2, TreeIs DEF Blank, Reset
    <3>2. Offers(m, mk, NoCap, p, TRUE, f) = {p} \ view.paths
      BY <2>1, <3>1 DEF Offers
    <3>3. QED
      BY <3>1, <3>2
  <2>3. CASE p \in Composites(m)
    <3>1. view.rounds[p] = 0 /\ Reset(m, view, p)
      BY <2>0, <2>3 DEF Blank
    <3>2. view.cursor[p] = 0 /\ \A i \in 1..m[p].n : Append(p, i) \in DOMAIN m /\ Blank(m, view, Append(p, i))
      BY <2>0, <2>3, <3>1, ResetIs
    <3>3. ~Exhausted(m[p], p, view, NoCap)
      <4>1. m[p].freq.max # 0
        BY <1>2, <2>3 DEF MayRun, Composites
      <4>2. QED
        BY <2>3, <3>1, <4>1, ExhaustedIs, FrequencyIs
    <3>4. CASE m[p].kind = "PartialOrder"
      <4>1. PICK i \in 1..m[p].n : MustRun(m, Append(p, i))
        BY <2>3, <3>4 DEF Continuable
      <4>2. ~Complete(m, view)[Append(p, i)]
        BY <2>0, <3>2, <4>1, BlankIncomplete
      <4>3. ASSUME NEW j \in 1..m[p].n, ~Complete(m, view)[Append(p, j)] PROVE f[<<Append(p, j), TRUE>>] # {}
        <5>1. MayRun(m, Append(p, j))
          BY <2>0, <3>2, <4>3, IncompleteMayRun
        <5>2. QED
          BY <2>3, <5>1 DEF OffersAfresh
      <4>4. QED
        BY <2>1, <2>3, <3>3, <3>4, <4>2, <4>3, OrderOffers
    <3>5. CASE m[p].kind = "ChoiceGraph"
      <4>1. \A i \in 1..m[p].n : f[<<Append(p, i), TRUE>>] # {}
        BY <2>3, <3>5 DEF Continuable, OffersAfresh
      <4>2. m[p].n \in Nat /\ m[p].end \in 1..m[p].n
        BY <2>3, <3>5, TreeIs
      <4>3. view.cursor[p] \in 0..m[p].n /\ view.cursor[p] # m[p].end
        BY <3>2, <4>2
      <4>4. QED
        BY <1>0, <2>1, <2>3, <3>2, <3>3, <3>5, <4>1, <4>3, ChoiceOffers
    <3>6. QED
      BY <2>3, <3>4, <3>5, TreeIs
  <2>4. QED
    BY <2>2, <2>3 DEF Composites
<1>3. ASSUME ~Complete(m, mk)[p] PROVE Offers(m, mk, NoCap, p, FALSE, f) # {}
  <2>0. mk = (IF FALSE THEN Purged(mk, p) ELSE mk)
    OBVIOUS
  <2>1. ~NodeComplete(m, mk, p, Complete(m, mk))
    BY <1>3, CompleteIs
  <2>2. CASE p \in Leaves(m)
    <3>1. p \notin mk.paths /\ IsLeaf(m[p])
      BY <2>1, <2>2, TreeIs DEF NodeComplete
    <3>2. Offers(m, mk, NoCap, p, FALSE, f) = {p} \ mk.paths
      BY <3>1 DEF Offers
    <3>3. QED
      BY <3>1, <3>2
  <2>3. CASE p \in Composites(m)
    <3>1. /\ ~(Allows(m[p].freq, mk.rounds[p]) /\ ~InProgress(mk, p))
          /\ ~(Allows(m[p].freq, mk.rounds[p] + 1) /\ BodyDone(m[p], p, mk.cursor[p], Complete(m, mk)))
      <4>1. ~IsLeaf(m[p])
        BY <2>3, TreeIs
      <4>2. QED
        BY <2>1, <4>1 DEF NodeComplete
    <3>2. Limited(m, mk, p) /\ Banked(m, mk, p) /\ mk.rounds[p] \in Nat /\ mk.cursor[p] \in 0..m[p].n
      BY <1>0, <2>3 DEF Going, Full, Counts, Fits
    <3>3. ~Exhausted(m[p], p, mk, NoCap)
      <4>1. SUFFICES ASSUME m[p].freq.max # Unbounded, mk.rounds[p] >= m[p].freq.max PROVE FALSE
        BY ExhaustedIs
      <4>2. m[p].freq.max \in Nat /\ m[p].freq.min \in Nat /\ m[p].freq.min <= m[p].freq.max
        BY <2>3, <4>1, FrequencyIs
      <4>3. mk.rounds[p] = m[p].freq.max /\ ~InProgress(mk, p)
        BY <3>2, <4>1, <4>2 DEF Limited
      <4>4. Allows(m[p].freq, mk.rounds[p])
        BY <4>2, <4>3 DEF Allows
      <4>5. QED
        BY <3>1, <4>3, <4>4
    <3>4. ~BodyDone(m[p], p, mk.cursor[p], Complete(m, mk))
      BY <3>1, <3>2 DEF Banked, Done
    <3>5. CASE m[p].kind = "PartialOrder"
      <4>1. \E i \in 1..m[p].n : ~Complete(m, mk)[Append(p, i)]
        BY <3>4, <3>5 DEF BodyDone
      <4>2. \A i \in 1..m[p].n : ~Complete(m, mk)[Append(p, i)] => f[<<Append(p, i), FALSE>>] # {}
        BY <2>3 DEF OffersOn
      <4>3. QED
        BY <2>0, <2>3, <3>3, <3>5, <4>1, <4>2, OrderOffers
    <3>6. CASE m[p].kind = "ChoiceGraph"
      <4>1. \A i \in 1..m[p].n : f[<<Append(p, i), TRUE>>] # {}
        BY <2>3, <3>6 DEF Continuable, OffersAfresh
      <4>2. m[p].n \in Nat
        BY <2>3, TreeIs
      <4>3. mk.cursor[p] # 0 /\ ~Complete(m, mk)[Append(p, mk.cursor[p])] => f[<<Append(p, mk.cursor[p]), FALSE>>] # {}
        <5>1. SUFFICES ASSUME mk.cursor[p] # 0, ~Complete(m, mk)[Append(p, mk.cursor[p])]
                       PROVE  f[<<Append(p, mk.cursor[p]), FALSE>>] # {}
          OBVIOUS
        <5>2. mk.cursor[p] \in 1..m[p].n
          BY <3>2, <4>2, <5>1
        <5>3. OffersOn(f, m, mk, Append(p, mk.cursor[p]))
          BY <2>3, <5>2
        <5>4. QED
          BY <5>1, <5>3 DEF OffersOn
      <4>4. ~(mk.cursor[p] = m[p].end /\ Complete(m, mk)[Append(p, m[p].end)])
        BY <3>4, <3>6 DEF BodyDone
      <4>5. QED
        BY <1>0, <2>0, <2>3, <3>2, <3>3, <3>6, <4>1, <4>3, <4>4, ChoiceOffers
    <3>7. QED
      BY <2>3, <3>5, <3>6, TreeIs
  <2>4. QED
    BY <2>2, <2>3 DEF Composites
<1>4. QED
  BY <1>1, <1>2, <1>3 DEF OffersAfresh, OffersOn

\* So a traversal that goes on has a next step, unless it is at its end.
LEMMA NoDeadlock ==
  ASSUME NEW m, IsTree(m), WellFormed(m), Continuable(m), NEW mk, Going(m, mk), ~IsFinal(m, mk)
  PROVE  EnabledUnder(m, mk, NoCap) # {}
<1>0. Fits(m, mk)
  BY DEF Going, Full
<1>1. PICK depth \in Nat : \A p \in DOMAIN m : Len(p) \in Nat /\ Len(p) <= depth
  BY DeepestIs
<1>2. PICK f : Offering(f, m, mk, NoCap) /\ EnabledUnder(m, mk, NoCap) = f[<< <<>>, FALSE >>]
  BY <1>0, EnabledIsOffered
<1>. DEFINE Right(p) == OffersAfresh(f, m, p) /\ OffersOn(f, m, mk, p)
            S == {j \in Nat : \A p \in DOMAIN m : Len(p) + j > depth => Right(p)}
<1>3. 0 \in S
  BY <1>1
<1>4. ASSUME NEW j \in Nat, j \in S PROVE j + 1 \in S
  <2>1. ASSUME NEW p \in DOMAIN m, Len(p) + (j + 1) > depth PROVE Right(p)
    <3>1. ASSUME p \in Composites(m), NEW i \in 1..m[p].n PROVE Right(Append(p, i))
      <4>1. Append(p, i) \in DOMAIN m /\ Len(Append(p, i)) = Len(p) + 1
        BY <3>1, TreeIs, ChildIs
      <4>2. Len(Append(p, i)) + j > depth
        BY <1>1, <2>1, <4>1
      <4>. HIDE DEF Right
      <4>3. QED
        BY <1>4, <4>1, <4>2
    <3>2. QED
      BY <1>2, <3>1, OffersUp
  <2>. HIDE DEF Right
  <2>2. QED
    BY <2>1
<1>. HIDE DEF Right
<1>5. depth + 1 \in S
  BY <1>3, <1>4, NaturalInduction
<1>6. <<>> \in DOMAIN m
  BY TreeIs
<1>7. Right(<<>>)
  BY <1>1, <1>5, <1>6
<1>8. OffersOn(f, m, mk, <<>>)
  BY <1>7 DEF Right
<1>9. QED
  BY <1>2, <1>8 DEF OffersOn, IsFinal, IsComplete

-----------------------------------------------------------------------------
(* A step that is taken *)

\* A composite from which the traversal goes on.
Good(m, mk, p) == Limited(m, mk, p) /\ Banked(m, mk, p)

\* A composite that may have another round.
Roomy(m, mk, p) == m[p].freq.max # Unbounded => mk.rounds[p] < m[p].freq.max

\* nk differs from mk only under root, and in the cursor of at.
DiffersUnder(m, mk, nk, root, at) ==
  /\ \A q \in Leaves(m) : ~Under(root, q) => (q \in nk.paths <=> q \in mk.paths)
  /\ \A q \in Composites(m) : ~Under(root, q) => nk.rounds[q] = mk.rounds[q] /\ (q # at => nk.cursor[q] = mk.cursor[q])

\* Of two nodes above a third, one is above the other.
LEMMA Comparable ==
  ASSUME NEW p \in Seq(Nat), NEW q \in Seq(Nat), NEW r \in Seq(Nat), Under(p, r), Under(q, r)
  PROVE  Under(p, q) \/ Under(q, p)
<1>1. /\ Len(p) <= Len(r) /\ \A i \in 1..Len(p) : p[i] = r[i]
      /\ Len(q) <= Len(r) /\ \A i \in 1..Len(q) : q[i] = r[i]
  BY UnderIs
<1>2. Len(p) \in Nat /\ Len(q) \in Nat
  OBVIOUS
<1>3. CASE Len(p) <= Len(q)
  <2>1. \A i \in 1..Len(p) : p[i] = q[i]
    BY <1>1, <1>2, <1>3
  <2>2. QED
    BY <1>3, <2>1, UnderIs
<1>4. CASE Len(q) <= Len(p)
  <2>1. \A i \in 1..Len(q) : q[i] = p[i]
    BY <1>1, <1>2, <1>4
  <2>2. QED
    BY <1>4, <2>1, UnderIs
<1>5. QED
  BY <1>2, <1>3, <1>4

\* A node that is neither above a change nor under it does not see it.
LEMMA BesideSame ==
  ASSUME NEW m, IsTree(m), NEW mk, NEW nk, NEW root \in DOMAIN m, NEW at, DiffersUnder(m, mk, nk, root, at),
         NEW q \in DOMAIN m, ~Under(root, q), ~Under(q, root), ~Under(q, at)
  PROVE  SameUnder(m, mk, nk, q)
<1>1. root \in Seq(Nat) /\ q \in Seq(Nat) /\ Leaves(m) \subseteq Seq(Nat) /\ Composites(m) \subseteq Seq(Nat)
  BY TreeIs
<1>2. \A r \in Seq(Nat) : Under(q, r) => ~Under(root, r)
  BY <1>1, Comparable
<1>3. QED
  BY <1>1, <1>2 DEF SameUnder, DiffersUnder

\* So a composite that is not above it stays good, and is good as new under it.
LEMMA BesideGood ==
  ASSUME NEW m, IsTree(m), WellFormed(m), Continuable(m), NEW mk, Full(m, mk), NEW nk, Full(m, nk),
         NEW root \in DOMAIN m, NEW at, DiffersUnder(m, mk, nk, root, at), Reset(m, nk, root),
         NEW q \in Composites(m), ~Under(q, root), ~Under(q, at), Good(m, mk, q)
  PROVE  Good(m, nk, q)
<1>1. q \in DOMAIN m /\ q \in Seq(Nat) /\ root \in Seq(Nat)
  BY TreeIs
<1>2. CASE ~Under(root, q)
  <2>1. SameUnder(m, mk, nk, q)
    BY <1>1, <1>2, BesideSame
  <2>2. QED
    BY <2>1, GoodSame DEF Good
<1>3. CASE Under(root, q)
  <2>1. \A r \in DOMAIN m : Under(q, r) => Under(root, r) /\ r # root
    BY <1>1, <1>3, TreeIs, UnderUnder
  <2>2. nk.paths \subseteq DOMAIN m /\ Composites(m) \subseteq DOMAIN m
    BY TreeIs DEF Full, Fits
  <2>3. Reset(m, nk, q)
    BY <2>1, <2>2 DEF Reset
  <2>4. Under(q, q)
    BY <1>1, UnderItself
  <2>5. nk.rounds[q] = 0
    BY <1>1, <2>1, <2>4 DEF Reset
  <2>6. m[q].freq.max # Unbounded => nk.rounds[q] <= m[q].freq.max
    BY <2>5, FrequencyIs
  <2>7. QED
    BY <2>3, <2>6, ResetGood DEF Good
<1>4. QED
  BY <1>2, <1>3

\* Entering a child changes what is under the child, which is left blank.
LEMMA EnterDiffers ==
  ASSUME NEW m, IsTree(m), NEW mk, Full(m, mk), NEW p \in Composites(m), NEW i \in 1..m[p].n,
         m[p].kind = "ChoiceGraph", mk.cursor[p] # i \/ IsComplete(m, mk, Append(p, i))
  PROVE  LET e == Enter(m, mk, p, i)
         IN  Full(m, e) /\ Blank(m, e, Append(p, i)) /\ DiffersUnder(m, mk, e, Append(p, i), p)
<1>. DEFINE c == Append(p, i)
            v == PurgedBut(mk, c, {})
            e == [v EXCEPT !.cursor[p] = i, !.visits[p][i] = @ + 1]
<1>1. Enter(m, mk, p, i) = e
  BY DEF Enter, Purged
<1>2. Full(m, v) /\ \A q \in Composites(m) : v.rounds[q] = IF Under(c, q) THEN 0 ELSE mk.rounds[q]
  <2>1. Full(m, v) /\ \A q \in Composites(m) : v.rounds[q] = IF Under(c, q) /\ q \notin {} THEN 0 ELSE mk.rounds[q]
    BY PurgedRounds
  <2>. HIDE DEF v, c
  <2>2. QED
    BY <2>1
<1>. HIDE DEF v
<1>3. e.rounds = v.rounds
  BY <1>2 DEF Full, Fits
<1>4. /\ Fits(m, e) /\ e.paths = {q \in mk.paths : ~Under(c, q)}
      /\ \A q \in Composites(m) \ {p} : e.cursor[q] = IF Under(c, q) THEN 0 ELSE mk.cursor[q]
  <2>. HIDE DEF e
  <2>1. Fits(m, mk)
    BY DEF Full
  <2>2. QED
    BY <1>1, <2>1, EnterIs
<1>. HIDE DEF e
<1>5. Full(m, e)
  BY <1>2, <1>3, <1>4 DEF Full, Counts
<1>6. p \in Seq(Nat) /\ i \in Nat
  BY TreeIs
<1>7. ~Under(c, p) /\ c \in Seq(Nat) /\ Under(c, c)
  BY <1>6, ChildIs, UnderItself
<1>. HIDE DEF c
<1>8. Blank(m, e, c)
  BY <1>2, <1>3, <1>4, <1>7 DEF Blank, Reset
<1>9. DiffersUnder(m, mk, e, c, p)
  BY <1>2, <1>3, <1>4 DEF DiffersUnder
<1>10. QED
  BY <1>1, <1>5, <1>8, <1>9 DEF c

\* Banking a round changes what is under the composite, and counts the round.
LEMMA BankDiffers ==
  ASSUME NEW m, IsTree(m), NEW mk, Full(m, mk), Arrived(m, mk), NEW p \in Composites(m), Done(m, mk, p)
  PROVE  LET e == Bank(m, mk, p)
         IN  Full(m, e) /\ Reset(m, e, p) /\ DiffersUnder(m, mk, e, p, p) /\ e.rounds[p] = mk.rounds[p] + 1
<1>. DEFINE v == PurgedBut(mk, p, {p})
            e == [v EXCEPT !.rounds[p] = @ + 1, !.visits[p][0] = @ + 1]
<1>1. Bank(m, mk, p) = e
  BY DEF Bank, Done
<1>2. Full(m, v) /\ \A q \in Composites(m) : v.rounds[q] = IF Under(p, q) /\ q # p THEN 0 ELSE mk.rounds[q]
  <2>1. Full(m, v) /\ \A q \in Composites(m) : v.rounds[q] = IF Under(p, q) /\ q \notin {p} THEN 0 ELSE mk.rounds[q]
    BY PurgedRounds
  <2>. HIDE DEF v
  <2>2. QED
    BY <2>1
<1>3. /\ v.paths = {q \in mk.paths : ~Under(p, q)}
      /\ \A q \in Composites(m) : v.cursor[q] = IF Under(p, q) THEN 0 ELSE mk.cursor[q]
  BY PurgedIs DEF Full
<1>. HIDE DEF v
<1>4. e.rounds = [v.rounds EXCEPT ![p] = @ + 1] /\ e.paths = v.paths /\ e.cursor = v.cursor
  BY <1>2 DEF Full, Fits
<1>5. Fits(m, e)
  BY <1>1, BankIs DEF Settled, Full
<1>. HIDE DEF e
<1>6. DOMAIN v.rounds = Composites(m) /\ v.rounds[p] = mk.rounds[p] /\ mk.rounds[p] \in Nat
  BY <1>2 DEF Full, Counts
<1>7. e.rounds[p] = mk.rounds[p] + 1 /\ DOMAIN e.rounds = Composites(m) /\ \A q \in Composites(m) \ {p} : e.rounds[q] = v.rounds[q]
  BY <1>4, <1>6
<1>8. Full(m, e)
  BY <1>2, <1>5, <1>6, <1>7 DEF Full, Counts
<1>9. Reset(m, e, p)
  BY <1>2, <1>3, <1>4, <1>7 DEF Reset
<1>10. p \in Seq(Nat) /\ Under(p, p)
  BY TreeIs, UnderItself
<1>11. DiffersUnder(m, mk, e, p, p)
  BY <1>2, <1>3, <1>4, <1>7, <1>10 DEF DiffersUnder
<1>12. QED
  BY <1>1, <1>7, <1>8, <1>9, <1>11

\* Leaf q is offered by node p because a child offers it: the node has a round
\* left, and the child is one it would enter, or is in.
OfferedBelow(f, m, mk, p, a, q) ==
  /\ m[p].freq.max # Unbounded => ~((IF a THEN 0 ELSE mk.rounds[p]) >= m[p].freq.max)
  /\ \E i \in 1..m[p].n, b \in BOOLEAN :
       /\ q \in f[<<Append(p, i), b>>]
       /\ a = TRUE => b = TRUE
       /\ b = FALSE /\ m[p].kind = "ChoiceGraph" => mk.cursor[p] = i /\ ~IsComplete(m, mk, Append(p, i))
       /\ b = TRUE /\ a = FALSE => m[p].kind = "ChoiceGraph" /\ (mk.cursor[p] # i \/ IsComplete(m, mk, Append(p, i)))

\* Where an offer of a composite comes from: it may have another round, a child
\* that is not looked at afresh is one it is on, and one that is where it was
\* not has to be entered.
LEMMA OfferFrom ==
  ASSUME NEW m, IsTree(m), NEW mk, Full(m, mk), NEW cap, NEW p \in Composites(m), NEW a \in BOOLEAN, NEW f,
         NEW q \in Offers(m, mk, cap, p, a, f)
  PROVE  OfferedBelow(f, m, mk, p, a, q)
<1>. DEFINE node == m[p]
            view == IF a THEN Purged(mk, p) ELSE mk
            complete == Complete(m, view)
            child(i) == Append(p, i)
            ready == {i \in 1..node.n : /\ ~complete[child(i)]
                                        /\ \A e \in node.closure : e[2] = i => complete[child(e[1])]}
            cur == view.cursor[p]
            next == IF cur = 0 THEN {node.start} ELSE {e[2] : e \in {x \in node.edges : x[1] = cur}}
<1>0. /\ ~IsLeaf(node) /\ node.n \in Nat /\ p \in Seq(Nat) /\ Fits(m, mk)
      /\ node.kind \in {"PartialOrder", "ChoiceGraph"}
      /\ node.kind = "ChoiceGraph" =>
           /\ node.edges \subseteq (1..node.n) \X (1..node.n)
           /\ node.start \in 1..node.n
  BY TreeIs DEF Full
<1>1. /\ cur \in 0..node.n
      /\ a => cur = 0 /\ view.rounds[p] = 0
      /\ ~a => view = mk
  <2>1. CASE a
    <3>1. Full(m, Purged(mk, p)) /\ Blank(m, Purged(mk, p), p)
      BY <1>0, PurgedBlank
    <3>2. Under(p, p)
      BY <1>0, UnderItself
    <3>3. view.cursor[p] = 0 /\ view.rounds[p] = 0
      BY <2>1, <3>1, <3>2 DEF Blank, Reset
    <3>4. QED
      BY <1>0, <2>1, <3>3
  <2>2. CASE ~a
    BY <1>0, <2>2 DEF Fits
  <2>3. QED
    BY <2>1, <2>2
<1>2. q \in (IF IsLeaf(node) THEN {p} \ view.paths
     ELSE IF Exhausted(node, p, view, cap) THEN {}
     ELSE IF node.kind = "PartialOrder" THEN UNION {f[<<child(i), a>>] : i \in ready}
     ELSE IF cur # 0 /\ ~complete[child(cur)] THEN f[<<child(cur), a>>]
     ELSE IF cur = node.end THEN {}
     ELSE UNION {f[<<child(i), TRUE>>] : i \in {j \in next : ~Capped(view.visits[p][j], cap)}})
  BY DEF Offers
<1>3. next \subseteq 1..node.n \/ node.kind = "PartialOrder"
  BY <1>0
<1>4. ~a => \A i : complete[child(i)] = IsComplete(m, mk, Append(p, i))
  BY <1>1 DEF IsComplete
<1>. HIDE DEF node, view, complete, ready, cur, next
<1>5. ~Exhausted(node, p, view, cap)
  BY <1>0, <1>2
<1>6. node.freq.max # Unbounded => ~(view.rounds[p] >= node.freq.max)
  BY <1>5 DEF Exhausted
<1>7. m[p].freq.max # Unbounded => ~((IF a THEN 0 ELSE mk.rounds[p]) >= m[p].freq.max)
  BY <1>1, <1>6 DEF node
<1>8. \E i \in 1..node.n, b \in BOOLEAN :
        /\ q \in f[<<Append(p, i), b>>]
        /\ a = TRUE => b = TRUE
        /\ b = FALSE /\ node.kind = "ChoiceGraph" => mk.cursor[p] = i /\ ~IsComplete(m, mk, Append(p, i))
        /\ b = TRUE /\ a = FALSE => node.kind = "ChoiceGraph" /\ (mk.cursor[p] # i \/ IsComplete(m, mk, Append(p, i)))
  <2>1. CASE node.kind = "PartialOrder"
    <3>1. q \in UNION {f[<<child(i), a>>] : i \in ready}
      BY <1>0, <1>2, <1>5, <2>1
    <3>2. PICK i \in ready : q \in f[<<child(i), a>>]
      BY <3>1
    <3>3. i \in 1..node.n
      BY DEF ready
    <3>4. QED
      BY <2>1, <3>2, <3>3
  <2>2. CASE node.kind # "PartialOrder" /\ cur # 0 /\ ~complete[child(cur)]
    <3>1. q \in f[<<child(cur), a>>]
      BY <1>0, <1>2, <1>5, <2>2
    <3>2. ~a /\ cur \in 1..node.n
      BY <1>0, <1>1, <2>2
    <3>3. mk.cursor[p] = cur
      BY <1>1, <3>2 DEF cur
    <3>4. ~IsComplete(m, mk, Append(p, cur))
      BY <1>4, <2>2, <3>2
    <3>5. q \in f[<<Append(p, cur), FALSE>>]
      BY <3>1, <3>2
    <3>6. QED
      BY <3>2, <3>3, <3>4, <3>5
  <2>3. CASE node.kind # "PartialOrder" /\ ~(cur # 0 /\ ~complete[child(cur)])
    <3>1. q \in UNION {f[<<child(i), TRUE>>] : i \in {j \in next : ~Capped(view.visits[p][j], cap)}}
      BY <1>0, <1>2, <1>5, <2>3
    <3>2. PICK i \in next : q \in f[<<child(i), TRUE>>]
      BY <3>1
    <3>3. i \in 1..node.n /\ node.kind = "ChoiceGraph"
      BY <1>0, <1>3, <2>3
    <3>4. a = FALSE => mk.cursor[p] # i \/ IsComplete(m, mk, Append(p, i))
      <4>1. SUFFICES ASSUME a = FALSE, mk.cursor[p] = i PROVE IsComplete(m, mk, Append(p, i))
        OBVIOUS
      <4>2. cur = i /\ i # 0
        BY <1>0, <1>1, <3>3, <4>1 DEF cur
      <4>3. complete[child(i)]
        BY <2>3, <4>2
      <4>4. QED
        BY <1>4, <4>1, <4>3
    <3>5. QED
      BY <3>2, <3>3, <3>4
  <2>4. QED
    BY <2>1, <2>2, <2>3
<1>9. QED
  BY <1>7, <1>8 DEF node, OfferedBelow

\* The node that a leaf is offered by is where it was, or without progress.
Fresh(f, m, mk, e, path, p) ==
  \E a \in BOOLEAN : path \in f[<<p, a>>] /\ (a = FALSE => e = mk) /\ (a = TRUE => Blank(m, e, p))

\* What mk has become, in e, once d nodes above the leaf have been entered.
OnTrack(f, m, mk, e, path, d) ==
  /\ Full(m, e)
  /\ \A q \in Composites(m) : ~Under(q, path) => Good(m, e, q)
  /\ \A k \in 0..d-1 : Roomy(m, e, Upper(path, k))
  /\ Fresh(f, m, mk, e, path, Upper(path, d))

\* The next one has room for another round, and the one after is fresh.
LEMMA EnterOnTrack ==
  ASSUME NEW m, IsTree(m), WellFormed(m), Continuable(m), NEW mk, Full(m, mk), NEW cap, NEW f,
         Offering(f, m, mk, cap), NEW path \in Leaves(m), NEW d \in Nat, d < Len(path),
         NEW e, OnTrack(f, m, mk, e, path, d)
  PROVE  OnTrack(f, m, mk, Enter(m, e, Upper(path, d), path[d + 1]), path, d + 1)
<1>. DEFINE p == Upper(path, d)
            next == Enter(m, e, p, path[d + 1])
<1>0. /\ path \in DOMAIN m /\ path \in Seq(Nat) /\ Len(path) \in Nat /\ Fits(m, mk)
      /\ d \in 0..Len(path) /\ d + 1 \in 0..Len(path) /\ d + 1 # 0 /\ (d + 1) - 1 = d
  BY TreeIs DEF Full
<1>1. p \in Composites(m) /\ path[d + 1] \in 1..m[p].n /\ p \in DOMAIN m /\ p \in Seq(Nat) /\ Under(p, path) /\ Len(p) = d
  BY <1>0, AboveIs, UpperIs, SMTT(30)
<1>2. Upper(path, d + 1) = Append(p, path[d + 1])
  <2>1. Upper(path, d + 1) = Append(Upper(path, (d + 1) - 1), path[d + 1])
    BY ONLY <1>0, UpperIs
  <2>2. QED
    BY <1>0, <2>1
<1>3. Full(m, e) /\ (\A q \in Composites(m) : ~Under(q, path) => Good(m, e, q)) /\ \A k \in 0..d-1 : Roomy(m, e, Upper(path, k))
  BY DEF OnTrack
<1>4. PICK a \in BOOLEAN : path \in f[<<p, a>>] /\ (a = FALSE => e = mk) /\ (a = TRUE => Blank(m, e, p))
  BY DEF OnTrack, Fresh
<1>5. path \in Offers(m, mk, cap, p, a, f)
  BY <1>1, <1>4 DEF Offering
<1>. HIDE DEF p
<1>6. /\ m[p].freq.max # Unbounded => ~((IF a THEN 0 ELSE mk.rounds[p]) >= m[p].freq.max)
      /\ \E i \in 1..m[p].n, b \in BOOLEAN :
           /\ path \in f[<<Append(p, i), b>>]
           /\ a = TRUE => b = TRUE
           /\ b = FALSE /\ m[p].kind = "ChoiceGraph" => mk.cursor[p] = i /\ ~IsComplete(m, mk, Append(p, i))
           /\ b = TRUE /\ a = FALSE => m[p].kind = "ChoiceGraph" /\ (mk.cursor[p] # i \/ IsComplete(m, mk, Append(p, i)))
  <2>1. OfferedBelow(f, m, mk, p, a, path)
    BY <1>1, <1>5, OfferFrom
  <2>2. QED
    BY <2>1 DEF OfferedBelow
<1>7. PICK i \in 1..m[p].n, b \in BOOLEAN :
           /\ path \in f[<<Append(p, i), b>>]
           /\ a = TRUE => b = TRUE
           /\ b = FALSE /\ m[p].kind = "ChoiceGraph" => mk.cursor[p] = i /\ ~IsComplete(m, mk, Append(p, i))
           /\ b = TRUE /\ a = FALSE => m[p].kind = "ChoiceGraph" /\ (mk.cursor[p] # i \/ IsComplete(m, mk, Append(p, i)))
  BY <1>6
<1>. DEFINE c == Append(p, i)
<1>8. c \in DOMAIN m /\ c \in Seq(Nat) /\ i \in Nat /\ Len(c) = Len(p) + 1 /\ c[Len(p) + 1] = i /\ Len(p) = d
  <2>1. i \in Nat /\ c \in DOMAIN m
    BY <1>1, TreeIs
  <2>2. QED
    BY <1>1, <2>1, ChildIs
<1>9. Under(c, path) /\ i = path[d + 1]
  <2>1. Under(c, path)
    BY <1>0, <1>7, <1>8, OffersUnder
  <2>2. \A j \in 1..Len(c) : c[j] = path[j]
    BY <1>0, <1>8, <2>1, UnderIs
  <2>3. Len(p) + 1 \in 1..Len(c)
    BY <1>8
  <2>4. QED
    BY <1>8, <2>1, <2>2, <2>3
<1>10. c = Upper(path, d + 1) /\ next = Enter(m, e, p, i)
  BY <1>2, <1>9
<1>. HIDE DEF next
<1>11. m[p].freq.max # Unbounded => e.rounds[p] < m[p].freq.max
  <2>1. e.rounds[p] = (IF a THEN 0 ELSE mk.rounds[p])
    BY <1>1, <1>4 DEF Blank
  <2>2. e.rounds[p] \in Nat
    BY <1>1, <1>3 DEF Full, Counts
  <2>3. QED
    BY <1>1, <1>6, <2>1, <2>2, FrequencyIs
<1>12. \A k \in 0..d : Roomy(m, e, Upper(path, k))
  <2>1. SUFFICES ASSUME NEW k \in 0..d PROVE Roomy(m, e, Upper(path, k))
    OBVIOUS
  <2>2. k = d \/ k \in 0..d-1
    OBVIOUS
  <2>3. Roomy(m, e, p)
    BY <1>11 DEF Roomy
  <2>4. QED
    BY <1>3, <2>2, <2>3 DEF p
<1>13. CASE m[p].kind = "ChoiceGraph" /\ (e.cursor[p] # i \/ IsComplete(m, e, c))
  <2>1. Full(m, next) /\ Blank(m, next, c) /\ DiffersUnder(m, e, next, c, p)
    BY <1>1, <1>3, <1>10, <1>13, EnterDiffers
  <2>2. ASSUME NEW q \in Composites(m), ~Under(q, path) PROVE Good(m, next, q)
    <3>1. q \in Seq(Nat)
      BY TreeIs
    <3>2. ~Under(q, c) /\ ~Under(q, p)
      BY <1>0, <1>1, <1>8, <1>9, <2>2, <3>1, UnderUnder
    <3>3. Reset(m, next, c)
      BY <2>1 DEF Blank
    <3>4. Good(m, e, q)
      BY <1>3, <2>2
    <3>. HIDE DEF c
    <3>5. QED
      BY <1>3, <1>8, <2>1, <3>2, <3>3, <3>4, BesideGood
  <2>3. ASSUME NEW k \in 0..d PROVE Roomy(m, next, Upper(path, k))
    <3>1. k \in 0..Len(path) /\ k < Len(path)
      BY <1>0, <2>3
    <3>2. Upper(path, k) \in Composites(m) /\ Upper(path, k) \in Seq(Nat) /\ Len(Upper(path, k)) = k
      BY <1>0, <3>1, AboveIs, UpperIs
    <3>3. ~Under(c, Upper(path, k))
      <4>1. ~(Len(c) <= Len(Upper(path, k)))
        BY <1>0, <1>8, <3>1, <3>2
      <4>. HIDE DEF c
      <4>2. QED
        BY <1>8, <3>2, <4>1, UnderIs
    <3>4. next.rounds[Upper(path, k)] = e.rounds[Upper(path, k)]
      BY <2>1, <3>2, <3>3 DEF DiffersUnder
    <3>5. QED
      BY <1>12, <3>4 DEF Roomy
  <2>4. Fresh(f, m, mk, next, path, c)
    <3>1. b = TRUE
      <4>1. SUFFICES ASSUME b = FALSE PROVE FALSE
        OBVIOUS
      <4>2. a = FALSE /\ e = mk
        BY <1>4, <1>7, <4>1
      <4>3. QED
        BY <1>7, <1>13, <4>1, <4>2
    <3>2. path \in f[<<c, TRUE>>]
      BY <1>7, <3>1
    <3>3. QED
      BY <2>1, <3>2 DEF Fresh
  <2>5. (d + 1) - 1 = d
    OBVIOUS
  <2>. HIDE DEF c
  <2>6. OnTrack(f, m, mk, next, path, d + 1)
    BY <1>10, <2>1, <2>2, <2>3, <2>4, <2>5 DEF OnTrack
  <2>7. QED
    BY <2>6 DEF next, p
<1>14. CASE ~(m[p].kind = "ChoiceGraph" /\ (e.cursor[p] # i \/ IsComplete(m, e, c)))
  <2>1. next = e
    BY <1>10, <1>14 DEF Enter
  <2>2. Fresh(f, m, mk, e, path, c)
    <3>1. CASE b = FALSE
      <4>1. path \in f[<<c, FALSE>>] /\ e = mk
        BY <1>4, <1>7, <3>1
      <4>2. QED
        BY <4>1 DEF Fresh
    <3>2. CASE b = TRUE
      <4>1. a = TRUE
        BY <1>4, <1>7, <1>14, <3>2
      <4>2. Reset(m, e, p)
        BY <1>4, <4>1 DEF Blank
      <4>3. Blank(m, e, c)
        BY <1>1, <1>3, <4>2, ResetIs
      <4>4. path \in f[<<c, TRUE>>]
        BY <1>7, <3>2
      <4>5. QED
        BY <4>3, <4>4 DEF Fresh
    <3>3. QED
      BY <3>1, <3>2
  <2>3. (d + 1) - 1 = d
    OBVIOUS
  <2>. HIDE DEF c
  <2>4. OnTrack(f, m, mk, next, path, d + 1)
    BY <1>3, <1>10, <1>12, <2>1, <2>2, <2>3 DEF OnTrack
  <2>5. QED
    BY <2>4 DEF next, p
<1>15. QED
  BY <1>13, <1>14

\* So once all have been entered, every composite above the leaf has room for
\* another round, and the traversal goes on from every other one.
LEMMA EnteredOnTrack ==
  ASSUME NEW m, IsTree(m), WellFormed(m), Continuable(m), NEW mk, Going(m, mk), NEW cap,
         NEW path \in EnabledUnder(m, mk, cap)
  PROVE  LET e == EnterChoices(m, mk, path)
         IN  /\ Full(m, e)
             /\ \A q \in Composites(m) : ~Under(q, path) => Good(m, e, q)
             /\ \A k \in 0..Len(path)-1 : Roomy(m, e, Upper(path, k))
<1>0. Full(m, mk) /\ Fits(m, mk)
  BY DEF Going, Full
<1>1. path \in Leaves(m)
  BY <1>0, EnabledIs
<1>2. path \in Seq(Nat) /\ Len(path) \in Nat
  BY <1>1, TreeIs
<1>3. PICK f : Offering(f, m, mk, cap) /\ EnabledUnder(m, mk, cap) = f[<< <<>>, FALSE >>]
  BY <1>0, EnabledIsOffered
<1>4. PICK g : Entered(g, m, mk, path) /\ EnterChoices(m, mk, path) = g[Len(path)]
  BY <1>2, EnterChoicesIs
<1>5. g[0] = mk /\ \A d \in 1..Len(path) : g[d] = Enter(m, g[d - 1], Upper(path, d - 1), path[d])
  BY <1>2, <1>4 DEF Entered
<1>. DEFINE S == {d \in Nat : d <= Len(path) => OnTrack(f, m, mk, g[d], path, d)}
<1>6. 0 \in S
  <2>1. Upper(path, 0) = <<>>
    BY <1>2, UpperIs
  <2>2. Fresh(f, m, mk, mk, path, <<>>)
    BY <1>3 DEF Fresh
  <2>3. \A q \in Composites(m) : Good(m, mk, q)
    BY DEF Going, Good
  <2>4. OnTrack(f, m, mk, mk, path, 0)
    BY <1>0, <2>1, <2>2, <2>3 DEF OnTrack
  <2>5. QED
    BY <1>5, <2>4
<1>7. ASSUME NEW d \in Nat, d \in S PROVE d + 1 \in S
  <2>1. SUFFICES ASSUME d + 1 <= Len(path) PROVE OnTrack(f, m, mk, g[d + 1], path, d + 1)
    OBVIOUS
  <2>2. d < Len(path) /\ d + 1 \in 1..Len(path) /\ (d + 1) - 1 = d
    BY <1>2, <2>1
  <2>3. OnTrack(f, m, mk, g[d], path, d)
    BY <1>7, <2>2
  <2>4. OnTrack(f, m, mk, Enter(m, g[d], Upper(path, d), path[d + 1]), path, d + 1)
    BY <1>0, <1>1, <1>3, <2>2, <2>3, EnterOnTrack
  <2>5. QED
    BY <1>5, <2>2, <2>4
<1>. HIDE DEF S
<1>8. Len(path) \in S
  BY <1>2, <1>6, <1>7, NaturalInduction
<1>9. OnTrack(f, m, mk, g[Len(path)], path, Len(path))
  BY <1>2, <1>8 DEF S
<1>10. QED
  BY <1>4, <1>9 DEF OnTrack

\* A node above a leaf is a beginning of its path.
LEMMA AboveLeaf ==
  ASSUME NEW m, IsTree(m), NEW path \in Leaves(m), NEW q \in Composites(m), Under(q, path)
  PROVE  Len(q) \in 0..Len(path)-1 /\ q = Upper(path, Len(q))
<1>1. path \in Seq(Nat) /\ q \in Seq(Nat) /\ Len(path) \in Nat /\ Len(q) \in Nat /\ q # path
  BY TreeIs
<1>2. Len(q) <= Len(path) /\ \A i \in 1..Len(q) : q[i] = path[i]
  BY <1>1, UnderIs
<1>3. Len(q) \in 0..Len(path)
  BY <1>1, <1>2
<1>4. q = Upper(path, Len(q))
  <2>1. Upper(path, Len(q)) \in Seq(Nat) /\ Len(Upper(path, Len(q))) = Len(q)
        /\ \A i \in 1..Len(q) : Upper(path, Len(q))[i] = path[i]
    BY <1>1, <1>3, UpperIs
  <2>2. QED
    BY <1>1, <1>2, <2>1, SamePath
<1>5. Len(q) # Len(path)
  BY <1>1, <1>4, UpperIs
<1>6. QED
  BY <1>1, <1>3, <1>4, <1>5

\* What mk has become once the nodes above the leaf have banked, down to the
\* one at depth d: those have gone on, the ones above have room for a round.
Closing(m, e, path, d) ==
  /\ Full(m, e) /\ Arrived(m, e)
  /\ \A q \in Composites(m) : ~Under(q, path) => Good(m, e, q)
  /\ \A k \in 0..d-1 : Roomy(m, e, Upper(path, k))
  /\ \A k \in d..Len(path)-1 : Good(m, e, Upper(path, k))

\* And so it is when the next one has.
LEMMA BankClosing ==
  ASSUME NEW m, IsTree(m), WellFormed(m), Continuable(m), NEW path \in Leaves(m), NEW d \in Nat, d < Len(path),
         NEW e, Closing(m, e, path, d + 1)
  PROVE  Closing(m, Bank(m, e, Upper(path, d)), path, d)
<1>. DEFINE p == Upper(path, d)
            next == Bank(m, e, p)
<1>0. path \in DOMAIN m /\ path \in Seq(Nat) /\ Len(path) \in Nat /\ d \in 0..Len(path) /\ (d + 1) - 1 = d
  BY TreeIs
<1>1. p \in Composites(m) /\ p \in DOMAIN m /\ p \in Seq(Nat) /\ Under(p, path) /\ Len(p) = d
  BY <1>0, AboveIs, UpperIs
<1>2. /\ Full(m, e) /\ Arrived(m, e)
      /\ \A q \in Composites(m) : ~Under(q, path) => Good(m, e, q)
      /\ \A k \in 0..d : Roomy(m, e, Upper(path, k))
      /\ \A k \in d+1..Len(path)-1 : Good(m, e, Upper(path, k))
  BY <1>0 DEF Closing
<1>3. m[p].freq.max # Unbounded => e.rounds[p] < m[p].freq.max
  BY <1>0, <1>2 DEF Roomy
<1>4. e.rounds[p] \in Nat
  BY <1>1, <1>2 DEF Full, Counts
<1>5. \A k \in 0..Len(path)-1 :
        Upper(path, k) \in Composites(m) /\ Upper(path, k) \in Seq(Nat) /\ Len(Upper(path, k)) = k
  <2>1. SUFFICES ASSUME NEW k \in 0..Len(path)-1
                 PROVE  Upper(path, k) \in Composites(m) /\ Upper(path, k) \in Seq(Nat) /\ Len(Upper(path, k)) = k
    OBVIOUS
  <2>2. k \in 0..Len(path) /\ k < Len(path)
    BY <1>0
  <2>3. QED
    BY <1>0, <2>2, AboveIs, UpperIs
<1>6. CASE ~Done(m, e, p)
  <2>1. next = e
    BY <1>6 DEF Bank, Done
  <2>2. Good(m, e, p)
    BY <1>3, <1>4, <1>6, <1>1, FrequencyIs DEF Good, Limited, Banked
  <2>3. \A k \in d..Len(path)-1 : Good(m, e, Upper(path, k))
    <3>1. SUFFICES ASSUME NEW k \in d..Len(path)-1 PROVE Good(m, e, Upper(path, k))
      OBVIOUS
    <3>2. k = d \/ k \in d+1..Len(path)-1
      BY <1>0
    <3>3. QED
      BY <1>2, <2>2, <3>2
  <2>4. \A k \in 0..d-1 : Roomy(m, e, Upper(path, k))
    BY <1>2
  <2>. HIDE DEF next
  <2>5. Closing(m, next, path, d)
    BY <1>2, <2>1, <2>3, <2>4 DEF Closing
  <2>6. QED
    BY <2>5 DEF next
<1>7. CASE Done(m, e, p)
  <2>. HIDE DEF p
  <2>1. Full(m, next) /\ Reset(m, next, p) /\ DiffersUnder(m, e, next, p, p) /\ next.rounds[p] = e.rounds[p] + 1
    BY <1>1, <1>2, <1>7, BankDiffers
  <2>2. Arrived(m, next)
    <3>1. Fits(m, e)
      BY <1>2 DEF Full
    <3>2. Settled(m, e, next)
      BY <1>1, <1>2, <3>1, BankIs
    <3>3. QED
      BY <3>2 DEF Settled
  <2>. HIDE DEF next
  <2>3. Good(m, next, p)
    <3>1. m[p].freq.max # Unbounded => next.rounds[p] <= m[p].freq.max
      BY <1>1, <1>3, <1>4, <2>1, FrequencyIs
    <3>2. QED
      BY <1>1, <2>1, <3>1, ResetGood DEF Good
  <2>4. ASSUME NEW q \in Composites(m), ~Under(q, p), Good(m, e, q) PROVE Good(m, next, q)
    BY <1>1, <1>2, <2>1, <2>4, BesideGood
  <2>5. ASSUME NEW q \in Composites(m), ~Under(q, path) PROVE Good(m, next, q)
    <3>1. q \in Seq(Nat)
      BY TreeIs
    <3>2. ~Under(q, p)
      BY <1>0, <1>1, <2>5, <3>1, UnderUnder
    <3>3. QED
      BY <1>2, <2>4, <2>5, <3>2
  <2>6. ASSUME NEW k \in 0..d-1 PROVE Roomy(m, next, Upper(path, k))
    <3>0. k \in 0..Len(path)-1 /\ k \in 0..d /\ ~(d <= k)
      BY <1>0, <2>6
    <3>1. ~Under(p, Upper(path, k))
      BY <1>1, <1>5, <3>0, UnderIs
    <3>2. next.rounds[Upper(path, k)] = e.rounds[Upper(path, k)]
      BY <1>5, <2>1, <3>0, <3>1 DEF DiffersUnder
    <3>3. QED
      BY <1>2, <3>0, <3>2 DEF Roomy
  <2>7. ASSUME NEW k \in d..Len(path)-1 PROVE Good(m, next, Upper(path, k))
    <3>1. CASE k = d
      BY <2>3, <3>1 DEF p
    <3>2. CASE k # d
      <4>1. k \in d+1..Len(path)-1 /\ k \in 0..Len(path)-1 /\ ~(k <= d)
        BY <1>0, <2>7, <3>2
      <4>2. ~Under(Upper(path, k), p)
        <5>1. Upper(path, k) \in Seq(Nat) /\ Len(Upper(path, k)) = k
          BY <1>5, <4>1
        <5>2. ~(Len(Upper(path, k)) <= Len(p))
          BY <1>1, <4>1, <5>1
        <5>3. QED
          BY <1>1, <5>1, <5>2, UnderIs
      <4>3. QED
        BY <1>2, <1>5, <2>4, <4>1, <4>2
    <3>3. QED
      BY <3>1, <3>2
  <2>8. Closing(m, next, path, d)
    BY <2>1, <2>2, <2>5, <2>6, <2>7 DEF Closing
  <2>9. QED
    BY <2>8 DEF next, p
<1>8. QED
  BY <1>6, <1>7

\* When all have, the traversal goes on.
LEMMA ClosedGoing ==
  ASSUME NEW m, IsTree(m), WellFormed(m), Continuable(m), NEW path \in Leaves(m),
         NEW mk, Closing(m, mk, path, Len(path))
  PROVE  Going(m, CloseRounds(m, path, mk))
<1>0. path \in Seq(Nat) /\ Len(path) \in Nat
  BY TreeIs
<1>1. PICK f : Closes(f, m, mk, path) /\ CloseRounds(m, path, mk) = f[0]
  BY <1>0, CloseRoundsIs
<1>2. \A d \in 0..Len(path) : f[d] = IF d = Len(path) THEN mk ELSE Bank(m, f[d + 1], Upper(path, d))
  BY <1>1 DEF Closes
<1>. DEFINE S == {j \in Nat : j <= Len(path) => Closing(m, f[Len(path) - j], path, Len(path) - j)}
<1>3. 0 \in S
  BY <1>0, <1>2
<1>4. ASSUME NEW j \in Nat, j \in S PROVE j + 1 \in S
  <2>1. SUFFICES ASSUME j + 1 <= Len(path) PROVE Closing(m, f[Len(path) - (j + 1)], path, Len(path) - (j + 1))
    OBVIOUS
  <2>. DEFINE d == Len(path) - (j + 1)
              e == f[d + 1]
  <2>2. d \in 0..Len(path) /\ d < Len(path) /\ d + 1 = Len(path) - j /\ j <= Len(path) /\ d \in Nat
    BY <1>0, <2>1
  <2>3. Closing(m, e, path, d + 1)
    BY <1>4, <2>2
  <2>. HIDE DEF d
  <2>4. f[d] = Bank(m, e, Upper(path, d))
    BY <1>2, <2>2
  <2>. HIDE DEF e
  <2>5. Closing(m, f[d], path, d)
    BY <2>2, <2>3, <2>4, BankClosing
  <2>6. QED
    BY <2>5 DEF d
<1>. HIDE DEF S
<1>5. Len(path) \in S
  BY <1>0, <1>3, <1>4, NaturalInduction
<1>6. Closing(m, f[0], path, 0)
  BY <1>0, <1>5 DEF S
<1>7. ASSUME NEW q \in Composites(m) PROVE Good(m, f[0], q)
  <2>1. CASE ~Under(q, path)
    BY <1>6, <2>1 DEF Closing
  <2>2. CASE Under(q, path)
    <3>1. Len(q) \in 0..Len(path)-1 /\ q = Upper(path, Len(q))
      BY <2>2, AboveLeaf
    <3>2. Good(m, f[0], Upper(path, Len(q)))
      BY <1>6, <3>1 DEF Closing
    <3>3. QED
      BY <3>1, <3>2
  <2>3. QED
    BY <2>1, <2>2
<1>8. Full(m, f[0])
  BY <1>6 DEF Closing
<1>9. QED
  BY <1>1, <1>7, <1>8 DEF Going, Good

\* Every fire leaves a marking from which the traversal goes on.
LEMMA FireGoing ==
  ASSUME NEW m, IsTree(m), WellFormed(m), Continuable(m), NEW mk, Going(m, mk), Arrived(m, mk), NEW path, NEW context,
         ~IsRefused(Fire(m, mk, path, context))
  PROVE  Going(m, Fire(m, mk, path, context))
<1>. DEFINE entered == EnterChoices(m, mk, path)
            done == [entered EXCEPT !.completed = @ \cup {NextKey(mk, ActivityOf(m, path), context)},
                                    !.paths = @ \cup {path}, !.fires = @ + 1]
<1>0. (\A reason : IsRefused(Refused(reason))) /\ Full(m, mk) /\ Fits(m, mk)
  BY DEF IsRefused, Refused, Going, Full
<1>1. path \in EnabledUnder(m, mk, MaxNodeVisits) /\ Fire(m, mk, path, context) = CloseRounds(m, path, done)
  BY <1>0 DEF Fire, Enabled
<1>2. path \in Leaves(m)
  BY <1>0, <1>1, EnabledIs
<1>3. There(m, mk, entered, path)
  BY <1>0, <1>2, EnteredIs
<1>4. /\ Full(m, entered)
      /\ \A q \in Composites(m) : ~Under(q, path) => Good(m, entered, q)
      /\ \A k \in 0..Len(path)-1 : Roomy(m, entered, Upper(path, k))
  BY <1>1, EnteredOnTrack
<1>. HIDE DEF entered
<1>5. /\ DOMAIN done = DOMAIN entered /\ done.paths = entered.paths \cup {path}
      /\ done.cursor = entered.cursor /\ done.visits = entered.visits /\ done.rounds = entered.rounds
  BY <1>4 DEF Full, Fits
<1>. HIDE DEF done
<1>6. Full(m, done)
  <2>1. Fits(m, done)
    BY <1>2, <1>3, <1>5 DEF There, Fits
  <2>2. QED
    BY <1>4, <1>5, <2>1 DEF Full, Counts
<1>7. Arrived(m, done)
  <2>1. SUFFICES ASSUME NEW q \in Composites(m), Ahead(m, done, q) PROVE FALSE
    BY DEF Arrived
  <2>2. Ahead(m, entered, q)
    BY <1>5, <2>1 DEF Ahead
  <2>3. Append(q, entered.cursor[q]) = path
    BY <1>3, <2>2 DEF There
  <2>4. QED
    BY <1>5, <2>1, <2>3 DEF Ahead
<1>8. ASSUME NEW q \in Composites(m), ~Under(q, path) PROVE Good(m, done, q)
  <2>1. SameUnder(m, entered, done, q)
    BY <1>5, <1>8 DEF SameUnder
  <2>2. QED
    BY <1>4, <1>6, <1>8, <2>1, GoodSame DEF Good
<1>9. \A k \in 0..Len(path)-1 : Roomy(m, done, Upper(path, k))
  BY <1>4, <1>5 DEF Roomy
<1>10. Len(path) \in Nat
  BY <1>2, TreeIs
<1>11. Closing(m, done, path, Len(path))
  BY <1>6, <1>7, <1>8, <1>9, <1>10 DEF Closing
<1>12. QED
  BY <1>1, <1>2, <1>11, ClosedGoing

-----------------------------------------------------------------------------
(* Where a traversal starts *)

\* A marking that is made has no rounds.
LEMMA MarkingFull ==
  ASSUME NEW m, NEW keys, NEW cursor, NEW visits, NEW fires, NEW paths,
         Fits(m, Marking(m, keys, cursor, visits, fires, paths))
  PROVE  /\ Full(m, Marking(m, keys, cursor, visits, fires, paths))
         /\ \A p \in Composites(m) : Marking(m, keys, cursor, visits, fires, paths).rounds[p] = 0
BY DEF Full, Counts, Marking

\* An empty traversal goes on.
LEMMA InitialGoing ==
  ASSUME NEW m, IsTree(m), WellFormed(m), Continuable(m)
  PROVE  Going(m, InitialMarking(m))
<1>. DEFINE mk == InitialMarking(m)
<1>1. Full(m, mk) /\ \A p \in Composites(m) : mk.rounds[p] = 0
  BY InitialIs, MarkingFull DEF InitialMarking
<1>2. mk.paths = {} /\ \A p \in Composites(m) : mk.cursor[p] = 0
  BY DEF InitialMarking, Marking
<1>. HIDE DEF mk
<1>3. ASSUME NEW p \in Composites(m) PROVE Limited(m, mk, p) /\ Banked(m, mk, p)
  <2>1. Reset(m, mk, p)
    BY <1>1, <1>2 DEF Reset
  <2>2. m[p].freq.max # Unbounded => mk.rounds[p] <= m[p].freq.max
    BY <1>1, FrequencyIs
  <2>3. QED
    BY <1>1, <2>1, <2>2, ResetGood
<1>4. QED
  BY <1>1, <1>3 DEF Going, mk

\* And so does one without rounds, where none is required but the first.
LEMMA OnceGoing ==
  ASSUME NEW m, IsTree(m), WellFormed(m), NEW mk, Full(m, mk), \A p \in Composites(m) : mk.rounds[p] = 0,
         \A p \in Composites(m) : m[p].freq.min <= 1 /\ m[p].freq.max # 0
  PROVE  Going(m, mk)
<1>1. ASSUME NEW p \in Composites(m) PROVE Limited(m, mk, p) /\ Banked(m, mk, p)
  <2>1. mk.rounds[p] = 0 /\ m[p].freq.min <= 1 /\ m[p].freq.max # 0
    OBVIOUS
  <2>2. /\ m[p].freq.min \in Nat
        /\ m[p].freq.max = Unbounded \/ (m[p].freq.max \in Nat /\ m[p].freq.min <= m[p].freq.max)
    BY FrequencyIs
  <2>3. Allows(m[p].freq, 1) /\ (m[p].freq.max # Unbounded => m[p].freq.max > 0)
    BY <2>1, <2>2 DEF Allows
  <2>4. QED
    <3>1. mk.rounds[p] + 1 = 1
      BY <2>1
    <3>2. Limited(m, mk, p)
      BY <2>1, <2>2, <2>3 DEF Limited
    <3>3. Banked(m, mk, p)
      BY <2>3, <3>1 DEF Banked
    <3>4. QED
      BY <3>2, <3>3
<1>2. QED
  BY <1>1 DEF Going

-----------------------------------------------------------------------------
(* Orders that are closed *)

\* The pairs of r, and those that an edge takes one further.
Further(r, edges) == r \cup {<<ef[1][1], ef[2][2]>> : ef \in {g \in r \X edges : g[1][2] = g[2][1]}}

\* f solves the recursion of TransitiveClosure.
Reaches(f, edges, n) == f = [k \in 0..n |-> IF k = 0 THEN edges ELSE Further(f[k - 1], edges)]

\* A relation that reaches as far as it can.
Transitive(r) == \A e, f \in r : e[2] = f[1] => <<e[1], f[2]>> \in r

\* There is a solution, made step by step.
LEMMA ReachesSome ==
  ASSUME NEW edges, NEW n \in Nat
  PROVE  \E f : Reaches(f, edges, n)
<1>. DEFINE Right(f, k) == f = [j \in 0..k |-> IF j = 0 THEN edges ELSE Further(f[j - 1], edges)]
            S == {k \in Nat : \E f : Right(f, k)}
<1>1. 0 \in S
  <2>. DEFINE f == [j \in 0..0 |-> edges]
  <2>1. Right(f, 0)
    OBVIOUS
  <2>. HIDE DEF Right
  <2>2. QED
    BY <2>1
<1>2. ASSUME NEW k \in Nat, k \in S PROVE k + 1 \in S
  <2>1. PICK f : Right(f, k)
    BY <1>2
  <2>. DEFINE g == [j \in 0..k + 1 |-> IF j = k + 1 THEN Further(f[k], edges) ELSE f[j]]
  <2>2. ASSUME NEW j \in 0..k + 1 PROVE g[j] = IF j = 0 THEN edges ELSE Further(g[j - 1], edges)
    <3>1. CASE j = k + 1
      <4>1. j # 0 /\ j - 1 = k /\ k \in 0..k + 1 /\ k # k + 1
        BY <3>1
      <4>2. g[j] = Further(f[k], edges) /\ g[k] = f[k]
        BY <3>1, <4>1
      <4>. HIDE DEF g
      <4>3. QED
        BY <4>1, <4>2
    <3>2. CASE j # k + 1
      <4>1. j \in 0..k /\ g[j] = f[j]
        BY <3>2
      <4>2. j # 0 => j - 1 \in 0..k + 1 /\ j - 1 # k + 1
        BY <3>2
      <4>3. j # 0 => g[j - 1] = f[j - 1]
        BY <4>2
      <4>4. f[j] = IF j = 0 THEN edges ELSE Further(f[j - 1], edges)
        BY <2>1, <4>1
      <4>. HIDE DEF g
      <4>5. QED
        BY <4>1, <4>3, <4>4
    <3>3. QED
      BY <3>1, <3>2
  <2>3. g = [j \in 0..k + 1 |-> g[j]]
    OBVIOUS
  <2>. HIDE DEF g
  <2>4. Right(g, k + 1)
    BY <2>2, <2>3
  <2>. HIDE DEF Right
  <2>5. QED
    BY <2>4
<1>. HIDE DEF S
<1>3. n \in S
  BY <1>1, <1>2, NaturalInduction
<1>4. QED
  BY <1>3 DEF S, Reaches

\* So TransitiveClosure is the last value of one.
LEMMA ClosureReaches ==
  ASSUME NEW edges, NEW n \in Nat
  PROVE  \E f : /\ f[0] = edges /\ \A k \in 1..n : f[k] = Further(f[k - 1], edges)
                /\ TransitiveClosure(edges, n) = f[n]
<1>. DEFINE f == CHOOSE f : f = [k \in 0..n |-> IF k = 0 THEN edges ELSE Further(f[k - 1], edges)]
<1>1. f = [k \in 0..n |-> IF k = 0 THEN edges ELSE Further(f[k - 1], edges)]
  BY ReachesSome DEF Reaches
<1>2. TransitiveClosure(edges, n) = f[n]
  BY DEF TransitiveClosure, Further
<1>. HIDE DEF f
<1>3. f[0] = edges /\ \A k \in 1..n : f[k] = Further(f[k - 1], edges)
  BY <1>1
<1>4. QED
  BY <1>2, <1>3

\* What Further adds, pair by pair.
LEMMA FurtherIs ==
  ASSUME NEW n, NEW r \in SUBSET ((1..n) \X (1..n)), NEW edges \in SUBSET ((1..n) \X (1..n))
  PROVE  /\ r \subseteq Further(r, edges) /\ Further(r, edges) \subseteq (1..n) \X (1..n)
         /\ \A s, t, u : <<s, t>> \in r /\ <<t, u>> \in edges => <<s, u>> \in Further(r, edges)
         /\ \A s, u : <<s, u>> \in Further(r, edges) => <<s, u>> \in r \/ \E t : <<s, t>> \in r /\ <<t, u>> \in edges
<1>1. ASSUME NEW s, NEW t, NEW u, <<s, t>> \in r, <<t, u>> \in edges PROVE <<s, u>> \in Further(r, edges)
  <2>. DEFINE g == << <<s, t>>, <<t, u>> >>
  <2>1. g \in r \X edges /\ g[1][2] = g[2][1] /\ <<g[1][1], g[2][2]>> = <<s, u>>
    BY <1>1
  <2>. HIDE DEF g
  <2>2. QED
    BY <2>1 DEF Further
<1>2. ASSUME NEW e \in Further(r, edges), e \notin r
      PROVE  \E x \in r, y \in edges : x[2] = y[1] /\ e = <<x[1], y[2]>>
  <2>1. PICK g \in r \X edges : g[1][2] = g[2][1] /\ e = <<g[1][1], g[2][2]>>
    BY <1>2 DEF Further
  <2>2. g[1] \in r /\ g[2] \in edges
    OBVIOUS
  <2>3. QED
    BY <2>1, <2>2
<1>3. \A e \in r : e = <<e[1], e[2]>> /\ e[1] \in 1..n /\ e[2] \in 1..n
  OBVIOUS
<1>4. \A e \in edges : e = <<e[1], e[2]>> /\ e[1] \in 1..n /\ e[2] \in 1..n
  OBVIOUS
<1>5. Further(r, edges) \subseteq (1..n) \X (1..n)
  <2>1. SUFFICES ASSUME NEW e \in Further(r, edges), e \notin r PROVE e \in (1..n) \X (1..n)
    OBVIOUS
  <2>2. PICK x \in r, y \in edges : x[2] = y[1] /\ e = <<x[1], y[2]>>
    BY <1>2, <2>1
  <2>3. QED
    BY <1>3, <1>4, <2>2
<1>6. ASSUME NEW s, NEW u, <<s, u>> \in Further(r, edges), <<s, u>> \notin r
      PROVE  \E t : <<s, t>> \in r /\ <<t, u>> \in edges
  <2>1. PICK x \in r, y \in edges : x[2] = y[1] /\ <<s, u>> = <<x[1], y[2]>>
    BY <1>2, <1>6
  <2>2. s = x[1] /\ u = y[2]
    BY <2>1
  <2>3. x = <<s, x[2]>> /\ y = <<x[2], u>>
    BY <1>3, <1>4, <2>1, <2>2
  <2>4. <<s, x[2]>> \in r /\ <<x[2], u>> \in edges
    BY <2>3
  <2>5. QED
    BY <2>4
<1>7. r \subseteq Further(r, edges)
  BY DEF Further
<1>8. QED
  BY <1>1, <1>5, <1>6, <1>7

\* f is the closure in the making.
Reaching(f, edges, n) ==
  /\ f[0] = edges
  /\ \A k \in 0..n : f[k] \subseteq (1..n) \X (1..n)
  /\ \A k \in 0..n-1 :
       /\ f[k] \subseteq f[k + 1]
       /\ \A s, t, u : <<s, t>> \in f[k] /\ <<t, u>> \in edges => <<s, u>> \in f[k + 1]
       /\ \A s, u : <<s, u>> \in f[k + 1] => <<s, u>> \in f[k] \/ \E t : <<s, t>> \in f[k] /\ <<t, u>> \in edges

\* It is, step by step.
LEMMA ReachingIs ==
  ASSUME NEW n \in Nat, NEW edges, edges \subseteq (1..n) \X (1..n)
  PROVE  \E f : Reaching(f, edges, n) /\ TransitiveClosure(edges, n) = f[n]
<1>1. PICK f : /\ f[0] = edges /\ \A k \in 1..n : f[k] = Further(f[k - 1], edges)
               /\ TransitiveClosure(edges, n) = f[n]
  BY ClosureReaches
<1>2. \A k \in 0..n-1 : f[k + 1] = Further(f[k], edges)
  <2>1. SUFFICES ASSUME NEW k \in 0..n-1 PROVE f[k + 1] = Further(f[k], edges)
    OBVIOUS
  <2>2. k + 1 \in 1..n /\ (k + 1) - 1 = k
    OBVIOUS
  <2>3. QED
    BY <1>1, <2>2
<1>. DEFINE S == {k \in Nat : k <= n => f[k] \subseteq (1..n) \X (1..n)}
<1>3. 0 \in S
  BY <1>1
<1>4. ASSUME NEW k \in Nat, k \in S PROVE k + 1 \in S
  <2>1. SUFFICES ASSUME k + 1 <= n PROVE f[k + 1] \subseteq (1..n) \X (1..n)
    OBVIOUS
  <2>2. k \in 0..n-1 /\ f[k] \in SUBSET ((1..n) \X (1..n))
    BY <1>4, <2>1
  <2>3. edges \in SUBSET ((1..n) \X (1..n))
    OBVIOUS
  <2>4. Further(f[k], edges) \subseteq (1..n) \X (1..n)
    <3>1. f[k] \subseteq Further(f[k], edges) /\ Further(f[k], edges) \subseteq (1..n) \X (1..n)
      <4>. DEFINE r == f[k]
      <4>1. r \in SUBSET ((1..n) \X (1..n))
        BY <2>2
      <4>. HIDE DEF r
      <4>2. r \subseteq Further(r, edges) /\ Further(r, edges) \subseteq (1..n) \X (1..n)
        BY ONLY <2>3, <4>1, FurtherIs, ZenonT(30)
      <4>3. QED
        BY <4>2 DEF r
    <3>2. QED
      BY <3>1
  <2>5. QED
    BY <1>2, <2>2, <2>4
<1>5. \A k \in 0..n : f[k] \subseteq (1..n) \X (1..n)
  <2>. HIDE DEF S
  <2>1. Nat \subseteq S
    BY <1>3, <1>4, NaturalInduction
  <2>2. QED
    BY <2>1 DEF S
<1>6. ASSUME NEW k \in 0..n-1
      PROVE  /\ f[k] \subseteq f[k + 1]
             /\ \A s, t, u : <<s, t>> \in f[k] /\ <<t, u>> \in edges => <<s, u>> \in f[k + 1]
             /\ \A s, u : <<s, u>> \in f[k + 1] => <<s, u>> \in f[k] \/ \E t : <<s, t>> \in f[k] /\ <<t, u>> \in edges
  <2>1. f[k] \in SUBSET ((1..n) \X (1..n)) /\ edges \in SUBSET ((1..n) \X (1..n)) /\ f[k + 1] = Further(f[k], edges)
    BY <1>2, <1>5
  <2>2. /\ f[k] \subseteq Further(f[k], edges)
        /\ \A s, t, u : <<s, t>> \in f[k] /\ <<t, u>> \in edges => <<s, u>> \in Further(f[k], edges)
        /\ \A s, u : <<s, u>> \in Further(f[k], edges) => <<s, u>> \in f[k] \/ \E t : <<s, t>> \in f[k] /\ <<t, u>> \in edges
    <3>. DEFINE r == f[k]
    <3>1. r \in SUBSET ((1..n) \X (1..n)) /\ edges \in SUBSET ((1..n) \X (1..n))
      BY <2>1
    <3>. HIDE DEF r
    <3>2. /\ r \subseteq Further(r, edges)
          /\ \A s, t, u : <<s, t>> \in r /\ <<t, u>> \in edges => <<s, u>> \in Further(r, edges)
          /\ \A s, u : <<s, u>> \in Further(r, edges) => <<s, u>> \in r \/ \E t : <<s, t>> \in r /\ <<t, u>> \in edges
      BY ONLY <3>1, FurtherIs
    <3>3. QED
      BY <3>2 DEF r
  <2>3. QED
    BY <2>1, <2>2, ZenonT(30)
<1>7. QED
  BY <1>1, <1>5, <1>6 DEF Reaching

\* From one node at most n others are reached, each time one more at least, so
\* that after n times no edge leads further.
LEMMA ReachedAll ==
  ASSUME NEW n \in Nat, NEW edges, NEW f, Reaching(f, edges, n), NEW s, NEW t, NEW u, <<s, t>> \in f[n], <<t, u>> \in edges
  PROVE  <<s, u>> \in f[n]
<1>. DEFINE R(k) == {x \in 1..n : <<s, x>> \in f[k]}
            Closed(k) == \A x \in R(k) : \A y : <<x, y>> \in edges => y \in R(k)
            S == {k \in Nat : k <= n => Closed(k) \/ Cardinality(R(k)) > k}
<1>1. \A k : IsFiniteSet(R(k)) /\ Cardinality(R(k)) \in Nat /\ Cardinality(R(k)) <= n
  <2>1. IsFiniteSet(1..n) /\ Cardinality(1..n) = n
    <3>1. 1 \in Int /\ n \in Int
      OBVIOUS
    <3>2. IsFiniteSet(1..n) /\ Cardinality(1..n) = IF 1 > n THEN 0 ELSE n - 1 + 1
      BY ONLY <3>1, FS_Interval
    <3>3. QED
      BY <3>2
  <2>2. \A k : R(k) \in SUBSET (1..n)
    OBVIOUS
  <2>. HIDE DEF R
  <2>3. QED
    BY <2>1, <2>2, FS_Subset, FS_CardinalityType
<1>2. \A k \in 0..n : \A x : <<s, x>> \in f[k] <=> x \in R(k)
  <2>1. \A k \in 0..n : f[k] \subseteq (1..n) \X (1..n)
    BY DEF Reaching
  <2>2. QED
    BY <2>1
<1>. HIDE DEF R
<1>3. 0 \in S
  <2>1. CASE R(0) = {}
    BY <2>1
  <2>2. CASE R(0) # {}
    <3>1. Cardinality(R(0)) # 0
      BY <1>1, <2>2, FS_EmptySet
    <3>2. QED
      BY <1>1, <3>1
  <2>3. QED
    BY <2>1, <2>2
<1>4. ASSUME NEW k \in Nat, k \in S PROVE k + 1 \in S
  <2>1. SUFFICES ASSUME k + 1 <= n PROVE Closed(k + 1) \/ Cardinality(R(k + 1)) > k + 1
    OBVIOUS
  <2>2. k \in 0..n-1 /\ k \in 0..n /\ k + 1 \in 0..n /\ (Closed(k) \/ Cardinality(R(k)) > k)
    BY <1>4, <2>1
  <2>3. R(k) \subseteq R(k + 1)
    BY <1>2, <2>2 DEF Reaching
  <2>4. \A x \in R(k) : \A y : <<x, y>> \in edges => y \in R(k + 1)
    BY <1>2, <2>2 DEF Reaching
  <2>5. \A y \in R(k + 1) : y \in R(k) \/ \E x \in R(k) : <<x, y>> \in edges
    <3>1. SUFFICES ASSUME NEW y \in R(k + 1) PROVE y \in R(k) \/ \E x \in R(k) : <<x, y>> \in edges
      OBVIOUS
    <3>2. <<s, y>> \in f[k + 1]
      BY <1>2, <2>2
    <3>3. <<s, y>> \in f[k] \/ \E x : <<s, x>> \in f[k] /\ <<x, y>> \in edges
      BY <2>2, <3>2 DEF Reaching
    <3>4. QED
      BY <1>2, <2>2, <3>3
  <2>6. CASE Closed(k)
    <3>1. R(k + 1) = R(k)
      BY <2>3, <2>5, <2>6
    <3>2. QED
      BY <2>6, <3>1
  <2>7. CASE ~Closed(k)
    <3>1. PICK x \in R(k) : \E z : <<x, z>> \in edges /\ z \notin R(k)
      BY <2>7
    <3>2. PICK y : <<x, y>> \in edges /\ y \notin R(k)
      BY <3>1
    <3>3. y \in R(k + 1)
      BY <2>4, <3>2
    <3>4. IsFiniteSet(R(k) \cup {y}) /\ Cardinality(R(k) \cup {y}) = Cardinality(R(k)) + 1
      BY <1>1, <3>2, FS_AddElement
    <3>5. (R(k) \cup {y}) \in SUBSET R(k + 1)
      BY <2>3, <3>3
    <3>6. Cardinality(R(k) \cup {y}) <= Cardinality(R(k + 1))
      BY <1>1, <3>5, FS_Subset
    <3>7. QED
      BY <1>1, <2>2, <2>7, <3>4, <3>6
  <2>8. QED
    BY <2>6, <2>7
<1>. HIDE DEF S
<1>5. n \in S
  BY <1>3, <1>4, NaturalInduction
<1>6. Closed(n)
  BY <1>1, <1>5 DEF S
<1>7. t \in R(n)
  BY <1>2
<1>8. u \in R(n)
  BY <1>6, <1>7
<1>9. QED
  BY <1>2, <1>8

\* The closure of the pairs of an order is transitive, and no larger than any
\* transitive relation that has them.
LEMMA ClosureIs ==
  ASSUME NEW n \in Nat, NEW edges, edges \subseteq (1..n) \X (1..n)
  PROVE  LET closure == TransitiveClosure(edges, n)
         IN  /\ edges \subseteq closure /\ closure \subseteq (1..n) \X (1..n) /\ Transitive(closure)
             /\ \A r \in SUBSET ((1..n) \X (1..n)) : edges \subseteq r /\ Transitive(r) => closure \subseteq r
<1>1. PICK f : Reaching(f, edges, n) /\ TransitiveClosure(edges, n) = f[n]
  BY ReachingIs
<1>2. f[n] \subseteq (1..n) \X (1..n)
  BY <1>1 DEF Reaching
<1>3. edges \subseteq f[n]
  <2>. DEFINE S == {k \in Nat : k <= n => edges \subseteq f[k]}
  <2>1. 0 \in S
    BY <1>1 DEF Reaching
  <2>2. ASSUME NEW k \in Nat, k \in S PROVE k + 1 \in S
    <3>1. SUFFICES ASSUME k + 1 <= n PROVE edges \subseteq f[k + 1]
      OBVIOUS
    <3>2. k \in 0..n-1 /\ edges \subseteq f[k]
      BY <2>2, <3>1
    <3>3. QED
      BY <1>1, <3>2 DEF Reaching
  <2>. HIDE DEF S
  <2>3. n \in S
    BY <2>1, <2>2, NaturalInduction
  <2>4. QED
    BY <2>3 DEF S
<1>4. \A e \in f[n] : e = <<e[1], e[2]>>
  BY <1>2
<1>5. ASSUME NEW e \in f[n], NEW g \in f[n], e[2] = g[1] PROVE <<e[1], g[2]>> \in f[n]
  <2>. DEFINE S == {k \in Nat : k <= n => \A u : <<e[2], u>> \in f[k] => <<e[1], u>> \in f[n]}
  <2>0. <<e[1], e[2]>> \in f[n]
    BY <1>4
  <2>1. 0 \in S
    <3>1. f[0] = edges
      BY <1>1 DEF Reaching
    <3>2. ASSUME NEW u, <<e[2], u>> \in edges PROVE <<e[1], u>> \in f[n]
      BY <1>1, <2>0, <3>2, ReachedAll
    <3>3. QED
      BY <3>1, <3>2
  <2>2. ASSUME NEW k \in Nat, k \in S PROVE k + 1 \in S
    <3>1. SUFFICES ASSUME k + 1 <= n, NEW u, <<e[2], u>> \in f[k + 1] PROVE <<e[1], u>> \in f[n]
      OBVIOUS
    <3>2. k \in 0..n-1 /\ \A x : <<e[2], x>> \in f[k] => <<e[1], x>> \in f[n]
      BY <2>2, <3>1
    <3>3. <<e[2], u>> \in f[k] \/ \E x : <<e[2], x>> \in f[k] /\ <<x, u>> \in edges
      BY <1>1, <3>1, <3>2 DEF Reaching
    <3>4. CASE <<e[2], u>> \in f[k]
      BY <3>2, <3>4
    <3>5. CASE \E x : <<e[2], x>> \in f[k] /\ <<x, u>> \in edges
      <4>1. PICK x : <<e[2], x>> \in f[k] /\ <<x, u>> \in edges
        BY <3>5
      <4>2. <<e[1], x>> \in f[n]
        BY <3>2, <4>1
      <4>3. QED
        BY <1>1, <4>1, <4>2, ReachedAll
    <3>6. QED
      BY <3>3, <3>4, <3>5
  <2>. HIDE DEF S
  <2>3. n \in S
    BY <2>1, <2>2, NaturalInduction
  <2>4. <<e[2], g[2]>> \in f[n]
    BY <1>4, <1>5
  <2>5. QED
    BY <2>3, <2>4 DEF S
<1>6. ASSUME NEW r \in SUBSET ((1..n) \X (1..n)), edges \subseteq r, Transitive(r) PROVE f[n] \subseteq r
  <2>. DEFINE S == {k \in Nat : k <= n => f[k] \subseteq r}
  <2>1. 0 \in S
    BY <1>1, <1>6 DEF Reaching
  <2>2. ASSUME NEW k \in Nat, k \in S PROVE k + 1 \in S
    <3>1. SUFFICES ASSUME k + 1 <= n, NEW e \in f[k + 1] PROVE e \in r
      OBVIOUS
    <3>2. k \in 0..n-1 /\ k + 1 \in 0..n /\ f[k] \subseteq r
      BY <2>2, <3>1
    <3>3. e = <<e[1], e[2]>>
      BY <1>1, <3>1, <3>2 DEF Reaching
    <3>4. <<e[1], e[2]>> \in f[k] \/ \E x : <<e[1], x>> \in f[k] /\ <<x, e[2]>> \in edges
      BY <1>1, <3>1, <3>2, <3>3 DEF Reaching
    <3>5. ASSUME NEW x, <<e[1], x>> \in r, <<x, e[2]>> \in r PROVE <<e[1], e[2]>> \in r
      <4>1. <<e[1], x>>[2] = <<x, e[2]>>[1] /\ <<e[1], x>>[1] = e[1] /\ <<x, e[2]>>[2] = e[2]
        OBVIOUS
      <4>2. QED
        BY <1>6, <3>5, <4>1 DEF Transitive
    <3>6. QED
      BY <1>6, <3>2, <3>3, <3>4, <3>5
  <2>. HIDE DEF S
  <2>3. n \in S
    BY <2>1, <2>2, NaturalInduction
  <2>4. QED
    BY <2>3 DEF S
<1>7. QED
  BY <1>1, <1>2, <1>3, <1>5, <1>6 DEF Transitive

-----------------------------------------------------------------------------
(* Trees that can be constructed *)

\* A path with one more step before it.
LEMMA LongerIs ==
  ASSUME NEW i \in Nat, NEW q \in Seq(Nat)
  PROVE  /\ <<i>> \o q \in Seq(Nat) /\ Len(<<i>> \o q) = Len(q) + 1 /\ Len(q) \in Nat
         /\ (<<i>> \o q)[1] = i /\ \A k \in 1..Len(q) : (<<i>> \o q)[k + 1] = q[k]
<1>1. <<i>> \o q \in Seq(Nat) /\ Len(<<i>> \o q) = Len(q) + 1 /\ Len(q) \in Nat
  OBVIOUS
<1>2. (<<i>> \o q)[1] = i
  OBVIOUS
<1>3. \A k \in 1..Len(q) : (<<i>> \o q)[k + 1] = q[k]
  OBVIOUS
<1>4. QED
  BY <1>1, <1>2, <1>3

\* A path that begins with step i.
LEMMA StepIs ==
  ASSUME NEW i \in Nat, NEW q \in Seq(Nat)
  PROVE  LET p == <<i>> \o q
         IN  /\ p \in Seq(Nat) /\ Len(p) = Len(q) + 1 /\ p # <<>> /\ Head(p) = i /\ Tail(p) = q
             /\ q = <<>> => Front(p) = <<>> /\ Last(p) = i
             /\ q # <<>> => Front(p) = <<i>> \o Front(q) /\ Last(p) = Last(q)
             /\ \A j \in Nat : Append(p, j) = <<i>> \o Append(q, j)
<1>. DEFINE p == <<i>> \o q
<1>1. p \in Seq(Nat) /\ Len(p) = Len(q) + 1 /\ Len(q) \in Nat
  BY LongerIs
<1>2. p[1] = i /\ \A k \in 1..Len(q) : p[k + 1] = q[k]
  BY LongerIs
<1>. HIDE DEF p
<1>3. p # <<>> /\ Head(p) = i
  BY <1>1, <1>2
<1>4. Tail(p) = q
  <2>1. Tail(p) \in Seq(Nat) /\ Len(Tail(p)) = Len(q) /\ \A k \in 1..Len(q) : Tail(p)[k] = p[k + 1]
    BY <1>1, <1>3
  <2>2. QED
    BY <1>2, <2>1, SamePath
<1>5. /\ Front(p) \in Seq(Nat) /\ Len(Front(p)) = Len(q) /\ Last(p) = p[Len(q) + 1]
      /\ \A k \in 1..Len(q) : Front(p)[k] = p[k]
  BY <1>1, <1>3 DEF Front, Last
<1>6. ASSUME q = <<>> PROVE Front(p) = <<>> /\ Last(p) = i
  BY <1>2, <1>5, <1>6
<1>7. ASSUME q # <<>> PROVE Front(p) = <<i>> \o Front(q) /\ Last(p) = Last(q)
  <2>. DEFINE r == <<i>> \o Front(q)
  <2>1. /\ Len(q) \in 1..Len(q) /\ Front(q) \in Seq(Nat) /\ Len(Front(q)) = Len(q) - 1 /\ Last(q) = q[Len(q)]
        /\ \A k \in 1..Len(q)-1 : Front(q)[k] = q[k]
    <3>1. Len(q) # 0
      BY <1>7
    <3>2. Len(q) \in 1..Len(q) /\ Len(q) - 1 \in Nat
      BY <1>1, <3>1
    <3>3. Front(q) = SubSeq(q, 1, Len(q) - 1) /\ Last(q) = q[Len(q)]
      BY DEF Front, Last
    <3>4. Front(q) = Upper(q, Len(q) - 1) /\ Len(q) - 1 \in 0..Len(q)
      BY <3>2, <3>3 DEF Upper
    <3>5. /\ Upper(q, Len(q) - 1) \in Seq(Nat) /\ Len(Upper(q, Len(q) - 1)) = Len(q) - 1
          /\ \A k \in 1..Len(q)-1 : Upper(q, Len(q) - 1)[k] = q[k]
      BY <3>4, UpperIs
    <3>6. QED
      BY <3>2, <3>3, <3>4, <3>5
  <2>2. r \in Seq(Nat) /\ Len(r) = Len(q) /\ r[1] = i /\ \A k \in 1..Len(q)-1 : r[k + 1] = Front(q)[k]
    <3>. DEFINE w == Front(q)
    <3>1. w \in Seq(Nat) /\ Len(w) = Len(q) - 1
      BY <2>1
    <3>. HIDE DEF w
    <3>2. /\ <<i>> \o w \in Seq(Nat) /\ Len(<<i>> \o w) = Len(w) + 1 /\ (<<i>> \o w)[1] = i
          /\ \A k \in 1..Len(w) : (<<i>> \o w)[k + 1] = w[k]
      BY <3>1, LongerIs
    <3>3. r = <<i>> \o w /\ w = Front(q)
      BY DEF w
    <3>. HIDE DEF r
    <3>4. Len(r) = Len(q) /\ \A k \in 1..Len(q)-1 : r[k + 1] = w[k]
      BY <1>1, <3>1, <3>2, <3>3
    <3>5. QED
      BY <3>2, <3>3, <3>4
  <2>. HIDE DEF r
  <2>3. ASSUME NEW k \in 1..Len(q) PROVE Front(p)[k] = r[k]
    <3>1. CASE k = 1
      BY <1>2, <1>5, <2>2, <3>1
    <3>2. CASE k # 1
      <4>1. k - 1 \in 1..Len(q)-1 /\ k - 1 \in 1..Len(q) /\ (k - 1) + 1 = k
        BY <1>1, <3>2
      <4>2. r[k] = q[k - 1] /\ p[k] = q[k - 1]
        BY <1>2, <2>1, <2>2, <4>1
      <4>3. QED
        BY <1>5, <4>2
    <3>3. QED
      BY <3>1, <3>2
  <2>4. Front(p) = r
    BY <1>5, <2>2, <2>3, SamePath
  <2>5. QED
    BY <1>2, <1>5, <2>1, <2>4 DEF r
<1>8. ASSUME NEW j \in Nat PROVE Append(p, j) = <<i>> \o Append(q, j)
  BY DEF p
<1>9. QED
  BY <1>1, <1>3, <1>4, <1>6, <1>7, <1>8 DEF p

\* Its end is that of the rest, if there is one.
LEMMA StepEnds ==
  ASSUME NEW i \in Nat, NEW q \in Seq(Nat)
  PROVE  /\ q = <<>> => Front(<<i>> \o q) = <<>> /\ Last(<<i>> \o q) = i
         /\ q # <<>> => Front(<<i>> \o q) = <<i>> \o Front(q) /\ Last(<<i>> \o q) = Last(q)
BY StepIs, ZenonT(30)

\* What is appended to the rest is appended to it.
LEMMA StepAppends ==
  ASSUME NEW i \in Nat, NEW q \in Seq(Nat), NEW j \in Nat
  PROVE  Append(<<i>> \o q, j) = <<i>> \o Append(q, j)
BY StepIs, ZenonT(30)

\* What grafting makes: the root, and every node of every child one step further down.
Grafted(m, root, children) ==
  /\ <<>> \in DOMAIN m /\ m[<<>>] = root
  /\ \A i \in 1..Len(children) : \A q \in DOMAIN children[i] : <<i>> \o q \in DOMAIN m /\ m[<<i>> \o q] = children[i][q]
  /\ \A p \in DOMAIN m : p = <<>> \/ \E i \in 1..Len(children) : \E q \in DOMAIN children[i] : p = <<i>> \o q

\* A tree that is grafted has the nodes of its children, and a root.
LEMMA GraftIs ==
  ASSUME NEW root, NEW S, NEW children \in Seq(S), \A i \in 1..Len(children) : DOMAIN children[i] \subseteq Seq(Nat)
  PROVE  Grafted(Graft(root, children), root, children)
<1>. DEFINE below == {<<i, q>> : i \in DOMAIN children, q \in UNION {DOMAIN children[j] : j \in DOMAIN children}}
            P == {<<>>} \cup {<<b[1]>> \o b[2] : b \in {c \in below : c[2] \in DOMAIN children[c[1]]}}
            m == [p \in P |-> IF p = <<>> THEN root ELSE children[Head(p)][Tail(p)]]
<1>1. Graft(root, children) = m
  BY DEF Graft
<1>2. DOMAIN children = 1..Len(children) /\ Len(children) \in Nat
  OBVIOUS
<1>3. ASSUME NEW i \in 1..Len(children), NEW q \in DOMAIN children[i] PROVE <<i>> \o q \in P
  <2>. DEFINE b == <<i, q>>
  <2>1. b \in below /\ b[1] = i /\ b[2] = q
    BY <1>2
  <2>. HIDE DEF below, b
  <2>2. <<b[1]>> \o b[2] \in P
    BY <2>1
  <2>3. QED
    BY <2>1, <2>2
<1>4. ASSUME NEW p \in P, p # <<>> PROVE \E i \in 1..Len(children) : \E q \in DOMAIN children[i] : p = <<i>> \o q
  <2>0. \A b \in below : b[1] \in 1..Len(children)
    BY <1>2
  <2>. HIDE DEF below
  <2>1. PICK b \in below : b[2] \in DOMAIN children[b[1]] /\ p = <<b[1]>> \o b[2]
    BY <1>4
  <2>2. b[1] \in 1..Len(children)
    BY <2>0
  <2>3. QED
    BY <2>1, <2>2
<1>. HIDE DEF P
<1>5. ASSUME NEW i \in 1..Len(children), NEW q \in DOMAIN children[i]
      PROVE  <<i>> \o q \in DOMAIN m /\ m[<<i>> \o q] = children[i][q]
  <2>1. i \in Nat /\ q \in Seq(Nat)
    OBVIOUS
  <2>2. <<i>> \o q # <<>> /\ Head(<<i>> \o q) = i /\ Tail(<<i>> \o q) = q
    BY <2>1, StepIs
  <2>3. QED
    BY <1>3, <2>2
<1>6. <<>> \in P
  BY DEF P
<1>7. <<>> \in DOMAIN m /\ m[<<>>] = root /\ DOMAIN m = P
  BY <1>6
<1>. HIDE DEF m
<1>8. QED
  BY <1>1, <1>4, <1>5, <1>7 DEF Grafted

\* What a composite says of the order of its children.
Ordered(node) ==
  \/ /\ node.kind = "PartialOrder" /\ node.closure \subseteq (1..node.n) \X (1..node.n)
     /\ \A e, f \in node.closure : e[2] = f[1] => <<e[1], f[2]>> \in node.closure
  \/ /\ node.kind = "ChoiceGraph" /\ node.edges \subseteq (1..node.n) \X (1..node.n)
     /\ node.start \in 1..node.n /\ node.end \in 1..node.n

\* Finitely many trees are not deeper than the deepest of them.
LEMMA DepthIsBounded ==
  ASSUME NEW S, NEW children \in Seq(S), \A i \in 1..Len(children) : IsTree(children[i])
  PROVE  \E b \in Nat : \A i \in 1..Len(children) : \A q \in DOMAIN children[i] : Len(q) <= b
<1>. DEFINE Bound(k, b) == \A i \in 1..Len(children) : i <= k => \A q \in DOMAIN children[i] : Len(q) <= b
            Bounded == {k \in Nat : \E b \in Nat : Bound(k, b)}
<1>1. Len(children) \in Nat
  OBVIOUS
<1>2. 0 \in Bounded
  <2>1. Bound(0, 0)
    OBVIOUS
  <2>2. QED
    BY <2>1
<1>3. ASSUME NEW k \in Nat, k \in Bounded PROVE k + 1 \in Bounded
  <2>1. PICK b \in Nat : Bound(k, b)
    BY <1>3
  <2>2. CASE k + 1 \notin 1..Len(children)
    <3>1. Bound(k + 1, b)
      BY <2>1, <2>2
    <3>. HIDE DEF Bound
    <3>2. QED
      BY <3>1
  <2>3. CASE k + 1 \in 1..Len(children)
    <3>1. PICK deepest \in DOMAIN children[k + 1] : \A q \in DOMAIN children[k + 1] : Len(q) <= Len(deepest)
      BY <2>3 DEF IsTree
    <3>2. DOMAIN children[k + 1] \subseteq Seq(Nat)
      BY <2>3 DEF IsTree
    <3>3. Len(deepest) \in Nat /\ \A q \in DOMAIN children[k + 1] : Len(q) \in Nat
      BY <3>2
    <3>4. ASSUME NEW i \in 1..Len(children), i <= k, NEW q \in DOMAIN children[i]
          PROVE  Len(q) \in Nat /\ Len(q) <= b
      <4>1. q \in Seq(Nat)
        BY DEF IsTree
      <4>2. QED
        BY <2>1, <3>4, <4>1
    <3>5. Bound(k + 1, b + Len(deepest))
      <4>1. SUFFICES ASSUME NEW i \in 1..Len(children), i <= k + 1, NEW q \in DOMAIN children[i]
                     PROVE  Len(q) <= b + Len(deepest)
        OBVIOUS
      <4>2. CASE i <= k
        BY <3>3, <3>4, <4>2
      <4>3. CASE i = k + 1
        BY <3>1, <3>3, <4>3
      <4>4. QED
        BY <4>1, <4>2, <4>3
    <3>. HIDE DEF Bound
    <3>6. b + Len(deepest) \in Nat
      BY <3>3
    <3>7. QED
      BY <3>5, <3>6
  <2>4. QED
    BY <2>2, <2>3
<1>. HIDE DEF Bounded
<1>4. Len(children) \in Bounded
  BY <1>1, <1>2, <1>3, NaturalInduction
<1>5. QED
  BY <1>4 DEF Bounded

\* Trees under a root that is a leaf without children, or that orders as many
\* children as there are, are a tree.
LEMMA GraftTree ==
  ASSUME NEW root, NEW S, NEW children \in Seq(S), \A i \in 1..Len(children) : IsTree(children[i]),
         \/ IsLeaf(root) /\ Len(children) = 0
         \/ ~IsLeaf(root) /\ root.n = Len(children) /\ Ordered(root)
  PROVE  IsTree(Graft(root, children))
<1>. DEFINE m == Graft(root, children)
            n == Len(children)
<1>1. n \in Nat
  OBVIOUS
<1>2. \A i \in 1..n : DOMAIN children[i] \subseteq Seq(Nat)
  BY DEF IsTree
<1>3. /\ <<>> \in DOMAIN m /\ m[<<>>] = root
      /\ \A i \in 1..n : \A q \in DOMAIN children[i] : <<i>> \o q \in DOMAIN m /\ m[<<i>> \o q] = children[i][q]
      /\ \A p \in DOMAIN m : p = <<>> \/ \E i \in 1..n : \E q \in DOMAIN children[i] : p = <<i>> \o q
  <2>1. Grafted(m, root, children)
    BY <1>2, GraftIs
  <2>2. QED
    BY <2>1 DEF Grafted
<1>. HIDE DEF m, n
<1>4. ASSUME NEW i \in 1..n, NEW q \in DOMAIN children[i]
      PROVE  i \in Nat /\ q \in Seq(Nat) /\ IsTree(children[i])
  BY <1>1, <1>2 DEF n
<1>5. DOMAIN m \subseteq Seq(Nat)
  <2>1. ASSUME NEW i \in 1..n, NEW q \in DOMAIN children[i] PROVE <<i>> \o q \in Seq(Nat)
    BY <1>4, StepIs
  <2>2. ASSUME NEW p \in DOMAIN m, p # <<>> PROVE p \in Seq(Nat)
    BY <1>3, <2>1, <2>2
  <2>3. <<>> \in Seq(Nat)
    OBVIOUS
  <2>4. QED
    BY <2>2, <2>3
<1>6. \E deepest \in DOMAIN m : \A p \in DOMAIN m : Len(p) <= Len(deepest)
  <2>1. PICK b \in Nat : \A i \in 1..n : \A q \in DOMAIN children[i] : Len(q) <= b
    BY DepthIsBounded DEF n
  <2>2. ASSUME NEW p \in DOMAIN m PROVE Len(p) \in Nat /\ Len(p) <= b + 1
    <3>1. CASE p = <<>>
      BY <3>1
    <3>2. CASE p # <<>>
      <4>0. PICK i \in 1..n : \E q \in DOMAIN children[i] : p = <<i>> \o q
        BY <1>3, <3>2
      <4>1. PICK q \in DOMAIN children[i] : p = <<i>> \o q
        BY <4>0
      <4>2. Len(p) = Len(q) + 1 /\ Len(q) \in Nat
        BY <1>4, <4>1, LongerIs
      <4>3. QED
        BY <2>1, <4>2
    <3>3. QED
      BY <3>1, <3>2
  <2>. DEFINE Short == {k \in Nat : \E p \in DOMAIN m : k = b + 1 - Len(p)}
  <2>3. ASSUME NEW p \in DOMAIN m PROVE b + 1 - Len(p) \in Short
    BY <2>2
  <2>4. PICK k \in Short : \A j \in Short : k <= j
    <3>1. Short # {} /\ Short \in SUBSET Nat
      BY <1>3, <2>3
    <3>. HIDE DEF Short
    <3>2. QED
      BY <3>1, LeastNatural
  <2>5. PICK deepest \in DOMAIN m : k = b + 1 - Len(deepest)
    BY <2>4
  <2>. HIDE DEF Short
  <2>6. ASSUME NEW p \in DOMAIN m PROVE Len(p) <= Len(deepest)
    BY <2>2, <2>3, <2>4, <2>5
  <2>7. QED
    BY <2>6
<1>7. ASSUME NEW i \in 1..n, NEW q \in DOMAIN children[i]
      PROVE  <<i>> \o q \in Composites(m) <=> q \in Composites(children[i])
  BY <1>3 DEF Composites, Leaves
<1>8. ASSUME NEW p \in DOMAIN m \ {<<>>}
      PROVE  Front(p) \in Composites(m) /\ Last(p) \in 1..m[Front(p)].n
  <2>0. PICK i \in 1..n : \E q \in DOMAIN children[i] : p = <<i>> \o q
    BY <1>3
  <2>1. PICK q \in DOMAIN children[i] : p = <<i>> \o q
    BY <2>0
  <2>2. i \in Nat /\ q \in Seq(Nat) /\ IsTree(children[i])
    BY <1>4
  <2>3. CASE q = <<>>
    <3>1. Front(p) = <<>> /\ Last(p) = i
      BY <2>1, <2>2, <2>3, StepEnds
    <3>2. ~IsLeaf(root) /\ root.n = n
      BY <1>1 DEF n
    <3>3. QED
      BY <1>3, <3>1, <3>2 DEF Composites, Leaves
  <2>4. CASE q # <<>>
    <3>1. Front(p) = <<i>> \o Front(q) /\ Last(p) = Last(q)
      BY <2>1, <2>2, <2>4, StepEnds
    <3>2. Front(q) \in Composites(children[i]) /\ Last(q) \in 1..children[i][Front(q)].n
      BY <2>2, <2>4 DEF IsTree
    <3>3. Front(q) \in DOMAIN children[i]
      BY <3>2 DEF Composites
    <3>4. QED
      BY <1>3, <1>7, <3>1, <3>2, <3>3
  <2>5. QED
    BY <2>3, <2>4
<1>9. ASSUME NEW p \in Composites(m)
      PROVE  m[p].n \in Nat /\ (\A j \in 1..m[p].n : Append(p, j) \in DOMAIN m) /\ Ordered(m[p])
  <2>1. p \in DOMAIN m /\ ~IsLeaf(m[p])
    BY DEF Composites, Leaves
  <2>2. CASE p = <<>>
    <3>1. root.n = n /\ Ordered(root)
      BY <1>3, <2>1, <2>2 DEF n
    <3>2. ASSUME NEW j \in 1..n PROVE Append(p, j) \in DOMAIN m
      <4>1. <<>> \in DOMAIN children[j]
        BY DEF IsTree, n
      <4>2. Append(<<>>, j) = <<j>> \o <<>>
        OBVIOUS
      <4>3. QED
        BY <1>3, <2>2, <4>1, <4>2
    <3>3. QED
      BY <1>1, <1>3, <2>2, <3>1, <3>2
  <2>3. CASE p # <<>>
    <3>0. PICK i \in 1..n : \E q \in DOMAIN children[i] : p = <<i>> \o q
      BY <1>3, <2>1, <2>3
    <3>1. PICK q \in DOMAIN children[i] : p = <<i>> \o q
      BY <3>0
    <3>2. i \in Nat /\ q \in Seq(Nat) /\ IsTree(children[i]) /\ q \in Composites(children[i]) /\ m[p] = children[i][q]
      BY <1>3, <1>4, <1>7, <3>1
    <3>3. m[p].n \in Nat /\ Ordered(m[p]) /\ \A j \in 1..m[p].n : Append(q, j) \in DOMAIN children[i]
      BY <3>2 DEF IsTree, Ordered
    <3>4. ASSUME NEW j \in 1..m[p].n PROVE Append(p, j) \in DOMAIN m
      <4>0. j \in Nat
        BY <3>3
      <4>1. Append(p, j) = <<i>> \o Append(q, j)
        BY <3>1, <3>2, <4>0, StepAppends
      <4>2. QED
        BY <1>3, <3>3, <4>1
    <3>5. QED
      BY <3>3, <3>4
  <2>4. QED
    BY <2>2, <2>3
<1>10. IsTree(m)
  BY <1>3, <1>5, <1>6, <1>8, <1>9 DEF IsTree, Ordered
<1>11. QED
  BY <1>10 DEF m

\* The constructors make trees (algebra.py): whatever is made of atoms and of
\* silent leaves by ordering trees and by choosing between them is one, so the
\* assumption the sessions make of their models is met by every model that can
\* be constructed.
THEOREM ConstructorsMakeTrees ==
  /\ \A label : IsTree(Atom(label)) /\ IsTree(Silent(label))
  /\ \A S : \A children \in Seq(S) : \A edges \in SUBSET ((1..Len(children)) \X (1..Len(children))) : \A freq :
       (\A i \in 1..Len(children) : IsTree(children[i])) =>
         /\ IsTree(PartialOrder(children, edges, freq))
         /\ Len(children) # 0 => IsTree(ChoiceGraph(children, edges, freq))
<1>1. ASSUME NEW label PROVE IsTree(Atom(label)) /\ IsTree(Silent(label))
  <2>. DEFINE atom == [kind |-> "Atom", label |-> label]
              silent == [kind |-> "Silent", label |-> label]
              none == <<>>
  <2>1. IsLeaf(atom) /\ IsLeaf(silent) /\ none \in Seq(Nat) /\ Len(none) = 0
    BY DEF IsLeaf
  <2>2. \A i \in 1..Len(none) : IsTree(none[i])
    BY <2>1
  <2>. HIDE DEF atom, silent, none
  <2>3. IsTree(Graft(atom, none)) /\ IsTree(Graft(silent, none))
    BY <2>1, <2>2, GraftTree
  <2>4. QED
    BY <2>3 DEF atom, silent, none, Atom, Silent
<1>2. ASSUME NEW S, NEW children \in Seq(S), \A i \in 1..Len(children) : IsTree(children[i]),
             NEW edges \in SUBSET ((1..Len(children)) \X (1..Len(children))), NEW freq
      PROVE  /\ IsTree(PartialOrder(children, edges, freq))
             /\ Len(children) # 0 => IsTree(ChoiceGraph(children, edges, freq))
  <2>. DEFINE n == Len(children)
              closure == TransitiveClosure(edges, n)
              order == [kind |-> "PartialOrder", n |-> n, freq |-> freq, closure |-> closure]
              choice == [kind |-> "ChoiceGraph", n |-> n, freq |-> freq, edges |-> edges, start |-> 1, end |-> n]
  <2>1. n \in Nat
    OBVIOUS
  <2>2. closure \subseteq (1..n) \X (1..n) /\ Transitive(closure)
    BY <2>1, ClosureIs
  <2>. HIDE DEF closure
  <2>3. ~IsLeaf(order) /\ order.n = n /\ Ordered(order)
    BY <2>2 DEF IsLeaf, Ordered, Transitive
  <2>4. ASSUME n # 0 PROVE ~IsLeaf(choice) /\ choice.n = n /\ Ordered(choice)
    BY <2>1, <2>4 DEF IsLeaf, Ordered
  <2>. HIDE DEF order, choice
  <2>5. IsTree(Graft(order, children)) /\ (n # 0 => IsTree(Graft(choice, children)))
    BY <1>2, <2>3, <2>4, GraftTree
  <2>6. QED
    BY <2>5 DEF closure, order, choice, PartialOrder, ChoiceGraph
<1>3. QED
  BY <1>1, <1>2

=============================================================================
