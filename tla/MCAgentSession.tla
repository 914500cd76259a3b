--------------------------- MODULE MCAgentSession ---------------------------
(***************************************************************************)
(* A small instance of AgentSession: three activities, and trees with      *)
(* concurrency, repetition, exclusive branches and a loop.                 *)
(***************************************************************************)
EXTENDS AgentSession

Start == Silent("start")
End   == Silent("end")

\* a, then b and c in any order.
Ordered == PartialOrder(<<Atom("a"), Atom("b"), Atom("c")>>, {<<1, 2>>, <<1, 3>>}, Once)

\* b before a, which an a done earlier violates, once or twice.
Twice == PartialOrder(<<Atom("b"), Atom("a")>>, {<<1, 2>>}, Frequency(1, 2))

\* a, then either b or c.
Branch == ChoiceGraph(<<Start, Atom("b"), Atom("c"), End>>, {<<1, 2>>, <<1, 3>>, <<2, 4>>, <<3, 4>>}, Once)
Nested == PartialOrder(<<Atom("a"), Branch>>, {<<1, 2>>}, Once)

\* a over and over, the whole as often as one likes.
Loop == ChoiceGraph(<<Start, Atom("a"), End>>, {<<1, 2>>, <<2, 2>>, <<2, 3>>}, Frequency(1, Unbounded))

MCModels == [ordered |-> Ordered, twice |-> Twice, nested |-> Nested, loop |-> Loop]

\* A rollout that ends at once, and one that comes back for a second action.
MCSteps == {0, 2}
=============================================================================
