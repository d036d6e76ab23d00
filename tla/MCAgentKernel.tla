--------------------------- MODULE MCAgentKernel ---------------------------
(* Small graphs for model checking the kernel. *)
EXTENDS AgentKernel, TLC

SlotSymmetry == Permutations(Slot)

\* All successors live, no rewind.
Plain(nodes, edges) == [n \in nodes |-> {{m \in nodes : <<n, m>> \in edges}}]
NoRewind(nodes) == [n \in nodes |-> {}]

\* A decision d picks a or b; a side branch w runs beside it; the review r joins
\* everything and may rewind to the decision or to the root.
ReviewNode == {"t", "w", "d", "a", "b", "r"}
ReviewEdge == {<<"t", "w">>, <<"t", "d">>, <<"d", "a">>, <<"d", "b">>,
               <<"a", "r">>, <<"b", "r">>, <<"w", "r">>}
ReviewEntry == {"t"}
ReviewLive == [Plain(ReviewNode, ReviewEdge) EXCEPT !["d"] = {{"a"}, {"b"}}]
ReviewRewind == [NoRewind(ReviewNode) EXCEPT !["r"] = {"t", "d", BadTarget}]

\* The review rewinds while a sibling of the rewound branch may be running:
\* t feeds a and r, a feeds c, r may rewind to t; w is independent and feeds c.
RaceNode == {"t", "w", "a", "r", "c"}
RaceEdge == {<<"t", "a">>, <<"t", "r">>, <<"a", "c">>, <<"w", "c">>}
RaceEntry == {"t", "w"}
RaceLive == Plain(RaceNode, RaceEdge)
RaceRewind == [NoRewind(RaceNode) EXCEPT !["r"] = {"t"}]

\* A decision d beside the review: the not-taken branch of the fresh pass may
\* still be executing from the pass that was rewound.
SkipNode == {"t", "d", "a", "b", "r"}
SkipEdge == {<<"t", "d">>, <<"t", "r">>, <<"d", "a">>, <<"d", "b">>}
SkipEntry == {"t"}
SkipLive == [Plain(SkipNode, SkipEdge) EXCEPT !["d"] = {{"a"}, {"b"}}]
SkipRewind == [NoRewind(SkipNode) EXCEPT !["r"] = {"t"}]

\* Two independent chains.
ChainNode == {"a", "b", "c", "d"}
ChainEdge == {<<"a", "b">>, <<"c", "d">>}
ChainEntry == {"a", "c"}
ChainLive == Plain(ChainNode, ChainEdge)
ChainRewind == NoRewind(ChainNode)

\* The smallest graph where a rewind finds a chain still executing.
LoopNode == {"t", "a", "c", "r"}
LoopEdge == {<<"t", "a">>, <<"t", "r">>, <<"a", "c">>}
LoopEntry == {"t"}
LoopLive == Plain(LoopNode, LoopEdge)
LoopRewind == [NoRewind(LoopNode) EXCEPT !["r"] = {"t"}]

\* A decision, then a question: the run parks and is resumed.
AskNode == {"d", "a", "b", "k"}
AskEdge == {<<"d", "a">>, <<"d", "b">>, <<"a", "k">>, <<"b", "k">>}
AskEntry == {"d"}
AskLive == [Plain(AskNode, AskEdge) EXCEPT !["d"] = {{"a"}, {"b"}}]
AskRewind == NoRewind(AskNode)

\* Two branches e and a of the race graph join in c, beside two independent ones.
WideNode == {"t", "a", "e", "c", "w", "x"}
WideEdge == {<<"t", "a">>, <<"t", "e">>, <<"a", "c">>, <<"e", "c">>, <<"w", "c">>, <<"x", "c">>}
WideEntry == {"t", "w", "x"}
WideLive == Plain(WideNode, WideEdge)
WideRewind == [NoRewind(WideNode) EXCEPT !["w"] = {"t"}]

\* A review at the end that may rewind to k, below the branch a that d may leave.
TargetNode == {"d", "a", "b", "k", "r"}
TargetEdge == {<<"d", "a">>, <<"d", "b">>, <<"a", "k">>, <<"k", "r">>, <<"b", "r">>}
TargetEntry == {"d"}
TargetLive == [Plain(TargetNode, TargetEdge) EXCEPT !["d"] = {{"a"}, {"b"}}]
TargetRewind == [NoRewind(TargetNode) EXCEPT !["r"] = {"k"}]
=============================================================================
