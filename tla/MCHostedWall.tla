---------------------------- MODULE MCHostedWall ----------------------------
(* Small instances of HostedWall.  Totals are in tens: MinDelta is one ten. *)
EXTENDS WallProperties

CONSTANTS p1, p2, w1, s1, s2, s3, phone, desk

Row(n) == [total |-> n, tokens |-> "available", status |-> "available",
           failed |-> FALSE, held |-> FALSE]
Snap(n, date) == [total |-> n, date |-> date, dataStatus |-> "available",
                 agents |-> [codex |-> Row(n)]]

\* One device: growth above the gate, and a new day.
ShortFeed == [d \in {desk} |-> <<Snap(100, 1), Snap(120, 1), Snap(120, 2)>>]
TwoFeeds == [d \in {desk, phone} |-> IF d = desk THEN <<Snap(100, 1), Snap(130, 1)>>
                                                 ELSE <<Snap(115, 1)>>]

\* One scan has lost the agent that was measured, at a total that is larger.
LossyFeed ==
    [d \in {desk} |-> <<Snap(100, 1), [Snap(120, 1) EXCEPT !.agents = [cursor |-> Row(120)]],
                       Snap(120, 1), Snap(120, 2)>>]
ServerOfTwo == [h \in Handlers |-> IF h = p2 THEN s2 ELSE s1]
ServerOfThree == [h \in Handlers |-> CASE h = p1 -> s1 [] h = p2 -> s2 [] h = w1 -> s3]
ServerOfOne == [h \in Handlers |-> s1]
=============================================================================
