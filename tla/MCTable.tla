---------------------------- MODULE MCTable ----------------------------
(* Values of Table's constants for TLC. *)
EXTENDS TableProperties, TLC

CONSTANTS ann, bob, cyd

Chairs == 0..(MaxSeats - 1)
Symmetric == Permutations(Users)

TwoDeals == {[s \in Chairs |-> 1], [s \in Chairs |-> s]}
OneDeal == {[s \in Chairs |-> s]}

Plain(kind) == [kind |-> kind, amount |-> 0]
To(kind, amount) == [kind |-> kind, amount |-> amount]

\* Every action there is; raises to 4 are the smallest over a big blind of 2.
AllIntents == {Plain("fold"), Plain("check"), Plain("call"), Plain("allin"),
               To("bet", 2), To("raise", 4), To("raise", 5)}
FewIntents == {Plain("fold"), Plain("check"), Plain("call"), Plain("allin")}
MinIntents == {Plain("fold"), Plain("call")}
FoldIntents == {Plain("fold")}
QuickIntents == {Plain("fold"), Plain("allin")}

AllPreActions == {Plain("none"), Plain("check_fold"), Plain("call_any"), To("raise_to", 4)}
FewPreActions == {Plain("call_any")}
NoPreActions == {}
========================================================================
