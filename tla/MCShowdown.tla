---------------------------- MODULE MCShowdown ----------------------------
(* Values of Showdown's constants for TLC: six boards that make every kind *)
(* of hand, and the ways to deal eight hole cards to four seats.             *)
EXTENDS Showdown

C(rank, suit) == [rank |-> rank, suit |-> suit]

Boards == {
  <<C(2, "s"), C(3, "s"), C(4, "h"), C(11, "s"), C(13, "d")>>,      \* wheel, flushes
  <<C(10, "s"), C(11, "s"), C(12, "s"), C(5, "h"), C(5, "d")>>,    \* straight flush, boats
  <<C(7, "s"), C(7, "h"), C(8, "d"), C(8, "c"), C(9, "c")>>,       \* two pair on the board
  <<C(6, "s"), C(6, "h"), C(6, "d"), C(14, "h"), C(3, "c")>>,      \* trips, quads
  <<C(10, "h"), C(11, "d"), C(12, "c"), C(13, "s"), C(14, "d")>>,  \* plays for all
  <<C(14, "s"), C(2, "h"), C(3, "d"), C(4, "c"), C(11, "h")>> }    \* low ace

Pool == <<C(14, "c"), C(5, "s"), C(6, "c"), C(9, "h"), C(8, "s"), C(13, "h"), C(9, "s"), C(5, "c")>>

\* Who is dealt which two cards of the pool.
Hands4 == { <<1,2, 3,4, 5,6, 7,8>>, <<1,3, 2,5, 4,7, 6,8>>, <<1,8, 3,5, 4,6, 2,7>>,
            <<1,6, 2,8, 4,5, 3,7>>, <<1,5, 3,2, 8,7, 6,4>>, <<5,7, 1,2, 3,8, 4,6>> }

MCDealings ==
  {[board |-> b, hole |-> [s \in 0..3 |-> <<Pool[h[2*s + 1]], Pool[h[2*s + 2]]>>]] :
     b \in Boards, h \in Hands4}
MCOneDealing == CHOOSE d \in MCDealings : TRUE
MCContributions == {[s \in 0..3 |-> 1 + ((s + k) % 4)] : k \in 0..3}
                     \cup {[s \in 0..3 |-> IF s = k THEN 1 ELSE 3] : k \in 0..3}
===========================================================================
