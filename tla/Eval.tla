------------------------------ MODULE Eval ------------------------------
(* Hand evaluation (server/internal/eval/eval.go): the score of the best  *)
(* five of up to seven cards, as the code packs it into one integer, and  *)
(* beside it the rules of poker it stands for (StrongerThan), stated      *)
(* without scores.  A card is a rank and a suit; hands are sequences.     *)
EXTENDS Integers, Sequences, FiniteSets

CONSTANTS Suits,
          KickerRadix,     \* 2^8 in the code: each kicker has eight bits
          CategoryUnit     \* 2^60 in the code: the category is on top

\* deck.go:9
ASSUME SuitsAssumption == IsFiniteSet(Suits) /\ Cardinality(Suits) = 4

ASSUME PackingAssumption ==
  /\ KickerRadix \in Nat /\ KickerRadix > 14
  /\ CategoryUnit \in Nat
  /\ CategoryUnit >= KickerRadix * (KickerRadix * (KickerRadix * (KickerRadix * KickerRadix)))

Ranks == 2..14                \* an ace is 14
Cards == [rank : Ranks, suit : Suits]

HighCard == 0
OnePair == 1
TwoPair == 2
ThreeOfAKind == 3
Straight == 4
Flush == 5
FullHouse == 6
FourOfAKind == 7
StraightFlush == 8
---------------------------------------------------------------------------
RanksOf(h) == {h[i].rank : i \in DOMAIN h}
Count(h, r) == Cardinality({i \in DOMAIN h : h[i].rank = r})
OneSuit(h) == \E u \in Suits : \A i \in DOMAIN h : h[i].suit = u

\* The ranks of a hand from high to low, repeated as often as they occur.
Descending(h) ==
  LET Above(r) == Cardinality({i \in DOMAIN h : h[i].rank > r})
  IN  [n \in DOMAIN h |-> CHOOSE r \in RanksOf(h) :
                            Above(r) < n /\ n <= Above(r) + Count(h, r)]

\* The different ranks, those that occur more often first, then from high to low.
Groups(h) ==
  LET Before(q, r) == Count(h, q) > Count(h, r) \/ (Count(h, q) = Count(h, r) /\ q > r)
  IN  [n \in 1..Cardinality(RanksOf(h)) |->
         CHOOSE r \in RanksOf(h) : Cardinality({q \in RanksOf(h) : Before(q, r)}) = n - 1]

\* Mutant of StraightHigh: an ace is only high.
StraightNoWheel(h) ==
  LET ranks == Descending(h)
  IN  IF Cardinality(RanksOf(h)) = 5 /\ ranks[1] - ranks[5] = 4 THEN ranks[1] ELSE 0
\* isStraight: the rank of the straight's high card, 0 when there is none.
StraightHigh(h) ==
  LET ranks == Descending(h)
  IN  IF Cardinality(RanksOf(h)) < 5 THEN 0
      ELSE IF ranks[1] - ranks[5] = 4 THEN ranks[1]
      ELSE IF ranks = <<14, 5, 4, 3, 2>> THEN 5 ELSE 0

\* pack: five kickers below the category, missing ones as zero.
Pack(category, kickers) ==
  LET K(i) == IF i <= Len(kickers) THEN kickers[i] ELSE 0
  IN  category * CategoryUnit +
        ((((K(1) * KickerRadix + K(2)) * KickerRadix + K(3)) * KickerRadix
            + K(4)) * KickerRadix + K(5))

\* score5, for exactly five cards.
Score5(h) ==
  LET high == StraightHigh(h)
      groups == Groups(h)
      Size(n) == IF n <= Len(groups) THEN Count(h, groups[n]) ELSE 0
  IN  IF OneSuit(h) /\ high > 0 THEN Pack(StraightFlush, <<high>>)
      ELSE IF Size(1) = 4 THEN Pack(FourOfAKind, groups)
      ELSE IF Size(1) = 3 /\ Size(2) >= 2 THEN Pack(FullHouse, groups)
      ELSE IF OneSuit(h) THEN Pack(Flush, Descending(h))
      ELSE IF high > 0 THEN Pack(Straight, <<high>>)
      ELSE IF Size(1) = 3 THEN Pack(ThreeOfAKind, groups)
      ELSE IF Size(1) = 2 /\ Size(2) = 2 THEN Pack(TwoPair, groups)
      ELSE IF Size(1) = 2 THEN Pack(OnePair, groups)
      ELSE Pack(HighCard, Descending(h))
---------------------------------------------------------------------------
\* evaluate walks through the choices of five among n cards: the last index that
\* can grow grows, and those after it follow closely.
Finished == <<>>
Growing(idx, n) == {i \in DOMAIN idx : idx[i] # n - 5 + i}
\* Mutant of NextSelection: the indexes after it stay where they are.
NextSelectionAlone(idx, n) ==
  IF Growing(idx, n) = {} THEN Finished
  ELSE LET i == CHOOSE i \in Growing(idx, n) : \A j \in Growing(idx, n) : j <= i
       IN  [idx EXCEPT ![i] = @ + 1]
NextSelection(idx, n) ==
  IF Growing(idx, n) = {} THEN Finished
  ELSE LET i == CHOOSE i \in Growing(idx, n) : \A j \in Growing(idx, n) : j <= i
       IN  [j \in DOMAIN idx |-> IF j < i THEN idx[j] ELSE idx[i] + 1 + j - i]

MaxSelections == 21              \* seven cards allow no more
Selections(n) ==
  LET walk[k \in 1..MaxSelections] == IF k = 1 THEN <<1, 2, 3, 4, 5>> ELSE NextSelection(walk[k - 1], n)
  IN  {walk[k] : k \in 1..MaxSelections} \ {Finished}

Pick(cards, idx) == [i \in DOMAIN idx |-> cards[idx[i]]]

Evaluate7(cards) ==
  LET scores == {Score5(Pick(cards, idx)) : idx \in Selections(Len(cards))}
  IN  CHOOSE best \in scores : \A other \in scores : other <= best
---------------------------------------------------------------------------
\* The rules of poker.  Five cards in a row, an ace also below a two.
RunTo(top) == {IF r = 1 THEN 14 ELSE r : r \in (top - 4)..top}
RunsOf(h) == {top \in 5..14 : RanksOf(h) = RunTo(top)}
Times(h, n) == {r \in RanksOf(h) : Count(h, r) = n}

Kind(h) ==
  CASE RunsOf(h) # {} /\ OneSuit(h)            -> StraightFlush
    [] Times(h, 4) # {}                        -> FourOfAKind
    [] Times(h, 3) # {} /\ Times(h, 2) # {}    -> FullHouse
    [] OneSuit(h) /\ RunsOf(h) = {}            -> Flush
    [] RunsOf(h) # {} /\ ~OneSuit(h)           -> Straight
    [] Times(h, 3) # {} /\ Times(h, 2) = {}    -> ThreeOfAKind
    [] Cardinality(Times(h, 2)) = 2            -> TwoPair
    [] Cardinality(Times(h, 2)) = 1 /\ Times(h, 3) = {} -> OnePair
    [] OTHER                                   -> HighCard

\* Of two hands of a kind the one with the higher run, or else with the higher rank
\* where they first differ, ranks that occur more often being looked at first.
Tops(h, n) == IF RunsOf(h) # {} THEN (IF n = 1 THEN RunsOf(h) ELSE {}) ELSE Times(h, n)
HigherTops(h, o) ==
  \E n \in 1..4 :
    /\ \A more \in (n + 1)..4 : Tops(h, more) = Tops(o, more)
    /\ \E r \in Tops(h, n) \ Tops(o, n) : \A q \in Tops(o, n) \ Tops(h, n) : q < r

StrongerThan(h, o) == Kind(h) > Kind(o) \/ (Kind(h) = Kind(o) /\ HigherTops(h, o))

\* A holding is worth its strongest five cards.
FivesOf(cards) ==
  {[i \in five |-> cards[i]] : five \in {S \in SUBSET DOMAIN cards : Cardinality(S) = 5}}
Strongest(cards) ==
  CHOOSE h \in FivesOf(cards) : \A o \in FivesOf(cards) : ~StrongerThan(o, h)
==========================================================================
