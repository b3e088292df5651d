-------------------------- MODULE GameLine_proofs --------------------------
(***************************************************************************)
(* What the operations on a game return, for every game: a game again,     *)
(* with its cursor on one of its positions.                                *)
(***************************************************************************)
EXTENDS GameLine, NatFacts

(* The parts of a game, and what makes a game of such parts.               *)
LEMMA GameParts ==
    ASSUME NEW g \in Game
    PROVE  /\ g = [pos |-> g.pos, mv |-> g.mv, cur |-> g.cur, half0 |-> g.half0]
           /\ g.pos \in Seq(Position)
           /\ g.mv \in Seq(Move)
           /\ Len(g.mv) = Len(g.pos) - 1
           /\ g.cur \in 1..Len(g.pos)
           /\ g.half0 \in Nat
BY DEF Game

LEMMA MakeGame ==
    ASSUME NEW pos \in Seq(Position), NEW mv \in Seq(Move),
           Len(pos) = Len(mv) + 1,
           NEW cur \in 1..Len(pos), NEW half0 \in Nat
    PROVE  [pos |-> pos, mv |-> mv, cur |-> cur, half0 |-> half0] \in Game
BY DEF Game

(* The position under the cursor is a position.                            *)
LEMMA CurrentPositionType ==
    ASSUME NEW g \in Game
    PROVE  CurrentPosition(g) \in Position
BY DEF Game, CurrentPosition

(* A game set up from a position is a game.                                *)
LEMMA GameFromType ==
    ASSUME NEW p \in Position, NEW n \in Nat
    PROVE  GameFrom(p, n) \in Game
<1>1. <<p>> \in Seq(Position) /\ Len(<<p>>) = 1
  OBVIOUS
<1>2. << >> \in Seq(Move) /\ Len(<< >>) = 0
  OBVIOUS
<1>3. 1 \in 1..Len(<<p>>) /\ Len(<<p>>) = Len(<< >>) + 1
  BY <1>1, <1>2
<1> QED
  BY <1>1, <1>2, <1>3, MakeGame DEF GameFrom

LEMMA GameCreateType == GameCreate \in Game
BY GameFromType, StartAssumption DEF GameCreate

(* Dropping the moves ahead of the cursor leaves a game that ends at it.   *)
LEMMA GameTruncateType ==
    ASSUME NEW g \in Game
    PROVE  /\ GameTruncate(g) \in Game
           /\ Len(GameTruncate(g).pos) = g.cur
<1>1. /\ g.cur \in 1..Len(g.pos)
      /\ Len(g.mv) = Len(g.pos) - 1
      /\ g.pos \in Seq(Position) /\ g.mv \in Seq(Move)
      /\ g.half0 \in Nat
  BY GameParts
<1>2. /\ SubSeq(g.pos, 1, g.cur) \in Seq(Position)
      /\ Len(SubSeq(g.pos, 1, g.cur)) = g.cur
  BY <1>1
<1>3. /\ SubSeq(g.mv, 1, g.cur - 1) \in Seq(Move)
      /\ Len(SubSeq(g.mv, 1, g.cur - 1)) = g.cur - 1
  BY <1>1
<1>4. /\ g.cur \in 1..Len(SubSeq(g.pos, 1, g.cur))
      /\ Len(SubSeq(g.pos, 1, g.cur)) = Len(SubSeq(g.mv, 1, g.cur - 1)) + 1
  BY <1>1, <1>2, <1>3
<1>5. GameTruncate(g) \in Game
  BY <1>1, <1>2, <1>3, <1>4, MakeGame DEF GameTruncate
<1> QED
  BY <1>2, <1>5 DEF GameTruncate

(* A legal move appended gives a game that ends after the move.            *)
LEMMA GameAppendType ==
    ASSUME NEW g \in Game, NEW m \in Move
    PROVE  GameAppend(g, m) \in Game
<1> DEFINE p == Play[CurrentPosition(g)][m]
<1>1. /\ g.cur \in 1..Len(g.pos)
      /\ Len(g.mv) = Len(g.pos) - 1
      /\ g.pos \in Seq(Position) /\ g.mv \in Seq(Move)
      /\ g.half0 \in Nat
  BY GameParts
<1>2. p \in Position
  BY CurrentPositionType, PlayAssumption
<1>3. /\ SubSeq(g.pos, 1, g.cur) \in Seq(Position)
      /\ Len(SubSeq(g.pos, 1, g.cur)) = g.cur
  BY <1>1
<1>4. /\ SubSeq(g.mv, 1, g.cur - 1) \in Seq(Move)
      /\ Len(SubSeq(g.mv, 1, g.cur - 1)) = g.cur - 1
  BY <1>1
<1> HIDE DEF p
<1>5. /\ Append(SubSeq(g.pos, 1, g.cur), p) \in Seq(Position)
      /\ Len(Append(SubSeq(g.pos, 1, g.cur), p)) = g.cur + 1
  BY <1>2, <1>3
<1>6. /\ Append(SubSeq(g.mv, 1, g.cur - 1), m) \in Seq(Move)
      /\ Len(Append(SubSeq(g.mv, 1, g.cur - 1), m)) = g.cur
  BY <1>1, <1>4
<1> DEFINE q == Append(SubSeq(g.pos, 1, g.cur), p)
           r == Append(SubSeq(g.mv, 1, g.cur - 1), m)
<1>7. GameAppend(g, m) = [pos |-> q, mv |-> r, cur |-> g.cur + 1, half0 |-> g.half0]
  BY DEF GameAppend, p
<1>8. /\ q \in Seq(Position) /\ Len(q) = g.cur + 1
      /\ r \in Seq(Move) /\ Len(r) = g.cur
  BY <1>5, <1>6
<1>9. g.cur \in Nat
  BY <1>1
<1> HIDE DEF q, r
<1>10. g.cur + 1 \in 1..Len(q) /\ Len(q) = Len(r) + 1
  BY <1>8, <1>9
<1> QED
  BY <1>1, <1>7, <1>8, <1>10, MakeGame

(* The cursor stays on the line.                                           *)
LEMMA CursorType ==
    ASSUME NEW g \in Game
    PROVE  /\ \A i \in 1..Len(g.pos) : [g EXCEPT !.cur = i] \in Game
           /\ CanRevert(g) => GameRevert(g) \in Game
           /\ CanForward(g) => GameForward(g) \in Game
<1>1. ASSUME NEW i \in 1..Len(g.pos) PROVE [g EXCEPT !.cur = i] \in Game
  <2>1. /\ [g EXCEPT !.cur = i] \in [pos : Seq(Position), mv : Seq(Move),
                                     cur : Nat, half0 : Nat]
        /\ [g EXCEPT !.cur = i].cur = i
        /\ [g EXCEPT !.cur = i].pos = g.pos
        /\ [g EXCEPT !.cur = i].mv = g.mv
    BY DEF Game
  <2> QED
    BY <2>1, GameParts DEF Game
<1>2. g.cur \in 1..Len(g.pos) /\ Len(g.pos) \in Nat
  BY GameParts
<1>3. ASSUME CanRevert(g) PROVE GameRevert(g) \in Game
  <2>1. g.cur - 1 \in 1..Len(g.pos)
    BY <1>2, <1>3 DEF CanRevert
  <2> QED
    BY <1>1, <2>1 DEF GameRevert
<1>4. ASSUME CanForward(g) PROVE GameForward(g) \in Game
  <2>1. g.cur + 1 \in 1..Len(g.pos)
    BY <1>2, <1>4 DEF CanForward
  <2> QED
    BY <1>1, <2>1 DEF GameForward
<1> QED
  BY <1>1, <1>3, <1>4

(* There is a move ahead of a cursor that is not at the end.               *)
LEMMA MoveToNextType ==
    ASSUME NEW g \in Game, HasMoveToNext(g)
    PROVE  MoveToNext(g) \in Move
BY DEF Game, HasMoveToNext, MoveToNext

(* A game that continues another has a position for each of its cursors.   *)
LEMMA GameContinuesLength ==
    ASSUME NEW a \in Game, NEW b \in Game, GameContinues(a, b)
    PROVE  b.cur \in 1..Len(a.pos)
BY DEF Game, GameContinues

-----------------------------------------------------------------------------
(* The half move count.                                                    *)

(* Where a game can no longer go back behind.                              *)
NoReturn(g) == {i \in 1..(g.cur - 1) : <<g.pos[i], g.mv[i]>> \in Irreversible}

(* Counted from the last such move, or from the first position on.         *)
LEMMA HalfMoveCountIs ==
    ASSUME NEW g \in Game
    PROVE  /\ NoReturn(g) = {} => HalfMoveCount(g) = g.half0 + g.cur - 1
           /\ NoReturn(g) # {} =>
                \E last \in NoReturn(g) :
                    /\ \A j \in NoReturn(g) : j <= last
                    /\ HalfMoveCount(g) = g.cur - 1 - last
           /\ HalfMoveCount(g) \in Nat
<1> DEFINE last == CHOOSE i \in NoReturn(g) : \A j \in NoReturn(g) : j <= i
<1>1. g.cur \in Nat \ {0} /\ g.half0 \in Nat
  BY GameParts
<1>2. HalfMoveCount(g) = IF NoReturn(g) = {} THEN g.half0 + g.cur - 1
                                             ELSE g.cur - 1 - last
  BY DEF HalfMoveCount, NoReturn
<1>3. ASSUME NoReturn(g) # {}
      PROVE  last \in NoReturn(g) /\ \A j \in NoReturn(g) : j <= last
  <2>1. NoReturn(g) \in SUBSET (0..g.cur)
    BY <1>1 DEF NoReturn
  <2>2. \E i \in NoReturn(g) : \A j \in NoReturn(g) : i >= j
    BY <1>1, <1>3, <2>1, MaxIsGreatest
  <2>3. \E i \in NoReturn(g) : \A j \in NoReturn(g) : j <= i
    BY <2>1, <2>2
  <2> QED
    BY <2>3
<1> HIDE DEF last
<1>4. NoReturn(g) # {} => last \in 1..(g.cur - 1)
  BY <1>3 DEF NoReturn
<1> QED
  BY <1>1, <1>2, <1>3, <1>4

(* A move ahead of the cursor counts one more, or starts the count anew.   *)
LEMMA HalfMoveForward ==
    ASSUME NEW g \in Game, g.cur < Len(g.pos)
    PROVE  HalfMoveCount(GameForward(g)) =
               IF <<g.pos[g.cur], g.mv[g.cur]>> \in Irreversible THEN 0
               ELSE HalfMoveCount(g) + 1
<1> DEFINE f == GameForward(g)
<1>1. /\ f.cur = g.cur + 1 /\ f.pos = g.pos /\ f.mv = g.mv /\ f.half0 = g.half0
      /\ f \in Game
  BY CursorType DEF GameForward, CanForward, Game
<1>2. g.cur \in Nat \ {0} /\ g.half0 \in Nat
  BY GameParts
<1> HIDE DEF f
<1>3. CASE <<g.pos[g.cur], g.mv[g.cur]>> \in Irreversible
  <2>1. g.cur \in NoReturn(f) /\ \A j \in NoReturn(f) : j \in 1..g.cur
    BY <1>1, <1>2, <1>3 DEF NoReturn
  <2>2. PICK last \in NoReturn(f) :
           (\A j \in NoReturn(f) : j <= last) /\ HalfMoveCount(f) = f.cur - 1 - last
    BY <1>1, <2>1, HalfMoveCountIs
  <2>3. last = g.cur
    BY <1>2, <2>1, <2>2
  <2> QED
    BY <1>1, <1>2, <1>3, <2>2, <2>3 DEF f
<1>4. CASE <<g.pos[g.cur], g.mv[g.cur]>> \notin Irreversible
  <2>1. NoReturn(f) = NoReturn(g)
    <3>1. ASSUME NEW i PROVE i \in NoReturn(f) <=> i \in NoReturn(g)
      BY <1>1, <1>2, <1>4 DEF NoReturn
    <3> QED
      BY <3>1
  <2>2. CASE NoReturn(g) = {}
    <3>1. HalfMoveCount(g) = g.half0 + g.cur - 1
      BY <2>2, HalfMoveCountIs
    <3>2. HalfMoveCount(f) = f.half0 + f.cur - 1
      BY <1>1, <2>1, <2>2, HalfMoveCountIs
    <3>3. HalfMoveCount(f) = HalfMoveCount(g) + 1
      BY <1>1, <1>2, <3>1, <3>2
    <3> QED
      BY <1>4, <3>3 DEF f
  <2>3. CASE NoReturn(g) # {}
    <3>1. PICK a \in NoReturn(g) :
             (\A j \in NoReturn(g) : j <= a) /\ HalfMoveCount(g) = g.cur - 1 - a
      BY <2>3, HalfMoveCountIs
    <3>2. PICK b \in NoReturn(g) :
             (\A j \in NoReturn(g) : j <= b) /\ HalfMoveCount(f) = f.cur - 1 - b
      BY <1>1, <2>1, <2>3, HalfMoveCountIs
    <3>3. a \in Nat /\ b \in Nat
      BY <1>2 DEF NoReturn
    <3>4. a = b
      BY <3>1, <3>2, <3>3
    <3> QED
      BY <1>1, <1>2, <1>4, <3>1, <3>2, <3>3, <3>4 DEF f
  <2> QED
    BY <2>2, <2>3
<1> QED
  BY <1>3, <1>4

=============================================================================
