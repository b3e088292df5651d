---------------------- MODULE RepetitionHistory_proofs ----------------------
(***************************************************************************)
(* Theorems of RepetitionHistory, for every game tree without a way back   *)
(* over an irreversible move, every capacity and every set of commands.    *)
(***************************************************************************)
EXTENDS RepetitionHistory, GameLine_proofs, SequenceTheorems

-----------------------------------------------------------------------------
(* The inductive invariant: the engine's data e fit the game g.            *)

Lines == {g \in Game : IsPlayed(g)}

EngineState ==
    {e \in [history : Seq(Position), marked : SUBSET Position, overrun : BOOLEAN] :
        Len(e.history) \in 1..Capacity}

Suffix(h, g) ==
    /\ Len(h) <= HalfMoveCount(g) + 1
    /\ Len(h) <= g.cur
    /\ \A i \in 1..Len(h) : h[i] = g.pos[g.cur - Len(h) + i]

(* The pieces of p have stood on the board in two positions of g.          *)
Twice(g, p) ==
    \E i, j \in 1..g.cur :
        i # j /\ Board[g.pos[i]] = Board[p] /\ Board[g.pos[j]] = Board[p]

Fits(e, g) ==
    /\ e \in EngineState
    /\ IF e.overrun THEN Len(e.history) = Capacity
                    ELSE Suffix(e.history, g) /\ Duplicates(e.history) \subseteq e.marked
    /\ \A p \in e.marked : Twice(g, p)

Inv == game \in Lines /\ Fits(Engine, game)

TypeOK ==
    /\ game \in Game
    /\ history \in Seq(Position) /\ Len(history) \in 1..Capacity
    /\ marked \subseteq Position
    /\ overrun \in BOOLEAN

-----------------------------------------------------------------------------
(* Games that agree up to the cursor.                                      *)

SameUpToCursor(a, b) ==
    /\ a.cur = b.cur /\ a.half0 = b.half0
    /\ \A i \in 1..a.cur : a.pos[i] = b.pos[i]
    /\ \A i \in 1..(a.cur - 1) : a.mv[i] = b.mv[i]

LEMMA SameHalfMoves ==
    ASSUME NEW a \in Game, NEW b \in Game, SameUpToCursor(a, b)
    PROVE  HalfMoveCount(a) = HalfMoveCount(b)
<1>1. a.cur = b.cur /\ a.half0 = b.half0 /\ a.cur \in Nat
  BY GameParts DEF SameUpToCursor
<1>2. NoReturn(a) = NoReturn(b)
  <2>1. ASSUME NEW i \in 1..(a.cur - 1)
        PROVE  a.pos[i] = b.pos[i] /\ a.mv[i] = b.mv[i]
    <3>1. i \in 1..a.cur
      BY <1>1
    <3> QED
      BY <3>1 DEF SameUpToCursor
  <2> QED
    BY <1>1, <2>1 DEF NoReturn
<1>3. CASE NoReturn(a) = {}
  BY <1>1, <1>2, <1>3, HalfMoveCountIs
<1>4. CASE NoReturn(a) # {}
  <2>1. PICK x \in NoReturn(a) :
           (\A j \in NoReturn(a) : j <= x) /\ HalfMoveCount(a) = a.cur - 1 - x
    BY <1>4, HalfMoveCountIs
  <2>2. PICK y \in NoReturn(a) :
           (\A j \in NoReturn(a) : j <= y) /\ HalfMoveCount(b) = b.cur - 1 - y
    BY <1>2, <1>4, HalfMoveCountIs
  <2>3. x \in Nat /\ y \in Nat
    BY <1>1 DEF NoReturn
  <2> QED
    BY <1>1, <2>1, <2>2, <2>3
<1> QED
  BY <1>3, <1>4

LEMMA SameFits ==
    ASSUME NEW a \in Game, NEW b \in Game, SameUpToCursor(a, b), NEW e, Fits(e, a)
    PROVE  Fits(e, b)
<1>1. a.cur = b.cur /\ a.cur \in Nat /\ \A i \in 1..a.cur : a.pos[i] = b.pos[i]
  BY GameParts DEF SameUpToCursor
<1>2. HalfMoveCount(a) = HalfMoveCount(b)
  BY SameHalfMoves
<1>3. e \in EngineState /\ Len(e.history) \in Nat
  BY DEF Fits, EngineState
<1>4. Suffix(e.history, a) => Suffix(e.history, b)
  <2> SUFFICES ASSUME Suffix(e.history, a) PROVE Suffix(e.history, b)
    OBVIOUS
  <2>1. Len(e.history) <= HalfMoveCount(b) + 1 /\ Len(e.history) <= b.cur
    BY <1>1, <1>2 DEF Suffix
  <2>2. ASSUME NEW i \in 1..Len(e.history)
        PROVE  e.history[i] = b.pos[b.cur - Len(e.history) + i]
    <3>1. a.cur - Len(e.history) + i \in 1..a.cur
      BY <1>1, <1>3, <2>1
    <3> QED
      BY <1>1, <3>1 DEF Suffix
  <2> QED
    BY <2>1, <2>2 DEF Suffix
<1>5. ASSUME NEW p, Twice(a, p) PROVE Twice(b, p)
  <2>1. PICK i \in 1..a.cur, j \in 1..a.cur :
           i # j /\ Board[a.pos[i]] = Board[p] /\ Board[a.pos[j]] = Board[p]
    BY <1>5 DEF Twice
  <2>2. a.pos[i] = b.pos[i] /\ a.pos[j] = b.pos[j] /\ i \in 1..b.cur /\ j \in 1..b.cur
    BY <1>1
  <2> QED
    BY <2>1, <2>2 DEF Twice
<1> QED
  BY <1>4, <1>5 DEF Fits

-----------------------------------------------------------------------------
(* engine_process_move.                                                    *)

LEMMA DuplicatesType ==
    ASSUME NEW h \in Seq(Position)
    PROVE  Duplicates(h) \subseteq Position
BY DEF Duplicates

(* A duplicate has stood twice where the history has.                      *)
LEMMA DuplicatesStoodTwice ==
    ASSUME NEW h \in Seq(Position), NEW g \in Game, Suffix(h, g), NEW p \in Duplicates(h)
    PROVE  Twice(g, p)
<1>1. PICK i \in 1..Len(h) : Again(h, i) # {} /\ p = h[i]
  BY DEF Duplicates
<1>2. PICK j \in (i + 1)..Len(h) : Board[h[i]] = Board[h[j]]
  BY <1>1 DEF Again
<1> DEFINE x == g.cur - Len(h) + i
           y == g.cur - Len(h) + j
<1>3. Len(h) \in Nat /\ g.cur \in Nat /\ Len(h) <= g.cur
  BY GameParts DEF Suffix
<1>4. x \in 1..g.cur /\ y \in 1..g.cur /\ x # y /\ j \in 1..Len(h)
  BY <1>3
<1>5. h[i] = g.pos[x] /\ h[j] = g.pos[y]
  BY <1>4 DEF Suffix
<1> HIDE DEF x, y
<1> QED
  BY <1>1, <1>2, <1>4, <1>5 DEF Twice

LEMMA ProcessedType ==
    ASSUME NEW e \in EngineState, NEW m \in Move
    PROVE  Processed(e, m) \in EngineState
<1> DEFINE q == Play[Last(e.history)][m]
<1>1. /\ e.history \in Seq(Position) /\ Len(e.history) \in 1..Capacity
      /\ e.marked \subseteq Position /\ e.overrun \in BOOLEAN
      /\ Capacity \in Nat \ {0}
  BY HistoryAssumption DEF EngineState
<1>2. q \in Position
  <2>1. Last(e.history) \in Position
    BY <1>1 DEF Last
  <2> QED
    BY <2>1, PlayAssumption
<1> HIDE DEF q
<1>3. CASE Len(e.history) = Capacity
  BY <1>1, <1>3 DEF Processed, EngineState
<1>4. CASE Len(e.history) # Capacity
  <2>1. ASSUME NEW h \in Seq(Position), Len(h) \in 1..Capacity
        PROVE  WithRepetitions(e, h) \in EngineState
    BY <1>1, <2>1, DuplicatesType DEF WithRepetitions, EngineState
  <2>2. /\ <<q>> \in Seq(Position) /\ Len(<<q>>) \in 1..Capacity
        /\ Append(e.history, q) \in Seq(Position)
        /\ Len(Append(e.history, q)) \in 1..Capacity
    BY <1>1, <1>2, <1>4
  <2>3. Processed(e, m) \in {WithRepetitions(e, <<q>>),
                             WithRepetitions(e, Append(e.history, q))}
    BY <1>4 DEF Processed, q
  <2> QED
    BY <2>1, <2>2, <2>3
<1> QED
  BY <1>3, <1>4

(* What stood twice before a move has stood twice after it.                *)
LEMMA TwiceForward ==
    ASSUME NEW g \in Game, g.cur < Len(g.pos), NEW p, Twice(g, p)
    PROVE  Twice(GameForward(g), p)
<1>1. GameForward(g).cur = g.cur + 1 /\ GameForward(g).pos = g.pos /\ g.cur \in Nat
  BY GameParts DEF GameForward, Game
<1>2. 1..g.cur \subseteq 1..GameForward(g).cur
  BY <1>1
<1> QED
  BY <1>1, <1>2 DEF Twice

(* The engine at one position of a game is told the next move of it.       *)
LEMMA ProcessedFits ==
    ASSUME NEW g \in Lines, g.cur < Len(g.pos), NEW e, Fits(e, g)
    PROVE  Fits(Processed(e, g.mv[g.cur]), GameForward(g))
<1> DEFINE f == GameForward(g)
           m == g.mv[g.cur]
           q == g.pos[g.cur + 1]
           h == e.history
           n == Processed(e, m)
<1>1. /\ g \in Game /\ g.cur \in Nat \ {0} /\ g.cur \in 1..Len(g.mv)
      /\ Len(g.pos) \in Nat /\ g.pos \in Seq(Position)
  BY GameParts DEF Lines
<1>2. f.cur = g.cur + 1 /\ f.pos = g.pos /\ f \in Game
  BY <1>1, CursorType DEF GameForward, CanForward, Game
<1>3. m \in Legal[g.pos[g.cur]] /\ q = Play[g.pos[g.cur]][m] /\ m \in Move /\ q \in Position
  <2>1. g.mv \in Seq(Move)
    BY <1>1, GameParts
  <2> QED
    BY <1>1, <2>1 DEF Lines, IsPlayed
<1>4. e \in EngineState /\ h \in Seq(Position) /\ Len(h) \in 1..Capacity
      /\ Capacity \in Nat /\ e.overrun \in BOOLEAN
  BY HistoryAssumption DEF Fits, EngineState
<1>5. n \in EngineState
  BY <1>3, <1>4, ProcessedType
<1>6. \A p \in e.marked : Twice(f, p)
  BY <1>1, TwiceForward DEF Fits
<1>7. CASE Len(h) = Capacity
  <2>1. n.overrun /\ n.history = h /\ n.marked = e.marked
    BY <1>4, <1>7 DEF Processed, EngineState
  <2> HIDE DEF f, n, h
  <2>2. Fits(n, f)
    BY <1>5, <1>6, <1>7, <2>1 DEF Fits
  <2> QED
    BY <2>2 DEF n, f
<1>8. CASE Len(h) # Capacity
  <2>1. ~e.overrun /\ Suffix(h, g)
    BY <1>4, <1>8 DEF Fits
  <2>2. Last(h) = g.pos[g.cur]
    <3>1. Len(h) \in 1..Len(h) /\ g.cur - Len(h) + Len(h) = g.cur
      BY <1>1, <1>4
    <3> QED
      BY <2>1, <3>1 DEF Suffix, Last
  <2> DEFINE new == IF <<g.pos[g.cur], m>> \in Irreversible THEN <<q>> ELSE Append(h, q)
  <2>3. n = WithRepetitions(e, new)
    BY <1>3, <1>8, <2>2 DEF Processed
  <2>4. new \in Seq(Position)
    BY <1>3, <1>4
  <2>5. Suffix(new, f)
    <3>1. CASE <<g.pos[g.cur], m>> \in Irreversible
      <4>1. HalfMoveCount(f) = 0
        BY <1>1, <3>1, HalfMoveForward
      <4>2. new = <<q>> /\ Len(new) = 1 /\ new[1] = q
        BY <3>1
      <4> HIDE DEF new, f
      <4> QED
        BY <1>1, <1>2, <4>1, <4>2 DEF Suffix
    <3>2. CASE <<g.pos[g.cur], m>> \notin Irreversible
      <4>1. HalfMoveCount(f) = HalfMoveCount(g) + 1 /\ HalfMoveCount(g) \in Nat
        BY <1>1, <3>2, HalfMoveForward, HalfMoveCountIs
      <4>2. new = Append(h, q) /\ Len(new) = Len(h) + 1
        BY <1>4, <3>2
      <4> HIDE DEF new, f, h, q
      <4>3. \A i \in 1..Len(new) : new[i] = IF i = Len(h) + 1 THEN q ELSE h[i]
        BY <1>3, <1>4, <4>2
      <4>4. Len(new) <= HalfMoveCount(f) + 1 /\ Len(new) <= f.cur
        BY <1>1, <1>2, <1>4, <2>1, <4>1, <4>2 DEF Suffix
      <4>5. ASSUME NEW i \in 1..Len(new) PROVE new[i] = f.pos[f.cur - Len(new) + i]
        <5>1. f.cur - Len(new) + i = g.cur - Len(h) + i
          <6>1. f.cur = g.cur + 1 /\ Len(new) = Len(h) + 1 /\ i \in Nat /\ Len(h) \in Nat
                /\ g.cur \in Nat /\ f.cur \in Nat /\ Len(new) \in Nat
            BY <1>1, <1>2, <1>4, <4>2
          <6>2. f.cur - Len(new) = g.cur - Len(h)
            BY <6>1
          <6> QED
            BY <6>2
        <5>2. CASE i = Len(h) + 1
          <6>1. new[i] = q
            BY <4>3, <5>2
          <6>2. g.cur - Len(h) + i = g.cur + 1
            BY <1>1, <1>4, <5>2
          <6>3. f.pos[g.cur + 1] = q
            BY <1>2 DEF q
          <6> QED
            BY <5>1, <6>1, <6>2, <6>3
        <5>3. CASE i # Len(h) + 1
          BY <1>2, <1>4, <2>1, <4>2, <4>3, <5>1, <5>3 DEF Suffix
        <5> QED
          BY <5>2, <5>3
      <4> QED
        BY <4>4, <4>5 DEF Suffix
    <3> QED
      BY <3>1, <3>2
  <2> HIDE DEF new, f, n, h
  <2>6. /\ n.history = new /\ n.overrun = e.overrun
        /\ Duplicates(new) \subseteq n.marked
        /\ n.marked \subseteq e.marked \cup Duplicates(new)
    BY <2>3 DEF WithRepetitions
  <2>7. \A p \in n.marked : Twice(f, p)
    BY <1>2, <1>6, <2>4, <2>5, <2>6, DuplicatesStoodTwice
  <2>8. Fits(n, f)
    BY <1>5, <2>1, <2>5, <2>6, <2>7 DEF Fits
  <2> QED
    BY <2>8 DEF n, f
<1> QED
  BY <1>7, <1>8

-----------------------------------------------------------------------------
(* replay_new_moves.                                                       *)

(* after[i] is e when it has processed the first i moves of q.             *)
IsReplay(after, e, q) ==
    /\ after[0] = e
    /\ \A i \in 1..Len(q) : after[i] = Processed(after[i - 1], q[i])
    /\ ProcessedAll(e, q) = after[Len(q)]

(* The moves are processed in order, each after the one before it.         *)
LEMMA ProcessedAllIs ==
    ASSUME NEW e \in EngineState, NEW q \in Seq(Move)
    PROVE  \E after : IsReplay(after, e, q)
<1> DEFINE Step(g) == [i \in 0..Len(q) |-> IF i = 0 THEN e ELSE Processed(g[i - 1], q[i])]
           after == CHOOSE g : g = Step(g)
           f == [x \in EngineState \X Move |-> Processed(x[1], x[2])]
<1>1. f \in [EngineState \X Move -> EngineState]
  BY ProcessedType
<1>2. PICK g : IsFold(g, EngineState, f, e, q)
  <2> HIDE DEF f
  <2> QED
    BY <1>1, FoldExists
<1>3. g = Step(g)
  <2>1. ASSUME NEW i \in 0..Len(q)
        PROVE  g[i] = IF i = 0 THEN e ELSE Processed(g[i - 1], q[i])
    <3>1. CASE i = 0
      BY <1>2, <3>1 DEF IsFold
    <3>2. CASE i # 0
      <4>1. i \in 1..Len(q) /\ i - 1 \in 0..Len(q)
        BY <3>2
      <4>2. g[i - 1] \in EngineState /\ q[i] \in Move
        BY <1>2, <4>1 DEF IsFold
      <4>3. f[<<g[i - 1], q[i]>>] = Processed(g[i - 1], q[i])
        BY <4>2
      <4> QED
        BY <1>2, <3>2, <4>1, <4>3 DEF IsFold
    <3> QED
      BY <3>1, <3>2
  <2> QED
    BY <1>2, <2>1 DEF IsFold
<1>4. after = Step(after)
  BY <1>3
<1>5. ProcessedAll(e, q) = after[Len(q)]
  BY DEF ProcessedAll, after
<1> HIDE DEF after, f
<1>6. \A i \in 0..Len(q) : after[i] = IF i = 0 THEN e ELSE Processed(after[i - 1], q[i])
  BY <1>4
<1>7. after[0] = e
  BY <1>6
<1>8. \A i \in 1..Len(q) : after[i] = Processed(after[i - 1], q[i])
  BY <1>6
<1> QED
  BY <1>5, <1>7, <1>8 DEF IsReplay

(* The cursor of g at its i-th position.                                   *)
AtMove(g, i) == [g EXCEPT !.cur = i]

LEMMA AtMoveType ==
    ASSUME NEW g \in Lines, NEW i \in 1..Len(g.pos)
    PROVE  /\ AtMove(g, i) \in Lines
           /\ AtMove(g, i).cur = i /\ AtMove(g, i).pos = g.pos
           /\ AtMove(g, i).mv = g.mv /\ AtMove(g, i).half0 = g.half0
           /\ i < Len(g.pos) => GameForward(AtMove(g, i)) = AtMove(g, i + 1)
<1>1. g \in Game /\ IsPlayed(g)
  BY DEF Lines
<1>2. AtMove(g, i) \in Game
  BY <1>1, CursorType DEF AtMove
<1>3. /\ AtMove(g, i).cur = i /\ AtMove(g, i).pos = g.pos
      /\ AtMove(g, i).mv = g.mv /\ AtMove(g, i).half0 = g.half0
  BY <1>1 DEF AtMove, Game
<1>4. GameForward(AtMove(g, i)) = AtMove(g, i + 1)
  BY <1>1 DEF AtMove, GameForward, Game
<1> QED
  BY <1>1, <1>2, <1>3, <1>4 DEF Lines, IsPlayed

(* The engine fits the game again once it is told all the moves left.      *)
LEMMA ReplayFits ==
    ASSUME NEW g \in Lines, NEW c \in 1..Len(g.pos), NEW e, Fits(e, AtMove(g, c))
    PROVE  Fits(ProcessedAll(e, SubSeq(g.mv, c, Len(g.mv))), AtMove(g, Len(g.pos)))
<1> DEFINE q == SubSeq(g.mv, c, Len(g.mv))
           n == Len(g.pos) - c
<1>1. /\ g \in Game /\ g.mv \in Seq(Move) /\ Len(g.pos) \in Nat
      /\ Len(g.mv) = Len(g.pos) - 1
  BY GameParts DEF Lines
<1>2. n \in Nat
  BY <1>1
<1>3. q \in Seq(Move) /\ Len(q) = n /\ \A i \in 1..n : q[i] = g.mv[c + i - 1]
  BY <1>1, SubSeqProperties
<1>4. e \in EngineState
  BY DEF Fits
<1> HIDE DEF q
<1>11. PICK after : IsReplay(after, e, q)
  BY <1>3, <1>4, ProcessedAllIs
<1>5. /\ after[0] = e
      /\ \A i \in 1..n : after[i] = Processed(after[i - 1], q[i])
      /\ ProcessedAll(e, q) = after[n]
  BY <1>3, <1>11 DEF IsReplay
<1> DEFINE P == {i \in 0..n : Fits(after[i], AtMove(g, c + i))}
<1>6. 0 \in P
  <2>1. c + 0 = c
    OBVIOUS
  <2> HIDE DEF n
  <2> QED
    BY <1>2, <1>5, <2>1
<1>7. ASSUME NEW i \in 1..n, i - 1 \in P
      PROVE  i \in P
  <2> DEFINE a == AtMove(g, c + (i - 1))
  <2>1. c + (i - 1) \in 1..Len(g.pos) /\ c + (i - 1) < Len(g.pos)
        /\ c + (i - 1) + 1 = c + i
    BY <1>1, <1>2
  <2>2. /\ a \in Lines /\ a.cur = c + (i - 1) /\ a.pos = g.pos /\ a.mv = g.mv
        /\ GameForward(a) = AtMove(g, c + i)
    BY <2>1, AtMoveType
  <2>3. Fits(after[i - 1], a)
    BY <1>7
  <2> HIDE DEF a
  <2>4. Fits(Processed(after[i - 1], a.mv[a.cur]), GameForward(a))
    BY <2>1, <2>2, <2>3, ProcessedFits
  <2>5. a.mv[a.cur] = q[i]
    <3>1. c + (i - 1) = c + i - 1
      OBVIOUS
    <3> QED
      BY <1>3, <2>2, <3>1
  <2> HIDE DEF n
  <2> QED
    BY <1>2, <1>5, <2>2, <2>4, <2>5
<1>8. \A i \in 0..n : i \in P
  <2> HIDE DEF P, n
  <2> QED
    BY <1>2, <1>6, <1>7, Induction
<1>9. n \in 0..n /\ c + n = Len(g.pos)
  BY <1>1, <1>2
<1> HIDE DEF n
<1>10. Fits(ProcessedAll(e, q), AtMove(g, Len(g.pos)))
  BY <1>5, <1>8, <1>9
<1> QED
  BY <1>10 DEF q

(* Two games with the same start and the same moves have the same          *)
(* positions.                                                              *)
LEMMA SamePositions ==
    ASSUME NEW a \in Lines, NEW b \in Lines, a.pos[1] = b.pos[1],
           Len(b.mv) <= Len(a.mv), \A i \in 1..Len(b.mv) : a.mv[i] = b.mv[i]
    PROVE  \A i \in 1..Len(b.pos) : a.pos[i] = b.pos[i]
<1> DEFINE n == Len(b.mv)
           P == {i \in 0..n : a.pos[i + 1] = b.pos[i + 1]}
<1>1. n \in Nat /\ Len(b.pos) = n + 1 /\ Len(a.mv) \in Nat /\ IsPlayed(a) /\ IsPlayed(b)
  BY GameParts DEF Lines
<1>2. 0 \in P
  BY <1>1
<1>3. ASSUME NEW i \in 1..n, i - 1 \in P PROVE i \in P
  <2>1. i \in 1..Len(a.mv) /\ i \in 1..Len(b.mv) /\ i - 1 + 1 = i
    BY <1>1
  <2>2. a.pos[i] = b.pos[i] /\ a.mv[i] = b.mv[i]
    BY <1>3, <2>1
  <2>3. /\ a.pos[i + 1] = Play[a.pos[i]][a.mv[i]]
        /\ b.pos[i + 1] = Play[b.pos[i]][b.mv[i]]
    BY <1>1, <2>1 DEF IsPlayed
  <2> QED
    BY <2>2, <2>3
<1>4. \A i \in 0..n : i \in P
  <2> HIDE DEF P, n
  <2> QED
    BY <1>1, <1>2, <1>3, Induction
<1>5. ASSUME NEW i \in 1..Len(b.pos) PROVE a.pos[i] = b.pos[i]
  <2>1. i - 1 \in 0..n /\ i - 1 + 1 = i
    BY <1>1
  <2> HIDE DEF n
  <2> QED
    BY <1>4, <2>1
<1> QED
  BY <1>5

-----------------------------------------------------------------------------
(* The steps.                                                              *)

Fresh(p) == [history |-> <<p>>, marked |-> {}, overrun |-> FALSE]

(* reset_engine leaves one position, that of the board.                    *)
LEMMA ResetFits ==
    ASSUME NEW g \in Game
    PROVE  /\ CurrentPosition(g) \in Position
           /\ Fits(Fresh(CurrentPosition(g)), g)
<1> DEFINE p == CurrentPosition(g)
           h == <<p>>
<1>1. p \in Position
  BY CurrentPositionType
<1>2. p = g.pos[g.cur] /\ g.cur \in Nat \ {0} /\ HalfMoveCount(g) \in Nat
  BY GameParts, HalfMoveCountIs DEF CurrentPosition
<1> HIDE DEF p
<1>3. h \in Seq(Position) /\ Len(h) = 1 /\ h[1] = p
  BY <1>1
<1>4. Fresh(p) \in EngineState
  <2>1. Len(h) \in 1..Capacity /\ Fresh(p).history = h
    BY <1>3, HistoryAssumption DEF Fresh
  <2>2. Fresh(p) \in [history : Seq(Position), marked : SUBSET Position, overrun : BOOLEAN]
    <3> HIDE DEF h
    <3>1. Fresh(p) = [history |-> h, marked |-> {}, overrun |-> FALSE]
      BY DEF Fresh, h
    <3> QED
      BY <1>3, <3>1
  <2> HIDE DEF h
  <2> QED
    BY <2>1, <2>2 DEF EngineState
<1>5. Suffix(h, g)
  <2> HIDE DEF h
  <2> QED
    BY <1>2, <1>3 DEF Suffix
<1>6. Duplicates(h) = {}
  <2> HIDE DEF h
  <2>1. \A i \in 1..Len(h) : Again(h, i) = {}
    BY <1>3 DEF Again
  <2> QED
    BY <1>3, <2>1 DEF Duplicates
<1>7. Fits(Fresh(p), g)
  BY <1>4, <1>5, <1>6 DEF Fits, Fresh
<1> QED
  BY <1>1, <1>7 DEF p

LEMMA GameFromLine ==
    ASSUME NEW p \in Position, NEW n \in Nat
    PROVE  GameFrom(p, n) \in Lines /\ CurrentPosition(GameFrom(p, n)) = p
<1>1. GameFrom(p, n) \in Game
  BY GameFromType
<1>2. GameFrom(p, n).mv = << >> /\ Len(<< >>) = 0
  BY DEF GameFrom
<1>3. IsPlayed(GameFrom(p, n))
  BY <1>2 DEF IsPlayed
<1> QED
  BY <1>1, <1>3 DEF Lines, GameFrom, CurrentPosition

(* A legal move played gives a game played by the rules; with its cursor   *)
(* set back it is the game before the move.                                *)
LEMMA AppendLine ==
    ASSUME NEW g \in Lines, NEW m \in Legal[CurrentPosition(g)]
    PROVE  LET f == GameAppend(g, m) IN
           /\ f \in Lines
           /\ f.cur = g.cur + 1 /\ Len(f.pos) = g.cur + 1
           /\ f.mv[g.cur] = m /\ f.pos[g.cur + 1] = Play[CurrentPosition(g)][m]
           /\ SameUpToCursor(g, AtMove(f, g.cur))
           /\ f = AtMove(f, Len(f.pos))
<1> DEFINE f == GameAppend(g, m)
           q == Play[CurrentPosition(g)][m]
           c == g.cur
<1>1. /\ g \in Game /\ g.pos \in Seq(Position) /\ g.mv \in Seq(Move)
      /\ Len(g.mv) = Len(g.pos) - 1 /\ c \in 1..Len(g.pos) /\ Len(g.pos) \in Nat
      /\ CurrentPosition(g) \in Position /\ c \in Nat
  BY GameParts, CurrentPositionType DEF Lines
<1>2. m \in Move /\ q \in Position
  BY <1>1, LegalAssumption, PlayAssumption
<1>3. f \in Game
  BY <1>1, <1>2, GameAppendType
<1>4. /\ f.pos = Append(SubSeq(g.pos, 1, c), q) /\ f.mv = Append(SubSeq(g.mv, 1, c - 1), m)
      /\ f.cur = c + 1 /\ f.half0 = g.half0
  BY DEF GameAppend
<1> HIDE DEF f, q, c
<1>5. /\ Len(f.pos) = c + 1 /\ f.pos[c + 1] = q
      /\ \A i \in 1..c : f.pos[i] = g.pos[i]
  <2>1. /\ SubSeq(g.pos, 1, c) \in Seq(Position) /\ Len(SubSeq(g.pos, 1, c)) = c
        /\ \A i \in 1..c : SubSeq(g.pos, 1, c)[i] = g.pos[i]
    BY <1>1
  <2> QED
    BY <1>1, <1>2, <1>4, <2>1
<1>6. /\ Len(f.mv) = c /\ f.mv[c] = m
      /\ \A i \in 1..(c - 1) : f.mv[i] = g.mv[i]
  <2>1. /\ SubSeq(g.mv, 1, c - 1) \in Seq(Move) /\ Len(SubSeq(g.mv, 1, c - 1)) = c - 1
        /\ \A i \in 1..(c - 1) : SubSeq(g.mv, 1, c - 1)[i] = g.mv[i]
    BY <1>1
  <2> QED
    BY <1>1, <1>2, <1>4, <2>1
<1>7. IsPlayed(f)
  <2>1. ASSUME NEW i \in 1..Len(f.mv)
        PROVE  f.mv[i] \in Legal[f.pos[i]] /\ f.pos[i + 1] = Play[f.pos[i]][f.mv[i]]
    <3>1. CASE i = c
      <4>1. f.pos[i] = CurrentPosition(g) /\ f.mv[i] = m /\ f.pos[i + 1] = q
        BY <1>1, <1>5, <1>6, <3>1 DEF CurrentPosition, c
      <4> QED
        BY <4>1 DEF q
    <3>2. CASE i # c
      <4>1. i \in 1..(c - 1) /\ i \in 1..c /\ i + 1 \in 1..c /\ i \in 1..Len(g.mv)
        BY <1>1, <1>6, <3>2
      <4> QED
        BY <1>5, <1>6, <4>1 DEF Lines, IsPlayed
    <3> QED
      BY <3>1, <3>2
  <2> QED
    BY <2>1 DEF IsPlayed
<1>8. f \in Lines
  BY <1>3, <1>7 DEF Lines
<1>9. SameUpToCursor(g, AtMove(f, c))
  <2>1. c \in 1..Len(f.pos)
    BY <1>1, <1>5
  <2>2. /\ AtMove(f, c).cur = c /\ AtMove(f, c).pos = f.pos
        /\ AtMove(f, c).mv = f.mv /\ AtMove(f, c).half0 = f.half0
    BY <1>8, <2>1, AtMoveType
  <2> QED
    BY <1>4, <1>5, <1>6, <2>2 DEF SameUpToCursor, c
<1>10. f = AtMove(f, Len(f.pos))
  BY <1>3, <1>4, <1>5 DEF AtMove, Game
<1> QED
  BY <1>4, <1>5, <1>6, <1>8, <1>9, <1>10 DEF f, c, q

LEMMA EngineIs ==
    ASSUME Inv
    PROVE  /\ Engine \in EngineState /\ game \in Game /\ IsPlayed(game)
           /\ Engine.history = history /\ Engine.marked = marked
           /\ Engine.overrun = overrun /\ overrun \in BOOLEAN
BY DEF Inv, Fits, Engine, EngineState, Lines

LEMMA BecomesFits ==
    ASSUME NEW e, NEW g \in Lines, Fits(e, g), Becomes(e), game' = g
    PROVE  Inv'
<1>1. e \in EngineState
  BY DEF Fits
<1>2. Engine' = e
  BY <1>1 DEF Becomes, Engine, EngineState
<1> QED
  BY <1>2 DEF Inv

LEMMA ResetInv ==
    ASSUME Inv, ~overrun, NEW g \in Lines, game' = g, Reset(CurrentPosition(g))
    PROVE  Inv'
<1>1. Engine' = Fresh(CurrentPosition(g))
  <2>1. overrun' = FALSE
    BY EngineIs DEF Reset
  <2> QED
    BY <2>1 DEF Reset, Engine, Fresh
<1> QED
  BY <1>1, ResetFits DEF Inv, Lines

LEMMA PlayMoveInv ==
    ASSUME Inv, PlayMove
    PROVE  Inv'
<1>1. PICK m \in Legal[CurrentPosition(game)] :
         game' = GameAppend(game, m) /\ Becomes(Processed(Engine, m))
  BY DEF PlayMove
<1> DEFINE f == GameAppend(game, m)
           a == AtMove(f, game.cur)
<1>2. /\ f \in Lines /\ f.cur = game.cur + 1 /\ Len(f.pos) = game.cur + 1
      /\ f.mv[game.cur] = m
      /\ SameUpToCursor(game, a) /\ f = AtMove(f, Len(f.pos))
  BY AppendLine DEF Inv
<1>3. game.cur \in 1..Len(f.pos) /\ game.cur < Len(f.pos)
  BY <1>2, EngineIs, GameParts
<1> HIDE DEF f
<1>4. /\ a \in Lines /\ a.cur = game.cur /\ a.pos = f.pos /\ a.mv = f.mv
      /\ GameForward(a) = f
  BY <1>2, <1>3, AtMoveType
<1> HIDE DEF a
<1>5. Fits(Engine, a)
  BY <1>2, <1>4, SameFits, EngineIs DEF Inv, Lines
<1>6. Fits(Processed(Engine, a.mv[a.cur]), GameForward(a))
  BY <1>3, <1>4, <1>5, ProcessedFits
<1>7. Fits(Processed(Engine, m), f)
  BY <1>2, <1>4, <1>6
<1> QED
  BY <1>1, <1>2, <1>7, BecomesFits DEF f

LEMMA PositionInv ==
    ASSUME Inv, CmdPosition
    PROVE  Inv'
<1>1. PICK g \in UciGame :
        IF GameContinues(g, game)
        THEN /\ game' = [g EXCEPT !.half0 = game.half0]
             /\ Becomes(ProcessedAll(Engine, SubSeq(g.mv, game.cur, Len(g.mv))))
        ELSE /\ game' = g
             /\ Reset(CurrentPosition(g))
  BY DEF CmdPosition
<1>2. ~overrun
  BY DEF CmdPosition, Enabled
<1>3. g \in Lines /\ g.cur = Len(g.pos) /\ g \in Game
  BY HistoryAssumption DEF Lines
<1>4. CASE ~GameContinues(g, game)
  BY <1>1, <1>2, <1>3, <1>4, ResetInv
<1>5. CASE GameContinues(g, game)
  <2> DEFINE f == [g EXCEPT !.half0 = game.half0]
             c == game.cur
             q == SubSeq(g.mv, c, Len(g.mv))
  <2>1. /\ game \in Game /\ c \in 1..Len(game.pos) /\ Len(game.mv) = Len(game.pos) - 1
        /\ Len(game.pos) \in Nat /\ Len(g.pos) \in Nat /\ Len(g.mv) = Len(g.pos) - 1
        /\ game.half0 \in Nat /\ game.mv \in Seq(Move) /\ g.mv \in Seq(Move)
    <3>1. game \in Game
      BY EngineIs
    <3>2. /\ game.cur \in 1..Len(game.pos) /\ Len(game.mv) = Len(game.pos) - 1
          /\ game.pos \in Seq(Position) /\ game.mv \in Seq(Move) /\ game.half0 \in Nat
      BY <3>1, GameParts
    <3>3. g \in Game
      BY <1>3
    <3>4. g.pos \in Seq(Position) /\ g.mv \in Seq(Move) /\ Len(g.mv) = Len(g.pos) - 1
      BY <3>3, GameParts
    <3> QED
      BY <3>1, <3>2, <3>4
  <2>2. f \in Game /\ f.pos = g.pos /\ f.mv = g.mv /\ f.half0 = game.half0 /\ f.cur = g.cur
    BY <1>3, <2>1 DEF Game
  <2>3. f \in Lines
    BY <1>3, <2>2 DEF Lines, IsPlayed
  <2> HIDE DEF f
  <2>4. /\ g.pos[1] = game.pos[1] /\ Len(game.mv) <= Len(g.mv)
        /\ SubSeq(g.mv, 1, Len(game.mv)) = game.mv
    BY <1>5 DEF GameContinues
  <2>5. \A i \in 1..Len(game.mv) : g.mv[i] = game.mv[i]
    <3>1. ASSUME NEW i \in 1..Len(game.mv)
          PROVE  SubSeq(g.mv, 1, Len(game.mv))[i] = g.mv[i]
      BY <2>1, <2>4
    <3> QED
      BY <2>4, <3>1
  <2>6. \A i \in 1..Len(game.pos) : g.pos[i] = game.pos[i]
    BY <1>3, <2>4, <2>5, SamePositions DEF Inv
  <2>7. c \in 1..Len(f.pos)
    BY <2>1, <2>2, <2>4
  <2>8. /\ AtMove(f, c) \in Lines /\ AtMove(f, c).cur = c /\ AtMove(f, c).pos = f.pos
        /\ AtMove(f, c).mv = f.mv /\ AtMove(f, c).half0 = f.half0
    BY <2>3, <2>7, AtMoveType
  <2>9. SameUpToCursor(game, AtMove(f, c))
    <3>1. 1..c \subseteq 1..Len(game.pos) /\ 1..(c - 1) \subseteq 1..Len(game.mv)
      <4>1. c \in Nat /\ c <= Len(game.pos) /\ Len(game.pos) \in Nat
            /\ Len(game.mv) = Len(game.pos) - 1
        BY <2>1
      <4> HIDE DEF c
      <4> QED
        BY <4>1
    <3>2. /\ \A i \in 1..c : game.pos[i] = AtMove(f, c).pos[i]
          /\ \A i \in 1..(c - 1) : game.mv[i] = AtMove(f, c).mv[i]
      BY <2>2, <2>5, <2>6, <2>8, <3>1
    <3> QED
      BY <2>2, <2>8, <3>2 DEF SameUpToCursor
  <2>10. Fits(Engine, AtMove(f, c))
    BY <2>1, <2>8, <2>9, SameFits DEF Inv, Lines
  <2>11. Fits(ProcessedAll(Engine, SubSeq(f.mv, c, Len(f.mv))), AtMove(f, Len(f.pos)))
    BY <2>3, <2>7, <2>10, ReplayFits
  <2>12. AtMove(f, Len(f.pos)) = f
    BY <1>3, <2>2 DEF AtMove, Game
  <2> QED
    BY <1>1, <1>5, <2>2, <2>3, <2>11, <2>12, BecomesFits DEF f
<1> QED
  BY <1>4, <1>5

LEMMA ResetStepsInv ==
    ASSUME Inv, CmdNew \/ CmdSetboard \/ CmdUndo \/ CmdRedo
    PROVE  Inv'
<1>1. game \in Game /\ IsPlayed(game) /\ ~overrun
  BY EngineIs DEF CmdNew, CmdSetboard, CmdUndo, CmdRedo, Enabled
<1>2. ASSUME NEW p \in Position, game' = GameFrom(p, 0), Reset(p)
      PROVE  Inv'
  BY <1>1, <1>2, GameFromLine, ResetInv
<1>3. CASE CmdNew
  BY <1>2, <1>3, StartAssumption DEF CmdNew, GameCreate
<1>4. CASE CmdSetboard
  BY <1>2, <1>4, HistoryAssumption DEF CmdSetboard
<1>5. CASE CmdUndo
  <2>1. GameRevert(game) \in Lines
    <3>1. GameRevert(game) \in Game
      BY <1>1, <1>5, CursorType DEF CmdUndo
    <3>2. GameRevert(game).pos = game.pos /\ GameRevert(game).mv = game.mv
      BY <1>1 DEF GameRevert, Game
    <3> QED
      BY <1>1, <3>1, <3>2 DEF Lines, IsPlayed
  <2> QED
    BY <1>1, <1>5, <2>1, ResetInv DEF CmdUndo
<1>6. CASE CmdRedo
  <2>1. GameForward(game) \in Lines
    <3>1. GameForward(game) \in Game
      BY <1>1, <1>6, CursorType DEF CmdRedo
    <3>2. GameForward(game).pos = game.pos /\ GameForward(game).mv = game.mv
      BY <1>1 DEF GameForward, Game
    <3> QED
      BY <1>1, <3>1, <3>2 DEF Lines, IsPlayed
  <2> QED
    BY <1>1, <1>6, <2>1, ResetInv DEF CmdRedo
<1> QED
  BY <1>3, <1>4, <1>5, <1>6

LEMMA InitInv == Init => Inv
<1> SUFFICES ASSUME Init PROVE Inv
  OBVIOUS
<1>1. GameCreate \in Lines /\ CurrentPosition(GameCreate) = Start
  BY GameFromLine, StartAssumption DEF GameCreate
<1>2. Engine = Fresh(CurrentPosition(game))
  BY <1>1 DEF Init, Engine, Fresh
<1> QED
  BY <1>1, <1>2, ResetFits DEF Init, Inv, Lines

LEMMA NextInv == Inv /\ [Next]_vars => Inv'
<1> SUFFICES ASSUME Inv, [Next]_vars PROVE Inv'
  OBVIOUS
<1>1. CASE UNCHANGED vars
  BY <1>1 DEF vars, engine, Inv, Engine
<1> QED
  BY <1>1, PlayMoveInv, PositionInv, ResetStepsInv DEF Next

(* The engine's positions fit the game on the board after every step: they *)
(* are the last ones of the line, cut where it cannot go back, and every   *)
(* duplicate among them is marked in the hash table.                       *)
THEOREM HistoryInvariant == Spec => []Inv
BY InitInv, NextInv, PTL DEF Spec

(* Types: the game is one, the history holds at least a position and never *)
(* more than the array, and only positions are marked.                     *)
THEOREM TypeCorrect == Spec => []TypeOK
<1>1. Inv => TypeOK
  BY DEF Inv, Fits, Engine, EngineState, Lines, TypeOK
<1> QED
  BY <1>1, HistoryInvariant, PTL

(* The engine's positions are the last ones of the line on the board and   *)
(* never reach back across an irreversible move, whatever is undone, redone *)
(* or replayed by position (add_move, engine_process_move, reset_engine).  *)
THEOREM HistoryIsOfThisGame == Spec => []HistoryIsSuffix
<1>1. Inv => HistoryIsSuffix
  <2> SUFFICES ASSUME Inv, ~overrun
               PROVE  /\ Len(history) <= HalfMoveCount(game) + 1
                      /\ Len(history) <= game.cur
                      /\ history = SubSeq(game.pos, game.cur - Len(history) + 1, game.cur)
    BY DEF HistoryIsSuffix
  <2> DEFINE first == game.cur - Len(history) + 1
             line == SubSeq(game.pos, first, game.cur)
  <2>1. history \in Seq(Position) /\ Len(history) \in Nat /\ Suffix(history, game)
    BY EngineIs DEF Inv, Fits, EngineState
  <2>2. game.pos \in Seq(Position) /\ game.cur \in 1..Len(game.pos) /\ Len(game.pos) \in Nat
    BY EngineIs, GameParts
  <2>3. Len(history) <= game.cur /\ Len(history) <= HalfMoveCount(game) + 1
    BY <2>1 DEF Suffix
  <2>4. first \in 1..(game.cur + 1) /\ game.cur - first + 1 = Len(history)
    BY <2>1, <2>2, <2>3
  <2> HIDE DEF first
  <2>5. /\ line \in Seq(Position) /\ Len(line) = Len(history)
        /\ \A i \in 1..Len(history) : line[i] = game.pos[first + i - 1]
    <3>1. \A i \in 1..Len(history) : first + i - 1 \in 1..Len(game.pos)
      BY <2>1, <2>2, <2>4
    <3>2. Len(line) = Len(history)
      BY <2>2, <2>4
    <3> QED
      BY <2>2, <2>4, <3>1, <3>2
  <2>6. ASSUME NEW i \in 1..Len(history) PROVE line[i] = history[i]
    <3>1. first + i - 1 = game.cur - Len(history) + i
      BY <2>1, <2>2 DEF first
    <3> QED
      BY <2>1, <2>5, <3>1 DEF Suffix
  <2> HIDE DEF line
  <2>7. history = line
    BY <2>1, <2>5, <2>6, SeqEqual
  <2> QED
    BY <2>3, <2>7 DEF line, first
<1> QED
  BY <1>1, HistoryInvariant, PTL

(* The hash table is told of no repetition that did not happen: the pieces *)
(* of a marked position have stood on the board twice in this game.        *)
THEOREM MarksAreOfThisGame == Spec => []MarksAreRepeated
<1>1. Inv => MarksAreRepeated
  <2> SUFFICES ASSUME Inv, NEW p \in marked
               PROVE  Cardinality({i \in 1..game.cur : Board[game.pos[i]] = Board[p]}) >= 2
    BY DEF MarksAreRepeated
  <2> DEFINE S == {i \in 1..game.cur : Board[game.pos[i]] = Board[p]}
  <2>1. PICK i \in S, j \in S : i # j
    BY EngineIs DEF Inv, Fits, Twice
  <2>2. game.cur \in Nat
    BY EngineIs, GameParts
  <2>3. IsFiniteSet(S)
    <3>1. IsFiniteSet(1..game.cur)
      BY <2>2, FS_Interval
    <3> QED
      BY <3>1, FS_Subset
  <2> HIDE DEF S
  <2>4. {i, j} \subseteq S /\ Cardinality({i, j}) = 2
    BY <2>1, PairCardinality
  <2>5. Cardinality(S) >= 2
    <3>1. Cardinality({i, j}) <= Cardinality(S)
      BY <2>3, <2>4, FS_Subset
    <3> QED
      BY <2>3, <2>4, <3>1, FS_CardinalityType
  <2> QED
    BY <2>5 DEF S
<1> QED
  BY <1>1, HistoryInvariant, PTL

-----------------------------------------------------------------------------
(* No position is forgotten while the game goes on.                        *)

LEMMA ProcessedKeepsAll ==
    ASSUME NEW g \in Lines, g.cur < Len(g.pos), NEW e, Fits(e, g), ~e.overrun,
           Len(e.history) = HalfMoveCount(g) + 1, HalfMoveCount(g) < FiftyMoveLimit
    PROVE  LET n == Processed(e, g.mv[g.cur]) IN
           ~n.overrun /\ Len(n.history) = HalfMoveCount(GameForward(g)) + 1
<1> DEFINE m == g.mv[g.cur]
           q == Play[Last(e.history)][m]
           n == Processed(e, m)
<1>1. g \in Game /\ HalfMoveCount(g) \in Nat /\ g.cur \in Nat
  BY HalfMoveCountIs, GameParts DEF Lines
<1>2. /\ e.history \in Seq(Position) /\ Len(e.history) \in Nat \ {0}
      /\ Suffix(e.history, g) /\ e.overrun = FALSE
  BY HistoryAssumption DEF Fits, EngineState
<1>3. Len(e.history) # Capacity
  BY <1>1, HistoryAssumption, FiftyMoveAssumption
<1>4. Last(e.history) = g.pos[g.cur]
  <2>1. Len(e.history) \in 1..Len(e.history) /\ g.cur - Len(e.history) + Len(e.history) = g.cur
    BY <1>1, <1>2
  <2> QED
    BY <1>2, <2>1 DEF Suffix, Last
<1>5. CASE <<g.pos[g.cur], m>> \in Irreversible
  <2>1. n = WithRepetitions(e, <<q>>)
    BY <1>3, <1>4, <1>5 DEF Processed
  <2>2. HalfMoveCount(GameForward(g)) = 0
    BY <1>1, <1>5, HalfMoveForward
  <2>3. n.history = <<q>> /\ n.overrun = e.overrun
    BY <2>1 DEF WithRepetitions
  <2> HIDE DEF n, q
  <2>4. ~n.overrun /\ Len(n.history) = HalfMoveCount(GameForward(g)) + 1
    BY <1>2, <2>2, <2>3
  <2> QED
    BY <2>4 DEF n
<1>6. CASE <<g.pos[g.cur], m>> \notin Irreversible
  <2>1. n = WithRepetitions(e, Append(e.history, q))
    BY <1>3, <1>4, <1>6 DEF Processed
  <2>2. HalfMoveCount(GameForward(g)) = HalfMoveCount(g) + 1
    BY <1>1, <1>6, HalfMoveForward
  <2> HIDE DEF n, q
  <2> DEFINE new == Append(e.history, q)
  <2> HIDE DEF new
  <2>a. n = WithRepetitions(e, new)
    BY <2>1 DEF new
  <2>b. n.history = new /\ n.overrun = e.overrun
    BY <2>a DEF WithRepetitions
  <2>3. n.history = Append(e.history, q) /\ n.overrun = e.overrun
    BY <2>b DEF new
  <2>4. Len(n.history) = Len(e.history) + 1
    <3>1. Len(Append(e.history, q)) = Len(e.history) + 1
      BY <1>2
    <3> QED
      BY <2>3, <3>1
  <2>5. ~n.overrun /\ Len(n.history) = HalfMoveCount(GameForward(g)) + 1
    BY <1>2, <2>2, <2>3, <2>4
  <2> QED
    BY <2>5 DEF n
<1> QED
  BY <1>5, <1>6

(* Moves taken one by one, a new game and a new board keep every position  *)
(* since the last irreversible move, and never fill the array: the game    *)
(* ends by the fifty move rule before engine_process_move can overrun it.  *)
THEOREM PositionsAreKept == Spec => OnlyReplacingForgets
<1>1. Inv /\ [Next]_vars =>
        [AllPositionsKept /\ ~overrun /\ (PlayMove \/ CmdNew \/ CmdSetboard)
            => AllPositionsKept' /\ ~overrun']_vars
  <2> SUFFICES ASSUME Inv, AllPositionsKept, ~overrun, PlayMove \/ CmdNew \/ CmdSetboard
               PROVE  AllPositionsKept' /\ ~overrun'
    OBVIOUS
  <2>1. ASSUME NEW p \in Position, game' = GameFrom(p, 0), Reset(p)
        PROVE  AllPositionsKept' /\ ~overrun'
    <3>1. HalfMoveCount(GameFrom(p, 0)) = 0
      <4>1. GameFrom(p, 0) \in Game /\ GameFrom(p, 0).cur = 1 /\ GameFrom(p, 0).half0 = 0
        BY GameFromType DEF GameFrom
      <4>2. NoReturn(GameFrom(p, 0)) = {}
        BY <4>1 DEF NoReturn
      <4> QED
        BY <4>1, <4>2, HalfMoveCountIs
    <3>2. Len(<<p>>) = 1
      OBVIOUS
    <3> QED
      BY <2>1, <3>1, <3>2 DEF Reset, AllPositionsKept
  <2>2. CASE CmdNew
    BY <2>1, <2>2, StartAssumption DEF CmdNew, GameCreate
  <2>3. CASE CmdSetboard
    BY <2>1, <2>3, HistoryAssumption DEF CmdSetboard
  <2>4. CASE PlayMove
    <3>1. PICK m \in Legal[CurrentPosition(game)] :
             game' = GameAppend(game, m) /\ Becomes(Processed(Engine, m))
      BY <2>4 DEF PlayMove
    <3> DEFINE f == GameAppend(game, m)
               a == AtMove(f, game.cur)
               n == Processed(Engine, m)
    <3>2. /\ f \in Lines /\ f.cur = game.cur + 1 /\ Len(f.pos) = game.cur + 1
          /\ f.mv[game.cur] = m
          /\ SameUpToCursor(game, a) /\ f = AtMove(f, Len(f.pos))
      BY AppendLine DEF Inv
    <3>3. game.cur \in 1..Len(f.pos) /\ game.cur < Len(f.pos)
      BY <3>2, EngineIs, GameParts
    <3> HIDE DEF f
    <3>4. /\ a \in Lines /\ a.cur = game.cur /\ a.pos = f.pos /\ a.mv = f.mv
          /\ GameForward(a) = f
      BY <3>2, <3>3, AtMoveType
    <3> HIDE DEF a
    <3>5. Fits(Engine, a) /\ HalfMoveCount(a) = HalfMoveCount(game)
      BY <3>2, <3>4, SameFits, SameHalfMoves, EngineIs DEF Inv, Lines
    <3>6. HalfMoveCount(game) < FiftyMoveLimit
      <4>1. ~GameIsEnded(game)
        BY <2>4 DEF PlayMove, AcceptsMove
      <4> QED
        BY <4>1, EngineIs, HalfMoveCountIs, FiftyMoveAssumption DEF GameIsEnded
    <3>7. ~n.overrun /\ Len(n.history) = HalfMoveCount(f) + 1
      <4>1. Len(Engine.history) = HalfMoveCount(a) + 1 /\ ~Engine.overrun
        BY <3>5, EngineIs DEF AllPositionsKept
      <4>2. a.mv[a.cur] = m
        BY <3>2, <3>4
      <4>3. LET x == Processed(Engine, a.mv[a.cur]) IN
            ~x.overrun /\ Len(x.history) = HalfMoveCount(GameForward(a)) + 1
        BY <3>3, <3>4, <3>5, <3>6, <4>1, ProcessedKeepsAll
      <4> QED
        BY <3>4, <4>2, <4>3
    <3>8. game' = f /\ history' = n.history /\ overrun' = n.overrun
      BY <3>1 DEF Becomes, f
    <3> HIDE DEF n
    <3> QED
      BY <3>7, <3>8 DEF AllPositionsKept
  <2> QED
    BY <2>2, <2>3, <2>4
<1> QED
  BY <1>1, HistoryInvariant, PTL DEF Spec, OnlyReplacingForgets

-----------------------------------------------------------------------------
(* What the marks are for.                                                 *)

(* A line that enters a set of positions closed under moves stays in it.   *)
LEMMA ClosedLine ==
    ASSUME NEW g \in Lines, NEW S \in SUBSET Position, ClosedUnderMoves(S),
           NEW a \in 1..Len(g.pos), g.pos[a] \in S
    PROVE  \A b \in a..Len(g.pos) : g.pos[b] \in S
<1> DEFINE n == Len(g.pos) - a
           P == {k \in 0..n : g.pos[a + k] \in S}
<1>1. Len(g.pos) \in Nat /\ Len(g.mv) = Len(g.pos) - 1 /\ IsPlayed(g)
  BY GameParts DEF Lines
<1>2. n \in Nat /\ 0 \in P
  BY <1>1
<1>3. ASSUME NEW k \in 1..n, k - 1 \in P PROVE k \in P
  <2>1. a + (k - 1) \in 1..Len(g.mv) /\ a + (k - 1) + 1 = a + k
    BY <1>1
  <2>2. /\ g.mv[a + (k - 1)] \in Legal[g.pos[a + (k - 1)]]
        /\ g.pos[a + k] = Play[g.pos[a + (k - 1)]][g.mv[a + (k - 1)]]
    BY <1>1, <2>1 DEF IsPlayed
  <2>3. g.pos[a + k] \in S
    BY <1>3, <2>2 DEF ClosedUnderMoves
  <2> QED
    BY <2>3
<1>4. \A k \in 0..n : k \in P
  <2> HIDE DEF P, n
  <2> QED
    BY <1>2, <1>3, Induction
<1>5. ASSUME NEW b \in a..Len(g.pos) PROVE g.pos[b] \in S
  <2>1. b - a \in 0..n /\ a + (b - a) = b
    BY <1>1
  <2> HIDE DEF n
  <2> QED
    BY <1>4, <2>1
<1> QED
  BY <1>5

(* No position before an irreversible move comes back after it.            *)
LEMMA NoReturnAcross ==
    ASSUME NEW g \in Lines, NEW x \in 1..Len(g.mv), <<g.pos[x], g.mv[x]>> \in Irreversible,
           NEW i \in 1..x, NEW j \in (x + 1)..Len(g.pos)
    PROVE  g.pos[i] # g.pos[j]
<1>1. /\ Len(g.pos) \in Nat /\ Len(g.mv) = Len(g.pos) - 1 /\ IsPlayed(g)
      /\ g.pos \in Seq(Position)
  BY GameParts DEF Lines
<1>2. /\ g.mv[x] \in Legal[g.pos[x]] /\ g.pos[x + 1] = Play[g.pos[x]][g.mv[x]]
      /\ g.pos[x] \in Position
  BY <1>1 DEF IsPlayed
<1>3. PICK S \in SUBSET Position :
         ClosedUnderMoves(S) /\ g.pos[x + 1] \in S /\ g.pos[x] \notin S
  BY <1>2, NoWayBackAssumption
<1>4. x + 1 \in 1..Len(g.pos) /\ i \in 1..Len(g.pos) /\ x \in i..Len(g.pos)
  BY <1>1
<1>5. g.pos[j] \in S
  BY <1>3, <1>4, ClosedLine
<1>6. g.pos[i] \notin S
  BY <1>3, <1>4, ClosedLine
<1> QED
  BY <1>5, <1>6

(* A position that has come back has the same player to move.              *)
LEMMA SidesAlternate ==
    ASSUME NEW g \in Lines, NEW i \in 1..Len(g.pos), NEW j \in i..Len(g.pos),
           g.pos[i] = g.pos[j]
    PROVE  (j - i) % 2 = 0
<1> DEFINE n == j - i
           side == SideToMove[g.pos[i]]
           P == {k \in 0..n : SideToMove[g.pos[i + k]] =
                                  IF k % 2 = 0 THEN side ELSE Opponent(side)}
<1>1. /\ Len(g.pos) \in Nat /\ Len(g.mv) = Len(g.pos) - 1 /\ IsPlayed(g)
      /\ g.pos \in Seq(Position)
  BY GameParts DEF Lines
<1>2. n \in Nat /\ side \in Player
  BY <1>1, SideAssumption
<1>3. 0 \in P
  BY <1>1, <1>2
<1>4. ASSUME NEW k \in 1..n, k - 1 \in P PROVE k \in P
  <2> DEFINE b == i + (k - 1)
  <2>1. b \in 1..Len(g.mv) /\ b + 1 = i + k
    BY <1>1
  <2>2. /\ g.mv[b] \in Legal[g.pos[b]] /\ g.pos[i + k] = Play[g.pos[b]][g.mv[b]]
        /\ g.pos[b] \in Position
    BY <1>1, <2>1 DEF IsPlayed
  <2>3. SideToMove[g.pos[i + k]] = Opponent(SideToMove[g.pos[b]])
    BY <2>2, AlternationAssumption
  <2>4. SideToMove[g.pos[b]] = IF (k - 1) % 2 = 0 THEN side ELSE Opponent(side)
    BY <1>4
  <2>5. (k - 1) % 2 = 0 <=> k % 2 # 0
    BY <1>2
  <2>6. Opponent(Opponent(side)) = side
    BY <1>2 DEF Opponent, Player
  <2> HIDE DEF b, side
  <2>7. SideToMove[g.pos[i + k]] = IF k % 2 = 0 THEN side ELSE Opponent(side)
    BY <2>3, <2>4, <2>5, <2>6
  <2> QED
    BY <2>7
<1>5. \A k \in 0..n : k \in P
  <2> HIDE DEF P, n
  <2> QED
    BY <1>2, <1>3, <1>4, Induction
<1>6. n \in 0..n /\ i + n = j
  BY <1>1, <1>2
<1>7. side # Opponent(side)
  BY <1>2 DEF Opponent, Player
<1> HIDE DEF n, side
<1>8. side = IF n % 2 = 0 THEN side ELSE Opponent(side)
  BY <1>5, <1>6 DEF side
<1> QED
  BY <1>7, <1>8 DEF n

(* Two of three repetitions lie before the last move.                      *)
LEMMA TwoBefore ==
    ASSUME NEW c \in Nat, NEW S \in SUBSET (1..(c + 1)), Cardinality(S) >= 3
    PROVE  \E i, j \in S : i < j /\ j <= c
<1> SUFFICES ASSUME \A i, j \in S : i < j => ~(j <= c)
             PROVE  FALSE
  OBVIOUS
<1>1. \E a : S \subseteq {a, c + 1}
  <2>1. CASE \A i \in S : i = c + 1
    BY <2>1
  <2>2. CASE \E a \in S : a # c + 1
    <3>1. PICK a \in S : a # c + 1
      BY <2>2
    <3>2. ASSUME NEW i \in S, i # c + 1 PROVE i = a
      <4>1. i \in Nat /\ a \in Nat /\ i <= c /\ a <= c
        BY <3>1, <3>2
      <4>2. ~(i < a) /\ ~(a < i)
        BY <4>1
      <4> QED
        BY <4>1, <4>2
    <3> QED
      BY <3>2
  <2> QED
    BY <2>1, <2>2
<1>2. PICK a : S \subseteq {a, c + 1}
  BY <1>1
<1>3. IsFiniteSet({a, c + 1}) /\ Cardinality({a, c + 1}) \in {1, 2}
  BY PairCardinality
<1>4. IsFiniteSet(S) /\ Cardinality(S) <= Cardinality({a, c + 1})
  BY <1>2, <1>3, FS_Subset
<1> QED
  BY <1>3, <1>4, FS_CardinalityType

(* The search is warned of a draw it could run into: unless positions were *)
(* forgotten, a move to a position that has stood twice already leads to   *)
(* one that add_history_as_repetition has marked in the hash table.        *)
THEOREM RepetitionsAreMarked == Spec => []WarnedOfRepetition
<1>1. Inv => WarnedOfRepetition
  <2> SUFFICES ASSUME Inv, ~overrun, AllPositionsKept,
                      NEW m \in Legal[CurrentPosition(game)],
                      Repetitions(GameAppend(game, m)) >= 3
               PROVE  Play[CurrentPosition(game)][m] \in marked
    BY DEF WarnedOfRepetition
  <2> DEFINE f == GameAppend(game, m)
             p == Play[CurrentPosition(game)][m]
             c == game.cur
             R == {i \in 1..(c + 1) : f.pos[i] = p}
             base == c - Len(history)
  <2>1. /\ f \in Lines /\ f.cur = c + 1 /\ Len(f.pos) = c + 1 /\ f.pos[c + 1] = p
        /\ SameUpToCursor(game, AtMove(f, c))
    BY AppendLine DEF Inv
  <2>2. game \in Game /\ c \in Nat \ {0} /\ game.half0 \in Nat
    BY EngineIs, GameParts
  <2>3. history \in Seq(Position) /\ Len(history) \in Nat /\ Suffix(history, game)
        /\ Duplicates(history) \subseteq marked
    BY EngineIs DEF Inv, Fits, EngineState
  <2>4. PICK i \in R, j \in R : i < j /\ j <= c
    <3>1. Repetitions(f) = Cardinality(R)
      BY <2>1 DEF Repetitions, CurrentPosition
    <3> HIDE DEF f
    <3>2. R \in SUBSET (1..(c + 1))
      OBVIOUS
    <3> HIDE DEF R
    <3>3. Cardinality(R) >= 3
      BY <3>1 DEF f
    <3> QED
      BY <2>2, <3>2, <3>3, TwoBefore
  <2> HIDE DEF f, p
  <2>5. i \in 1..c /\ j \in 1..c /\ i < j /\ f.pos[i] = p /\ f.pos[j] = p
    BY <2>2, <2>4
  <2>6. /\ \A k \in 1..c : game.pos[k] = f.pos[k]
        /\ \A k \in 1..(c - 1) : game.mv[k] = f.mv[k]
    <3>1. c \in 1..Len(f.pos)
      BY <2>1, <2>2
    <3>2. AtMove(f, c).pos = f.pos /\ AtMove(f, c).mv = f.mv
      BY <2>1, <3>1, AtMoveType
    <3> QED
      BY <2>1, <3>2 DEF SameUpToCursor
  <2>7. i > base /\ base \in Nat
    <3>1. Len(history) = HalfMoveCount(game) + 1 /\ Len(history) <= c
      BY <2>3 DEF AllPositionsKept, Suffix
    <3>2. CASE NoReturn(game) = {}
      <4>1. HalfMoveCount(game) = game.half0 + c - 1
        BY <2>2, <3>2, HalfMoveCountIs
      <4> QED
        <5>1. Len(history) = game.half0 + c /\ game.half0 = 0
          BY <2>2, <2>3, <3>1, <4>1
        <5> QED
          BY <2>2, <2>5, <5>1
    <3>3. CASE NoReturn(game) # {}
      <4>1. PICK last \in NoReturn(game) : HalfMoveCount(game) = c - 1 - last
        BY <2>2, <3>3, HalfMoveCountIs
      <4>2. last \in 1..(c - 1) /\ <<game.pos[last], game.mv[last]>> \in Irreversible
        BY DEF NoReturn
      <4>3. <<f.pos[last], f.mv[last]>> \in Irreversible /\ last \in 1..Len(f.mv)
            /\ c + 1 \in (last + 1)..Len(f.pos)
        <5>1. f \in Game
          BY <2>1 DEF Lines
        <5>2. Len(f.mv) = Len(f.pos) - 1
          BY <5>1, GameParts
        <5>3. last \in 1..c /\ Len(f.mv) = c /\ c + 1 \in (last + 1)..Len(f.pos)
          <6>1. Len(f.mv) = c
            BY <2>1, <2>2, <5>2
          <6>2. last \in Nat /\ last + 1 <= c + 1 /\ last \in 1..c
            BY <2>2, <4>2
          <6>3. c + 1 \in (last + 1)..(c + 1)
            BY <2>2, <6>2
          <6> QED
            BY <2>1, <6>1, <6>2, <6>3
        <5> QED
          BY <2>6, <4>2, <5>3
      <4>4. i \notin 1..last
        BY <2>1, <2>5, <4>3, NoReturnAcross
      <4>5. i \in Nat /\ last \in Nat /\ i > last
        BY <2>2, <2>5, <4>2, <4>4
      <4>6. Len(history) = c - last
        BY <2>2, <2>3, <3>1, <4>1, <4>2
      <4>7. base = last
        BY <2>2, <4>5, <4>6
      <4> HIDE DEF base
      <4> QED
        BY <4>5, <4>7
    <3> QED
      BY <3>2, <3>3
  <2>8. (j - i) % 2 = 0
    <3>1. i \in 1..Len(f.pos) /\ j \in i..Len(f.pos)
      BY <2>1, <2>2, <2>5
    <3> QED
      BY <2>1, <2>5, <3>1, SidesAlternate
  <2> DEFINE x == i - base
             y == j - base
  <2>9. /\ x \in 1..Len(history) /\ y \in (x + 1)..Len(history) /\ y - x = j - i
        /\ y \in 1..Len(history) /\ base + x = i /\ base + y = j
    <3>1. base + Len(history) = c
      BY <2>2, <2>3
    <3> HIDE DEF base
    <3>2. /\ x \in Nat \ {0} /\ y \in Nat /\ x < y /\ y <= Len(history)
          /\ base + x = i /\ base + y = j
      BY <2>2, <2>3, <2>5, <2>7, <3>1
    <3>3. y - x = j - i
      BY <2>5, <2>7
    <3> HIDE DEF x, y
    <3> QED
      BY <2>3, <3>2, <3>3
  <2> HIDE DEF x, y
  <2>10. history[x] = p /\ history[y] = p
    BY <2>3, <2>5, <2>6, <2>9 DEF Suffix
  <2>11. y \in Again(history, x)
    BY <2>8, <2>9, <2>10 DEF Again
  <2>12. p \in Duplicates(history)
    BY <2>3, <2>9, <2>10, <2>11 DEF Duplicates
  <2> QED
    BY <2>3, <2>12 DEF p
<1> QED
  BY <1>1, HistoryInvariant, PTL

=============================================================================
