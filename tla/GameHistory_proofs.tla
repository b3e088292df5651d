------------------------- MODULE GameHistory_proofs -------------------------
(***************************************************************************)
(* Theorems of GameHistory, for every game tree, any number of games and   *)
(* items, and whatever unwritten memory holds.                             *)
(***************************************************************************)
EXTENDS GameHistory, GameLine_proofs, SequenceTheorems

-----------------------------------------------------------------------------
(* Walking a list.                                                         *)

LEMMA RangeIs ==
    ASSUME NEW S, NEW s \in Seq(S)
    PROVE  /\ Range(s) = {s[i] : i \in 1..Len(s)}
           /\ Range(s) \subseteq S
           /\ \A i \in 1..Len(s) : s[i] \in Range(s)
           /\ \A x \in Range(s) : \E i \in 1..Len(s) : s[i] = x
BY DEF Range

(* s starts at x and goes on as the pointers do, to the end.               *)
Follows(link, x, s) ==
    /\ s \in Seq(Ref) /\ Len(s) <= MaxLength
    /\ x = IF Len(s) = 0 THEN Null ELSE s[1]
    /\ \A i \in 1..Len(s) : link[s[i]] = IF i = Len(s) THEN Null ELSE s[i + 1]

(* Then it is what Along finds.                                            *)
LEMMA AlongIs ==
    ASSUME NEW link, NEW x, NEW s, Follows(link, x, s)
    PROVE  Along(link, x) = s
<1> /\ s \in Seq(Ref) /\ Len(s) <= MaxLength
    /\ x = IF Len(s) = 0 THEN Null ELSE s[1]
    /\ \A i \in 1..Len(s) : link[s[i]] = IF i = Len(s) THEN Null ELSE s[i + 1]
  BY DEF Follows
<1> DEFINE N == MaxLength + 1
           ext == [y \in Ref \cup {Null} |-> IF y = Null THEN Null ELSE link[y]]
           Step(a) == [n \in 1..N |-> IF n = 1 THEN x ELSE ext[a[n - 1]]]
           at == CHOOSE a : a = Step(a)
           f == [n \in 1..N |-> IF n <= Len(s) THEN s[n] ELSE Null]
<1>1. N \in Nat /\ Len(s) \in 0..N /\ Null \notin Ref
  BY LengthAssumption, HistoryAssumption DEF Ref
<1>2. Along(link, x) = SubSeq(at, 1, Cardinality({n \in DOMAIN at : at[n] # Null}))
  BY DEF Along
<1>3. ASSUME NEW y \in Ref PROVE ext[y] = link[y]
  BY <1>1, <1>3
<1>4. ext[Null] = Null
  OBVIOUS
<1> HIDE DEF ext
<1>5. f = Step(f)
  <2>1. ASSUME NEW n \in 1..N PROVE f[n] = IF n = 1 THEN x ELSE ext[f[n - 1]]
    <3>1. CASE n = 1
      BY <1>1, <3>1
    <3>2. CASE n # 1 /\ n - 1 <= Len(s)
      <4>1. n - 1 \in 1..Len(s) /\ n - 1 \in 1..N
        BY <1>1, <3>2
      <4>2. f[n - 1] = s[n - 1] /\ s[n - 1] \in Ref
        BY <4>1
      <4>3. ext[f[n - 1]] = IF n - 1 = Len(s) THEN Null ELSE s[n - 1 + 1]
        BY <1>3, <4>1, <4>2
      <4>4. f[n] = IF n - 1 = Len(s) THEN Null ELSE s[n]
        BY <1>1, <4>1
      <4> QED
        BY <3>2, <4>3, <4>4
    <3>3. CASE n # 1 /\ ~(n - 1 <= Len(s))
      <4>1. n - 1 \in 1..N /\ ~(n <= Len(s))
        BY <1>1, <3>3
      <4> QED
        BY <1>4, <3>3, <4>1
    <3> QED
      BY <3>1, <3>2, <3>3
  <2> QED
    BY <2>1
<1>6. at = Step(at)
  BY <1>5
<1> HIDE DEF at
<1>7. at = f
  <2> DEFINE P == {n \in Nat : n = 0 \/ at[n] = f[n]}
  <2>1. 0 \in P
    OBVIOUS
  <2>2. ASSUME NEW n \in 1..N, n - 1 \in P PROVE n \in P
    <3>1. f[n] = IF n = 1 THEN x ELSE ext[f[n - 1]]
      <4> HIDE DEF f
      <4> QED
        BY <1>5
    <3>2. at[n] = IF n = 1 THEN x ELSE ext[at[n - 1]]
      BY <1>6
    <3> HIDE DEF f
    <3> QED
      BY <2>2, <3>1, <3>2
  <2> HIDE DEF P
  <2>3. \A n \in 0..N : n \in P
    BY <1>1, <2>1, <2>2, Induction
  <2>4. \A n \in 1..N : at[n] = f[n]
    <3> HIDE DEF f
    <3> QED
      BY <1>1, <2>3 DEF P
  <2> QED
    BY <1>6, <2>4
<1>8. {n \in DOMAIN f : f[n] # Null} = 1..Len(s)
  <2>1. ASSUME NEW n PROVE n \in DOMAIN f /\ f[n] # Null <=> n \in 1..Len(s)
    BY <1>1
  <2> HIDE DEF f
  <2> QED
    BY <2>1
<1>9. Cardinality(1..Len(s)) = Len(s)
  <2>1. Len(s) \in Int /\ 1 \in Int
    OBVIOUS
  <2>2. Cardinality(1..Len(s)) = IF 1 > Len(s) THEN 0 ELSE Len(s) - 1 + 1
    BY <2>1, FS_Interval, Zenon
  <2> QED
    BY <2>1, <2>2
<1>10. Along(link, x) = SubSeq(f, 1, Len(s))
  BY <1>2, <1>7, <1>8, <1>9
<1>11. \A i \in 1..Len(s) : f[i] \in Ref /\ f[i] = s[i]
  BY <1>1
<1> HIDE DEF f
<1>12. /\ SubSeq(f, 1, Len(s)) \in Seq(Ref)
       /\ Len(SubSeq(f, 1, Len(s))) = IF 1 <= Len(s) THEN Len(s) - 1 + 1 ELSE 0
       /\ \A i \in 1..(Len(s) - 1 + 1) : SubSeq(f, 1, Len(s))[i] = f[1 + i - 1]
  BY <1>11, SubSeqProperties
<1>13. \A i \in 1..Len(s) : SubSeq(f, 1, Len(s))[i] = s[i]
  BY <1>11, <1>12
<1>14. Len(SubSeq(f, 1, Len(s))) = Len(s)
  BY <1>12
<1> QED
  BY <1>10, <1>12, <1>13, <1>14, SeqEqual

-----------------------------------------------------------------------------
(* The inductive invariant: the heap holds a list for each game.           *)

ItemRecord == [pos : Position, next : Ref \cup {Null}, prev : Ref \cup {Null},
               move : Move \cup Uninitialised, half : Nat]

HandleRecord == [current : Ref, tail : Ref, index : Nat, count : Nat, copy : BOOLEAN]

TypeOK ==
    /\ item \in [Ref -> ItemRecord]
    /\ freed \in SUBSET Ref
    /\ handle \in [GameId -> HandleRecord]

(* s is the list in it from x on.                                          *)
IsList(it, x, s) ==
    /\ s \in Seq(Ref) /\ Len(s) \in 1..MaxLength
    /\ s[1] = x
    /\ \A i, j \in 1..Len(s) : s[i] = s[j] => i = j
    /\ \A i \in 1..Len(s) : it[s[i]].next = IF i = Len(s) THEN Null ELSE s[i + 1]

(* The item y was appended to x.                                           *)
Linked(x, y) ==
    /\ x.move \in Legal[x.pos]
    /\ y.pos = Play[x.pos][x.move]
    /\ y.half = IF <<x.pos, x.move>> \in Irreversible THEN 0 ELSE x.half + 1

(* The items s are those of the game g, with the handle hd; its prev       *)
(* pointers are of use if the game is no copy.                             *)
IsGame(it, hd, g, s) ==
    /\ IsList(it, g, s)
    /\ \A i \in 2..Len(s) : s[i] \in Item
    /\ hd.index + 1 \in 1..Len(s) /\ hd.current = s[hd.index + 1]
    /\ hd.tail = s[Len(s)] /\ hd.count = Len(s)
    /\ \A i \in 1..(Len(s) - 1) : Linked(it[s[i]], it[s[i + 1]])
    /\ ~hd.copy =>
        \A i \in 1..Len(s) : it[s[i]].prev = IF i = 1 THEN Null ELSE s[i - 1]

(* own[g] is the list of the game g, empty if there is none.               *)
Sound(it, fr, hd, own) ==
    /\ own \in [GameId -> Seq(Ref)]
    /\ \A g \in GameId : Len(own[g]) # 0 => IsGame(it, hd[g], g, own[g])
    /\ \A g, h \in GameId : g # h => Range(own[g]) \cap Range(own[h]) = {}
    /\ \A x \in Ref : x \in fr <=> \A g \in GameId : x \notin Range(own[g])
    /\ \A x \in fr : it[x] = FreeItem

Inv == TypeOK /\ \E own : Sound(item, freed, handle, own)

-----------------------------------------------------------------------------
(* Facts about a game's list.                                              *)

(* x is the place k of the list s, which may be the end behind it.         *)
IsAt(s, k, x) == k \in 1..(Len(s) + 1) /\ x = IF k = Len(s) + 1 THEN Null ELSE s[k]

(* The list from such a place on.                                          *)
LEMMA ChainFrom ==
    ASSUME NEW it \in [Ref -> ItemRecord], NEW x, NEW s, IsList(it, x, s),
           NEW k, NEW y, IsAt(s, k, y)
    PROVE  /\ Walk(it, y) = SubSeq(s, k, Len(s))
           /\ Chain(it, y) = {s[i] : i \in k..Len(s)}
<1> DEFINE q == SubSeq(s, k, Len(s))
           link == [z \in Ref |-> it[z].next]
<1> k \in 1..(Len(s) + 1) /\ y = IF k = Len(s) + 1 THEN Null ELSE s[k]
  BY DEF IsAt
<1>1. /\ s \in Seq(Ref) /\ Len(s) \in 1..MaxLength /\ Len(s) \in Nat
      /\ \A i \in 1..Len(s) : it[s[i]].next = IF i = Len(s) THEN Null ELSE s[i + 1]
  BY DEF IsList
<1>2. /\ q \in Seq(Ref) /\ Len(q) = Len(s) - k + 1
      /\ \A i \in 1..Len(q) : q[i] = s[k + i - 1]
  <2>1. k \in Int /\ Len(s) \in Int /\ \A i \in k..Len(s) : s[i] \in Ref
    BY <1>1
  <2>2. /\ q \in Seq(Ref)
        /\ Len(q) = IF k <= Len(s) THEN Len(s) - k + 1 ELSE 0
        /\ \A i \in 1..(Len(s) - k + 1) : q[i] = s[k + i - 1]
    BY <2>1, SubSeqProperties
  <2> HIDE DEF q
  <2>3. Len(q) = Len(s) - k + 1
    BY <1>1, <2>2
  <2> QED
    BY <2>2, <2>3
<1> HIDE DEF q
<1>3. Len(q) <= MaxLength /\ Len(q) \in Nat
  BY <1>1, <1>2, LengthAssumption
<1>4. y = IF Len(q) = 0 THEN Null ELSE q[1]
  BY <1>1, <1>2
<1>5. ASSUME NEW i \in 1..Len(q)
      PROVE  link[q[i]] = IF i = Len(q) THEN Null ELSE q[i + 1]
  <2>1. q[i] = s[k + i - 1] /\ k + i - 1 \in 1..Len(s) /\ q[i] \in Ref
    BY <1>1, <1>2
  <2>2. link[q[i]] = IF k + i - 1 = Len(s) THEN Null ELSE s[k + i - 1 + 1]
    BY <1>1, <2>1
  <2>3. k + i - 1 = Len(s) <=> i = Len(q)
    <3>1. k \in Nat /\ Len(s) \in Nat /\ Len(q) \in Nat /\ i \in Nat
      BY <1>1, <1>3
    <3>2. Len(q) = Len(s) - k + 1
      BY <1>2
    <3> QED
      BY <3>1, <3>2
  <2>4. i # Len(q) => i + 1 \in 1..Len(q) /\ k + (i + 1) - 1 = k + i - 1 + 1
    BY <1>3
  <2>5. i # Len(q) => q[i + 1] = s[k + i - 1 + 1]
    <3>1. ASSUME NEW j \in 1..Len(q) PROVE q[j] = s[k + j - 1]
      BY <1>2
    <3>2. i + 1 \in 1..Len(q) => q[i + 1] = s[k + (i + 1) - 1]
      BY <3>1
    <3> QED
      BY <2>4, <3>2
  <2> HIDE DEF link
  <2> QED
    BY <2>2, <2>3, <2>5
<1>6. Walk(it, y) = q
  <2> HIDE DEF link
  <2>1. Follows(link, y, q)
    BY <1>2, <1>3, <1>4, <1>5 DEF Follows
  <2>2. Along(link, y) = q
    BY <2>1, AlongIs
  <2> QED
    BY <2>2 DEF Walk, link
<1>7. Range(q) = {s[i] : i \in k..Len(s)}
  <2>1. ASSUME NEW z \in Range(q) PROVE z \in {s[i] : i \in k..Len(s)}
    <3>1. PICK i \in 1..Len(q) : z = q[i]
      BY <1>2, RangeIs
    <3>2. z = s[k + i - 1] /\ k + i - 1 \in k..Len(s)
      BY <1>1, <1>2, <3>1
    <3> QED
      BY <3>2
  <2>2. ASSUME NEW i \in k..Len(s) PROVE s[i] \in Range(q)
    <3>1. i - k + 1 \in 1..Len(q) /\ k + (i - k + 1) - 1 = i
      BY <1>1, <1>2
    <3>2. q[i - k + 1] = s[i]
      BY <1>2, <3>1
    <3> QED
      BY <1>2, <3>1, <3>2, RangeIs
  <2> QED
    BY <2>1, <2>2
<1> QED
  BY <1>6, <1>7 DEF Chain, q

(* From its first item on, it is the whole list.                           *)
LEMMA WalkIs ==
    ASSUME NEW it \in [Ref -> ItemRecord], NEW x, NEW s, IsList(it, x, s)
    PROVE  Walk(it, x) = s /\ Chain(it, x) = Range(s)
<1>1. s \in Seq(Ref) /\ Len(s) \in Nat \ {0} /\ x = s[1]
  BY DEF IsList
<1>2. IsAt(s, 1, x)
  BY <1>1 DEF IsAt
<1>3. /\ Walk(it, x) = SubSeq(s, 1, Len(s))
      /\ Chain(it, x) = {s[i] : i \in 1..Len(s)}
  BY <1>2, ChainFrom
<1> QED
  BY <1>1, <1>3, SubSeqFull, RangeIs

(* Nothing follows Null.                                                   *)
LEMMA NothingFollows ==
    ASSUME NEW it
    PROVE  Chain(it, Null) = {}
<1> DEFINE link == [z \in Ref |-> it[z].next]
<1>1. << >> \in Seq(Ref) /\ Len(<< >>) = 0
  OBVIOUS
<1> HIDE DEF link
<1>2. Follows(link, Null, << >>)
  BY <1>1, LengthAssumption DEF Follows
<1>3. Along(link, Null) = << >>
  BY <1>2, AlongIs
<1>4. Range(<< >>) = {}
  BY <1>1 DEF Range
<1> QED
  BY <1>3, <1>4 DEF Chain, Walk, link

(* The line a list stands for.                                             *)
LineAlong(it, hd, g, s) ==
    [pos |-> [i \in 1..Len(s) |-> it[s[i]].pos],
     mv |-> [i \in 1..(Len(s) - 1) |-> it[s[i]].move],
     cur |-> hd.index + 1,
     half0 |-> it[g].half]

LineIn(it, hd, g) ==
    LET w == Walk(it, g)
        cursor == {i \in DOMAIN w : w[i] = hd.current}
    IN  [pos |-> [i \in DOMAIN w |-> it[w[i]].pos],
         mv |-> [i \in 1..(Len(w) - 1) |-> it[w[i]].move],
         cur |-> IF cursor = {} THEN 0 ELSE CHOOSE i \in cursor : TRUE,
         half0 |-> it[g].half]

LEMMA LineInIs ==
    ASSUME NEW it \in [Ref -> ItemRecord], NEW hd \in HandleRecord, NEW g, NEW s,
           IsGame(it, hd, g, s)
    PROVE  LineIn(it, hd, g) = LineAlong(it, hd, g, s)
<1>1. IsList(it, g, s) /\ s \in Seq(Ref) /\ DOMAIN s = 1..Len(s)
  BY DEF IsGame, IsList
<1>2. Walk(it, g) = s
  BY <1>1, WalkIs
<1> DEFINE cursor == {i \in DOMAIN s : s[i] = hd.current}
<1>3. cursor = {hd.index + 1}
  <2>1. hd.index + 1 \in 1..Len(s) /\ hd.current = s[hd.index + 1]
    BY DEF IsGame
  <2>2. \A i \in 1..Len(s) : s[i] = s[hd.index + 1] => i = hd.index + 1
    BY <2>1 DEF IsGame, IsList
  <2> QED
    BY <1>1, <2>1, <2>2
<1>4. (IF cursor = {} THEN 0 ELSE CHOOSE i \in cursor : TRUE) = hd.index + 1
  BY <1>3
<1>5. LineIn(it, hd, g) =
         [pos |-> [i \in DOMAIN s |-> it[s[i]].pos],
          mv |-> [i \in 1..(Len(s) - 1) |-> it[s[i]].move],
          cur |-> IF cursor = {} THEN 0 ELSE CHOOSE i \in cursor : TRUE,
          half0 |-> it[g].half]
  BY <1>2, Zenon DEF LineIn
<1> HIDE DEF cursor
<1> QED
  BY <1>1, <1>4, <1>5 DEF LineAlong

(* It is a game, and one that was played.                                  *)
LEMMA LineIsGame ==
    ASSUME NEW it \in [Ref -> ItemRecord], NEW hd \in HandleRecord, NEW g, NEW s,
           IsGame(it, hd, g, s)
    PROVE  /\ LineAlong(it, hd, g, s) \in Game
           /\ IsPlayed(LineAlong(it, hd, g, s))
           /\ LineAlong(it, hd, g, s) # NoGame
           /\ Len(LineAlong(it, hd, g, s).pos) = Len(s)
           /\ Len(LineAlong(it, hd, g, s).mv) = Len(s) - 1
           /\ LineAlong(it, hd, g, s).pos \in Seq(Position)
           /\ LineAlong(it, hd, g, s).mv \in Seq(Move)
<1> DEFINE pos == [i \in 1..Len(s) |-> it[s[i]].pos]
           mv == [i \in 1..(Len(s) - 1) |-> it[s[i]].move]
           line == LineAlong(it, hd, g, s)
<1>1. /\ s \in Seq(Ref) /\ Len(s) \in Nat /\ Len(s) # 0 /\ s[1] = g /\ g \in Ref
      /\ hd.index + 1 \in 1..Len(s)
      /\ \A i \in 1..(Len(s) - 1) : Linked(it[s[i]], it[s[i + 1]])
  BY DEF IsGame, IsList
<1>2. \A i \in 1..Len(s) : it[s[i]] \in ItemRecord /\ it[s[i]].pos \in Position
  BY <1>1 DEF ItemRecord
<1>3. ASSUME NEW i \in 1..(Len(s) - 1)
      PROVE  /\ it[s[i]].move \in Move /\ it[s[i]].move \in Legal[it[s[i]].pos]
             /\ it[s[i + 1]].pos = Play[it[s[i]].pos][it[s[i]].move]
  <2>1. Linked(it[s[i]], it[s[i + 1]]) /\ i \in 1..Len(s)
    BY <1>1
  <2> QED
    BY <1>2, <2>1, LegalAssumption DEF Linked
<1>4. pos \in Seq(Position) /\ Len(pos) = Len(s)
  BY <1>1, <1>2
<1>5. mv \in Seq(Move) /\ Len(mv) = Len(s) - 1
  <2>1. Len(s) - 1 \in Nat
    BY <1>1
  <2> QED
    BY <1>3, <2>1
<1>6. it[g].half \in Nat
  BY <1>1 DEF ItemRecord
<1>7. line = [pos |-> pos, mv |-> mv, cur |-> hd.index + 1, half0 |-> it[g].half]
  BY DEF LineAlong
<1>8. \A i \in 1..Len(mv) :
         mv[i] = it[s[i]].move /\ pos[i] = it[s[i]].pos /\ pos[i + 1] = it[s[i + 1]].pos
  BY <1>1, <1>5
<1> HIDE DEF pos, mv
<1>9. Len(pos) = Len(mv) + 1 /\ hd.index + 1 \in 1..Len(pos)
  BY <1>1, <1>4, <1>5
<1>10. line \in Game
  BY <1>4, <1>5, <1>6, <1>7, <1>9, MakeGame
<1>11. IsPlayed(line)
  BY <1>3, <1>5, <1>7, <1>8 DEF IsPlayed
<1>12. line # NoGame
  <2>1. Len(NoGame.pos) = 0
    BY DEF NoGame
  <2> QED
    BY <1>1, <1>4, <1>7, <2>1
<1> QED
  BY <1>4, <1>5, <1>7, <1>10, <1>11, <1>12

(* Which games there are, and whose items are whose.                       *)
LEMMA CreatedIs ==
    ASSUME NEW it, NEW fr, NEW hd, NEW own, Sound(it, fr, hd, own), NEW g \in GameId
    PROVE  /\ g \in fr <=> Len(own[g]) = 0
           /\ own[g] \in Seq(Ref) /\ Len(own[g]) \in Nat
           /\ Range(own[g]) \subseteq Ref
           /\ Range(own[g]) \cap fr = {}
           /\ Len(own[g]) = 0 => Range(own[g]) = {}
<1>1. /\ own[g] \in Seq(Ref) /\ Len(own[g]) \in Nat /\ g \in Ref
      /\ Range(own[g]) = {own[g][i] : i \in 1..Len(own[g])}
  BY RangeIs DEF Sound, Ref
<1>2. Range(own[g]) \subseteq Ref /\ (Len(own[g]) = 0 => Range(own[g]) = {})
  BY <1>1
<1>3. ASSUME Len(own[g]) # 0 PROVE g \in Range(own[g])
  <2>1. own[g][1] = g /\ 1 \in 1..Len(own[g])
    BY <1>1, <1>3 DEF Sound, IsGame, IsList
  <2> QED
    BY <1>1, <2>1
<1>4. ASSUME Len(own[g]) = 0, NEW h \in GameId PROVE g \notin Range(own[h])
  <2> SUFFICES ASSUME g \in Range(own[h]) PROVE FALSE
    OBVIOUS
  <2>1. own[h] \in Seq(Ref)
    BY DEF Sound
  <2>2. PICK i \in 1..Len(own[h]) : own[h][i] = g
    BY <2>1, RangeIs
  <2>3. g # h /\ Len(own[h]) # 0
    BY <1>4, <2>1, <2>2
  <2>4. IsGame(it, hd[h], h, own[h])
    BY <2>3 DEF Sound
  <2>5. i = 1 => own[h][i] = h
    BY <2>4 DEF IsGame, IsList
  <2>6. i # 1 => own[h][i] \in Item
    <3>1. i # 1 => i \in 2..Len(own[h])
      BY <2>1
    <3> QED
      BY <2>4, <3>1 DEF IsGame
  <2> QED
    BY <2>2, <2>3, <2>5, <2>6, HistoryAssumption
<1>5. g \in fr <=> Len(own[g]) = 0
  BY <1>1, <1>3, <1>4 DEF Sound
<1>6. Range(own[g]) \cap fr = {}
  BY <1>2 DEF Sound
<1> QED
  BY <1>1, <1>2, <1>5, <1>6

-----------------------------------------------------------------------------
(* A step changes the list of one game.                                    *)

(* A heap as the functions of game.c compute it.                           *)
HeapType ==
    [item : [Ref -> ItemRecord], freed : SUBSET Ref, handle : [GameId -> HandleRecord]]

(* The next state is the heap h, with nothing in freed memory.             *)
Holds(h) ==
    /\ freed' = h.freed
    /\ \A x \in Ref \ h.freed : item'[x] = h.item[x]
    /\ \A x \in h.freed : item'[x] = FreeItem
    /\ \A g \in GameId \ h.freed : handle'[g] = h.handle[g]

(* In the heap h the game g has the list s, made of items it had or that   *)
(* were free, and all else is as it was.                                   *)
Change(h, own, g, s) ==
    /\ s \in Seq(Ref)
    /\ Len(s) # 0 => IsGame(h.item, h.handle[g], g, s)
    /\ Range(s) \subseteq Range(own[g]) \cup freed
    /\ h.freed = (freed \cup Range(own[g])) \ Range(s)
    /\ \A x \in Ref \ (freed \cup Range(own[g])) : h.item[x] = item[x]
    /\ \A y \in GameId \ {g} : h.handle[y] = handle[y]

(* Being the list of a game is a matter of its items and handle alone.     *)
LEMMA SameGame ==
    ASSUME NEW a, NEW b, NEW ha, NEW g, NEW s, IsGame(a, ha, g, s),
           \A x \in Range(s) : b[x] = a[x]
    PROVE  IsGame(b, ha, g, s) /\ LineAlong(b, ha, g, s) = LineAlong(a, ha, g, s)
<1>1. s \in Seq(Ref) /\ Len(s) \in Nat \ {0} /\ s[1] = g
  BY DEF IsGame, IsList
<1>2. \A i \in 1..Len(s) : b[s[i]] = a[s[i]]
  BY <1>1, RangeIs
<1>3. IsList(b, g, s)
  BY <1>2 DEF IsGame, IsList
<1>4. \A i \in 1..(Len(s) - 1) : Linked(b[s[i]], b[s[i + 1]])
  <2> TAKE i \in 1..(Len(s) - 1)
  <2>1. i \in 1..Len(s) /\ i + 1 \in 1..Len(s)
    BY <1>1
  <2> QED
    BY <1>2, <2>1 DEF IsGame
<1>5. \A i \in 1..Len(s) : b[s[i]].prev = a[s[i]].prev
  BY <1>2
<1>6. IsGame(b, ha, g, s)
  BY <1>3, <1>4, <1>5 DEF IsGame
<1>7. /\ [i \in 1..Len(s) |-> b[s[i]].pos] = [i \in 1..Len(s) |-> a[s[i]].pos]
      /\ [i \in 1..(Len(s) - 1) |-> b[s[i]].move] = [i \in 1..(Len(s) - 1) |-> a[s[i]].move]
      /\ b[g].half = a[g].half
  <2>1. \A i \in 1..(Len(s) - 1) : b[s[i]].move = a[s[i]].move
    BY <1>1, <1>2
  <2>2. b[g] = a[g]
    BY <1>1, <1>2
  <2> QED
    BY <1>2, <2>1, <2>2
<1> QED
  BY <1>6, <1>7 DEF LineAlong

LEMMA ChangeSound ==
    ASSUME TypeOK, NEW own, Sound(item, freed, handle, own), NEW g \in GameId,
           NEW s, NEW h \in HeapType, Change(h, own, g, s), Holds(h)
    PROVE  Sound(item', freed', handle', [own EXCEPT ![g] = s])
<1> DEFINE new == [own EXCEPT ![g] = s]
<1>1. /\ own \in [GameId -> Seq(Ref)] /\ s \in Seq(Ref)
      /\ new \in [GameId -> Seq(Ref)] /\ new[g] = s
      /\ \A y \in GameId \ {g} : new[y] = own[y]
  BY DEF Sound, Change
<1> HIDE DEF new
<1>2. /\ freed' = (freed \cup Range(own[g])) \ Range(s)
      /\ Range(s) \subseteq Ref /\ Range(own[g]) \subseteq Ref /\ freed' \subseteq Ref
  BY <1>1, RangeIs DEF Holds, Change, TypeOK
<1>3. ASSUME NEW y \in GameId \ {g}, NEW x \in Range(own[y])
      PROVE  x \in Ref /\ x \notin freed /\ x \notin Range(own[g]) /\ x \notin Range(s)
  <2>1. x \in Ref /\ x \notin freed
    BY <1>3, CreatedIs
  <2>2. x \notin Range(own[g])
    BY <1>3 DEF Sound
  <2> QED
    BY <2>1, <2>2 DEF Change
<1>4. ASSUME NEW y \in GameId, Len(new[y]) # 0
      PROVE  IsGame(item', handle'[y], y, new[y])
  <2>1. CASE y = g
    <3>1. IsGame(h.item, h.handle[g], g, s)
      BY <1>1, <1>4, <2>1 DEF Change
    <3>2. \A x \in Range(s) : x \in Ref /\ x \notin h.freed
      BY <1>2 DEF Change
    <3>3. \A x \in Range(s) : item'[x] = h.item[x]
      BY <3>2 DEF Holds
    <3>4. g \in Range(s)
      <4>1. s[1] = g /\ 1 \in 1..Len(s)
        BY <3>1 DEF IsGame, IsList
      <4> QED
        BY <1>1, <4>1, RangeIs
    <3>5. handle'[g] = h.handle[g]
      BY <3>2, <3>4 DEF Holds
    <3> QED
      BY <1>1, <2>1, <3>1, <3>3, <3>5, SameGame
  <2>2. CASE y # g
    <3>1. new[y] = own[y] /\ IsGame(item, handle[y], y, own[y])
      BY <1>1, <1>4, <2>2 DEF Sound
    <3>2. \A x \in Range(own[y]) : item'[x] = item[x]
      BY <1>2, <1>3, <2>2 DEF Holds, Change
    <3>3. y \in Range(own[y])
      <4>1. own[y][1] = y /\ 1 \in 1..Len(own[y]) /\ own[y] \in Seq(Ref)
        BY <3>1 DEF IsGame, IsList
      <4> QED
        BY <4>1, RangeIs
    <3>4. y \notin h.freed
      BY <1>2, <1>3, <2>2, <3>3 DEF Holds
    <3>5. handle'[y] = handle[y]
      BY <2>2, <3>4 DEF Holds, Change
    <3> QED
      BY <3>1, <3>2, <3>5, SameGame
  <2> QED
    BY <2>1, <2>2
<1>5. ASSUME NEW y \in GameId, NEW z \in GameId, y # z
      PROVE  Range(new[y]) \cap Range(new[z]) = {}
  <2>1. CASE y # g /\ z # g
    BY <1>1, <1>5, <2>1 DEF Sound
  <2>2. CASE y = g
    BY <1>1, <1>3, <1>5, <2>2
  <2>3. CASE z = g
    BY <1>1, <1>3, <1>5, <2>3
  <2> QED
    BY <2>1, <2>2, <2>3
<1>6. ASSUME NEW x \in Ref
      PROVE  x \in freed' <=> \A y \in GameId : x \notin Range(new[y])
  <2>1. x \in freed <=> \A y \in GameId : x \notin Range(own[y])
    BY DEF Sound
  <2>2. ASSUME x \in freed', NEW y \in GameId PROVE x \notin Range(new[y])
    BY <1>1, <1>2, <1>3, <2>2
  <2>3. ASSUME \A y \in GameId : x \notin Range(new[y]) PROVE x \in freed'
    BY <1>1, <1>2, <2>1, <2>3
  <2> QED
    BY <2>2, <2>3
<1>7. \A x \in freed' : item'[x] = FreeItem
  BY DEF Holds
<1> QED
  BY <1>1, <1>4, <1>5, <1>6, <1>7 DEF Sound, new

(* The lines after such a step: that of g is new.                          *)
LEMMA ChangeLine ==
    ASSUME TypeOK, TypeOK', NEW own, Sound(item, freed, handle, own), NEW g \in GameId,
           NEW s, NEW h \in HeapType, Change(h, own, g, s), Holds(h)
    PROVE  LineKept' = [LineKept EXCEPT ![g] =
               IF Len(s) = 0 THEN NoGame ELSE LineAlong(h.item, h.handle[g], g, s)]
<1> DEFINE new == [own EXCEPT ![g] = s]
           v == IF Len(s) = 0 THEN NoGame ELSE LineAlong(h.item, h.handle[g], g, s)
<1>1. Sound(item', freed', handle', new)
  BY ChangeSound
<1>2. /\ own \in [GameId -> Seq(Ref)] /\ s \in Seq(Ref) /\ new[g] = s
      /\ \A y \in GameId \ {g} : new[y] = own[y]
  BY DEF Sound, Change
<1> HIDE DEF new
<1>3. ASSUME NEW y \in GameId
      PROVE  /\ LineKept[y] = IF y \notin freed THEN LineIn(item, handle[y], y) ELSE NoGame
             /\ LineKept'[y] = IF y \notin freed' THEN LineIn(item', handle'[y], y) ELSE NoGame
  BY DEF LineKept, LineOf, LineIn, Created
<1>4. /\ item \in [Ref -> ItemRecord] /\ handle \in [GameId -> HandleRecord]
      /\ item' \in [Ref -> ItemRecord] /\ handle' \in [GameId -> HandleRecord]
  BY DEF TypeOK
<1>5. ASSUME NEW y \in GameId \ {g} PROVE LineKept'[y] = LineKept[y]
  <2>1. (y \in freed <=> Len(own[y]) = 0) /\ (y \in freed' <=> Len(new[y]) = 0)
    BY <1>1, CreatedIs
  <2>2. CASE Len(own[y]) = 0
    BY <1>2, <1>3, <2>1, <2>2
  <2>3. CASE Len(own[y]) # 0
    <3>1. IsGame(item, handle[y], y, own[y]) /\ IsGame(item', handle'[y], y, own[y])
      BY <1>1, <1>2, <2>3 DEF Sound
    <3>2. \A x \in Range(own[y]) : item'[x] = item[x]
      <4> TAKE x \in Range(own[y])
      <4>1. x \in Ref /\ x \notin freed
        BY CreatedIs
      <4>2. x \notin Range(own[g])
        BY DEF Sound
      <4>3. x \notin h.freed /\ h.item[x] = item[x]
        BY <4>1, <4>2 DEF Change
      <4> QED
        BY <4>1, <4>3 DEF Holds
    <3>3. handle'[y] = handle[y]
      BY <1>2, <2>1, <2>3 DEF Holds, Change
    <3>4. LineAlong(item', handle'[y], y, own[y]) = LineAlong(item, handle[y], y, own[y])
      BY <3>1, <3>2, <3>3, SameGame
    <3>5. /\ LineIn(item, handle[y], y) = LineAlong(item, handle[y], y, own[y])
          /\ LineIn(item', handle'[y], y) = LineAlong(item', handle'[y], y, own[y])
      BY <1>4, <3>1, LineInIs
    <3> QED
      BY <1>2, <1>3, <2>1, <2>3, <3>4, <3>5
  <2> QED
    BY <2>2, <2>3
<1>6. LineKept'[g] = v
  <2>1. g \in freed' <=> Len(s) = 0
    BY <1>1, <1>2, CreatedIs
  <2>2. CASE Len(s) = 0
    BY <1>3, <2>1, <2>2
  <2>3. CASE Len(s) # 0
    <3>1. IsGame(item', handle'[g], g, s)
      BY <1>1, <1>2, <2>3 DEF Sound
    <3>2. IsGame(h.item, h.handle[g], g, s)
      BY <2>3 DEF Change
    <3>3. \A x \in Range(s) : item'[x] = h.item[x]
      <4> TAKE x \in Range(s)
      <4>1. x \in Ref /\ x \notin h.freed
        BY <1>2, RangeIs DEF Change
      <4> QED
        BY <4>1 DEF Holds
    <3>4. handle'[g] = h.handle[g]
      BY <2>1, <2>3 DEF Holds
    <3>5. LineAlong(item', handle'[g], g, s) = LineAlong(h.item, h.handle[g], g, s)
      BY <3>2, <3>3, <3>4, SameGame
    <3>6. LineIn(item', handle'[g], g) = LineAlong(item', handle'[g], g, s)
      BY <1>4, <3>1, LineInIs
    <3> QED
      BY <1>3, <2>1, <2>3, <3>5, <3>6
  <2> QED
    BY <2>2, <2>3
<1> HIDE DEF v
<1>7. DOMAIN LineKept = GameId /\ DOMAIN LineKept' = GameId
  BY DEF LineKept
<1>8. LineKept' = [y \in GameId |-> LineKept'[y]] /\ LineKept = [y \in GameId |-> LineKept[y]]
  BY DEF LineKept
<1>9. LineKept' = [LineKept EXCEPT ![g] = v]
  BY <1>5, <1>6, <1>7, <1>8
<1> QED
  BY <1>9 DEF v

(* How the functions of game.c leave the heap they compute.                *)
LEMMA BecomesHolds ==
    ASSUME NEW h \in HeapType, Becomes(h)
    PROVE  Holds(h) /\ TypeOK'
<1>1. h.item \in [Ref -> ItemRecord] /\ h.freed \in SUBSET Ref
      /\ h.handle \in [GameId -> HandleRecord]
  BY DEF HeapType
<1>2. FreeItem \in ItemRecord
  BY StartAssumption, HistoryAssumption DEF FreeItem, ItemRecord
<1>3. \A g \in GameId : EmptyHandle(g) \in HandleRecord
  BY DEF EmptyHandle, HandleRecord, Ref
<1>4. Holds(h)
  BY <1>1 DEF Becomes, Holds, Ref
<1>5. TypeOK'
  BY <1>1, <1>2, <1>3 DEF Becomes, TypeOK
<1> QED
  BY <1>4, <1>5

-----------------------------------------------------------------------------
(* game_truncate.                                                          *)

(* What is known of the list w of a game g, and of its cursor.             *)
LEMMA ListOf ==
    ASSUME TypeOK, NEW own, Sound(item, freed, handle, own), NEW g \in GameId, Created(g)
    PROVE  /\ IsGame(item, handle[g], g, own[g]) /\ IsList(item, g, own[g])
           /\ own[g] \in Seq(Ref) /\ Len(own[g]) \in 1..MaxLength /\ Len(own[g]) \in Nat
           /\ own[g][1] = g
           /\ handle[g].index \in Nat /\ handle[g].index + 1 \in 1..Len(own[g])
           /\ handle[g].current = own[g][handle[g].index + 1]
           /\ handle[g].current \in Ref
           /\ handle[g].tail = own[g][Len(own[g])] /\ handle[g].count = Len(own[g])
           /\ item[handle[g].current] \in ItemRecord
           /\ Range(own[g]) \cap freed = {} /\ Range(own[g]) \subseteq Ref
           /\ handle[g] \in HandleRecord
           /\ LineKept[g] = LineAlong(item, handle[g], g, own[g])
           /\ Walk(item, g) = own[g]
<1>1. Len(own[g]) # 0 /\ own[g] \in Seq(Ref) /\ Range(own[g]) \cap freed = {}
      /\ Range(own[g]) \subseteq Ref
  BY CreatedIs DEF Created
<1>2. IsGame(item, handle[g], g, own[g])
  BY <1>1 DEF Sound
<1>3. /\ IsList(item, g, own[g]) /\ Len(own[g]) \in 1..MaxLength /\ own[g][1] = g
      /\ handle[g].index + 1 \in 1..Len(own[g])
      /\ handle[g].current = own[g][handle[g].index + 1]
      /\ handle[g].tail = own[g][Len(own[g])] /\ handle[g].count = Len(own[g])
  BY <1>2 DEF IsGame, IsList
<1>4. handle[g] \in HandleRecord /\ item \in [Ref -> ItemRecord]
  BY DEF TypeOK
<1>5. handle[g].current \in Ref /\ handle[g].index \in Nat
  BY <1>4 DEF HandleRecord
<1>6. LineKept[g] = LineIn(item, handle[g], g)
  BY DEF LineKept, LineOf, LineIn, Created
<1>7. LineIn(item, handle[g], g) = LineAlong(item, handle[g], g, own[g])
  BY <1>2, <1>4, LineInIs
<1>8. Walk(item, g) = own[g]
  BY <1>3, <1>4, WalkIs
<1> QED
  BY <1>1, <1>2, <1>3, <1>4, <1>5, <1>6, <1>7, <1>8

(* Two fields of one item, or of one handle, are set.                      *)
SetsNext(it, c, n, m, new) ==
    /\ n \in Ref \cup {Null} /\ m \in Move \cup Uninitialised
    /\ new = [it EXCEPT ![c].next = n, ![c].move = m]

SetsEnd(hd, g, t, n, new) == new = [hd EXCEPT ![g].tail = t, ![g].count = n]

LEMMA TwoItemFields ==
    ASSUME NEW it \in [Ref -> ItemRecord], NEW c \in Ref, NEW n, NEW m, NEW new,
           SetsNext(it, c, n, m, new)
    PROVE  /\ new \in [Ref -> ItemRecord]
           /\ \A x \in Ref \ {c} : new[x] = it[x]
           /\ new[c].next = n /\ new[c].move = m
           /\ new[c].pos = it[c].pos /\ new[c].prev = it[c].prev /\ new[c].half = it[c].half
<1> DEFINE r == [it[c] EXCEPT !.next = n, !.move = m]
<1>1. it[c] \in ItemRecord
  OBVIOUS
<1>2. /\ r \in ItemRecord /\ r.next = n /\ r.move = m
      /\ r.pos = it[c].pos /\ r.prev = it[c].prev /\ r.half = it[c].half
  BY <1>1 DEF ItemRecord, SetsNext
<1>3. new = [it EXCEPT ![c] = r]
  BY DEF SetsNext
<1> HIDE DEF r
<1> QED
  BY <1>2, <1>3 DEF r

LEMMA TwoHandleFields ==
    ASSUME NEW hd \in [GameId -> HandleRecord], NEW g \in GameId, NEW t \in Ref,
           NEW n \in Nat, NEW new, SetsEnd(hd, g, t, n, new)
    PROVE  /\ new \in [GameId -> HandleRecord]
           /\ \A y \in GameId \ {g} : new[y] = hd[y]
           /\ new[g].tail = t /\ new[g].count = n
           /\ new[g].current = hd[g].current /\ new[g].index = hd[g].index
           /\ new[g].copy = hd[g].copy
<1> DEFINE r == [hd[g] EXCEPT !.tail = t, !.count = n]
<1>1. hd[g] \in HandleRecord
  OBVIOUS
<1>2. /\ r \in HandleRecord /\ r.tail = t /\ r.count = n
      /\ r.current = hd[g].current /\ r.index = hd[g].index /\ r.copy = hd[g].copy
  BY <1>1 DEF HandleRecord
<1>3. new = [hd EXCEPT ![g] = r]
  BY DEF SetsEnd
<1> HIDE DEF r
<1> QED
  BY <1>2, <1>3

LEMMA TruncatedHeap ==
    ASSUME TypeOK, NEW own, Sound(item, freed, handle, own), NEW g \in GameId, Created(g),
           NEW c, c = handle[g].current, NEW h, h = Truncated(g)
    PROVE  /\ h \in HeapType
           /\ h.freed = freed \cup {own[g][i] : i \in (handle[g].index + 2)..Len(own[g])}
           /\ \A x \in Ref \ {c} : h.item[x] = item[x]
           /\ h.item[c].next = Null /\ h.item[c].pos = item[c].pos
           /\ h.item[c].prev = item[c].prev /\ h.item[c].half = item[c].half
           /\ \A y \in GameId \ {g} : h.handle[y] = handle[y]
           /\ h.handle[g].current = c /\ h.handle[g].tail = c
           /\ h.handle[g].index = handle[g].index
           /\ h.handle[g].count = handle[g].index + 1
           /\ h.handle[g].copy = handle[g].copy
<1> DEFINE w == own[g]
           k == handle[g].index + 1
<1>1. /\ w \in Seq(Ref) /\ Len(w) \in Nat /\ k \in 1..Len(w) /\ c = w[k] /\ c \in Ref
      /\ IsList(item, g, w) /\ handle[g] \in HandleRecord
      /\ handle[g].tail = w[Len(w)] /\ handle[g].count = Len(w) /\ handle[g].index \in Nat
      /\ item[c] \in ItemRecord
  BY ListOf
<1>2. item[c].next = IF k = Len(w) THEN Null ELSE w[k + 1]
  BY <1>1 DEF IsList
<1>3. item \in [Ref -> ItemRecord] /\ freed \in SUBSET Ref
      /\ handle \in [GameId -> HandleRecord]
  BY DEF TypeOK
<1>4. CASE k = Len(w)
  <2>1. h = Heap
    BY <1>2, <1>4 DEF Truncated
  <2>2. {w[i] : i \in (handle[g].index + 2)..Len(w)} = {}
    BY <1>1, <1>4
  <2> HIDE DEF w, k
  <2>3. h \in HeapType
    BY <1>3, <2>1 DEF Heap, HeapType
  <2>4. h.item = item /\ h.freed = freed /\ h.handle = handle
    BY <2>1 DEF Heap
  <2>5. item[c].next = Null
    BY <1>2, <1>4
  <2>6. handle[g].current = c /\ handle[g].tail = c
    BY <1>1, <1>4
  <2>7. handle[g].count = handle[g].index + 1
    BY <1>1, <1>4 DEF k
  <2>8. h.freed = freed \cup {own[g][i] : i \in (handle[g].index + 2)..Len(own[g])}
    BY <2>2, <2>4 DEF w
  <2> QED
    BY <2>3, <2>4, <2>5, <2>6, <2>7, <2>8
<1>5. CASE k # Len(w)
  <2>1. item[c].next = w[k + 1] /\ k + 1 \in 1..Len(w) /\ w[k + 1] \in Ref
    BY <1>1, <1>2, <1>5
  <2>2. item[c].next # Null
    BY <2>1, HistoryAssumption DEF Ref
  <2>3. h = [item |-> [item EXCEPT ![c].next = Null, ![c].move = NoMove],
             freed |-> freed \cup Chain(item, item[c].next),
             handle |-> [handle EXCEPT ![g].tail = c, ![g].count = handle[g].index + 1]]
    BY <2>2 DEF Truncated
  <2>4. Chain(item, item[c].next) = {w[i] : i \in (k + 1)..Len(w)}
    <3>1. k + 1 \in 1..(Len(w) + 1)
          /\ item[c].next = IF k + 1 = Len(w) + 1 THEN Null ELSE w[k + 1]
      BY <1>1, <1>5, <2>1
    <3>2. k + 1 \in Nat /\ IsList(item, g, w)
      BY <1>1
    <3>3. IsAt(w, k + 1, item[c].next)
      BY <3>1 DEF IsAt
    <3> HIDE DEF w, k
    <3> QED
      BY <1>3, <3>2, <3>3, ChainFrom
  <2>5. k + 1 = handle[g].index + 2
    BY <1>1
  <2>6. {w[i] : i \in (k + 1)..Len(w)} \subseteq Ref
    BY <1>1
  <2>7. h.freed = freed \cup {w[i] : i \in (k + 1)..Len(w)} /\ h.freed \subseteq Ref
    <3> HIDE DEF w, k
    <3> QED
      BY <1>3, <2>3, <2>4, <2>6
  <2>8. SetsNext(item, c, Null, NoMove, h.item)
    BY <2>3, HistoryAssumption DEF SetsNext
  <2>9. SetsEnd(handle, g, c, handle[g].index + 1, h.handle)
    BY <2>3 DEF SetsEnd
  <2> HIDE DEF w, k
  <2>10. /\ h.item \in [Ref -> ItemRecord]
         /\ \A x \in Ref \ {c} : h.item[x] = item[x]
         /\ h.item[c].next = Null /\ h.item[c].pos = item[c].pos
         /\ h.item[c].prev = item[c].prev /\ h.item[c].half = item[c].half
    <3>1. c \in Ref /\ item \in [Ref -> ItemRecord]
      BY <1>1, <1>3
    <3> QED
      BY <2>8, <3>1, TwoItemFields
  <2>11. handle[g].index + 1 \in Nat
    BY <1>1
  <2>12. /\ h.handle \in [GameId -> HandleRecord]
         /\ \A y \in GameId \ {g} : h.handle[y] = handle[y]
         /\ h.handle[g].current = handle[g].current /\ h.handle[g].tail = c
         /\ h.handle[g].index = handle[g].index
         /\ h.handle[g].count = handle[g].index + 1
         /\ h.handle[g].copy = handle[g].copy
    <3>1. c \in Ref /\ handle \in [GameId -> HandleRecord] /\ g \in GameId
      BY <1>1, <1>3
    <3> QED
      BY <2>9, <2>11, <3>1, TwoHandleFields
  <2>13. h \in HeapType
    <3>1. h = [item |-> h.item, freed |-> h.freed, handle |-> h.handle]
      BY <2>3
    <3> QED
      BY <2>7, <2>10, <2>12, <3>1 DEF HeapType
  <2>14. h.freed = freed \cup {own[g][i] : i \in (handle[g].index + 2)..Len(own[g])}
    BY <2>5, <2>7 DEF w
  <2> QED
    BY <2>10, <2>12, <2>13, <2>14
<1> QED
  BY <1>4, <1>5

(* The first n items of a list.                                            *)
LEMMA PrefixIs ==
    ASSUME NEW S, NEW w \in Seq(S), NEW n \in 0..Len(w)
    PROVE  /\ SubSeq(w, 1, n) \in Seq(S) /\ Len(SubSeq(w, 1, n)) = n
           /\ \A i \in 1..n : SubSeq(w, 1, n)[i] = w[i]
           /\ Range(SubSeq(w, 1, n)) = {w[i] : i \in 1..n}
           /\ Range(w) = {w[i] : i \in 1..n} \cup {w[i] : i \in (n + 1)..Len(w)}
<1> DEFINE s == SubSeq(w, 1, n)
<1>1. Len(w) \in Nat /\ n \in Nat /\ \A i \in 1..n : w[i] \in S
  OBVIOUS
<1>2. s \in Seq(S) /\ Len(s) = n /\ \A i \in 1..n : s[i] = w[i]
  <2>1. /\ s \in Seq(S) /\ Len(s) = (IF 1 <= n THEN n - 1 + 1 ELSE 0)
        /\ \A i \in 1..(n - 1 + 1) : s[i] = w[1 + i - 1]
    BY <1>1, SubSeqProperties
  <2> HIDE DEF s
  <2>2. Len(s) = n /\ \A i \in 1..n : i \in 1..(n - 1 + 1) /\ 1 + i - 1 = i
    BY <1>1, <2>1
  <2> QED
    BY <2>1, <2>2
<1> HIDE DEF s
<1>3. Range(s) = {s[i] : i \in 1..n}
  BY <1>2, RangeIs
<1>4. {s[i] : i \in 1..n} = {w[i] : i \in 1..n}
  BY <1>2
<1>5. Range(w) = {w[i] : i \in 1..Len(w)}
  BY RangeIs
<1>6. 1..Len(w) = 1..n \cup (n + 1)..Len(w)
  BY <1>1
<1> QED
  BY <1>2, <1>3, <1>4, <1>5, <1>6 DEF s

(* Two games with the same parts are the same game.                        *)
LEMMA GameEqual ==
    ASSUME NEW a \in Game, NEW b \in Game, Len(a.pos) = Len(b.pos),
           \A i \in 1..Len(a.pos) : a.pos[i] = b.pos[i],
           \A i \in 1..Len(a.mv) : a.mv[i] = b.mv[i],
           a.cur = b.cur, a.half0 = b.half0
    PROVE  a = b
<1>1. /\ a = [pos |-> a.pos, mv |-> a.mv, cur |-> a.cur, half0 |-> a.half0]
      /\ a.pos \in Seq(Position) /\ a.mv \in Seq(Move) /\ Len(a.mv) = Len(a.pos) - 1
  BY GameParts
<1>2. /\ b = [pos |-> b.pos, mv |-> b.mv, cur |-> b.cur, half0 |-> b.half0]
      /\ b.pos \in Seq(Position) /\ b.mv \in Seq(Move) /\ Len(b.mv) = Len(b.pos) - 1
  BY GameParts
<1>3. a.pos = b.pos
  BY <1>1, <1>2, SeqEqual
<1>4. a.mv = b.mv
  BY <1>1, <1>2, SeqEqual
<1>5. a.cur = b.cur /\ a.half0 = b.half0
  OBVIOUS
<1>6. a = [pos |-> b.pos, mv |-> b.mv, cur |-> b.cur, half0 |-> b.half0]
  BY <1>1, <1>3, <1>4, <1>5
<1> QED
  BY <1>2, <1>6

(* The list of a game, cut behind the cursor.                              *)
Cut(own, g) == SubSeq(own[g], 1, handle[g].index + 1)

LEMMA CutIs ==
    ASSUME TypeOK, NEW own, Sound(item, freed, handle, own), NEW g \in GameId, Created(g)
    PROVE  LET w == own[g]
               k == handle[g].index + 1
               s == Cut(own, g)
           IN  /\ s \in Seq(Ref) /\ Len(s) = k /\ k \in 1..Len(w) /\ k \in 1..MaxLength
               /\ \A i \in 1..k : s[i] = w[i] /\ s[i] \in Ref
               /\ \A i \in 1..(k - 1) : s[i] # handle[g].current
               /\ s[k] = handle[g].current
               /\ \A i, j \in 1..k : s[i] = s[j] => i = j
               /\ Range(w) = Range(s) \cup {w[i] : i \in (k + 1)..Len(w)}
               /\ Range(s) \cap {w[i] : i \in (k + 1)..Len(w)} = {}
<1> DEFINE w == own[g]
           k == handle[g].index + 1
           s == Cut(own, g)
<1>1. /\ w \in Seq(Ref) /\ k \in 1..Len(w) /\ handle[g].current = w[k]
      /\ Len(w) \in 1..MaxLength /\ IsList(item, g, w) /\ Len(w) \in Nat
  BY ListOf
<1>2. s = SubSeq(w, 1, k)
  BY DEF Cut
<1> HIDE DEF w, k, s
<1>3. \A i, j \in 1..Len(w) : w[i] = w[j] => i = j
  BY <1>1 DEF IsList
<1>4. k \in 0..Len(w) /\ MaxLength \in Nat /\ k \in Nat
  BY <1>1, LengthAssumption
<1>5. /\ s \in Seq(Ref) /\ Len(s) = k /\ (\A i \in 1..k : s[i] = w[i])
      /\ Range(s) = {w[i] : i \in 1..k}
      /\ Range(w) = {w[i] : i \in 1..k} \cup {w[i] : i \in (k + 1)..Len(w)}
  BY <1>1, <1>2, <1>4, PrefixIs
<1>6. k \in 1..MaxLength /\ \A i \in 1..k : i \in 1..Len(w) /\ w[i] \in Ref
  BY <1>1, <1>4
<1>7. \A i \in 1..(k - 1) : i \in 1..k /\ w[i] # w[k]
  BY <1>1, <1>3, <1>4
<1>8. {w[i] : i \in 1..k} \cap {w[i] : i \in (k + 1)..Len(w)} = {}
  <2> SUFFICES ASSUME NEW i \in 1..k, NEW j \in (k + 1)..Len(w), w[i] = w[j] PROVE FALSE
    OBVIOUS
  <2>1. i \in 1..Len(w) /\ j \in 1..Len(w) /\ i # j
    BY <1>1, <1>4
  <2> QED
    BY <1>3, <2>1
<1>9. \A i, j \in 1..k : s[i] = s[j] => i = j
  BY <1>3, <1>5, <1>6
<1>10. s[k] = handle[g].current /\ \A i \in 1..(k - 1) : s[i] # handle[g].current
  BY <1>1, <1>5, <1>7
<1>11. Range(w) = Range(s) \cup {w[i] : i \in (k + 1)..Len(w)}
       /\ Range(s) \cap {w[i] : i \in (k + 1)..Len(w)} = {}
  BY <1>5, <1>8
<1> QED
  BY <1>1, <1>5, <1>6, <1>9, <1>10, <1>11 DEF w, k, s

LEMMA TruncateGame ==
    ASSUME TypeOK, NEW own, Sound(item, freed, handle, own), NEW g \in GameId, Created(g)
    PROVE  /\ IsGame(Truncated(g).item, Truncated(g).handle[g], g, Cut(own, g))
           /\ Change(Truncated(g), own, g, Cut(own, g))
<1> DEFINE w == own[g]
           k == handle[g].index + 1
           s == Cut(own, g)
           h == Truncated(g)
           c == handle[g].current
           rest == {w[i] : i \in (k + 1)..Len(w)}
<1>1. /\ w \in Seq(Ref) /\ Len(w) \in Nat /\ IsGame(item, handle[g], g, w)
      /\ IsList(item, g, w) /\ c \in Ref /\ w[1] = g /\ handle[g].index \in Nat
      /\ Range(w) \cap freed = {} /\ Range(w) \subseteq Ref
  BY ListOf
<1>2. /\ s \in Seq(Ref) /\ Len(s) = k /\ k \in 1..Len(w) /\ k \in 1..MaxLength
      /\ \A i \in 1..k : s[i] = w[i] /\ s[i] \in Ref
      /\ \A i \in 1..(k - 1) : s[i] # c
      /\ s[k] = c
      /\ \A i, j \in 1..k : s[i] = s[j] => i = j
      /\ Range(w) = Range(s) \cup rest /\ Range(s) \cap rest = {}
  BY CutIs
<1>3. /\ \A x \in Ref \ {c} : h.item[x] = item[x]
      /\ h.item[c].next = Null /\ h.item[c].pos = item[c].pos
      /\ h.item[c].prev = item[c].prev /\ h.item[c].half = item[c].half
      /\ \A y \in GameId \ {g} : h.handle[y] = handle[y]
      /\ h.handle[g].current = c /\ h.handle[g].tail = c
      /\ h.handle[g].index = handle[g].index /\ h.handle[g].count = k
      /\ h.handle[g].copy = handle[g].copy
  BY TruncatedHeap
<1>4. h.freed = freed \cup rest
  <2>1. h.freed = freed \cup {w[i] : i \in (handle[g].index + 2)..Len(w)}
    BY TruncatedHeap
  <2>2. handle[g].index + 2 = k + 1
    BY <1>1
  <2> QED
    BY <2>1, <2>2
<1>5. k = handle[g].index + 1
  OBVIOUS
<1> HIDE DEF w, k, s, h, c, rest
<1>6. k \in Nat
  BY <1>2
<1>7. ASSUME NEW i \in 1..k
      PROVE  /\ i \in 1..Len(w) /\ s[i] = w[i] /\ s[i] \in Ref
             /\ h.item[s[i]].pos = item[s[i]].pos /\ h.item[s[i]].half = item[s[i]].half
             /\ h.item[s[i]].prev = item[s[i]].prev
             /\ i # k => h.item[s[i]] = item[s[i]] /\ i + 1 \in 1..k /\ i \in 1..(Len(w) - 1)
  <2>1. i \in 1..Len(w) /\ s[i] = w[i] /\ s[i] \in Ref
    BY <1>1, <1>2, <1>6
  <2>2. i # k => i \in 1..(k - 1) /\ i + 1 \in 1..k /\ i \in 1..(Len(w) - 1)
    BY <1>1, <1>2, <1>6
  <2>3. i # k => s[i] # c
    BY <1>2, <2>2
  <2>4. i # k => h.item[s[i]] = item[s[i]]
    BY <1>3, <2>1, <2>3
  <2>5. i = k => s[i] = c
    BY <1>2
  <2> QED
    BY <1>3, <2>1, <2>2, <2>4, <2>5
<1>8. ASSUME NEW i \in 1..k
      PROVE  h.item[s[i]].next = IF i = k THEN Null ELSE s[i + 1]
  <2>1. CASE i = k
    BY <1>2, <1>3, <2>1
  <2>2. CASE i # k
    <3>1. item[w[i]].next = w[i + 1]
      <4>1. i \in 1..Len(w) /\ i # Len(w)
        BY <1>1, <1>7, <2>2
      <4> QED
        BY <1>1, <4>1 DEF IsList
    <3>2. s[i + 1] = w[i + 1]
      BY <1>7, <2>2
    <3> QED
      BY <1>7, <2>2, <3>1, <3>2
  <2> QED
    BY <2>1, <2>2
<1>9. s[1] = g /\ 1 \in 1..k
  BY <1>1, <1>2, <1>6
<1>10. IsList(h.item, g, s)
  BY <1>2, <1>8, <1>9 DEF IsList
<1>11. \A i \in 2..k : s[i] \in Item
  <2> TAKE i \in 2..k
  <2>1. i \in 1..k /\ i \in 2..Len(w)
    BY <1>1, <1>2, <1>6
  <2> QED
    BY <1>1, <1>7, <2>1 DEF IsGame
<1>12. ASSUME NEW i \in 1..(k - 1) PROVE Linked(h.item[s[i]], h.item[s[i + 1]])
  <2>1. i \in 1..k /\ i # k
    BY <1>6
  <2>2. Linked(item[w[i]], item[w[i + 1]])
    BY <1>1, <1>7, <2>1 DEF IsGame
  <2>3. h.item[s[i]] = item[w[i]] /\ i + 1 \in 1..k
    BY <1>7, <2>1
  <2>4. /\ h.item[s[i + 1]].pos = item[w[i + 1]].pos
        /\ h.item[s[i + 1]].half = item[w[i + 1]].half
    BY <1>7, <2>3
  <2> QED
    BY <2>2, <2>3, <2>4 DEF Linked
<1>13. ASSUME ~h.handle[g].copy, NEW i \in 1..k
       PROVE  h.item[s[i]].prev = IF i = 1 THEN Null ELSE s[i - 1]
  <2>1. item[w[i]].prev = IF i = 1 THEN Null ELSE w[i - 1]
    BY <1>1, <1>3, <1>7, <1>13 DEF IsGame
  <2>2. i # 1 => i - 1 \in 1..k
    BY <1>6
  <2>3. i # 1 => s[i - 1] = w[i - 1]
    BY <1>2, <2>2
  <2> QED
    BY <1>7, <2>1, <2>3
<1>14. k \in 1..Len(s) /\ h.handle[g].index + 1 = k
  BY <1>2, <1>3, <1>5, <1>6
<1>15. IsGame(h.item, h.handle[g], g, s)
  BY <1>2, <1>3, <1>10, <1>11, <1>12, <1>13, <1>14 DEF IsGame
<1>16. /\ Range(s) \subseteq Range(w) \cup freed
       /\ h.freed = (freed \cup Range(w)) \ Range(s)
  BY <1>1, <1>2, <1>4
<1>17. \A x \in Ref \ (freed \cup Range(w)) : h.item[x] = item[x]
  <2>1. c \in Range(w)
    <3>1. c \in Range(s)
      BY <1>2, <1>14, RangeIs
    <3> QED
      BY <1>2, <3>1
  <2> QED
    BY <1>3, <2>1
<1>18. Change(h, own, g, s)
  BY <1>2, <1>3, <1>15, <1>16, <1>17 DEF Change, w
<1> QED
  BY <1>15, <1>18 DEF s, h

LEMMA TruncateLine ==
    ASSUME TypeOK, NEW own, Sound(item, freed, handle, own), NEW g \in GameId, Created(g)
    PROVE  LineAlong(Truncated(g).item, Truncated(g).handle[g], g, Cut(own, g)) =
               GameTruncate(LineAlong(item, handle[g], g, own[g]))
<1> DEFINE w == own[g]
           k == handle[g].index + 1
           s == Cut(own, g)
           h == Truncated(g)
           a == LineAlong(item, handle[g], g, w)
           b == LineAlong(h.item, h.handle[g], g, s)
           c == GameTruncate(a)
<1>1. /\ IsGame(item, handle[g], g, w) /\ w \in Seq(Ref) /\ Len(w) \in Nat /\ k \in 1..Len(w)
      /\ w[1] = g /\ handle[g] \in HandleRecord /\ handle[g].current \in Ref
  BY ListOf
<1>2. /\ IsGame(h.item, h.handle[g], g, s) /\ h \in HeapType
      /\ h.handle[g].index + 1 = k
      /\ \A x \in Ref \ {handle[g].current} : h.item[x] = item[x]
      /\ h.item[handle[g].current].pos = item[handle[g].current].pos
      /\ h.item[handle[g].current].half = item[handle[g].current].half
  BY TruncateGame, TruncatedHeap
<1>3. /\ s \in Seq(Ref) /\ Len(s) = k
      /\ \A i \in 1..k : s[i] = w[i] /\ s[i] \in Ref
      /\ \A i \in 1..(k - 1) : s[i] # handle[g].current
  BY CutIs
<1> HIDE DEF w, k, s, h, c
<1>4. h.item \in [Ref -> ItemRecord] /\ h.handle[g] \in HandleRecord
      /\ item \in [Ref -> ItemRecord]
  BY <1>2 DEF TypeOK, HeapType
<1>5. a \in Game /\ Len(a.pos) = Len(w) /\ Len(a.mv) = Len(w) - 1
  BY <1>1, <1>4, LineIsGame
<1>6. b \in Game /\ Len(b.pos) = k /\ Len(b.mv) = k - 1
  BY <1>2, <1>3, <1>4, LineIsGame
<1>7. /\ a.cur = k /\ a.half0 = item[g].half
      /\ \A i \in 1..Len(w) : a.pos[i] = item[w[i]].pos
      /\ \A i \in 1..(Len(w) - 1) : a.mv[i] = item[w[i]].move
  BY DEF LineAlong, k
<1>8. /\ b.cur = k /\ b.half0 = h.item[g].half
      /\ \A i \in 1..k : b.pos[i] = h.item[s[i]].pos
      /\ \A i \in 1..(k - 1) : b.mv[i] = h.item[s[i]].move
  BY <1>2, <1>3 DEF LineAlong
<1> HIDE DEF a, b
<1>9. /\ c \in Game /\ Len(c.pos) = k
      /\ c.pos = SubSeq(a.pos, 1, k) /\ c.mv = SubSeq(a.mv, 1, k - 1)
      /\ c.cur = k /\ c.half0 = a.half0
  BY <1>5, <1>7, GameTruncateType DEF GameTruncate, c
<1>10. k \in Nat /\ k \in 0..Len(a.pos) /\ k - 1 \in 0..Len(a.mv)
       /\ a.pos \in Seq(Position) /\ a.mv \in Seq(Move)
  BY <1>1, <1>5, GameParts
<1>11. /\ \A i \in 1..k : c.pos[i] = a.pos[i]
       /\ \A i \in 1..(k - 1) : c.mv[i] = a.mv[i]
  BY <1>9, <1>10, PrefixIs
<1>12. ASSUME NEW i \in 1..k PROVE b.pos[i] = c.pos[i]
  <2>1. i \in 1..Len(w)
    BY <1>1, <1>10
  <2>2. h.item[s[i]].pos = item[w[i]].pos
    BY <1>2, <1>3
  <2> QED
    BY <1>7, <1>8, <1>11, <2>1, <2>2
<1>13. ASSUME NEW i \in 1..(k - 1) PROVE b.mv[i] = c.mv[i]
  <2>1. i \in 1..(Len(w) - 1) /\ i \in 1..k
    BY <1>1, <1>10
  <2>2. h.item[s[i]].move = item[w[i]].move
    BY <1>2, <1>3, <2>1
  <2> QED
    BY <1>7, <1>8, <1>11, <2>1, <2>2
<1>14. b.half0 = c.half0
  <2>1. g \in Ref
    BY DEF Ref
  <2> QED
    BY <1>2, <1>7, <1>8, <1>9, <2>1
<1>15. b = c
  BY <1>6, <1>8, <1>9, <1>12, <1>13, <1>14, GameEqual
<1> QED
  BY <1>15 DEF a, b, c, s, h, w

-----------------------------------------------------------------------------
(* Each function keeps the invariant, and does to the line what GameLine   *)
(* says.                                                                   *)

LEMMA ChangeStep ==
    ASSUME TypeOK, NEW own, Sound(item, freed, handle, own), NEW g \in GameId,
           NEW s, NEW h \in HeapType, Change(h, own, g, s), Becomes(h)
    PROVE  /\ Inv'
           /\ LineKept' = [LineKept EXCEPT ![g] =
                  IF Len(s) = 0 THEN NoGame ELSE LineAlong(h.item, h.handle[g], g, s)]
<1>1. Holds(h) /\ TypeOK'
  BY BecomesHolds
<1>2. Sound(item', freed', handle', [own EXCEPT ![g] = s])
  BY <1>1, ChangeSound
<1>3. Inv'
  BY <1>1, <1>2 DEF Inv
<1> QED
  BY <1>1, <1>3, ChangeLine

(* Where a game is kept.                                                   *)
LEMMA KeptIs ==
    ASSUME TypeOK, NEW own, Sound(item, freed, handle, own), NEW g \in GameId
    PROVE  Lines!Created(g) <=> Created(g)
<1>1. CASE Created(g)
  <2>1. LineKept[g] = LineAlong(item, handle[g], g, own[g])
        /\ IsGame(item, handle[g], g, own[g]) /\ handle[g] \in HandleRecord
    BY <1>1, ListOf
  <2>2. LineKept[g] # NoGame
    BY <2>1, LineIsGame DEF TypeOK
  <2> QED
    BY <1>1, <2>2 DEF Lines!Created, Lines!NoGame, NoGame
<1>2. CASE ~Created(g)
  BY <1>2 DEF Lines!Created, Lines!NoGame, NoGame, LineKept
<1> QED
  BY <1>1, <1>2

(* The heap h has a new game in place of the game g, if there was one.     *)
IsReset(h, own, g, p, half) ==
    /\ h \in HeapType
    /\ h.item[g].pos = p /\ h.item[g].half = half
    /\ h.item[g].next = Null /\ h.item[g].prev = Null
    /\ h.freed = (freed \cup Range(own[g])) \ {g}
    /\ g \in freed \cup Range(own[g])
    /\ \A x \in Ref \ (freed \cup Range(own[g])) : h.item[x] = item[x]
    /\ h.handle[g] = EmptyHandle(g)
    /\ \A y \in GameId \ {g} : h.handle[y] = handle[y]

LEMMA ResetStep ==
    ASSUME TypeOK, NEW own, Sound(item, freed, handle, own), NEW g \in GameId,
           NEW p \in Position, NEW half \in Nat,
           NEW h, IsReset(h, own, g, p, half), Becomes(h)
    PROVE  Inv' /\ LineKept' = [LineKept EXCEPT ![g] = GameFrom(p, half)]
<1> DEFINE s == <<g>>
<1>1. g \in Ref
  BY DEF Ref
<1>2. /\ s \in Seq(Ref) /\ Len(s) = 1 /\ s[1] = g
      /\ \A i \in 1..Len(s) : i = 1
  BY <1>1
<1> HIDE DEF s
<1>3. Range(s) = {g}
  BY <1>2, RangeIs
<1>4. /\ EmptyHandle(g).current = g /\ EmptyHandle(g).tail = g
      /\ EmptyHandle(g).index = 0 /\ EmptyHandle(g).count = 1
  BY DEF EmptyHandle
<1>5. IsList(h.item, g, s)
  BY <1>2, LengthAssumption DEF IsList, IsReset
<1>6. IsGame(h.item, h.handle[g], g, s)
  <2>1. 2..Len(s) = {} /\ 1..(Len(s) - 1) = {} /\ 0 + 1 \in 1..Len(s) /\ s[0 + 1] = g
    BY <1>2
  <2>2. \A i \in 1..Len(s) : h.item[s[i]].prev = IF i = 1 THEN Null ELSE s[i - 1]
    BY <1>2 DEF IsReset
  <2> QED
    BY <1>2, <1>4, <1>5, <2>1, <2>2 DEF IsGame, IsReset
<1>7. Change(h, own, g, s)
  BY <1>2, <1>3, <1>6 DEF Change, IsReset
<1>8. h \in HeapType
  BY DEF IsReset
<1>9. Inv' /\ LineKept' = [LineKept EXCEPT ![g] =
                  IF Len(s) = 0 THEN NoGame ELSE LineAlong(h.item, h.handle[g], g, s)]
  BY <1>7, <1>8, ChangeStep
<1> DEFINE a == LineAlong(h.item, h.handle[g], g, s)
           b == GameFrom(p, half)
<1>10. a = b
  <2>1. h.item \in [Ref -> ItemRecord] /\ h.handle[g] \in HandleRecord
    BY <1>8 DEF HeapType
  <2>2. a \in Game /\ Len(a.pos) = 1 /\ Len(a.mv) = 0
    BY <1>2, <1>6, <2>1, LineIsGame
  <2>3. a.cur = 1 /\ a.half0 = half /\ a.pos[1] = p
    BY <1>2, <1>4 DEF LineAlong, IsReset
  <2>4. b \in Game /\ b.pos = <<p>> /\ b.mv = << >> /\ b.cur = 1 /\ b.half0 = half
    BY GameFromType DEF GameFrom
  <2>5. Len(b.pos) = 1 /\ b.pos[1] = p
    BY <2>4
  <2> HIDE DEF a, b
  <2>6. /\ \A i \in 1..Len(a.pos) : a.pos[i] = b.pos[i]
        /\ \A i \in 1..Len(a.mv) : a.mv[i] = b.mv[i]
    BY <2>2, <2>3, <2>5
  <2> QED
    BY <2>2, <2>3, <2>4, <2>5, <2>6, GameEqual
<1> QED
  BY <1>2, <1>9, <1>10

(* The head of a new game.                                                 *)
NewHead(p, half, junk) == [FreeItem EXCEPT !.pos = p, !.move = junk, !.half = half]

LEMMA HeadIs ==
    ASSUME NEW p \in Position, NEW half \in Nat, NEW junk \in Uninitialised
    PROVE  /\ NewHead(p, half, junk) \in ItemRecord
           /\ NewHead(p, half, junk).pos = p /\ NewHead(p, half, junk).half = half
           /\ NewHead(p, half, junk).next = Null /\ NewHead(p, half, junk).prev = Null
BY DEF NewHead, FreeItem, ItemRecord

LEMMA EmptyHandleType ==
    ASSUME NEW g \in GameId
    PROVE  EmptyHandle(g) \in HandleRecord
BY DEF EmptyHandle, HandleRecord, Ref

LEMMA CreateStep ==
    ASSUME TypeOK, NEW own, Sound(item, freed, handle, own), NEW g \in GameId, Create(g)
    PROVE  Inv' /\ Lines!Create(g)
<1>1. PICK junk \in Uninitialised :
        Becomes([item |-> [Heap.item EXCEPT ![g] = NewHead(Start, 0, junk)],
                 freed |-> (Heap.freed \cup Chain(Heap.item, Heap.item[g].next)) \ {g},
                 handle |-> [Heap.handle EXCEPT ![g] = EmptyHandle(g)]])
  BY DEF Create, ResetHead, NewHead
<1> DEFINE h == [item |-> [item EXCEPT ![g] = NewHead(Start, 0, junk)],
                 freed |-> freed \ {g},
                 handle |-> [handle EXCEPT ![g] = EmptyHandle(g)]]
<1>2. g \in freed /\ g \in Ref
  BY DEF Create, Ref
<1>3. Range(own[g]) = {}
  <2>1. g \in freed <=> Len(own[g]) = 0
    BY CreatedIs
  <2>2. Len(own[g]) = 0 => Range(own[g]) = {}
    BY CreatedIs
  <2> QED
    BY <1>2, <2>1, <2>2
<1>4. item[g].next = Null
  BY <1>2 DEF Sound, FreeItem
<1>5. Chain(item, item[g].next) = {}
  BY <1>4, NothingFollows
<1>6. Heap.item = item /\ Heap.freed = freed /\ Heap.handle = handle
  BY DEF Heap
<1>7. Becomes(h)
  BY <1>1, <1>5, <1>6
<1>8. Start \in Position /\ 0 \in Nat
  BY StartAssumption
<1>9. /\ NewHead(Start, 0, junk) \in ItemRecord
      /\ NewHead(Start, 0, junk).pos = Start /\ NewHead(Start, 0, junk).half = 0
      /\ NewHead(Start, 0, junk).next = Null /\ NewHead(Start, 0, junk).prev = Null
  BY <1>8, HeadIs
<1>10. /\ h.item = [item EXCEPT ![g] = NewHead(Start, 0, junk)]
       /\ h.freed = freed \ {g}
       /\ h.handle = [handle EXCEPT ![g] = EmptyHandle(g)]
  OBVIOUS
<1>11. h \in HeapType
  BY <1>9, EmptyHandleType DEF HeapType, TypeOK
<1> HIDE DEF h
<1>12. IsReset(h, own, g, Start, 0)
  BY <1>2, <1>3, <1>9, <1>10, <1>11 DEF IsReset, TypeOK
<1>13. Inv' /\ LineKept' = [LineKept EXCEPT ![g] = GameFrom(Start, 0)]
  BY <1>7, <1>8, <1>12, ResetStep
<1>14. ~Lines!Created(g)
  BY <1>2, KeptIs DEF Created
<1> QED
  BY <1>13, <1>14 DEF Lines!Create, Lines!Set, Lines!GameCreate, Lines!GameFrom, GameFrom

LEMMA ResetFenStep ==
    ASSUME TypeOK, NEW own, Sound(item, freed, handle, own), NEW g \in GameId, ResetFen(g)
    PROVE  Inv' /\ Lines!ResetFen(g)
<1> DEFINE h0 == Truncated(g)
           h1 == [Truncated(g) EXCEPT !.handle[g].index = 0]
           s == Cut(own, g)
           w == own[g]
           k == handle[g].index + 1
<1>1. Created(g)
  BY DEF ResetFen, Owned
<1>2. PICK p \in HeadPosition, half \in HeadCount : ResetHead(h1, g, p, half)
  BY DEF ResetFen
<1>3. p \in Position /\ half \in Nat
  BY HistoryAssumption
<1> DEFINE h(junk) == [item |-> [h0.item EXCEPT ![g] = NewHead(p, half, junk)],
                       freed |-> (h0.freed \cup Chain(h0.item, h0.item[g].next)) \ {g},
                       handle |-> [h0.handle EXCEPT ![g] = EmptyHandle(g)]]
<1>4. h0 \in HeapType
  BY <1>1, TruncatedHeap
<1>5. h1.item = h0.item /\ h1.freed = h0.freed
      /\ [h1.handle EXCEPT ![g] = EmptyHandle(g)] = [h0.handle EXCEPT ![g] = EmptyHandle(g)]
  <2> HIDE DEF h0
  <2>1. h1 = [h0 EXCEPT !.handle[g].index = 0]
    BY DEF h0
  <2> HIDE DEF h1
  <2>2. h1.item = h0.item /\ h1.freed = h0.freed
        /\ h1.handle = [h0.handle EXCEPT ![g].index = 0]
    BY <1>4, <2>1 DEF HeapType
  <2>3. h0.handle \in [GameId -> HandleRecord]
    BY <1>4 DEF HeapType
  <2> QED
    BY <2>2, <2>3
<1>6. PICK junk \in Uninitialised : Becomes(h(junk))
  <2> HIDE DEF h0, h1
  <2>1. PICK junk \in Uninitialised :
          Becomes([item |-> [h1.item EXCEPT ![g] = NewHead(p, half, junk)],
                   freed |-> (h1.freed \cup Chain(h1.item, h1.item[g].next)) \ {g},
                   handle |-> [h1.handle EXCEPT ![g] = EmptyHandle(g)]])
    BY <1>2 DEF ResetHead, NewHead
  <2> QED
    BY <1>5, <2>1
<1> DEFINE new == h(junk)
<1>7. /\ h0.freed = (freed \cup Range(w)) \ Range(s)
      /\ \A x \in Ref \ (freed \cup Range(w)) : h0.item[x] = item[x]
      /\ \A y \in GameId \ {g} : h0.handle[y] = handle[y]
      /\ IsGame(h0.item, h0.handle[g], g, s)
  BY <1>1, TruncateGame DEF Change
<1>8. /\ s \in Seq(Ref) /\ Len(s) = k /\ k \in 1..Len(w) /\ w[1] = g /\ w \in Seq(Ref)
      /\ Range(s) \subseteq Range(w) /\ IsList(h0.item, g, s) /\ s[1] = g /\ k \in Nat
      /\ Range(w) \subseteq Ref
  <2>1. IsGame(item, handle[g], g, w)
    BY <1>1, ListOf
  <2>2. s \in Seq(Ref) /\ Len(s) = k /\ k \in 1..Len(w) /\ Range(s) \subseteq Range(w)
    BY <1>1, CutIs
  <2>3. w[1] = g /\ w \in Seq(Ref)
    BY <2>1, Zenon DEF IsGame, IsList
  <2>4. IsList(h0.item, g, s) /\ s[1] = g
    BY <1>7, Zenon DEF IsGame, IsList
  <2>5. k \in Nat
    BY <2>2
  <2>6. Range(w) \subseteq Ref
    BY <2>3, RangeIs
  <2> HIDE DEF w, k, s, h0
  <2> QED
    BY <2>2, <2>3, <2>4, <2>5, <2>6
<1> HIDE DEF w, k, s, h0
<1>9. Chain(h0.item, h0.item[g].next) = {s[i] : i \in 2..k}
  <2>1. h0.item \in [Ref -> ItemRecord] /\ 1 \in 1..Len(s)
    BY <1>4, <1>8 DEF HeapType
  <2>2. h0.item[s[1]].next = IF 1 = Len(s) THEN Null ELSE s[1 + 1]
    BY <1>8, <2>1 DEF IsList
  <2>3. IsAt(s, 2, h0.item[g].next)
    BY <1>8, <2>2 DEF IsAt
  <2>4. IsList(h0.item, g, s)
    BY <1>8
  <2>5. Chain(h0.item, h0.item[g].next) = {s[i] : i \in 2..Len(s)}
    BY <2>1, <2>3, <2>4, ChainFrom
  <2> QED
    BY <1>8, <2>5
<1>10. Range(s) = {g} \cup {s[i] : i \in 2..k}
  <2>1. Range(s) = {s[i] : i \in 1..k}
    BY <1>8, RangeIs
  <2>2. 1..k = {1} \cup 2..k
    BY <1>8
  <2> QED
    BY <1>8, <2>1, <2>2
<1>11. new.freed = (freed \cup Range(w)) \ {g}
  <2>1. new.freed = (h0.freed \cup {s[i] : i \in 2..k}) \ {g}
    BY <1>9
  <2> HIDE DEF new
  <2> QED
    BY <1>7, <1>8, <1>10, <2>1
<1>12. /\ NewHead(p, half, junk) \in ItemRecord
       /\ NewHead(p, half, junk).pos = p /\ NewHead(p, half, junk).half = half
       /\ NewHead(p, half, junk).next = Null /\ NewHead(p, half, junk).prev = Null
  BY <1>3, HeadIs
<1>13. /\ new.item = [h0.item EXCEPT ![g] = NewHead(p, half, junk)]
       /\ new.handle = [h0.handle EXCEPT ![g] = EmptyHandle(g)]
       /\ new = [item |-> new.item, freed |-> new.freed, handle |-> new.handle]
  OBVIOUS
<1>14. Becomes(new)
  BY <1>6
<1> HIDE DEF new, h
<1>15. h0.item \in [Ref -> ItemRecord] /\ h0.handle \in [GameId -> HandleRecord] /\ g \in Ref
  BY <1>4 DEF HeapType, Ref
<1>16. new \in HeapType
  <2>1. new.item \in [Ref -> ItemRecord]
    BY <1>12, <1>13, <1>15
  <2>2. new.handle \in [GameId -> HandleRecord]
    BY <1>13, <1>15, EmptyHandleType
  <2>3. new.freed \in SUBSET Ref
    BY <1>8, <1>11 DEF TypeOK
  <2> QED
    BY <1>13, <2>1, <2>2, <2>3 DEF HeapType
<1>17. g \in freed \cup Range(w)
  BY <1>8, <1>10
<1>18. /\ new.item[g] = NewHead(p, half, junk) /\ new.handle[g] = EmptyHandle(g)
       /\ \A x \in Ref \ (freed \cup Range(w)) : new.item[x] = item[x]
       /\ \A y \in GameId \ {g} : new.handle[y] = handle[y]
  BY <1>7, <1>13, <1>15, <1>17
<1>19. IsReset(new, own, g, p, half)
  BY <1>11, <1>12, <1>16, <1>17, <1>18 DEF IsReset, w
<1>20. Inv' /\ LineKept' = [LineKept EXCEPT ![g] = GameFrom(p, half)]
  BY <1>3, <1>14, <1>19, ResetStep
<1>21. Lines!Created(g)
  BY <1>1, KeptIs
<1> QED
  BY <1>20, <1>21 DEF Lines!ResetFen, Lines!Set, Lines!GameFrom, GameFrom

LEMMA TruncateStep ==
    ASSUME TypeOK, NEW own, Sound(item, freed, handle, own), NEW g \in GameId, Truncate(g)
    PROVE  Inv' /\ Lines!Truncate(g)
<1>1. Created(g) /\ Becomes(Truncated(g))
  BY DEF Truncate, Owned
<1>2. Truncated(g) \in HeapType
  BY <1>1, TruncatedHeap
<1>3. Change(Truncated(g), own, g, Cut(own, g))
  BY <1>1, TruncateGame
<1>4. Len(Cut(own, g)) # 0
  BY <1>1, CutIs
<1> DEFINE a == LineAlong(Truncated(g).item, Truncated(g).handle[g], g, Cut(own, g))
<1>5. Inv' /\ LineKept' = [LineKept EXCEPT ![g] = IF Len(Cut(own, g)) = 0 THEN NoGame ELSE a]
  BY <1>1, <1>2, <1>3, ChangeStep
<1>6. a = GameTruncate(LineKept[g])
  BY <1>1, ListOf, TruncateLine
<1> HIDE DEF a
<1>7. Inv' /\ LineKept' = [LineKept EXCEPT ![g] = GameTruncate(LineKept[g])]
  BY <1>4, <1>5, <1>6
<1>8. Lines!Created(g)
  BY <1>1, KeptIs
<1>9. GameTruncate(LineKept[g]) = Lines!GameTruncate(LineKept[g])
  BY DEF GameTruncate, Lines!GameTruncate
<1> QED
  BY <1>7, <1>8, <1>9 DEF Lines!Truncate, Lines!Set

LEMMA DestroyStep ==
    ASSUME TypeOK, NEW own, Sound(item, freed, handle, own), NEW g \in GameId, Destroy(g)
    PROVE  Inv' /\ Lines!Destroy(g)
<1> DEFINE h == [Heap EXCEPT !.freed = @ \cup Chain(item, g)]
           s == << >>
<1>1. Created(g) /\ Becomes(h)
  BY DEF Destroy
<1>2. /\ h = [item |-> item, freed |-> freed \cup Chain(item, g), handle |-> handle]
      /\ h.item = item /\ h.freed = freed \cup Chain(item, g) /\ h.handle = handle
  <2> DEFINE c == Chain(item, g)
             f == Heap.freed \cup c
  <2>1. h = [Heap EXCEPT !.freed = f]
    OBVIOUS
  <2> HIDE DEF c, h
  <2>2. f = freed \cup c
    BY DEF Heap
  <2> HIDE DEF f
  <2>3. h = [item |-> item, freed |-> f, handle |-> handle]
    BY <2>1 DEF Heap
  <2> QED
    BY <2>2, <2>3 DEF c
<1>3. Chain(item, g) = Range(own[g])
  <2>1. IsList(item, g, own[g])
    BY <1>1, ListOf
  <2> QED
    BY <2>1, WalkIs DEF TypeOK
<1>4. s \in Seq(Ref) /\ Len(s) = 0 /\ Range(s) = {}
  BY DEF Range
<1> HIDE DEF h, s
<1>5. Range(own[g]) \subseteq Ref
  BY CreatedIs
<1>6. h \in HeapType
  BY <1>2, <1>3, <1>5 DEF HeapType, TypeOK
<1>7. Change(h, own, g, s)
  BY <1>2, <1>3, <1>4 DEF Change
<1>8. Inv' /\ LineKept' = [LineKept EXCEPT ![g] =
                  IF Len(s) = 0 THEN NoGame ELSE LineAlong(h.item, h.handle[g], g, s)]
  BY <1>1, <1>6, <1>7, ChangeStep
<1>9. Inv' /\ LineKept' = [LineKept EXCEPT ![g] = NoGame]
  BY <1>4, <1>8
<1>10. Lines!Created(g)
  BY <1>1, KeptIs
<1> QED
  BY <1>9, <1>10 DEF Lines!Destroy, Lines!Set, Lines!NoGame, NoGame

(* The cursor moves to the place k of the list w.                          *)
MovesCursor(g, w, k) ==
    /\ k \in 1..Len(w)
    /\ handle' = [handle EXCEPT ![g].current = w[k], ![g].index = k - 1]
    /\ UNCHANGED <<item, freed>>

AtCursor(line, k) == [line EXCEPT !.cur = k]

LEMMA CursorStep ==
    ASSUME TypeOK, NEW own, Sound(item, freed, handle, own), NEW g \in GameId, Created(g),
           NEW k, MovesCursor(g, own[g], k)
    PROVE  Inv' /\ LineKept' = [LineKept EXCEPT ![g] = AtCursor(LineKept[g], k)]
<1> DEFINE w == own[g]
           r == [handle[g] EXCEPT !.current = w[k], !.index = k - 1]
           h == [item |-> item, freed |-> freed, handle |-> [handle EXCEPT ![g] = r]]
<1> /\ k \in 1..Len(w) /\ UNCHANGED <<item, freed>>
    /\ handle' = [handle EXCEPT ![g].current = w[k], ![g].index = k - 1]
  BY DEF MovesCursor
<1>1. /\ IsGame(item, handle[g], g, w) /\ w \in Seq(Ref) /\ Len(w) \in 1..MaxLength
      /\ Len(w) \in Nat
      /\ handle[g] \in HandleRecord /\ Range(w) \cap freed = {}
      /\ LineKept[g] = LineAlong(item, handle[g], g, w)
  BY ListOf
<1>2. k \in Nat /\ k - 1 \in Nat /\ w[k] \in Ref /\ k - 1 + 1 = k
  BY <1>1
<1>3. handle' = [handle EXCEPT ![g] = r]
  BY DEF TypeOK
<1> HIDE DEF w
<1>4. /\ r \in HandleRecord /\ r.current = w[k] /\ r.index = k - 1
      /\ r.tail = handle[g].tail /\ r.count = handle[g].count /\ r.copy = handle[g].copy
  BY <1>1, <1>2 DEF HandleRecord
<1>5. /\ h.item = item /\ h.freed = freed /\ h.handle = [handle EXCEPT ![g] = r]
      /\ h = [item |-> h.item, freed |-> h.freed, handle |-> h.handle]
  OBVIOUS
<1> HIDE DEF r, h
<1>6. /\ item \in [Ref -> ItemRecord] /\ freed \in SUBSET Ref
      /\ handle \in [GameId -> HandleRecord]
  BY DEF TypeOK
<1>7. h.handle \in [GameId -> HandleRecord] /\ h.handle[g] = r
      /\ \A y \in GameId \ {g} : h.handle[y] = handle[y]
  BY <1>4, <1>5, <1>6
<1>8. h \in HeapType
  BY <1>5, <1>6, <1>7 DEF HeapType
<1>9. TypeOK'
  BY <1>3, <1>5, <1>6, <1>7 DEF TypeOK
<1>10. Holds(h)
  <2>1. \A x \in freed : item[x] = FreeItem
    BY <1>6 DEF Sound
  <2> QED
    BY <1>3, <1>5, <2>1 DEF Holds
<1>11. IsGame(h.item, h.handle[g], g, w)
  <2>1. r.index + 1 = k /\ r.current = w[r.index + 1] /\ r.index + 1 \in 1..Len(w)
    BY <1>2, <1>4
  <2>2. r.tail = w[Len(w)] /\ r.count = Len(w)
    BY <1>1, <1>4 DEF IsGame
  <2>3. IsGame(item, r, g, w)
    BY <1>1, <1>4, <2>1, <2>2, Zenon DEF IsGame
  <2> QED
    BY <1>5, <1>7, <2>3
<1>12. Change(h, own, g, w)
  <2>1. \A x \in Ref \ (freed \cup Range(w)) : h.item[x] = item[x]
    BY <1>5
  <2>2. h.freed = (freed \cup Range(w)) \ Range(w)
    BY <1>1, <1>5
  <2> QED
    BY <1>1, <1>7, <1>11, <2>1, <2>2 DEF Change, w
<1>13. Sound(item', freed', handle', [own EXCEPT ![g] = w])
  BY <1>8, <1>10, <1>12, ChangeSound
<1>14. LineKept' = [LineKept EXCEPT ![g] =
                  IF Len(w) = 0 THEN NoGame ELSE LineAlong(h.item, h.handle[g], g, w)]
  BY <1>8, <1>9, <1>10, <1>12, ChangeLine
<1>15. LineAlong(h.item, h.handle[g], g, w) = AtCursor(LineAlong(item, handle[g], g, w), k)
  <2> DEFINE pos == [i \in 1..Len(w) |-> item[w[i]].pos]
             mv == [i \in 1..(Len(w) - 1) |-> item[w[i]].move]
             half0 == item[g].half
  <2>1. r.index + 1 = k
    BY <1>2, <1>4
  <2>2. LineAlong(item, r, g, w) = [pos |-> pos, mv |-> mv, cur |-> k, half0 |-> half0]
    BY <2>1, Zenon DEF LineAlong
  <2>3. LineAlong(item, handle[g], g, w) =
           [pos |-> pos, mv |-> mv, cur |-> handle[g].index + 1, half0 |-> half0]
    BY Zenon DEF LineAlong
  <2> HIDE DEF pos, mv, half0
  <2>4. LineAlong(item, r, g, w) = [LineAlong(item, handle[g], g, w) EXCEPT !.cur = k]
    BY <2>2, <2>3
  <2> QED
    BY <1>5, <1>7, <2>4 DEF AtCursor
<1>16. Len(w) # 0
  BY <1>1
<1> QED
  BY <1>1, <1>9, <1>13, <1>14, <1>15, <1>16 DEF Inv

LEMMA RevertStep ==
    ASSUME TypeOK, NEW own, Sound(item, freed, handle, own), NEW g \in GameId, Revert(g)
    PROVE  Inv' /\ Lines!Revert(g)
<1> DEFINE w == own[g]
           c == handle[g].current
           k == handle[g].index + 1
<1>1. /\ Created(g) /\ ~handle[g].copy /\ item[c].prev # Null
      /\ handle' = [handle EXCEPT ![g].current = item[c].prev, ![g].index = @ - 1]
      /\ UNCHANGED <<item, freed>>
  BY DEF Revert, Owned
<1>2. /\ IsGame(item, handle[g], g, w) /\ w \in Seq(Ref) /\ Len(w) \in Nat
      /\ k \in 1..Len(w) /\ c = w[k] /\ handle[g].index \in Nat
      /\ LineKept[g] = LineAlong(item, handle[g], g, w)
  BY <1>1, ListOf
<1>3. item[w[k]].prev = IF k = 1 THEN Null ELSE w[k - 1]
  <2> HIDE DEF w, k
  <2> QED
    BY <1>1, <1>2 DEF IsGame
<1>4. k # 1 /\ item[c].prev = w[k - 1]
  BY <1>1, <1>2, <1>3
<1>5. k - 1 \in 1..Len(w) /\ handle[g].index - 1 = k - 1 - 1
  BY <1>2, <1>4
<1>6. handle' = [handle EXCEPT ![g].current = w[k - 1], ![g].index = k - 1 - 1]
  BY <1>1, <1>4, <1>5
<1> HIDE DEF k, c
<1>7. Inv' /\ LineKept' = [LineKept EXCEPT ![g] = AtCursor(LineKept[g], k - 1)]
  <2> DEFINE n == k - 1
  <2>1. n \in 1..Len(w) /\ UNCHANGED <<item, freed>>
    BY <1>1, <1>5
  <2>4. handle' = [handle EXCEPT ![g].current = w[n], ![g].index = n - 1]
    BY <1>6, Zenon
  <2> HIDE DEF n
  <2>2. MovesCursor(g, own[g], n)
    BY <2>1, <2>4 DEF MovesCursor
  <2>3. Inv' /\ LineKept' = [LineKept EXCEPT ![g] = AtCursor(LineKept[g], n)]
    BY <1>1, <2>2, CursorStep
  <2> QED
    BY <2>3 DEF n
<1>8. LineKept[g].cur = k
  BY <1>2 DEF LineAlong, k
<1>9. Lines!Created(g)
  BY <1>1, KeptIs
<1>10. AtCursor(LineKept[g], k - 1) = Lines!GameRevert(LineKept[g])
  BY <1>8 DEF AtCursor, Lines!GameRevert
<1>11. Lines!CanRevert(LineKept[g])
  BY <1>2, <1>4, <1>8 DEF Lines!CanRevert
<1> QED
  BY <1>7, <1>9, <1>10, <1>11 DEF Lines!Revert, Lines!Set

LEMMA ForwardStep ==
    ASSUME TypeOK, NEW own, Sound(item, freed, handle, own), NEW g \in GameId, Forward(g)
    PROVE  Inv' /\ Lines!Forward(g)
<1> DEFINE w == own[g]
           c == handle[g].current
           k == handle[g].index + 1
<1>1. /\ Created(g) /\ item[c].next # Null
      /\ handle' = [handle EXCEPT ![g].current = item[c].next, ![g].index = @ + 1]
      /\ UNCHANGED <<item, freed>>
  BY DEF Forward, Owned
<1>2. /\ IsGame(item, handle[g], g, w) /\ w \in Seq(Ref) /\ Len(w) \in Nat
      /\ k \in 1..Len(w) /\ c = w[k] /\ handle[g].index \in Nat
      /\ LineKept[g] = LineAlong(item, handle[g], g, w) /\ handle[g] \in HandleRecord
  BY <1>1, ListOf
<1>3. item[w[k]].next = IF k = Len(w) THEN Null ELSE w[k + 1]
  <2> HIDE DEF w, k
  <2> QED
    BY <1>1, <1>2 DEF IsGame, IsList
<1>4. k # Len(w) /\ item[c].next = w[k + 1]
  BY <1>1, <1>2, <1>3
<1>5. k + 1 \in 1..Len(w) /\ handle[g].index + 1 = (k + 1) - 1
  BY <1>2, <1>4
<1>6. handle' = [handle EXCEPT ![g].current = w[k + 1], ![g].index = (k + 1) - 1]
  BY <1>1, <1>4, <1>5
<1> HIDE DEF k, c
<1>7. Inv' /\ LineKept' = [LineKept EXCEPT ![g] = AtCursor(LineKept[g], k + 1)]
  <2> DEFINE n == k + 1
  <2>1. n \in 1..Len(w) /\ UNCHANGED <<item, freed>>
    BY <1>1, <1>5
  <2>4. handle' = [handle EXCEPT ![g].current = w[n], ![g].index = n - 1]
    BY <1>6, Zenon
  <2> HIDE DEF n
  <2>2. MovesCursor(g, own[g], n)
    BY <2>1, <2>4 DEF MovesCursor
  <2>3. Inv' /\ LineKept' = [LineKept EXCEPT ![g] = AtCursor(LineKept[g], n)]
    BY <1>1, <2>2, CursorStep
  <2> QED
    BY <2>3 DEF n
<1>8. LineKept[g].cur = k /\ Len(LineKept[g].pos) = Len(w)
  <2>1. Len(LineAlong(item, handle[g], g, w).pos) = Len(w)
    BY <1>2, LineIsGame DEF TypeOK
  <2> QED
    BY <1>2, <2>1 DEF LineAlong, k
<1>9. Lines!Created(g)
  BY <1>1, KeptIs
<1>10. AtCursor(LineKept[g], k + 1) = Lines!GameForward(LineKept[g])
  BY <1>8 DEF AtCursor, Lines!GameForward
<1>11. Lines!CanForward(LineKept[g])
  <2>1. k < Len(w)
    BY <1>2, <1>4
  <2> QED
    BY <1>8, <2>1 DEF Lines!CanForward
<1> QED
  BY <1>7, <1>9, <1>10, <1>11 DEF Lines!Forward, Lines!Set

(* The items there is memory for, none of them twice.                      *)
LEMMA FreshIs ==
    /\ Fresh \in Seq(Item \cap freed)
    /\ \A i, j \in 1..Len(Fresh) : Fresh[i] = Fresh[j] => i = j
<1> DEFINE S == Item \cap freed
           n == Cardinality(S)
<1>1. IsFiniteSet(S)
  BY HistoryAssumption, FS_Intersection
<1>2. n \in Nat /\ ExistsBijection(1..n, S)
  BY <1>1, FS_CardinalityType
<1> HIDE DEF S, n
<1>3. \E f \in [1..n -> S] : IsInjective(f)
  BY <1>2 DEF ExistsBijection, Bijection, Injection
<1>4. Fresh \in [1..n -> S] /\ IsInjective(Fresh)
  <2>1. Fresh = CHOOSE f \in [1..n -> S] : IsInjective(f)
    BY DEF Fresh, SetToSeq, S, n
  <2> QED
    BY <1>3, <2>1
<1>5. Fresh \in Seq(S) /\ Len(Fresh) = n /\ DOMAIN Fresh = 1..n
  BY <1>2, <1>4
<1>6. \A i, j \in 1..Len(Fresh) : Fresh[i] = Fresh[j] => i = j
  BY <1>4, <1>5 DEF IsInjective
<1> QED
  BY <1>5, <1>6 DEF S

(* The item new is linked in behind c, the last of its list, with the      *)
(* cursor on it.                                                           *)
Appended(it, hd, c, m, new, it2, hd2) ==
    /\ \A x \in Ref \ {c, new} : it2[x] = it[x]
    /\ it2[c].next = new /\ it2[c].move = m
    /\ it2[c].pos = it[c].pos /\ it2[c].prev = it[c].prev /\ it2[c].half = it[c].half
    /\ it2[new].pos = Play[it[c].pos][m]
    /\ it2[new].next = Null /\ it2[new].prev = c
    /\ it2[new].half = IF <<it[c].pos, m>> \in Irreversible THEN 0 ELSE it[c].half + 1
    /\ hd2.current = new /\ hd2.tail = new
    /\ hd2.count = hd.count + 1 /\ hd2.index = hd.index + 1 /\ hd2.copy = hd.copy

(* The game g had the list s, with the cursor at its end.                  *)
AppendedTo(it, hd, g, s, m, new, it2, hd2) ==
    /\ IsGame(it, hd, g, s)
    /\ Len(s) + 1 <= MaxLength
    /\ hd.index + 1 = Len(s)
    /\ m \in Legal[it[s[Len(s)]].pos]
    /\ new \in Item /\ new \notin Range(s)
    /\ Appended(it, hd, s[Len(s)], m, new, it2, hd2)

LEMMA AppendIs ==
    ASSUME NEW S, NEW s \in Seq(S), NEW x \in S
    PROVE  /\ Append(s, x) \in Seq(S) /\ Len(Append(s, x)) = Len(s) + 1
           /\ \A i \in 1..Len(s) : Append(s, x)[i] = s[i]
           /\ Append(s, x)[Len(s) + 1] = x
           /\ Range(Append(s, x)) = Range(s) \cup {x}
<1> DEFINE t == Append(s, x)
<1>1. /\ t \in Seq(S) /\ Len(t) = Len(s) + 1 /\ Len(s) \in Nat
      /\ \A i \in 1..Len(s) : t[i] = s[i]
      /\ t[Len(s) + 1] = x
  OBVIOUS
<1> HIDE DEF t
<1>2. Range(t) = {t[i] : i \in 1..(Len(s) + 1)}
  BY <1>1, RangeIs
<1>3. Range(s) = {s[i] : i \in 1..Len(s)}
  BY RangeIs
<1>4. 1..(Len(s) + 1) = 1..Len(s) \cup {Len(s) + 1}
  BY <1>1
<1>5. Range(t) = Range(s) \cup {x}
  BY <1>1, <1>2, <1>3, <1>4
<1> QED
  BY <1>1, <1>5 DEF t

LEMMA AppendGame ==
    ASSUME NEW it, NEW hd, NEW g, NEW s, NEW m, NEW new, NEW it2, NEW hd2,
           AppendedTo(it, hd, g, s, m, new, it2, hd2)
    PROVE  IsGame(it2, hd2, g, Append(s, new))
<1> DEFINE n == Len(s)
           t == Append(s, new)
           c == s[n]
<1> /\ IsGame(it, hd, g, s) /\ new \in Item /\ new \notin Range(s)
  BY DEF AppendedTo
<1>1. /\ s \in Seq(Ref) /\ n \in Nat \ {0} /\ IsList(it, g, s) /\ s[1] = g
      /\ \A i, j \in 1..n : s[i] = s[j] => i = j
      /\ \A i \in 1..n : it[s[i]].next = IF i = n THEN Null ELSE s[i + 1]
  BY DEF IsGame, IsList
<1>2. new \in Ref
  BY DEF Ref
<1>3. /\ t \in Seq(Ref) /\ Len(t) = n + 1 /\ t[n + 1] = new
      /\ \A i \in 1..n : t[i] = s[i]
  BY <1>1, <1>2, AppendIs
<1>4. n + 1 <= MaxLength /\ hd.index + 1 = n /\ m \in Legal[it[c].pos]
      /\ Appended(it, hd, c, m, new, it2, hd2)
  BY DEF AppendedTo
<1>5. \A i \in 1..n : s[i] # new
  BY <1>1, RangeIs
<1> HIDE DEF n, t
<1>6. ASSUME NEW i \in 1..n, i # n
      PROVE  it2[s[i]] = it[s[i]]
  <2>1. s[i] # c /\ s[i] # new /\ s[i] \in Ref
    BY <1>1, <1>5, <1>6 DEF n
  <2> QED
    BY <1>4, <2>1 DEF Appended
<1>7. ASSUME NEW i \in 1..n
      PROVE  /\ it2[s[i]].pos = it[s[i]].pos /\ it2[s[i]].half = it[s[i]].half
             /\ it2[s[i]].prev = it[s[i]].prev
  <2>1. CASE i = n
    BY <1>4, <2>1 DEF Appended
  <2>2. CASE i # n
    BY <1>6, <2>2
  <2> QED
    BY <2>1, <2>2
<1>8. n + 1 \in 1..MaxLength /\ t[1] = g
  BY <1>1, <1>3, <1>4, LengthAssumption
<1>9. ASSUME NEW i \in 1..(n + 1), NEW j \in 1..(n + 1), t[i] = t[j]
      PROVE  i = j
  <2>1. i \in 1..n \/ i = n + 1
    BY <1>1
  <2>2. j \in 1..n \/ j = n + 1
    BY <1>1
  <2> QED
    BY <1>1, <1>3, <1>5, <1>9, <2>1, <2>2
<1>10. ASSUME NEW i \in 1..(n + 1)
       PROVE  it2[t[i]].next = IF i = n + 1 THEN Null ELSE t[i + 1]
  <2>1. CASE i = n + 1
    BY <1>3, <1>4, <2>1 DEF Appended
  <2>2. CASE i = n
    <3>1. i # n + 1 /\ t[i] = c /\ t[i + 1] = new
      BY <1>1, <1>3, <2>2
    <3> QED
      BY <1>4, <3>1 DEF Appended
  <2>3. CASE i # n /\ i # n + 1
    <3>1. i \in 1..n /\ i + 1 \in 1..n
      BY <1>1, <2>3
    <3>2. t[i] = s[i] /\ t[i + 1] = s[i + 1]
      BY <1>3, <3>1
    <3> QED
      BY <1>1, <1>6, <2>3, <3>1, <3>2
  <2> QED
    BY <2>1, <2>2, <2>3
<1>11. IsList(it2, g, t)
  BY <1>3, <1>8, <1>9, <1>10 DEF IsList
<1>12. ASSUME NEW i \in 2..(n + 1) PROVE t[i] \in Item
  <2>1. CASE i = n + 1
    BY <1>3, <2>1
  <2>2. CASE i # n + 1
    <3>1. i \in 2..n /\ i \in 1..n
      BY <1>1, <2>2
    <3> QED
      BY <1>3, <3>1 DEF IsGame, n
  <2> QED
    BY <2>1, <2>2
<1>13. ASSUME NEW i \in 1..n PROVE Linked(it2[t[i]], it2[t[i + 1]])
  <2>1. CASE i = n
    <3>1. t[i] = c /\ t[i + 1] = new
      BY <1>3, <2>1
    <3>2. /\ it2[c].move = m /\ it2[c].pos = it[c].pos /\ it2[c].half = it[c].half
          /\ it2[new].pos = Play[it[c].pos][m]
          /\ it2[new].half = IF <<it[c].pos, m>> \in Irreversible THEN 0 ELSE it[c].half + 1
      BY <1>4 DEF Appended
    <3> HIDE DEF c
    <3> QED
      BY <1>4, <3>1, <3>2 DEF Linked
  <2>2. CASE i # n
    <3>1. i \in 1..(n - 1) /\ i + 1 \in 1..n
      BY <1>1, <2>2
    <3>2. t[i] = s[i] /\ t[i + 1] = s[i + 1]
      BY <1>3, <3>1
    <3>3. Linked(it[s[i]], it[s[i + 1]])
      BY <3>1 DEF IsGame, n
    <3>4. it2[s[i]] = it[s[i]]
      BY <1>6, <2>2
    <3>5. it2[s[i + 1]].pos = it[s[i + 1]].pos /\ it2[s[i + 1]].half = it[s[i + 1]].half
      BY <1>7, <3>1
    <3> QED
      BY <3>2, <3>3, <3>4, <3>5 DEF Linked
  <2> QED
    BY <2>1, <2>2
<1>14. ASSUME ~hd2.copy, NEW i \in 1..(n + 1)
       PROVE  it2[t[i]].prev = IF i = 1 THEN Null ELSE t[i - 1]
  <2>1. CASE i = n + 1
    <3>1. i # 1 /\ i - 1 = n /\ n \in 1..n
      BY <1>1, <2>1
    <3>2. t[n] = c /\ t[i] = new
      BY <1>3, <2>1, <3>1
    <3> QED
      BY <1>4, <3>1, <3>2 DEF Appended
  <2>2. CASE i # n + 1
    <3>1. i \in 1..n /\ (i # 1 => i - 1 \in 1..n)
      BY <1>1, <2>2
    <3>2. t[i] = s[i] /\ (i # 1 => t[i - 1] = s[i - 1])
      BY <1>3, <3>1
    <3>3. it[s[i]].prev = IF i = 1 THEN Null ELSE s[i - 1]
      BY <1>4, <1>14, <3>1 DEF IsGame, Appended, n
    <3> QED
      BY <1>7, <3>1, <3>2, <3>3
  <2> QED
    BY <2>1, <2>2
<1>15. /\ hd2.index + 1 = n + 1 /\ n + 1 \in 1..(n + 1)
       /\ hd2.current = new /\ hd2.tail = new /\ hd2.count = n + 1
  <2>1. hd.count = n
    BY DEF IsGame, n
  <2> QED
    BY <1>1, <1>4, <2>1 DEF Appended
<1>16. (n + 1) - 1 = n
  BY <1>1
<1>17. IsGame(it2, hd2, g, t)
  BY <1>3, <1>11, <1>12, <1>13, <1>14, <1>15, <1>16 DEF IsGame
<1> QED
  BY <1>17 DEF t

(* What GameAppend returns, part by part.                                  *)
LEMMA GameAppendIs ==
    ASSUME NEW a \in Game, NEW m \in Move
    PROVE  LET b == GameTruncate(a)
               d == GameAppend(a, m)
           IN  /\ d \in Game /\ Len(d.pos) = a.cur + 1 /\ Len(d.mv) = a.cur
               /\ \A i \in 1..a.cur : d.pos[i] = b.pos[i]
               /\ d.pos[a.cur + 1] = Play[a.pos[a.cur]][m]
               /\ \A i \in 1..(a.cur - 1) : d.mv[i] = b.mv[i]
               /\ d.mv[a.cur] = m
               /\ d.cur = a.cur + 1 /\ d.half0 = b.half0
<1> DEFINE b == GameTruncate(a)
           d == GameAppend(a, m)
           p == Play[CurrentPosition(a)][m]
           n == a.cur
<1>1. /\ b.pos \in Seq(Position) /\ b.mv \in Seq(Move) /\ Len(b.mv) = Len(b.pos) - 1
      /\ Len(b.pos) = n /\ n \in Nat
  BY GameTruncateType, GameParts
<1>2. p \in Position /\ p = Play[a.pos[n]][m]
  BY CurrentPositionType, PlayAssumption DEF CurrentPosition
<1>3. d \in Game
  BY GameAppendType
<1>4. /\ d.pos = Append(b.pos, p) /\ d.mv = Append(b.mv, m)
      /\ d.cur = n + 1 /\ d.half0 = b.half0
  BY DEF GameAppend, GameTruncate
<1> HIDE DEF b, d, p, n
<1>5. /\ Len(d.pos) = n + 1 /\ (\A i \in 1..n : d.pos[i] = b.pos[i]) /\ d.pos[n + 1] = p
  BY <1>1, <1>2, <1>4, AppendIs
<1>6. /\ Len(d.mv) = n /\ (\A i \in 1..(n - 1) : d.mv[i] = b.mv[i]) /\ d.mv[n] = m
  <2>1. /\ Len(d.mv) = n - 1 + 1 /\ (\A i \in 1..(n - 1) : d.mv[i] = b.mv[i])
        /\ d.mv[n - 1 + 1] = m
    BY <1>1, <1>4, AppendIs
  <2>2. n - 1 + 1 = n
    BY <1>1
  <2> QED
    BY <2>1, <2>2
<1> QED
  BY <1>2, <1>3, <1>4, <1>5, <1>6 DEF b, d, n

(* The list s is that of the game a, cut behind the cursor.                *)
IsCutOf(it, hd, g, s, a) ==
    a \in Game /\ LineAlong(it, hd, g, s) = GameTruncate(a) /\ a.cur = Len(s)

LEMMA AppendLine ==
    ASSUME NEW it \in [Ref -> ItemRecord], NEW hd \in HandleRecord, NEW g, NEW s,
           NEW m, NEW new, NEW it2 \in [Ref -> ItemRecord], NEW hd2 \in HandleRecord,
           AppendedTo(it, hd, g, s, m, new, it2, hd2), NEW a, IsCutOf(it, hd, g, s, a)
    PROVE  LineAlong(it2, hd2, g, Append(s, new)) = GameAppend(a, m)
<1> DEFINE n == Len(s)
           t == Append(s, new)
           c == s[n]
           b == LineAlong(it, hd, g, s)
           d == GameAppend(a, m)
           e == LineAlong(it2, hd2, g, t)
<1> /\ IsGame(it, hd, g, s) /\ new \in Item /\ new \notin Range(s)
  BY DEF AppendedTo
<1>1. /\ s \in Seq(Ref) /\ n \in Nat \ {0} /\ s[1] = g
      /\ \A i, j \in 1..n : s[i] = s[j] => i = j
  BY DEF IsGame, IsList
<1>2. new \in Ref
  BY DEF Ref
<1>3. /\ t \in Seq(Ref) /\ Len(t) = n + 1 /\ t[n + 1] = new
      /\ \A i \in 1..n : t[i] = s[i]
  BY <1>1, <1>2, AppendIs
<1>4. /\ hd.index + 1 = n /\ m \in Legal[it[c].pos]
      /\ Appended(it, hd, c, m, new, it2, hd2)
  BY DEF AppendedTo
<1>a. a \in Game /\ GameTruncate(a) = b /\ a.cur = n
  BY DEF IsCutOf
<1>5. \A i \in 1..n : s[i] # new
  BY <1>1, RangeIs
<1>6. m \in Move
  <2>1. c \in Ref
    BY <1>1
  <2>2. it[c].pos \in Position
    BY <2>1 DEF ItemRecord
  <2>3. m \in Legal[it[c].pos]
    BY <1>4
  <2> QED
    BY <2>2, <2>3, LegalAssumption
<1>7. IsGame(it2, hd2, g, t)
  BY AppendGame
<1>8. e \in Game /\ Len(e.pos) = n + 1 /\ Len(e.mv) = n
  <2> HIDE DEF n, t, b, d, c
  <2>1. e \in Game /\ Len(e.pos) = Len(t) /\ Len(e.mv) = Len(t) - 1
    BY <1>7, LineIsGame
  <2> HIDE DEF e
  <2> QED
    BY <1>1, <1>3, <2>1
<1>9. /\ \A i \in 1..(n + 1) : e.pos[i] = it2[t[i]].pos
      /\ \A i \in 1..n : e.mv[i] = it2[t[i]].move
      /\ e.cur = hd2.index + 1 /\ e.half0 = it2[g].half
  <2>1. \A i \in 1..Len(t) : e.pos[i] = it2[t[i]].pos
    BY DEF LineAlong
  <2>2. \A i \in 1..(Len(t) - 1) : e.mv[i] = it2[t[i]].move
    BY DEF LineAlong
  <2>3. e.cur = hd2.index + 1 /\ e.half0 = it2[g].half
    BY DEF LineAlong
  <2>4. Len(t) = n + 1 /\ Len(t) - 1 = n
    BY <1>1, <1>3
  <2> HIDE DEF e, t
  <2> QED
    BY <2>1, <2>2, <2>3, <2>4
<1>10. /\ \A i \in 1..n : b.pos[i] = it[s[i]].pos
       /\ \A i \in 1..(n - 1) : b.mv[i] = it[s[i]].move
       /\ b.half0 = it[g].half
  BY DEF LineAlong
<1> HIDE DEF n, t, b, e
<1>11. /\ d \in Game /\ Len(d.pos) = n + 1 /\ Len(d.mv) = n
       /\ \A i \in 1..n : d.pos[i] = b.pos[i]
       /\ d.pos[n + 1] = Play[a.pos[n]][m]
       /\ \A i \in 1..(n - 1) : d.mv[i] = b.mv[i]
       /\ d.mv[n] = m
       /\ d.cur = n + 1 /\ d.half0 = b.half0
  <2>1. /\ d \in Game /\ Len(d.pos) = a.cur + 1 /\ Len(d.mv) = a.cur
        /\ \A i \in 1..a.cur : d.pos[i] = GameTruncate(a).pos[i]
        /\ d.pos[a.cur + 1] = Play[a.pos[a.cur]][m]
        /\ \A i \in 1..(a.cur - 1) : d.mv[i] = GameTruncate(a).mv[i]
        /\ d.mv[a.cur] = m
        /\ d.cur = a.cur + 1 /\ d.half0 = GameTruncate(a).half0
    BY <1>a, <1>6, GameAppendIs, Zenon
  <2> HIDE DEF d
  <2> QED
    BY <1>a, <2>1
<1> HIDE DEF d
<1>12. a.pos[n] = it[c].pos
  <2>1. a.pos \in Seq(Position) /\ n \in 0..Len(a.pos) /\ b.pos = SubSeq(a.pos, 1, n)
    BY <1>a, GameParts DEF GameTruncate
  <2>2. n \in 1..n
    BY <1>1
  <2>3. b.pos[n] = a.pos[n]
    BY <2>1, <2>2, PrefixIs
  <2> QED
    BY <1>10, <2>2, <2>3
<1>13. ASSUME NEW i \in 1..n
       PROVE  /\ it2[s[i]].pos = it[s[i]].pos /\ it2[s[i]].half = it[s[i]].half
              /\ i # n => it2[s[i]].move = it[s[i]].move
  <2>1. CASE i = n
    BY <1>4, <2>1 DEF Appended
  <2>2. CASE i # n
    <3>1. s[i] # c /\ s[i] # new /\ s[i] \in Ref
      BY <1>1, <1>5, <2>2 DEF n
    <3> QED
      BY <1>4, <3>1 DEF Appended
  <2> QED
    BY <2>1, <2>2
<1>14. ASSUME NEW i \in 1..(n + 1) PROVE e.pos[i] = d.pos[i]
  <2>1. CASE i = n + 1
    <3>1. it2[new].pos = Play[it[c].pos][m]
      BY <1>4 DEF Appended
    <3> QED
      BY <1>3, <1>9, <1>11, <1>12, <2>1, <3>1
  <2>2. CASE i # n + 1
    <3>1. i \in 1..n
      BY <1>1, <2>2
    <3>2. e.pos[i] = it2[s[i]].pos
      BY <1>3, <1>9, <3>1
    <3>3. d.pos[i] = it[s[i]].pos
      BY <1>10, <1>11, <3>1
    <3> QED
      BY <1>13, <3>1, <3>2, <3>3
  <2> QED
    BY <2>1, <2>2
<1>15. ASSUME NEW i \in 1..n PROVE e.mv[i] = d.mv[i]
  <2>1. CASE i = n
    <3>1. it2[c].move = m
      BY <1>4 DEF Appended
    <3>2. t[n] = c
      BY <1>1, <1>3
    <3> QED
      BY <1>9, <1>11, <2>1, <3>1, <3>2
  <2>2. CASE i # n
    <3>1. i \in 1..(n - 1)
      BY <1>1, <2>2
    <3>2. e.mv[i] = it2[s[i]].move
      BY <1>3, <1>9, <3>1
    <3>3. d.mv[i] = it[s[i]].move
      BY <1>10, <1>11, <3>1
    <3> QED
      BY <1>13, <2>2, <3>1, <3>2, <3>3
  <2> QED
    BY <2>1, <2>2
<1>16. e.cur = d.cur /\ e.half0 = d.half0
  <2>1. hd2.index + 1 = n + 1
    <3>1. hd2.index = hd.index + 1
      BY <1>4 DEF Appended
    <3> QED
      BY <1>4, <3>1
  <2>2. it2[g].half = it[g].half
    <3>1. 1 \in 1..n
      BY <1>1
    <3> QED
      BY <1>1, <1>13, <3>1
  <2> QED
    BY <1>9, <1>10, <1>11, <2>1, <2>2
<1>17. e = d
  BY <1>8, <1>11, <1>14, <1>15, <1>16, GameEqual
<1> QED
  BY <1>17 DEF e, d, t

LEMMA NewItemIs ==
    ASSUME NEW h \in HeapType, NEW g \in GameId, NEW m \in Move, NEW c \in Ref,
           c = h.handle[g].current
    PROVE  LET r == NewItem(h, g, m)
               x == h.item[c]
           IN  /\ r \in ItemRecord
               /\ r.pos = Play[x.pos][m] /\ r.next = Null /\ r.prev = c
               /\ r.half = IF <<x.pos, m>> \in Irreversible THEN 0 ELSE x.half + 1
<1> DEFINE r == NewItem(h, g, m)
           x == h.item[c]
           p == Play[x.pos][m]
           n == IF <<x.pos, m>> \in Irreversible THEN 0 ELSE x.half + 1
<1>1. x \in ItemRecord
  BY DEF HeapType
<1>2. x.pos \in Position /\ x.half \in Nat
  BY <1>1 DEF ItemRecord
<1>3. p \in Position /\ n \in Nat
  <2>1. p \in Position
    BY <1>2, PlayAssumption
  <2>2. n \in Nat
    BY <1>2
  <2> QED
    BY <2>1, <2>2
<1>4. r = [pos |-> p, next |-> Null, prev |-> c, move |-> NoMove, half |-> n]
  BY Zenon DEF NewItem
<1> HIDE DEF r, p, n
<1>5. r \in ItemRecord /\ r.pos = p /\ r.next = Null /\ r.prev = c /\ r.half = n
  BY <1>3, <1>4, HistoryAssumption DEF ItemRecord
<1> QED
  BY <1>5 DEF r, p, n

LEMMA PlayMoveStep ==
    ASSUME TypeOK, NEW own, Sound(item, freed, handle, own), NEW g \in GameId, PlayMove(g)
    PROVE  Inv' /\ Lines!PlayMove(g)
<1> DEFINE w == own[g]
           k == handle[g].index + 1
           c == handle[g].current
           h == Truncated(g)
           s == Cut(own, g)
           new == Fresh[1]
           t == Append(s, new)
           a == LineKept[g]
<1> DEFINE h2(m) ==
              [item |-> [h.item EXCEPT ![new] = NewItem(h, g, m), ![c].next = new, ![c].move = m],
               freed |-> h.freed \ {new},
               handle |-> [h.handle EXCEPT ![g].current = new, ![g].tail = new,
                                           ![g].count = @ + 1, ![g].index = @ + 1]]
<1>1. Created(g) /\ k < MaxLength /\ Fresh # << >>
  BY DEF PlayMove
<1>2. PICK m \in Legal[item[c].pos] : Becomes(h2(m))
  BY DEF PlayMove
<1>3. new \in Item /\ new \in freed /\ new \in Ref
  <2>1. Fresh \in Seq(Item \cap freed) /\ Fresh # << >>
    BY <1>1, FreshIs
  <2>2. new \in Item \cap freed
    BY <2>1
  <2> QED
    BY <2>2 DEF Ref
<1>4. h \in HeapType
  BY <1>1, TruncatedHeap
<1>5. /\ IsGame(h.item, h.handle[g], g, s) /\ Change(h, own, g, s)
  BY <1>1, TruncateGame
<1>6. /\ h.item[c].pos = item[c].pos /\ h.handle[g].current = c
      /\ h.handle[g].index = handle[g].index /\ c \in Ref
  BY <1>1, TruncatedHeap, ListOf
<1>7. /\ s \in Seq(Ref) /\ Len(s) = k /\ k \in 1..Len(w) /\ s[k] = c
      /\ Range(w) \cap freed = {} /\ Range(s) \subseteq Range(w) /\ Range(w) \subseteq Ref
  BY <1>1, CutIs, ListOf
<1>8. k \in Nat /\ Len(s) + 1 <= MaxLength /\ h.handle[g].index + 1 = Len(s)
  BY <1>1, <1>6, <1>7, LengthAssumption
<1>9. item[c].pos \in Position /\ m \in Move
  <2>1. item[c] \in ItemRecord
    BY <1>6 DEF TypeOK
  <2>2. item[c].pos \in Position
    BY <2>1 DEF ItemRecord
  <2> QED
    BY <2>2, LegalAssumption
<1> DEFINE x == h2(m)
           r == NewItem(h, g, m)
<1>10. /\ x.item = [h.item EXCEPT ![new] = r, ![c].next = new, ![c].move = m]
       /\ x.freed = h.freed \ {new}
       /\ x.handle = [h.handle EXCEPT ![g].current = new, ![g].tail = new,
                                      ![g].count = @ + 1, ![g].index = @ + 1]
       /\ x = [item |-> x.item, freed |-> x.freed, handle |-> x.handle]
  OBVIOUS
<1>b. Becomes(x)
  BY <1>2
<1> HIDE DEF w, k, c, h, s, new, t, a, h2, x, r
<1>11. /\ r \in ItemRecord
       /\ r.pos = Play[h.item[c].pos][m] /\ r.next = Null /\ r.prev = c
       /\ r.half = IF <<h.item[c].pos, m>> \in Irreversible THEN 0 ELSE h.item[c].half + 1
  BY <1>4, <1>6, <1>9, NewItemIs DEF r
<1>12. new \notin Range(s) /\ c \in Range(s) /\ new # c
  <2>1. k \in 1..k
    BY <1>7, <1>8
  <2>2. c \in Range(s)
    BY <1>7, <2>1, RangeIs
  <2> QED
    BY <1>3, <1>7, <2>2
<1>13. h.item \in [Ref -> ItemRecord] /\ h.freed \in SUBSET Ref
       /\ h.handle \in [GameId -> HandleRecord]
  BY <1>4 DEF HeapType
<1>14. /\ x.item \in [Ref -> ItemRecord]
       /\ \A y \in Ref \ {c, new} : x.item[y] = h.item[y]
       /\ x.item[new] = r
       /\ x.item[c].next = new /\ x.item[c].move = m
       /\ x.item[c].pos = h.item[c].pos /\ x.item[c].prev = h.item[c].prev
       /\ x.item[c].half = h.item[c].half
  <2> DEFINE it == [h.item EXCEPT ![new] = r]
  <2>1. it \in [Ref -> ItemRecord] /\ it[new] = r /\ \A y \in Ref \ {new} : it[y] = h.item[y]
    BY <1>3, <1>11, <1>13
  <2>2. x.item = [it EXCEPT ![c].next = new, ![c].move = m]
    BY <1>10
  <2> HIDE DEF it
  <2>3. new \in Ref \cup {Null} /\ m \in Move \cup Uninitialised
    BY <1>3, <1>9
  <2>4. SetsNext(it, c, new, m, x.item)
    BY <2>2, <2>3 DEF SetsNext
  <2>5. /\ x.item \in [Ref -> ItemRecord]
        /\ \A y \in Ref \ {c} : x.item[y] = it[y]
        /\ x.item[c].next = new /\ x.item[c].move = m
        /\ x.item[c].pos = it[c].pos /\ x.item[c].prev = it[c].prev
        /\ x.item[c].half = it[c].half
    BY <1>6, <2>1, <2>4, TwoItemFields
  <2>6. it[c] = h.item[c]
    BY <1>6, <1>12, <2>1
  <2>7. new \in Ref \ {c}
    BY <1>3, <1>12
  <2> QED
    BY <2>1, <2>5, <2>6, <2>7
<1>15. /\ x.handle \in [GameId -> HandleRecord]
       /\ x.handle[g].current = new /\ x.handle[g].tail = new
       /\ x.handle[g].count = h.handle[g].count + 1
       /\ x.handle[g].index = h.handle[g].index + 1
       /\ x.handle[g].copy = h.handle[g].copy
       /\ \A y \in GameId \ {g} : x.handle[y] = h.handle[y]
  <2> DEFINE hg == h.handle[g]
             n == hg.count + 1
             i == hg.index + 1
             q == [hg EXCEPT !.current = new, !.tail = new, !.count = n, !.index = i]
  <2>1. hg \in HandleRecord
    BY <1>13
  <2>2. x.handle = [h.handle EXCEPT ![g] = q]
    BY <1>10, <1>13
  <2> HIDE DEF hg
  <2>3. n \in Nat /\ i \in Nat
    BY <2>1 DEF HandleRecord
  <2> HIDE DEF n, i
  <2>4. /\ q \in HandleRecord
        /\ q.current = new /\ q.tail = new /\ q.count = n
        /\ q.index = i /\ q.copy = hg.copy
    BY <1>3, <2>1, <2>3 DEF HandleRecord
  <2> HIDE DEF q
  <2> QED
    BY <1>13, <2>2, <2>4 DEF hg, n, i
<1>16. x \in HeapType
  BY <1>10, <1>13, <1>14, <1>15 DEF HeapType
<1>17. Appended(h.item, h.handle[g], c, m, new, x.item, x.handle[g])
  BY <1>11, <1>14, <1>15 DEF Appended
<1>18. AppendedTo(h.item, h.handle[g], g, s, m, new, x.item, x.handle[g])
  <2>1. s[Len(s)] = c /\ m \in Legal[h.item[c].pos]
    BY <1>6, <1>7, <1>2 DEF c
  <2> QED
    BY <1>3, <1>5, <1>8, <1>12, <1>17, <2>1 DEF AppendedTo
<1>19. IsGame(x.item, x.handle[g], g, t)
  BY <1>18, AppendGame DEF t
<1>20. /\ t \in Seq(Ref) /\ Len(t) = k + 1 /\ Range(t) = Range(s) \cup {new}
  BY <1>3, <1>7, AppendIs DEF t
<1>21. Change(x, own, g, t)
  <2>1. /\ Range(s) \subseteq Range(w) \cup freed
        /\ h.freed = (freed \cup Range(w)) \ Range(s)
        /\ \A y \in Ref \ (freed \cup Range(w)) : h.item[y] = item[y]
        /\ \A y \in GameId \ {g} : h.handle[y] = handle[y]
    BY <1>5 DEF Change, w
  <2>2. /\ Range(t) \subseteq Range(w) \cup freed
        /\ x.freed = (freed \cup Range(w)) \ Range(t)
    BY <1>3, <1>10, <1>20, <2>1
  <2>3. \A y \in Ref \ (freed \cup Range(w)) : x.item[y] = item[y]
    BY <1>3, <1>7, <1>12, <1>14, <2>1
  <2>4. \A y \in GameId \ {g} : x.handle[y] = handle[y]
    BY <1>15, <2>1
  <2> QED
    BY <1>19, <1>20, <2>2, <2>3, <2>4 DEF Change, w
<1>22. Len(t) # 0
  BY <1>8, <1>20
<1>23. Inv' /\ LineKept' = [LineKept EXCEPT ![g] =
                  IF Len(t) = 0 THEN NoGame ELSE LineAlong(x.item, x.handle[g], g, t)]
  BY <1>b, <1>16, <1>21, ChangeStep
<1>24. /\ a \in Game /\ a = LineAlong(item, handle[g], g, own[g])
       /\ LineAlong(h.item, h.handle[g], g, s) = GameTruncate(a) /\ a.cur = Len(s)
       /\ CurrentPosition(a) = item[c].pos
  <2>1. /\ LineKept[g] = LineAlong(item, handle[g], g, own[g])
        /\ IsGame(item, handle[g], g, own[g]) /\ handle[g] \in HandleRecord
        /\ own[g][k] = c
    BY <1>1, ListOf DEF k, c
  <2>2. LineAlong(item, handle[g], g, own[g]) \in Game
    BY <2>1, LineIsGame DEF TypeOK
  <2>3. LineAlong(h.item, h.handle[g], g, s) = GameTruncate(LineAlong(item, handle[g], g, own[g]))
    BY <1>1, TruncateLine DEF h, s
  <2>4. LineAlong(item, handle[g], g, own[g]).cur = k
    BY DEF LineAlong, k
  <2>5. LineAlong(item, handle[g], g, own[g]).pos[k] = item[own[g][k]].pos
    BY <1>7 DEF LineAlong, w
  <2> QED
    BY <1>7, <2>1, <2>2, <2>3, <2>4, <2>5 DEF a, CurrentPosition
<1>25. LineAlong(x.item, x.handle[g], g, t) = GameAppend(a, m)
  <2>1. /\ h.handle[g] \in HandleRecord /\ x.handle[g] \in HandleRecord
    BY <1>13, <1>15
  <2>2. h.item \in [Ref -> ItemRecord] /\ x.item \in [Ref -> ItemRecord]
    BY <1>13, <1>14
  <2>3. IsCutOf(h.item, h.handle[g], g, s, a)
    BY <1>24 DEF IsCutOf
  <2> QED
    BY <1>18, <2>1, <2>2, <2>3, AppendLine DEF t
<1>26. LineKept' = [LineKept EXCEPT ![g] = GameAppend(LineKept[g], m)]
  BY <1>22, <1>23, <1>25 DEF a
<1>27. Lines!Created(g)
  BY <1>1, KeptIs
<1>28. m \in Legal[CurrentPosition(LineKept[g])]
  BY <1>2, <1>24 DEF a, c
<1>29. /\ Lines!GameAppend(LineKept[g], m) = GameAppend(LineKept[g], m)
       /\ Lines!CurrentPosition(LineKept[g]) = CurrentPosition(LineKept[g])
  BY DEF Lines!GameAppend, GameAppend, Lines!CurrentPosition, CurrentPosition
<1> QED
  BY <1>23, <1>26, <1>27, <1>28, <1>29 DEF Lines!PlayMove, Lines!Set

(* s has no item twice.                                                    *)
Distinct(s) == \A i, j \in 1..Len(s) : s[i] = s[j] => i = j

LEMMA PlaceIs ==
    ASSUME NEW S, NEW s \in Seq(S), Distinct(s), NEW i \in 1..Len(s)
    PROVE  Place(s, s[i]) = i
<1>1. DOMAIN s = 1..Len(s)
  OBVIOUS
<1>2. \A j \in 1..Len(s) : s[j] = s[i] => j = i
  BY DEF Distinct
<1>3. Place(s, s[i]) \in 1..Len(s) /\ s[Place(s, s[i])] = s[i]
  BY <1>1 DEF Place
<1> QED
  BY <1>2, <1>3

(* The items it, copied from the places of w to those of to.               *)
CopyOf(x, at) == [item[x] EXCEPT !.next = IF @ = Null THEN Null ELSE at[@]]

CopiedTo(w, to) == [z \in Range(w) |-> to[Place(w, z)]]

CopiedItem(w, to, y) == CopyOf(w[Place(to, y)], CopiedTo(w, to))

LEMMA CopiedItemIs ==
    ASSUME TypeOK, NEW g, NEW w, IsList(item, g, w), NEW to \in Seq(Ref), Distinct(to),
           Len(w) <= Len(to), NEW i \in 1..Len(w)
    PROVE  /\ CopiedItem(w, to, to[i]) \in ItemRecord
           /\ CopiedItem(w, to, to[i]).next = IF i = Len(w) THEN Null ELSE to[i + 1]
           /\ CopiedItem(w, to, to[i]).pos = item[w[i]].pos
           /\ CopiedItem(w, to, to[i]).move = item[w[i]].move
           /\ CopiedItem(w, to, to[i]).half = item[w[i]].half
<1> DEFINE at == [z \in Range(w) |-> to[Place(w, z)]]
           x == item[w[i]]
           n == IF x.next = Null THEN Null ELSE at[x.next]
           r == [x EXCEPT !.next = n]
<1>1. /\ w \in Seq(Ref) /\ Len(w) \in Nat /\ Distinct(w)
      /\ \A j \in 1..Len(w) : item[w[j]].next = IF j = Len(w) THEN Null ELSE w[j + 1]
  BY DEF IsList, Distinct
<1>2. Place(to, to[i]) = i
  <2>1. i \in 1..Len(to) /\ Len(to) \in Nat
    BY <1>1
  <2> QED
    BY <2>1, PlaceIs
<1>3. CopiedItem(w, to, to[i]) = r
  <2>1. CopiedItem(w, to, to[i]) = CopyOf(w[i], CopiedTo(w, to))
    BY <1>2 DEF CopiedItem
  <2>2. CopyOf(w[i], CopiedTo(w, to)) = r
    BY Zenon DEF CopyOf, CopiedTo
  <2> QED
    BY <2>1, <2>2
<1>4. x \in ItemRecord
  BY <1>1 DEF TypeOK
<1>5. n = IF i = Len(w) THEN Null ELSE to[i + 1]
  <2>1. CASE i = Len(w)
    BY <1>1, <2>1
  <2>2. CASE i # Len(w)
    <3>1. i + 1 \in 1..Len(w)
      BY <1>1, <2>2
    <3>2. x.next = w[i + 1] /\ w[i + 1] \in Ref /\ w[i + 1] # Null
      BY <1>1, <2>2, <3>1, HistoryAssumption DEF Ref
    <3>3. w[i + 1] \in Range(w)
      BY <1>1, <3>1, RangeIs
    <3>4. at[w[i + 1]] = to[Place(w, w[i + 1])]
      BY <3>3
    <3>5. Place(w, w[i + 1]) = i + 1
      BY <1>1, <3>1, PlaceIs
    <3> HIDE DEF at, x
    <3> QED
      BY <2>2, <3>2, <3>4, <3>5
  <2> QED
    BY <2>1, <2>2
<1>6. n \in Ref \cup {Null}
  <2>1. CASE i = Len(w)
    BY <1>5, <2>1
  <2>2. CASE i # Len(w)
    <3>1. i + 1 \in 1..Len(to)
      BY <1>1, <2>2
    <3>2. to[i + 1] \in Ref
      BY <3>1
    <3> QED
      BY <1>5, <2>2, <3>2
  <2> QED
    BY <2>1, <2>2
<1> HIDE DEF n, x
<1>7. /\ r \in ItemRecord /\ r.next = n
      /\ r.pos = x.pos /\ r.move = x.move /\ r.half = x.half
  BY <1>4, <1>6 DEF ItemRecord
<1> HIDE DEF r
<1> QED
  BY <1>3, <1>5, <1>7 DEF x

(* Where the items of a copy are.                                          *)
LEMMA CopyPlaces ==
    ASSUME NEW h \in GameId, h \in freed, freed \subseteq Ref
    PROVE  LET to == <<h>> \o Fresh
           IN  /\ to \in Seq(Ref) /\ Distinct(to)
               /\ to[1] = h /\ Len(to) = Len(Fresh) + 1
               /\ \A i \in 1..Len(to) : to[i] \in freed
               /\ \A i \in 2..Len(to) : to[i] \in Item
<1> DEFINE to == <<h>> \o Fresh
           n == Len(Fresh)
<1>1. /\ Fresh \in Seq(Item \cap freed) /\ n \in Nat
      /\ \A i \in 1..n : Fresh[i] \in Item \cap freed
      /\ \A i, j \in 1..n : Fresh[i] = Fresh[j] => i = j
  BY FreshIs
<1>2. <<h>> \in Seq(Ref) /\ Fresh \in Seq(Ref) /\ Len(<<h>>) = 1 /\ <<h>>[1] = h
  <2>1. h \in Ref /\ Item \cap freed \subseteq Ref
    BY DEF Ref
  <2>2. Fresh \in Seq(Ref)
    BY <1>1, <2>1
  <2> QED
    BY <2>1, <2>2
<1>3. /\ to \in Seq(Ref) /\ Len(to) = 1 + n
      /\ \A i \in 1..(1 + n) : to[i] = IF i <= 1 THEN <<h>>[i] ELSE Fresh[i - 1]
  BY <1>2, ConcatProperties
<1> HIDE DEF to, n
<1>4. to[1] = h
  BY <1>1, <1>2, <1>3
<1>5. ASSUME NEW i \in 2..(1 + n) PROVE to[i] = Fresh[i - 1] /\ i - 1 \in 1..n
  <2>1. i \in 1..(1 + n) /\ ~(i <= 1) /\ i - 1 \in 1..n
    BY <1>1
  <2> QED
    BY <1>3, <2>1
<1>6. ASSUME NEW i \in 2..(1 + n) PROVE to[i] \in Item /\ to[i] \in freed /\ to[i] # h
  <2>1. to[i] \in Item \cap freed
    BY <1>1, <1>5
  <2> QED
    BY <2>1, HistoryAssumption
<1>7. ASSUME NEW i \in 1..(1 + n) PROVE i = 1 \/ i \in 2..(1 + n)
  BY <1>1
<1>8. ASSUME NEW i \in 1..(1 + n), NEW j \in 1..(1 + n), to[i] = to[j] PROVE i = j
  <2>1. CASE i = 1 \/ j = 1
    BY <1>4, <1>6, <1>7, <1>8, <2>1
  <2>2. CASE i # 1 /\ j # 1
    <3>1. /\ to[i] = Fresh[i - 1] /\ i - 1 \in 1..n
          /\ to[j] = Fresh[j - 1] /\ j - 1 \in 1..n
      BY <1>5, <1>7, <2>2
    <3>2. i - 1 = j - 1
      BY <1>1, <1>8, <3>1 DEF n
    <3> QED
      BY <1>1, <3>1, <3>2
  <2> QED
    BY <2>1, <2>2
<1>9. \A i \in 1..(1 + n) : to[i] \in freed
  BY <1>4, <1>6, <1>7
<1>10. Len(to) = n + 1 /\ 1..Len(to) = 1..(1 + n) /\ 2..Len(to) = 2..(1 + n)
  BY <1>1, <1>3
<1>11. Distinct(to)
  BY <1>8, <1>10 DEF Distinct
<1>12. \A i \in 2..Len(to) : to[i] \in Item
  BY <1>6, <1>10
<1>13. \A i \in 1..Len(to) : to[i] \in freed
  BY <1>9, <1>10
<1> QED
  BY <1>3, <1>4, <1>10, <1>11, <1>12, <1>13 DEF to, n

LEMMA CopyStep ==
    ASSUME TypeOK, NEW own, Sound(item, freed, handle, own), NEW g \in GameId,
           NEW h \in GameId, Copy(g, h)
    PROVE  Inv' /\ Lines!Copy(g, h)
<1> DEFINE w == Walk(item, g)
           to == <<h>> \o Fresh
           at == CopiedTo(w, to)
           n == Len(w)
           t == SubSeq(to, 1, n)
           hp == [item |-> [y \in Ref |-> IF \E i \in DOMAIN w : to[i] = y
                                          THEN CopiedItem(w, to, y) ELSE item[y]],
                  freed |-> freed \ Range(t),
                  handle |-> [handle EXCEPT ![h] = CopiedHandle(g, at)]]
<1>1. Created(g) /\ ~Created(h) /\ Len(w) <= Len(to)
  BY DEF Copy
<1>2. Becomes(hp)
  BY DEF Copy, CopiedItem, CopyOf, CopiedTo
<1>3. /\ hp.item = [y \in Ref |-> IF \E i \in DOMAIN w : to[i] = y
                                  THEN CopiedItem(w, to, y) ELSE item[y]]
      /\ hp.freed = freed \ Range(t)
      /\ hp.handle = [handle EXCEPT ![h] = CopiedHandle(g, at)]
      /\ hp = [item |-> hp.item, freed |-> hp.freed, handle |-> hp.handle]
  OBVIOUS
<1>4. h \in freed /\ freed \subseteq Ref /\ h \in Ref
  BY <1>1 DEF Created, TypeOK, Ref
<1>5. /\ to \in Seq(Ref) /\ Distinct(to) /\ to[1] = h /\ Len(to) \in Nat
      /\ \A i \in 1..Len(to) : to[i] \in freed
      /\ \A i \in 2..Len(to) : to[i] \in Item
  <2>1. /\ to \in Seq(Ref) /\ Distinct(to) /\ to[1] = h /\ Len(to) = Len(Fresh) + 1
        /\ \A i \in 1..Len(to) : to[i] \in freed
        /\ \A i \in 2..Len(to) : to[i] \in Item
    BY <1>4, CopyPlaces
  <2> HIDE DEF to
  <2> QED
    BY <2>1
<1>6. /\ w = own[g] /\ w \in Seq(Ref) /\ n \in 1..MaxLength /\ n \in Nat
      /\ IsGame(item, handle[g], g, w) /\ IsList(item, g, w)
      /\ handle[g] \in HandleRecord /\ handle[g].index + 1 \in 1..n
      /\ handle[g].current = w[handle[g].index + 1]
      /\ handle[g].tail = w[n] /\ handle[g].count = n
      /\ LineKept[g] = LineAlong(item, handle[g], g, w)
  BY <1>1, ListOf
<1> HIDE DEF w, to, at, n, hp
<1>7. n \in 0..Len(to) /\ n <= Len(to) /\ DOMAIN w = 1..n
  BY <1>1, <1>5, <1>6 DEF n
<1>8. /\ t \in Seq(Ref) /\ Len(t) = n /\ (\A i \in 1..n : t[i] = to[i])
      /\ Range(t) = {to[i] : i \in 1..n}
  BY <1>5, <1>7, PrefixIs
<1> HIDE DEF t
<1>9. \A i \in 1..n : i \in 1..Len(to) /\ to[i] \in freed /\ to[i] \in Ref
  BY <1>4, <1>5, <1>6, <1>7
<1>10. ASSUME NEW i \in 1..n
       PROVE  /\ hp.item[t[i]] \in ItemRecord
              /\ hp.item[t[i]].next = IF i = n THEN Null ELSE t[i + 1]
              /\ hp.item[t[i]].pos = item[w[i]].pos
              /\ hp.item[t[i]].move = item[w[i]].move
              /\ hp.item[t[i]].half = item[w[i]].half
  <2>1. hp.item[to[i]] = CopiedItem(w, to, to[i])
    BY <1>3, <1>7, <1>9
  <2>2. /\ CopiedItem(w, to, to[i]) \in ItemRecord
        /\ CopiedItem(w, to, to[i]).next = IF i = n THEN Null ELSE to[i + 1]
        /\ CopiedItem(w, to, to[i]).pos = item[w[i]].pos
        /\ CopiedItem(w, to, to[i]).move = item[w[i]].move
        /\ CopiedItem(w, to, to[i]).half = item[w[i]].half
    BY <1>5, <1>6, <1>7, CopiedItemIs DEF n
  <2>3. t[i] = to[i] /\ (i # n => t[i + 1] = to[i + 1])
    <3>1. i # n => i + 1 \in 1..n
      BY <1>6
    <3> QED
      BY <1>8, <3>1
  <2> QED
    BY <2>1, <2>2, <2>3
<1>11. ASSUME NEW y \in Ref, y \notin Range(t) PROVE hp.item[y] = item[y]
  <2>1. ~\E i \in DOMAIN w : to[i] = y
    BY <1>7, <1>8, <1>11
  <2> QED
    BY <1>3, <2>1
<1>12. ASSUME NEW i \in 1..n PROVE at[w[i]] = t[i]
  <2>1. Distinct(w)
    BY <1>6 DEF IsList, Distinct
  <2>2. Place(w, w[i]) = i
    BY <1>6, <2>1, PlaceIs DEF n
  <2>3. w[i] \in Range(w)
    BY <1>6, RangeIs DEF n
  <2>4. at[w[i]] = to[Place(w, w[i])]
    BY <2>3 DEF at, CopiedTo
  <2> QED
    BY <1>8, <2>2, <2>4
<1> DEFINE q == CopiedHandle(g, at)
           k == handle[g].index + 1
<1>13. /\ q \in HandleRecord /\ q.current = t[k] /\ q.tail = t[n]
       /\ q.index = handle[g].index /\ q.count = n /\ q.copy = TRUE
  <2>1. at[handle[g].current] = t[k] /\ at[handle[g].tail] = t[n]
    BY <1>6, <1>12
  <2>2. t[k] \in Ref /\ t[n] \in Ref
    BY <1>6, <1>8, <1>9
  <2> DEFINE x == t[k]
             y == t[n]
  <2>3. q = [handle[g] EXCEPT !.current = x, !.tail = y, !.copy = TRUE]
    BY <2>1 DEF CopiedHandle
  <2> HIDE DEF x, y, q, k
  <2>4. x \in Ref /\ y \in Ref
    BY <2>2 DEF x, y
  <2>5. /\ q \in HandleRecord /\ q.current = x /\ q.tail = y
        /\ q.index = handle[g].index /\ q.count = handle[g].count /\ q.copy = TRUE
    BY <1>6, <2>3, <2>4 DEF HandleRecord
  <2> QED
    BY <1>6, <2>5 DEF x, y
<1> HIDE DEF q
<1>14. /\ hp.handle \in [GameId -> HandleRecord] /\ hp.handle[h] = q
       /\ \A y \in GameId \ {h} : hp.handle[y] = handle[y]
  BY <1>3, <1>13 DEF TypeOK, q
<1>15. hp.item \in [Ref -> ItemRecord]
  <2>1. ASSUME NEW y \in Ref PROVE hp.item[y] \in ItemRecord
    <3>1. CASE y \in Range(t)
      <4>1. PICK i \in 1..n : y = t[i]
        BY <1>8, RangeIs, <3>1
      <4> QED
        BY <1>10, <4>1
    <3>2. CASE y \notin Range(t)
      BY <1>11, <3>2 DEF TypeOK
    <3> QED
      BY <3>1, <3>2
  <2>2. hp.item = [y \in Ref |-> hp.item[y]]
    BY <1>3
  <2> QED
    BY <2>1, <2>2
<1>16. hp \in HeapType
  <2>1. hp.freed \in SUBSET Ref
    BY <1>3 DEF TypeOK
  <2> QED
    BY <1>3, <1>14, <1>15, <2>1 DEF HeapType
<1>17. IsList(hp.item, h, t)
  <2>1. ASSUME NEW i \in 1..n, NEW j \in 1..n, t[i] = t[j] PROVE i = j
    BY <1>5, <1>8, <1>9, <2>1 DEF Distinct
  <2>2. t[1] = h /\ 1 \in 1..n
    BY <1>5, <1>6, <1>8
  <2> QED
    BY <1>6, <1>8, <1>10, <2>1, <2>2 DEF IsList
<1>18. \A i \in 2..n : t[i] \in Item
  <2> TAKE i \in 2..n
  <2>1. i \in 1..n /\ i \in 2..Len(to)
    BY <1>5, <1>6, <1>7
  <2> QED
    BY <1>5, <1>8, <2>1
<1>19. ASSUME NEW i \in 1..(n - 1) PROVE Linked(hp.item[t[i]], hp.item[t[i + 1]])
  <2>1. i \in 1..n /\ i + 1 \in 1..n
    BY <1>6
  <2>2. Linked(item[w[i]], item[w[i + 1]])
    BY <1>6 DEF IsGame, n
  <2>3. /\ hp.item[t[i]].pos = item[w[i]].pos /\ hp.item[t[i]].move = item[w[i]].move
        /\ hp.item[t[i]].half = item[w[i]].half
    BY <1>10, <2>1
  <2>4. /\ hp.item[t[i + 1]].pos = item[w[i + 1]].pos
        /\ hp.item[t[i + 1]].half = item[w[i + 1]].half
    BY <1>10, <2>1
  <2> QED
    BY <2>2, <2>3, <2>4 DEF Linked
<1>20. IsGame(hp.item, hp.handle[h], h, t)
  <2>1. q.index + 1 = k /\ k \in 1..Len(t) /\ q.current = t[q.index + 1]
    BY <1>6, <1>8, <1>13
  <2>2. q.tail = t[Len(t)] /\ q.count = Len(t) /\ q.copy
    BY <1>8, <1>13
  <2> HIDE DEF k
  <2>3. IsGame(hp.item, q, h, t)
    BY <1>8, <1>17, <1>18, <1>19, <2>1, <2>2 DEF IsGame
  <2> QED
    BY <1>14, <2>3
<1>21. Range(t) \subseteq freed
  BY <1>8, <1>9
<1>22. Len(own[h]) = 0 /\ Range(own[h]) = {}
  <2>1. h \in freed <=> Len(own[h]) = 0
    BY CreatedIs
  <2>2. Len(own[h]) = 0 => Range(own[h]) = {}
    BY CreatedIs
  <2> QED
    BY <1>4, <2>1, <2>2
<1>23. Change(hp, own, h, t)
  <2>1. \A y \in Ref \ (freed \cup Range(own[h])) : hp.item[y] = item[y]
    BY <1>11, <1>21, <1>22
  <2>2. hp.freed = (freed \cup Range(own[h])) \ Range(t)
    BY <1>3, <1>22
  <2> QED
    BY <1>8, <1>14, <1>20, <1>21, <1>22, <2>1, <2>2 DEF Change
<1>24. Len(t) # 0
  BY <1>6, <1>8
<1>25. Inv' /\ LineKept' = [LineKept EXCEPT ![h] =
                  IF Len(t) = 0 THEN NoGame ELSE LineAlong(hp.item, hp.handle[h], h, t)]
  BY <1>2, <1>16, <1>23, ChangeStep
<1>26. LineAlong(hp.item, hp.handle[h], h, t) = LineAlong(item, handle[g], g, w)
  <2>1. [i \in 1..Len(t) |-> hp.item[t[i]].pos] = [i \in 1..Len(w) |-> item[w[i]].pos]
    BY <1>8, <1>10 DEF n
  <2>2. [i \in 1..(Len(t) - 1) |-> hp.item[t[i]].move] =
            [i \in 1..(Len(w) - 1) |-> item[w[i]].move]
    <3>1. \A i \in 1..(n - 1) : i \in 1..n
      BY <1>6
    <3>2. \A i \in 1..(n - 1) : hp.item[t[i]].move = item[w[i]].move
      BY <1>10, <3>1
    <3> QED
      BY <1>8, <3>2 DEF n
  <2>3. hp.handle[h].index + 1 = handle[g].index + 1
    BY <1>13, <1>14
  <2>4. hp.item[h].half = item[g].half
    <3>1. 1 \in 1..n /\ t[1] = h /\ w[1] = g
      BY <1>6, <1>17 DEF IsList
    <3> QED
      BY <1>10, <3>1
  <2> QED
    BY <2>1, <2>2, <2>3, <2>4, Zenon DEF LineAlong
<1>27. LineKept' = [LineKept EXCEPT ![h] = LineKept[g]]
  BY <1>6, <1>24, <1>25, <1>26
<1>28. Lines!Created(g) /\ ~Lines!Created(h)
  BY <1>1, KeptIs
<1> QED
  BY <1>25, <1>27, <1>28 DEF Lines!Copy, Lines!Set

-----------------------------------------------------------------------------
(* The theorems.                                                           *)

LEMMA InitInv == Init => Inv /\ Lines!Init
<1> SUFFICES ASSUME Init PROVE Inv /\ Lines!Init
  OBVIOUS
<1> DEFINE own == [g \in GameId |-> << >>]
<1>1. /\ item = [x \in Ref |-> FreeItem] /\ freed = Ref
      /\ handle = [g \in GameId |-> EmptyHandle(g)]
  BY DEF Init
<1>2. FreeItem \in ItemRecord
  BY StartAssumption, HistoryAssumption DEF FreeItem, ItemRecord
<1>3. TypeOK
  BY <1>1, <1>2, EmptyHandleType DEF TypeOK
<1>4. << >> \in Seq(Ref) /\ Len(<< >>) = 0 /\ Range(<< >>) = {}
  BY DEF Range
<1>5. own \in [GameId -> Seq(Ref)] /\ \A g \in GameId : own[g] = << >>
  BY <1>4
<1> HIDE DEF own
<1>6. Sound(item, freed, handle, own)
  BY <1>1, <1>4, <1>5 DEF Sound
<1>7. LineKept = [g \in GameId |-> NoGame]
  BY <1>1 DEF LineKept, Created, Ref
<1> QED
  BY <1>3, <1>6, <1>7 DEF Inv, Lines!Init, Lines!NoGame, NoGame

LEMMA NextStep == Inv /\ [Next]_vars => Inv' /\ [Lines!Next]_LineKept
<1> SUFFICES ASSUME Inv, [Next]_vars PROVE Inv' /\ [Lines!Next]_LineKept
  OBVIOUS
<1>1. TypeOK /\ \E own : Sound(item, freed, handle, own)
  BY DEF Inv
<1>2. PICK own : Sound(item, freed, handle, own)
  BY <1>1
<1>3. ASSUME NEW g \in GameId, Create(g) PROVE Inv' /\ Lines!Next
  BY <1>1, <1>2, <1>3, CreateStep DEF Lines!Next
<1>4. ASSUME NEW g \in GameId, ResetFen(g) PROVE Inv' /\ Lines!Next
  BY <1>1, <1>2, <1>4, ResetFenStep DEF Lines!Next
<1>5. ASSUME NEW g \in GameId, PlayMove(g) PROVE Inv' /\ Lines!Next
  BY <1>1, <1>2, <1>5, PlayMoveStep DEF Lines!Next
<1>6. ASSUME NEW g \in GameId, Truncate(g) PROVE Inv' /\ Lines!Next
  BY <1>1, <1>2, <1>6, TruncateStep DEF Lines!Next
<1>7. ASSUME NEW g \in GameId, Revert(g) PROVE Inv' /\ Lines!Next
  BY <1>1, <1>2, <1>7, RevertStep DEF Lines!Next
<1>8. ASSUME NEW g \in GameId, Forward(g) PROVE Inv' /\ Lines!Next
  BY <1>1, <1>2, <1>8, ForwardStep DEF Lines!Next
<1>9. ASSUME NEW g \in GameId, Destroy(g) PROVE Inv' /\ Lines!Next
  BY <1>1, <1>2, <1>9, DestroyStep DEF Lines!Next
<1>10. ASSUME NEW g \in GameId, NEW h \in GameId, Copy(g, h) PROVE Inv' /\ Lines!Next
  BY <1>1, <1>2, <1>10, CopyStep DEF Lines!Next
<1>11. ASSUME UNCHANGED vars PROVE Inv' /\ UNCHANGED LineKept
  <2>1. item' = item /\ freed' = freed /\ handle' = handle
    BY <1>11 DEF vars
  <2>2. TypeOK' /\ Sound(item', freed', handle', own)
    BY <1>1, <1>2, <2>1 DEF TypeOK
  <2>3. UNCHANGED LineKept
    BY <2>1 DEF LineKept, LineOf, Created, Walk
  <2> QED
    BY <2>2, <2>3 DEF Inv
<1> QED
  BY <1>3, <1>4, <1>5, <1>6, <1>7, <1>8, <1>9, <1>10, <1>11 DEF Next

(* The memory always holds one well made list for each game, which no      *)
(* other game shares, and nothing else.                                    *)
THEOREM HeapInvariant == Spec => []Inv
<1>1. Init => Inv
  BY InitInv
<1>2. Inv /\ [Next]_vars => Inv'
  BY NextStep
<1> QED
  BY <1>1, <1>2, PTL DEF Spec

(* Every field of every item and of every struct game holds what its type  *)
(* says.                                                                   *)
THEOREM TypeCorrect == Spec => []TypeOK
<1>1. Inv => TypeOK
  BY DEF Inv
<1> QED
  BY <1>1, HeapInvariant, PTL

(* Whatever the order of the calls of game.c, the lists do what game.h     *)
(* promises: each call acts on its own game as on a line of moves with a   *)
(* cursor, and on no other.                                                *)
THEOREM ListsAreLines == Spec => RefinesLines
<1>1. Init => Inv /\ Lines!Init
  BY InitInv
<1>2. Inv /\ [Next]_vars => [Lines!Next]_LineKept
  BY NextStep
<1> QED
  BY <1>1, <1>2, HeapInvariant, PTL DEF Spec, RefinesLines, Lines!Spec

(* No game reaches freed memory or an item of another game, no item is     *)
(* lost, and the cursor, the tail, the index and the count kept by hand in *)
(* struct game are those of the list.                                      *)
THEOREM HeapIsSound == Spec => []HeapSound
<1>1. Inv => HeapSound
  <2> SUFFICES ASSUME Inv PROVE HeapSound
    OBVIOUS
  <2>1. TypeOK /\ \E own : Sound(item, freed, handle, own)
    BY DEF Inv
  <2>2. PICK own : Sound(item, freed, handle, own)
    BY <2>1
  <2>3. ASSUME NEW g \in GameId, Created(g)
        PROVE  /\ Walk(item, g) = own[g] /\ Chain(item, g) = Range(own[g])
               /\ Range(own[g]) \cap freed = {}
               /\ handle[g].index + 1 \in DOMAIN own[g]
               /\ own[g][handle[g].index + 1] = handle[g].current
               /\ own[g][Len(own[g])] = handle[g].tail
               /\ Len(own[g]) = handle[g].count
    <3>1. /\ Walk(item, g) = own[g] /\ own[g] \in Seq(Ref) /\ Range(own[g]) \cap freed = {}
          /\ handle[g].index + 1 \in 1..Len(own[g])
          /\ handle[g].current = own[g][handle[g].index + 1]
          /\ handle[g].tail = own[g][Len(own[g])] /\ handle[g].count = Len(own[g])
      BY <2>1, <2>2, <2>3, ListOf
    <3> QED
      BY <3>1 DEF Chain
  <2>4. ASSUME NEW g \in GameId, NEW h \in GameId, Created(g), Created(h), g # h
        PROVE  Chain(item, g) \cap Chain(item, h) = {}
    BY <2>2, <2>3, <2>4 DEF Sound
  <2>5. ASSUME NEW x \in Item \ freed
        PROVE  \E g \in GameId : Created(g) /\ x \in Chain(item, g)
    <3>1. x \in Ref
      BY DEF Ref
    <3>2. PICK g \in GameId : x \in Range(own[g])
      BY <2>2, <2>5, <3>1 DEF Sound
    <3>3. g \in freed <=> Len(own[g]) = 0
      BY <2>2, CreatedIs
    <3>4. Len(own[g]) = 0 => Range(own[g]) = {}
      BY <2>2, CreatedIs
    <3>5. Created(g)
      BY <3>2, <3>3, <3>4 DEF Created
    <3> QED
      BY <2>3, <3>2, <3>5
  <2>6. Item \ freed \subseteq UNION {Chain(item, g) : g \in {x \in GameId : Created(x)}}
    BY <2>5
  <2> QED
    BY <2>3, <2>4, <2>6 DEF HeapSound
<1> QED
  BY <1>1, HeapInvariant, PTL

-----------------------------------------------------------------------------
(* Draws.                                                                  *)

(* Q is P turned round.                                                    *)
Mirrored(k, P, Q) ==
    /\ P \subseteq 1..k /\ Q \subseteq 1..k
    /\ \A i \in 1..k : i \in P <=> (k + 1) - i \in Q

LEMMA Reversed ==
    ASSUME NEW k \in Nat, NEW P, NEW Q, Mirrored(k, P, Q)
    PROVE  Cardinality(P) = Cardinality(Q)
<1> DEFINE f == [i \in P |-> (k + 1) - i]
<1> /\ P \subseteq 1..k /\ Q \subseteq 1..k
    /\ \A i \in 1..k : i \in P <=> (k + 1) - i \in Q
  BY DEF Mirrored
<1>1. f \in [P -> Q]
  <2>1. ASSUME NEW i \in P PROVE (k + 1) - i \in Q
    BY <2>1
  <2> QED
    BY <2>1
<1>2. \A i, j \in P : f[i] = f[j] => i = j
  OBVIOUS
<1>3. ASSUME NEW j \in Q PROVE \E i \in P : f[i] = j
  <2>1. (k + 1) - j \in 1..k /\ (k + 1) - ((k + 1) - j) = j
    OBVIOUS
  <2>2. (k + 1) - j \in P
    BY <2>1
  <2> QED
    BY <2>1, <2>2
<1>4. IsFiniteSet(P)
  <2>1. IsFiniteSet(1..k)
    BY FS_Interval
  <2>2. P \in SUBSET (1..k)
    OBVIOUS
  <2> QED
    BY <2>1, <2>2, FS_Subset
<1> HIDE DEF f
<1>5. f \in Bijection(P, Q)
  <2>1. DOMAIN f = P
    BY <1>1
  <2> QED
    BY <1>1, <1>2, <1>3, <2>1 DEF Bijection, Injection, Surjection, IsInjective
<1>6. ExistsBijection(P, Q)
  BY <1>5 DEF ExistsBijection
<1> QED
  BY <1>4, <1>6, FS_Bijection

(* Back from the cursor the list is the line turned round.                 *)
LEMMA WalkBackIs ==
    ASSUME TypeOK, NEW own, Sound(item, freed, handle, own), NEW g \in GameId,
           Created(g), ~handle[g].copy, NEW k, k = handle[g].index + 1
    PROVE  /\ k \in Nat /\ DOMAIN WalkBack(g) = 1..k
           /\ \A i \in 1..k : WalkBack(g)[i] = own[g][(k + 1) - i]
<1> DEFINE w == own[g]
           s == [i \in 1..k |-> w[(k + 1) - i]]
           link == [y \in Ref |-> item[y].prev]
<1>1. /\ IsGame(item, handle[g], g, w) /\ w \in Seq(Ref) /\ Len(w) \in 1..MaxLength
      /\ k \in 1..Len(w) /\ handle[g].current = w[k] /\ Len(w) \in Nat
  BY ListOf
<1>2. k \in Nat /\ k <= MaxLength /\ k # 0
  BY <1>1, LengthAssumption
<1> HIDE DEF w
<1>3. ASSUME NEW i \in 1..k
      PROVE  (k + 1) - i \in 1..k /\ (k + 1) - i \in 1..Len(w) /\ w[(k + 1) - i] \in Ref
  BY <1>1, <1>2
<1>4. s \in Seq(Ref) /\ Len(s) = k /\ \A i \in 1..k : s[i] = w[(k + 1) - i]
  <2> DEFINE f(i) == w[(k + 1) - i]
  <2>1. \A i \in 1..k : f(i) \in Ref
    BY <1>3
  <2>2. s = [i \in 1..k |-> f(i)]
    OBVIOUS
  <2> HIDE DEF f, s
  <2>3. s \in Seq(Ref) /\ Len(s) = k /\ \A i \in 1..k : s[i] = f(i)
    BY <1>2, <2>1, <2>2
  <2> QED
    BY <2>3 DEF f
<1> HIDE DEF s
<1>5. ASSUME NEW i \in 1..k PROVE link[s[i]] = IF i = k THEN Null ELSE s[i + 1]
  <2> DEFINE j == (k + 1) - i
  <2>1. s[i] = w[j] /\ j \in 1..Len(w) /\ w[j] \in Ref
    BY <1>3, <1>4
  <2>2. item[w[j]].prev = IF j = 1 THEN Null ELSE w[j - 1]
    <3> HIDE DEF j
    <3> QED
      BY <1>1, <2>1 DEF IsGame
  <2>3. link[s[i]] = item[w[j]].prev
    BY <2>1
  <2>4. j = 1 <=> i = k
    BY <1>2
  <2>5. i # k => s[i + 1] = w[j - 1]
    <3>1. i # k => i + 1 \in 1..k /\ (k + 1) - (i + 1) = j - 1
      BY <1>2
    <3> QED
      BY <1>4, <3>1
  <2> HIDE DEF link, j
  <2> QED
    BY <2>2, <2>3, <2>4, <2>5
<1>6. handle[g].current = s[1]
  <2>1. 1 \in 1..k /\ (k + 1) - 1 = k
    BY <1>2
  <2>2. s[1] = w[(k + 1) - 1]
    BY <1>4, <2>1
  <2> QED
    BY <1>1, <2>1, <2>2
<1> HIDE DEF link
<1>7. Follows(link, handle[g].current, s)
  BY <1>2, <1>4, <1>5, <1>6 DEF Follows
<1>8. WalkBack(g) = s
  <2>1. Along(link, handle[g].current) = s
    BY <1>7, AlongIs
  <2> QED
    BY <2>1 DEF WalkBack, link
<1> QED
  BY <1>2, <1>4, <1>8 DEF w

LEMMA RepetitionsCounted ==
    ASSUME TypeOK, NEW own, Sound(item, freed, handle, own), NEW g \in GameId,
           Created(g), ~handle[g].copy
    PROVE  RepetitionCount(g) = Repetitions(LineAlong(item, handle[g], g, own[g]))
<1> DEFINE w == own[g]
           k == handle[g].index + 1
           p == item[handle[g].current].pos
           a == LineAlong(item, handle[g], g, w)
           P == {i \in 1..k : item[WalkBack(g)[i]].pos = p}
           Q == {i \in 1..k : item[w[i]].pos = p}
<1>1. /\ w \in Seq(Ref) /\ k \in 1..Len(w) /\ handle[g].current = w[k] /\ Len(w) \in Nat
  BY ListOf
<1>2. /\ k \in Nat /\ DOMAIN WalkBack(g) = 1..k
      /\ \A i \in 1..k : WalkBack(g)[i] = w[(k + 1) - i]
  BY WalkBackIs
<1>3. a.cur = k /\ \A i \in 1..Len(w) : a.pos[i] = item[w[i]].pos
  BY DEF LineAlong
<1>4. RepetitionCount(g) = Cardinality({i \in 1..k : item[WalkBack(g)[i]].pos = p})
  BY <1>2 DEF RepetitionCount
<1>5. Repetitions(a) = Cardinality({i \in 1..k : a.pos[i] = a.pos[k]})
  BY <1>3 DEF Repetitions, CurrentPosition
<1>6. {i \in 1..k : item[WalkBack(g)[i]].pos = p} = P
  OBVIOUS
<1>7. {i \in 1..k : a.pos[i] = a.pos[k]} = Q
  <2>1. \A i \in 1..k : i \in 1..Len(w) /\ k \in 1..Len(w)
    BY <1>1, <1>2
  <2>2. a.pos[k] = p
    BY <1>1, <1>3
  <2> HIDE DEF a, w, k, p
  <2>3. \A i \in 1..k : a.pos[i] = item[w[i]].pos
    BY <1>3, <2>1
  <2>4. \A i \in 1..k : a.pos[i] = a.pos[k] <=> i \in Q
    BY <2>2, <2>3
  <2> QED
    BY <2>4
<1>8. Mirrored(k, P, Q)
  <2> HIDE DEF w, k, p
  <2>1. \A i \in 1..k : (k + 1) - i \in 1..k
    BY <1>2
  <2> QED
    BY <1>2, <2>1 DEF Mirrored
<1> HIDE DEF P, Q, k, a
<1>9. Cardinality(P) = Cardinality(Q)
  BY <1>2, <1>8, Reversed
<1> QED
  BY <1>4, <1>5, <1>6, <1>7, <1>9 DEF a

LEMMA HalfMovesCounted ==
    ASSUME TypeOK, NEW own, Sound(item, freed, handle, own), NEW g \in GameId, Created(g)
    PROVE  item[handle[g].current].half = HalfMoveCount(LineAlong(item, handle[g], g, own[g]))
<1> DEFINE w == own[g]
           k == handle[g].index + 1
           a == LineAlong(item, handle[g], g, w)
           P == {i \in Nat : i = 0 \/ item[w[i]].half = HalfMoveCount(AtCursor(a, i))}
<1>1. /\ IsGame(item, handle[g], g, w) /\ w \in Seq(Ref) /\ Len(w) \in Nat /\ w[1] = g
      /\ k \in 1..Len(w) /\ handle[g].current = w[k] /\ handle[g] \in HandleRecord
  BY ListOf
<1>2. a \in Game /\ Len(a.pos) = Len(w) /\ Len(a.mv) = Len(w) - 1
  BY <1>1, LineIsGame DEF TypeOK
<1>3. /\ a.cur = k /\ a.half0 = item[g].half
      /\ \A i \in 1..Len(w) : a.pos[i] = item[w[i]].pos
      /\ \A i \in 1..(Len(w) - 1) : a.mv[i] = item[w[i]].move
  BY DEF LineAlong
<1> HIDE DEF w, k, a
<1>4. ASSUME NEW i \in 1..Len(w)
      PROVE  /\ AtCursor(a, i) \in Game /\ AtCursor(a, i).cur = i
             /\ AtCursor(a, i).pos = a.pos /\ AtCursor(a, i).mv = a.mv
             /\ AtCursor(a, i).half0 = a.half0
  BY <1>2, CursorType DEF AtCursor, Game
<1>5. 0 \in P
  OBVIOUS
<1>6. ASSUME NEW i \in 1..Len(w), i - 1 \in P PROVE i \in P
  <2>1. CASE i = 1
    <3> DEFINE b == AtCursor(a, i)
    <3>1. b \in Game /\ b.cur = 1 /\ b.half0 = a.half0
      BY <1>4, <2>1
    <3> HIDE DEF b
    <3>2. NoReturn(b) = {}
      BY <3>1 DEF NoReturn
    <3>3. HalfMoveCount(b) = b.half0 + b.cur - 1 /\ b.half0 \in Nat
      BY <3>1, <3>2, HalfMoveCountIs, GameParts
    <3>4. HalfMoveCount(b) = item[g].half
      BY <1>3, <3>1, <3>3
    <3> QED
      BY <1>1, <2>1, <3>4 DEF b
  <2>2. CASE i # 1
    <3> DEFINE j == i - 1
               b == AtCursor(a, j)
    <3>1. j \in 1..Len(w) /\ j + 1 = i /\ j \in 1..(Len(w) - 1) /\ j # 0 /\ i \in Nat
      BY <1>1, <2>2
    <3>2. item[w[j]].half = HalfMoveCount(b)
      BY <1>6, <3>1
    <3>3. b \in Game /\ b.cur = j /\ b.pos = a.pos /\ b.mv = a.mv
      BY <1>4, <3>1
    <3>4. Linked(item[w[j]], item[w[i]])
      <4> HIDE DEF j
      <4> QED
        BY <1>1, <3>1 DEF IsGame
    <3>5. GameForward(b) = AtCursor(a, i)
      <4>1. b = [a EXCEPT !.cur = j]
        BY DEF AtCursor
      <4>2. a = [pos |-> a.pos, mv |-> a.mv, cur |-> a.cur, half0 |-> a.half0]
        BY <1>2, GameParts
      <4> HIDE DEF b, j
      <4>3. b = [pos |-> a.pos, mv |-> a.mv, cur |-> j, half0 |-> a.half0]
        BY <4>1, <4>2
      <4>4. GameForward(b) = [pos |-> a.pos, mv |-> a.mv, cur |-> j + 1, half0 |-> a.half0]
        BY <4>3 DEF GameForward
      <4>5. AtCursor(a, i) = [pos |-> a.pos, mv |-> a.mv, cur |-> i, half0 |-> a.half0]
        BY <4>2 DEF AtCursor
      <4> QED
        BY <3>1, <4>4, <4>5
    <3> HIDE DEF b
    <3>6. b.cur < Len(b.pos)
      BY <1>1, <1>2, <3>1, <3>3
    <3>7. HalfMoveCount(GameForward(b)) =
             IF <<b.pos[b.cur], b.mv[b.cur]>> \in Irreversible THEN 0
             ELSE HalfMoveCount(b) + 1
      BY <3>3, <3>6, HalfMoveForward
    <3>8. b.pos[b.cur] = item[w[j]].pos /\ b.mv[b.cur] = item[w[j]].move
      BY <1>3, <3>1, <3>3
    <3> HIDE DEF j
    <3>9. item[w[i]].half = HalfMoveCount(AtCursor(a, i))
      BY <3>2, <3>4, <3>5, <3>7, <3>8 DEF Linked
    <3> QED
      BY <3>1, <3>9
  <2> QED
    BY <2>1, <2>2
<1> HIDE DEF P
<1>7. \A i \in 0..Len(w) : i \in P
  BY <1>1, <1>5, <1>6, Induction
<1>8. k \in P /\ k # 0
  BY <1>1, <1>7
<1>9. AtCursor(a, k) = a
  <2>1. a = [pos |-> a.pos, mv |-> a.mv, cur |-> a.cur, half0 |-> a.half0]
    BY <1>2, GameParts
  <2> QED
    BY <1>3, <2>1 DEF AtCursor
<1>10. item[w[k]].half = HalfMoveCount(a)
  BY <1>8, <1>9 DEF P
<1> QED
  BY <1>1, <1>10 DEF a, w

(* A position that came before is found by going back from the cursor      *)
(* exactly as often as the line has it, and the count kept for the fifty   *)
(* move rule is that of the line, after whatever moves were undone,        *)
(* replaced or copied.                                                     *)
THEOREM DrawsAreRight == Spec => []DrawsAgree
<1>1. Inv => DrawsAgree
  <2> SUFFICES ASSUME Inv PROVE DrawsAgree
    OBVIOUS
  <2>1. TypeOK /\ \E own : Sound(item, freed, handle, own)
    BY DEF Inv
  <2>2. PICK own : Sound(item, freed, handle, own)
    BY <2>1
  <2>3. ASSUME NEW g \in GameId, Created(g)
        PROVE  /\ Owned(g) => RepetitionCount(g) = Repetitions(LineOf(g))
               /\ item[handle[g].current].half = HalfMoveCount(LineOf(g))
    <3>1. LineKept[g] = LineAlong(item, handle[g], g, own[g])
      BY <2>1, <2>2, <2>3, ListOf
    <3>2. LineOf(g) = LineAlong(item, handle[g], g, own[g])
      BY <2>3, <3>1 DEF LineKept
    <3>3. item[handle[g].current].half = HalfMoveCount(LineOf(g))
      BY <2>1, <2>2, <2>3, <3>2, HalfMovesCounted
    <3>4. Owned(g) => RepetitionCount(g) = Repetitions(LineOf(g))
      BY <2>1, <2>2, <2>3, <3>2, RepetitionsCounted DEF Owned
    <3> QED
      BY <3>3, <3>4
  <2> QED
    BY <2>3 DEF DrawsAgree
<1> QED
  BY <1>1, HeapInvariant, PTL

-----------------------------------------------------------------------------
(* game_continues.                                                         *)

LEMMA ContinuesImplies ==
    ASSUME TypeOK, NEW own, Sound(item, freed, handle, own),
           NEW g \in GameId, NEW h \in GameId, Created(g), Created(h), Continues(g, h)
    PROVE  GameContinues(LineAlong(item, handle[g], g, own[g]),
                         LineAlong(item, handle[h], h, own[h]))
<1> DEFINE v == own[g]
           w == own[h]
           a == LineAlong(item, handle[g], g, v)
           b == LineAlong(item, handle[h], h, w)
<1>1. /\ Walk(item, g) = v /\ v \in Seq(Ref) /\ Len(v) \in 1..MaxLength /\ v[1] = g
      /\ IsGame(item, handle[g], g, v) /\ handle[g] \in HandleRecord /\ Len(v) \in Nat
  BY ListOf
<1>2. /\ Walk(item, h) = w /\ w \in Seq(Ref) /\ Len(w) \in 1..MaxLength /\ w[1] = h
      /\ IsGame(item, handle[h], h, w) /\ handle[h] \in HandleRecord /\ Len(w) \in Nat
  BY ListOf
<1>3. /\ a \in Game /\ Len(a.pos) = Len(v) /\ Len(a.mv) = Len(v) - 1
      /\ a.mv \in Seq(Move)
  BY <1>1, LineIsGame DEF TypeOK
<1>4. /\ b \in Game /\ Len(b.pos) = Len(w) /\ Len(b.mv) = Len(w) - 1
      /\ b.mv \in Seq(Move)
  BY <1>2, LineIsGame DEF TypeOK
<1>5. /\ \A i \in 1..Len(v) : a.pos[i] = item[v[i]].pos
      /\ \A i \in 1..(Len(v) - 1) : a.mv[i] = item[v[i]].move
  BY DEF LineAlong
<1>6. /\ \A i \in 1..Len(w) : b.pos[i] = item[w[i]].pos
      /\ \A i \in 1..(Len(w) - 1) : b.mv[i] = item[w[i]].move
  BY DEF LineAlong
<1> HIDE DEF v, w, a, b
<1>7. PICK n \in 1..Len(v) \cap 1..Len(w) :
         /\ \A i \in 1..(n - 1) : item[v[i]].move = item[w[i]].move
         /\ item[w[n]].move = NoMove
  <2>1. DOMAIN v = 1..Len(v) /\ DOMAIN w = 1..Len(w)
    BY <1>1, <1>2
  <2> QED
    BY <1>1, <1>2, <2>1 DEF Continues, Parts
<1>8. n \in 1..Len(v) /\ n \in 1..Len(w) /\ n \in Nat
  BY <1>7
<1>9. n = Len(w)
  <2> SUFFICES ASSUME n # Len(w) PROVE FALSE
    OBVIOUS
  <2>1. n \in 1..(Len(w) - 1)
    BY <1>2, <1>8
  <2>2. b.mv[n] \in Move
    BY <1>4, <2>1
  <2> QED
    BY <1>6, <1>7, <2>1, <2>2, MoveAssumption
<1>10. Len(b.mv) <= Len(a.mv)
  BY <1>1, <1>2, <1>3, <1>4, <1>8, <1>9
<1>11. \A i \in 1..Len(b.mv) : a.mv[i] = b.mv[i]
  <2> TAKE i \in 1..Len(b.mv)
  <2>1. i \in 1..(n - 1) /\ i \in 1..(Len(v) - 1) /\ i \in 1..(Len(w) - 1)
    BY <1>1, <1>2, <1>4, <1>8, <1>9
  <2> QED
    BY <1>5, <1>6, <1>7, <2>1
<1>12. SubSeq(a.mv, 1, Len(b.mv)) = b.mv
  <2>1. Len(b.mv) \in 0..Len(a.mv) /\ Len(b.mv) \in Nat
    BY <1>3, <1>4, <1>10
  <2>2. /\ SubSeq(a.mv, 1, Len(b.mv)) \in Seq(Move)
        /\ Len(SubSeq(a.mv, 1, Len(b.mv))) = Len(b.mv)
        /\ \A i \in 1..Len(b.mv) : SubSeq(a.mv, 1, Len(b.mv))[i] = a.mv[i]
    <3> DEFINE r == a.mv
               k == Len(b.mv)
    <3>1. r \in Seq(Move) /\ k \in 0..Len(r)
      BY <1>3, <2>1
    <3> SUFFICES /\ SubSeq(r, 1, k) \in Seq(Move) /\ Len(SubSeq(r, 1, k)) = k
                 /\ \A i \in 1..k : SubSeq(r, 1, k)[i] = r[i]
      OBVIOUS
    <3> HIDE DEF r, k
    <3> QED
      BY <3>1, PrefixIs
  <2> QED
    BY <1>4, <1>11, <2>2, SeqEqual
<1>13. a.pos[1] = b.pos[1]
  <2>1. 1 \in 1..Len(v) /\ 1 \in 1..Len(w)
    BY <1>1, <1>2
  <2>2. item[g].pos = item[h].pos
    BY DEF Continues
  <2> QED
    BY <1>1, <1>2, <1>5, <1>6, <2>1, <2>2
<1>14. GameContinues(a, b)
  BY <1>10, <1>12, <1>13 DEF GameContinues
<1> QED
  BY <1>14 DEF a, b, v, w

-----------------------------------------------------------------------------
(* The replay.                                                             *)

(* The last item of a list has no move, unless it is its head.             *)
EndsUnmoved(it) == \A x \in Item : it[x].next = Null => it[x].move = NoMove

LEMMA BecomesUnmoved ==
    ASSUME NEW h, EndsUnmoved(h.item), Becomes(h)
    PROVE  EndsUnmoved(item')
<1> SUFFICES ASSUME NEW x \in Item, item'[x].next = Null
             PROVE  item'[x].move = NoMove
  BY DEF EndsUnmoved
<1>1. x \in Ref /\ item'[x] = IF x \in h.freed THEN FreeItem ELSE h.item[x]
  BY DEF Becomes, Ref
<1>2. FreeItem.move = NoMove
  BY DEF FreeItem
<1> QED
  BY <1>1, <1>2 DEF EndsUnmoved

LEMMA TruncatedUnmoved ==
    ASSUME TypeOK, EndsUnmoved(item), NEW g \in GameId
    PROVE  EndsUnmoved(Truncated(g).item) /\ Truncated(g).item \in [Ref -> ItemRecord]
<1> DEFINE c == handle[g].current
           new == [item EXCEPT ![c].next = Null, ![c].move = NoMove]
<1>1. item \in [Ref -> ItemRecord] /\ c \in Ref
  BY DEF TypeOK, HandleRecord
<1>2. Truncated(g).item = IF item[c].next = Null THEN item ELSE new
  BY DEF Truncated, Heap
<1>3. SetsNext(item, c, Null, NoMove, new)
  BY HistoryAssumption DEF SetsNext
<1> HIDE DEF c, new
<1>4. /\ new \in [Ref -> ItemRecord] /\ new[c].move = NoMove
      /\ \A x \in Ref \ {c} : new[x] = item[x]
  BY <1>1, <1>3, TwoItemFields
<1>5. EndsUnmoved(new)
  BY <1>4 DEF EndsUnmoved, Ref
<1> QED
  BY <1>1, <1>2, <1>5, <1>4

LEMMA ResetUnmoved ==
    ASSUME NEW h, NEW g \in GameId, NEW p, NEW half, h.item \in [Ref -> ItemRecord],
           EndsUnmoved(h.item), ResetHead(h, g, p, half)
    PROVE  EndsUnmoved(item')
<1> DEFINE r(junk) == [FreeItem EXCEPT !.pos = p, !.move = junk, !.half = half]
           q(junk) == [item |-> [h.item EXCEPT ![g] = r(junk)],
                       freed |-> (h.freed \cup Chain(h.item, h.item[g].next)) \ {g},
                       handle |-> [h.handle EXCEPT ![g] = EmptyHandle(g)]]
<1>1. PICK junk \in Uninitialised : Becomes(q(junk))
  BY DEF ResetHead
<1>2. q(junk).item = [h.item EXCEPT ![g] = r(junk)]
  OBVIOUS
<1> HIDE DEF q, r
<1>3. \A x \in Item : q(junk).item[x] = h.item[x]
  BY <1>2, HistoryAssumption DEF Ref
<1>4. EndsUnmoved(q(junk).item)
  BY <1>3 DEF EndsUnmoved
<1> QED
  BY <1>1, <1>4, BecomesUnmoved

LEMMA PlayUnmoved ==
    ASSUME TypeOK, EndsUnmoved(item), NEW g \in GameId, PlayMove(g)
    PROVE  EndsUnmoved(item')
<1> DEFINE c == handle[g].current
           h == Truncated(g)
           new == Fresh[1]
           i1(m) == [h.item EXCEPT ![new] = NewItem(h, g, m)]
           i2(m) == [h.item EXCEPT ![new] = NewItem(h, g, m), ![c].next = new, ![c].move = m]
           q(m) == [item |-> i2(m), freed |-> h.freed \ {new},
                    handle |-> [h.handle EXCEPT ![g].current = new, ![g].tail = new,
                                                ![g].count = @ + 1, ![g].index = @ + 1]]
<1>1. PICK m \in Legal[item[c].pos] : Becomes(q(m))
  BY DEF PlayMove
<1>2. new \in Item /\ new \in Ref /\ c \in Ref /\ new # Null
  <2>1. Fresh \in Seq(Item \cap freed) /\ Fresh # << >>
    BY FreshIs DEF PlayMove
  <2>2. new \in Item \cap freed
    BY <2>1
  <2> QED
    BY <2>2, HistoryAssumption DEF Ref, TypeOK, HandleRecord
<1>3. h.item \in [Ref -> ItemRecord] /\ EndsUnmoved(h.item)
  BY TruncatedUnmoved
<1>4. NewItem(h, g, m).move = NoMove
  BY DEF NewItem
<1>5. i2(m) = [i1(m) EXCEPT ![c].next = new, ![c].move = m] /\ q(m).item = i2(m)
  OBVIOUS
<1>6. DOMAIN i1(m) = Ref /\ DOMAIN h.item = Ref
  BY <1>3
<1> HIDE DEF q, h, new, c
<1>7. /\ i1(m)[new].move = NoMove
      /\ \A x \in Item \ {new} : i1(m)[x] = h.item[x]
  BY <1>2, <1>3, <1>4 DEF Ref
<1> HIDE DEF i1
<1>8. \A x \in Item \ {c} : i2(m)[x] = i1(m)[x]
  BY <1>5, <1>6 DEF Ref
<1>9. i2(m)[c] = [i1(m)[c] EXCEPT !.next = new, !.move = m]
  BY <1>2, <1>5, <1>6
<1> HIDE DEF i2
<1>10. ASSUME NEW x \in Item, i2(m)[x].next = Null PROVE i2(m)[x].move = NoMove
  <2>1. CASE x = c
    <3>1. "next" \in DOMAIN i1(m)[c]
      <4>1. CASE c = new
        BY <1>2, <1>6, <4>1 DEF i1, NewItem
      <4>2. CASE c # new
        <5>1. i1(m)[c] = h.item[c]
          BY <1>2, <1>3, <4>2 DEF i1
        <5>2. h.item[c] \in ItemRecord
          BY <1>2, <1>3
        <5> QED
          BY <5>1, <5>2 DEF ItemRecord
      <4> QED
        BY <4>1, <4>2
    <3>2. i2(m)[c].next = new
      BY <1>9, <3>1
    <3> QED
      BY <1>2, <1>10, <2>1, <3>2
  <2>2. CASE x # c
    BY <1>3, <1>7, <1>8, <1>10, <2>2 DEF EndsUnmoved
  <2> QED
    BY <2>1, <2>2
<1>11. EndsUnmoved(q(m).item)
  BY <1>5, <1>10 DEF EndsUnmoved
<1> QED
  BY <1>1, <1>11, BecomesUnmoved

LEMMA CopyUnmoved ==
    ASSUME TypeOK, NEW own, Sound(item, freed, handle, own), EndsUnmoved(item),
           NEW g \in GameId, NEW h \in GameId, Copy(g, h)
    PROVE  EndsUnmoved(item')
<1> DEFINE w == Walk(item, g)
           to == <<h>> \o Fresh
           at == CopiedTo(w, to)
           n == Len(w)
           hp == [item |-> [y \in Ref |-> IF \E i \in DOMAIN w : to[i] = y
                                          THEN CopiedItem(w, to, y) ELSE item[y]],
                  freed |-> freed \ Range(SubSeq(to, 1, n)),
                  handle |-> [handle EXCEPT ![h] = CopiedHandle(g, at)]]
<1>1. Created(g) /\ ~Created(h) /\ Len(w) <= Len(to)
  BY DEF Copy
<1>2. Becomes(hp)
  BY DEF Copy, CopiedItem, CopyOf, CopiedTo
<1>3. hp.item = [y \in Ref |-> IF \E i \in DOMAIN w : to[i] = y
                               THEN CopiedItem(w, to, y) ELSE item[y]]
  OBVIOUS
<1>4. /\ to \in Seq(Ref) /\ Distinct(to) /\ to[1] = h /\ Len(to) \in Nat
      /\ \A i \in 1..Len(to) : to[i] \in freed
      /\ \A i \in 2..Len(to) : to[i] \in Item
  <2>1. h \in freed /\ freed \subseteq Ref
    BY <1>1 DEF Created, TypeOK
  <2>2. /\ to \in Seq(Ref) /\ Distinct(to) /\ to[1] = h /\ Len(to) = Len(Fresh) + 1
        /\ \A i \in 1..Len(to) : to[i] \in freed
        /\ \A i \in 2..Len(to) : to[i] \in Item
    BY <2>1, CopyPlaces
  <2> HIDE DEF to
  <2> QED
    BY <2>2
<1>5. /\ w = own[g] /\ w \in Seq(Ref) /\ n \in 1..MaxLength /\ n \in Nat
      /\ IsGame(item, handle[g], g, w) /\ IsList(item, g, w)
  BY <1>1, ListOf
<1> HIDE DEF w, to, at, n, hp
<1>6. DOMAIN w = 1..n /\ 1..n \subseteq 1..Len(to)
  BY <1>1, <1>4, <1>5 DEF n
<1>7. ASSUME NEW x \in Item, hp.item[x].next = Null PROVE hp.item[x].move = NoMove
  <2>1. CASE \E i \in DOMAIN w : to[i] = x
    <3>1. PICK i \in 1..n : to[i] = x
      BY <1>6, <2>1
    <3>2. hp.item[x] = CopiedItem(w, to, to[i])
      BY <1>3, <2>1, <3>1 DEF Ref
    <3>3. /\ CopiedItem(w, to, to[i]).next = IF i = n THEN Null ELSE to[i + 1]
          /\ CopiedItem(w, to, to[i]).move = item[w[i]].move
      BY <1>1, <1>4, <1>5, <3>1, CopiedItemIs DEF n
    <3>4. i = n
      <4> SUFFICES ASSUME i # n PROVE FALSE
        OBVIOUS
      <4>1. i + 1 \in 1..n
        BY <1>5, <3>1
      <4>2. to[i + 1] \in Ref
        BY <1>4, <1>6, <4>1
      <4>3. Null \notin Ref
        BY HistoryAssumption DEF Ref
      <4> QED
        BY <1>7, <3>2, <3>3, <4>2, <4>3
    <3>5. i # 1
      BY <1>4, <3>1, HistoryAssumption
    <3>6. w[i] \in Item
      <4>1. i \in 2..n
        BY <1>5, <3>1, <3>5
      <4> QED
        BY <1>5, <4>1 DEF IsGame, n
    <3>7. item[w[i]].next = Null
      BY <1>5, <3>1, <3>4 DEF IsList, n
    <3> QED
      BY <3>2, <3>3, <3>6, <3>7 DEF EndsUnmoved
  <2>2. CASE ~\E i \in DOMAIN w : to[i] = x
    <3>1. hp.item[x] = item[x]
      BY <1>3, <2>2 DEF Ref
    <3> QED
      BY <1>7, <3>1 DEF EndsUnmoved
  <2> QED
    BY <2>1, <2>2
<1>8. EndsUnmoved(hp.item)
  BY <1>7 DEF EndsUnmoved
<1> QED
  BY <1>2, <1>8, BecomesUnmoved

LEMMA NextUnmoved == Inv /\ EndsUnmoved(item) /\ [Next]_vars => EndsUnmoved(item')
<1> SUFFICES ASSUME Inv, EndsUnmoved(item), [Next]_vars PROVE EndsUnmoved(item')
  OBVIOUS
<1>1. TypeOK /\ \E own : Sound(item, freed, handle, own)
  BY DEF Inv
<1>2. PICK own : Sound(item, freed, handle, own)
  BY <1>1
<1>3. item \in [Ref -> ItemRecord]
  BY <1>1 DEF TypeOK
<1>4. Heap.item = item
  BY DEF Heap
<1>5. ASSUME NEW g \in GameId, Create(g) PROVE EndsUnmoved(item')
  <2>1. ResetHead(Heap, g, Start, 0)
    BY <1>5 DEF Create
  <2> QED
    BY <1>3, <1>4, <2>1, ResetUnmoved
<1>6. ASSUME NEW g \in GameId, ResetFen(g) PROVE EndsUnmoved(item')
  <2> DEFINE h == [Truncated(g) EXCEPT !.handle[g].index = 0]
  <2>1. PICK p \in HeadPosition, half \in HeadCount : ResetHead(h, g, p, half)
    BY <1>6 DEF ResetFen
  <2>2. h.item = Truncated(g).item
    <3>1. "item" \in DOMAIN Truncated(g)
      BY DEF Truncated, Heap
    <3> QED
      BY <3>1
  <2> HIDE DEF h
  <2>3. EndsUnmoved(h.item) /\ h.item \in [Ref -> ItemRecord]
    BY <1>1, <2>2, TruncatedUnmoved
  <2> QED
    BY <2>1, <2>3, ResetUnmoved
<1>7. ASSUME NEW g \in GameId, PlayMove(g) PROVE EndsUnmoved(item')
  BY <1>1, <1>7, PlayUnmoved
<1>8. ASSUME NEW g \in GameId, Truncate(g) PROVE EndsUnmoved(item')
  BY <1>1, <1>8, TruncatedUnmoved, BecomesUnmoved DEF Truncate
<1>9. ASSUME NEW g \in GameId, Revert(g) \/ Forward(g) PROVE EndsUnmoved(item')
  BY <1>9 DEF Revert, Forward
<1>10. ASSUME NEW g \in GameId, Destroy(g) PROVE EndsUnmoved(item')
  <2> DEFINE h == [Heap EXCEPT !.freed = @ \cup Chain(item, g)]
  <2>1. Becomes(h)
    BY <1>10 DEF Destroy
  <2>2. h.item = item
    BY DEF Heap
  <2> HIDE DEF h
  <2> QED
    BY <2>1, <2>2, BecomesUnmoved
<1>11. ASSUME NEW g \in GameId, NEW h \in GameId, Copy(g, h) PROVE EndsUnmoved(item')
  BY <1>1, <1>2, <1>11, CopyUnmoved
<1>12. ASSUME UNCHANGED vars PROVE EndsUnmoved(item')
  BY <1>12 DEF vars
<1> QED
  BY <1>5, <1>6, <1>7, <1>8, <1>9, <1>10, <1>11, <1>12 DEF Next

LEMMA AlwaysUnmoved == Spec => []EndsUnmoved(item)
<1>1. Init => EndsUnmoved(item)
  BY DEF Init, EndsUnmoved, FreeItem, Ref
<1>2. Inv /\ EndsUnmoved(item) /\ [Next]_vars => EndsUnmoved(item)'
  BY NextUnmoved
<1> QED
  BY <1>1, <1>2, HeapInvariant, PTL DEF Spec

(* Places from k to n, counted from k on.                                  *)
LEMMA PlacesFrom ==
    ASSUME NEW n \in Nat, NEW k \in 1..n
    PROVE  /\ (n - k) + 1 \in Nat /\ (n - k) + 1 \in 1..n /\ k + ((n - k) + 1) - 1 = n
           /\ \A i \in 1..((n - k) + 1) : k + i - 1 \in 1..n
           /\ \A i \in 1..((n - k) + 1) : i # (n - k) + 1 => k + i - 1 \in 1..(n - 1)
OBVIOUS

(* Of a list v of moves, what a replay from the place k on plays.          *)
LEMMA ReplayIs ==
    ASSUME TypeOK, NEW own, Sound(item, freed, handle, own), EndsUnmoved(item),
           NEW g \in GameId, NEW h \in GameId, Owned(g), Owned(h),
           handle[g].current = handle[g].tail, NEW k, k = handle[h].index + 1,
           k <= Len(own[g])
    PROVE  /\ ReplayedItems(g, h) = SubSeq(own[g], k, Len(own[g]))
           /\ ReplayStops(g, h) <=> handle[g].count > 1 \/ item[g].move = NoMove
           /\ ReplayStops(g, h) =>
                 ReplayedMoves(g, h) =
                    [i \in 1..(Len(own[g]) - k) |-> item[own[g][k + i - 1]].move]
<1> DEFINE v == own[g]
           n == Len(v)
           u == SubSeq(v, k, n)
           move(i) == item[v[i]].move
<1>1. /\ IsGame(item, handle[g], g, v) /\ IsList(item, g, v) /\ v \in Seq(Ref)
      /\ n \in 1..MaxLength /\ n \in Nat /\ v[1] = g /\ handle[g].count = n
      /\ handle[g].index + 1 \in 1..n /\ handle[g].current = v[handle[g].index + 1]
      /\ handle[g].tail = v[n] /\ handle[g].index \in Nat
  BY ListOf DEF Owned
<1>2. /\ handle[h].index \in Nat /\ handle[h].index + 1 \in 1..Len(own[h])
      /\ Len(own[h]) \in Nat
  BY ListOf DEF Owned
<1>3. k \in 1..n /\ n - handle[h].index = (n - k) + 1 /\ (n - k) + 1 \in 1..n
  <2> DEFINE j == handle[h].index
  <2>1. j \in Nat /\ k = j + 1 /\ n \in Nat /\ k <= n
    BY <1>1, <1>2
  <2> HIDE DEF j, n
  <2>2. k \in 1..n /\ n - j = (n - k) + 1 /\ (n - k) + 1 \in 1..n
    BY <2>1
  <2> QED
    BY <2>2 DEF j
<1> HIDE DEF v, n
<1>4. handle[g].index + 1 = n
  <2>1. \A i, j \in 1..n : v[i] = v[j] => i = j
    BY <1>1 DEF IsList, n
  <2> DEFINE c == handle[g].index + 1
  <2>2. c \in 1..n /\ n \in 1..n /\ v[c] = v[n]
    <3>1. n \in 1..n
      <4>1. n \in Nat \ {0}
        BY <1>1
      <4> QED
        BY <4>1
    <3> QED
      BY <1>1, <3>1
  <2> HIDE DEF c
  <2>3. c = n
    BY <2>1, <2>2
  <2> QED
    BY <2>3 DEF c
<1>5. DOMAIN WalkBack(g) = 1..n /\ \A i \in 1..n : WalkBack(g)[i] = v[(n + 1) - i]
  BY <1>4, WalkBackIs DEF Owned, v
<1>6. WalkBack(g)[n - handle[h].index] = v[k]
  <2> DEFINE m == (n - k) + 1
  <2>1. (n + 1) - m = k /\ m \in 1..n /\ n - handle[h].index = m
    <3>1. n \in Nat /\ k \in Nat
      BY <1>1, <1>3
    <3>2. (n + 1) - ((n - k) + 1) = k
      BY <3>1
    <3> QED
      BY <1>3, <3>2
  <2> HIDE DEF m
  <2>2. WalkBack(g)[m] = v[(n + 1) - m]
    BY <1>5, <2>1
  <2> QED
    BY <2>1, <2>2
<1>7. ReplayedItems(g, h) = u
  <2>1. IsAt(v, k, v[k])
    <3>1. n \in Nat /\ k \in 1..n
      BY <1>1, <1>3
    <3>2. k \in 1..(n + 1) /\ k # n + 1
      BY <3>1
    <3> QED
      BY <3>2 DEF IsAt, n
  <2>2. item \in [Ref -> ItemRecord]
    BY DEF TypeOK
  <2>3. Walk(item, v[k]) = SubSeq(v, k, Len(v))
    BY <1>1, <2>1, <2>2, ChainFrom
  <2> QED
    BY <1>1, <1>6, <2>3 DEF ReplayedItems, n
<1>8. /\ Len(u) = (n - k) + 1 /\ DOMAIN u = 1..((n - k) + 1)
      /\ \A i \in 1..((n - k) + 1) : u[i] = v[k + i - 1]
  <2>1. k \in Int /\ n \in Int /\ \A i \in k..n : v[i] \in Ref
    BY <1>1, <1>3 DEF n
  <2>2. /\ u \in Seq(Ref) /\ Len(u) = IF k <= n THEN n - k + 1 ELSE 0
        /\ \A i \in 1..(n - k + 1) : u[i] = v[k + i - 1]
    BY <2>1, SubSeqProperties
  <2> HIDE DEF u
  <2>3. k <= n /\ n - k + 1 = (n - k) + 1
    <3>1. n \in Nat /\ k \in 1..n
      BY <1>1, <1>3
    <3> QED
      BY <3>1
  <2>4. u \in Seq(Ref) /\ Len(u) = (n - k) + 1
    BY <2>2, <2>3
  <2>5. DOMAIN u = 1..((n - k) + 1)
    BY <2>4
  <2> QED
    BY <2>2, <2>3, <2>4, <2>5
<1> HIDE DEF u
<1> DEFINE e == (n - k) + 1
<1>9. /\ e \in Nat /\ e \in 1..n /\ k + e - 1 = n /\ \A i \in 1..e : k + i - 1 \in 1..n
      /\ \A i \in 1..e : i # e => k + i - 1 \in 1..(n - 1)
  <2>1. n \in Nat /\ k \in 1..n
    BY <1>1, <1>3
  <2> QED
    BY <2>1, PlacesFrom
<1>10. ASSUME NEW i \in 1..(n - 1) PROVE move(i) # NoMove
  <2>1. Linked(item[v[i]], item[v[i + 1]])
    BY <1>1 DEF IsGame, n
  <2>2. v[i] \in Ref /\ item[v[i]] \in ItemRecord
    <3>1. i \in 1..n
      BY <1>1
    <3> QED
      BY <1>1, <3>1 DEF TypeOK, n
  <2>3. item[v[i]].pos \in Position
    BY <2>2 DEF ItemRecord
  <2>4. item[v[i]].move \in Move
    BY <2>1, <2>3, LegalAssumption DEF Linked
  <2> QED
    BY <2>4, MoveAssumption
<1>11. n # 1 => move(n) = NoMove
  <2> HAVE n # 1
  <2>1. n \in 2..n /\ n \in 1..n
    <3>1. n \in Nat /\ n \in 1..MaxLength /\ n # 1
      BY <1>1
    <3> QED
      BY <3>1, LengthAssumption
  <2>2. v[n] \in Item
    BY <1>1, <2>1 DEF IsGame, n
  <2>3. item[v[n]].next = Null
    BY <1>1, <2>1 DEF IsList, n
  <2> QED
    BY <2>2, <2>3 DEF EndsUnmoved, move
<1>12. ReplayEnds(g, h) = {i \in 1..e : move(k + i - 1) = NoMove}
  <2>1. \A i \in 1..e : item[u[i]].move = move(k + i - 1)
    BY <1>8
  <2>2. ReplayEnds(g, h) = {i \in 1..e : item[u[i]].move = NoMove}
    BY <1>7, <1>8 DEF ReplayEnds
  <2> HIDE DEF move, e
  <2> QED
    BY <2>1, <2>2
<1> HIDE DEF move
<1>13. ReplayEnds(g, h) = IF move(n) = NoMove THEN {e} ELSE {}
  <2> HIDE DEF e
  <2>1. \A i \in 1..e : i # e => k + i - 1 \in 1..(n - 1)
    BY <1>9
  <2>2. ASSUME NEW i \in 1..e PROVE move(k + i - 1) = NoMove <=> i = e /\ move(n) = NoMove
    BY <1>9, <1>10, <2>1
  <2>3. e \in 1..e
    BY <1>9
  <2> QED
    BY <1>12, <2>2, <2>3
<1>14. move(n) = NoMove <=> handle[g].count > 1 \/ item[g].move = NoMove
  BY <1>1, <1>11 DEF move
<1> HIDE DEF e
<1>15. ReplayStops(g, h) <=> move(n) = NoMove
  BY <1>13 DEF ReplayStops
<1>16. ASSUME ReplayStops(g, h)
       PROVE  ReplayedMoves(g, h) = [i \in 1..(n - k) |-> item[v[k + i - 1]].move]
  <2>1. ReplayEnds(g, h) = {e}
    BY <1>13, <1>15, <1>16
  <2>2. (CHOOSE i \in ReplayEnds(g, h) : \A j \in ReplayEnds(g, h) : i <= j) = e
    <3>1. e <= e
      BY <1>9
    <3> QED
      BY <2>1, <3>1
  <2>3. ReplayedMoves(g, h) = [i \in 1..(e - 1) |-> item[u[i]].move]
    BY <1>7, <2>2 DEF ReplayedMoves
  <2>4. e - 1 = n - k /\ \A i \in 1..(n - k) : i \in 1..((n - k) + 1)
    <3>1. n \in Nat /\ k \in 1..n
      BY <1>1, <1>3
    <3> QED
      BY <3>1 DEF e
  <2>5. \A i \in 1..(n - k) : item[u[i]].move = item[v[k + i - 1]].move
    BY <1>8, <2>4
  <2> QED
    BY <2>3, <2>4, <2>5
<1> QED
  BY <1>7, <1>14, <1>15, <1>16 DEF u, v, n

(* What is left of b, which a continues, and the rest of a make a.         *)
LEMMA RestIs ==
    ASSUME NEW a \in Seq(Move), NEW b \in Seq(Move), Len(b) <= Len(a),
           SubSeq(a, 1, Len(b)) = b, NEW c \in 0..Len(b)
    PROVE  SubSeq(b, 1, c) \o [i \in 1..(Len(a) - c) |-> a[c + i]] = a
<1> DEFINE r == [i \in 1..(Len(a) - c) |-> a[c + i]]
           p == SubSeq(b, 1, c)
<1>1. Len(a) \in Nat /\ Len(b) \in Nat /\ c \in Nat /\ c <= Len(a) /\ Len(b) \in 0..Len(a)
  OBVIOUS
<1>2. p \in Seq(Move) /\ Len(p) = c /\ \A i \in 1..c : p[i] = b[i]
  BY PrefixIs
<1>3. \A i \in 1..Len(b) : b[i] = a[i]
  <2> DEFINE m == Len(b)
  <2>1. m \in 0..Len(a)
    BY <1>1
  <2> HIDE DEF m
  <2>2. \A i \in 1..m : SubSeq(a, 1, m)[i] = a[i]
    BY <2>1, PrefixIs
  <2> QED
    BY <2>2 DEF m
<1>4. r \in Seq(Move) /\ Len(r) = Len(a) - c /\ \A i \in 1..(Len(a) - c) : r[i] = a[c + i]
  <2>1. Len(a) - c \in Nat /\ \A i \in 1..(Len(a) - c) : c + i \in 1..Len(a)
    BY <1>1
  <2>2. \A i \in 1..(Len(a) - c) : a[c + i] \in Move
    BY <2>1
  <2> QED
    BY <2>1, <2>2
<1> HIDE DEF r, p
<1>5. /\ p \o r \in Seq(Move) /\ Len(p \o r) = Len(p) + Len(r)
      /\ \A i \in 1..(Len(p) + Len(r)) :
            (p \o r)[i] = IF i <= Len(p) THEN p[i] ELSE r[i - Len(p)]
  BY <1>2, <1>4, ConcatProperties
<1>6. Len(p \o r) = Len(a)
  BY <1>1, <1>2, <1>4, <1>5
<1>7. ASSUME NEW i \in 1..Len(a) PROVE (p \o r)[i] = a[i]
  <2>1. i \in 1..(Len(p) + Len(r))
    BY <1>5, <1>6
  <2>2. CASE i <= c
    <3>1. i \in 1..c /\ i \in 1..Len(b)
      BY <1>1, <2>2
    <3> QED
      BY <1>2, <1>3, <1>5, <2>1, <2>2, <3>1
  <2>3. CASE ~(i <= c)
    <3>1. i - c \in 1..(Len(a) - c) /\ c + (i - c) = i
      BY <1>1, <2>3
    <3>2. (p \o r)[i] = r[i - c]
      BY <1>2, <1>5, <2>1, <2>3
    <3> QED
      BY <1>4, <3>1, <3>2
  <2> QED
    BY <2>2, <2>3
<1>8. p \o r = a
  BY <1>5, <1>6, <1>7, SeqEqual
<1> QED
  BY <1>8 DEF p, r

(* When game_continues answers yes, every move of the old game, those      *)
(* undone included, was played in the new one; replay_new_moves then plays *)
(* exactly the rest, unless the new game has no moves: then it only ends   *)
(* if the unwritten move_to_next happens to be 0.                          *)
THEOREM ContinuationsAreSound == Spec => []ContinuesIsSound
<1>1. Inv /\ EndsUnmoved(item) => ContinuesIsSound
  <2> SUFFICES ASSUME Inv, EndsUnmoved(item), NEW g \in GameId, NEW h \in GameId,
                      g # h, Owned(g), Owned(h), handle[g].current = handle[g].tail,
                      Continues(g, h)
               PROVE  /\ GameContinues(LineOf(g), LineOf(h))
                      /\ ReplayStops(g, h) <=> handle[g].count > 1 \/ item[g].move = NoMove
                      /\ ReplayStops(g, h) =>
                           SubSeq(LineOf(h).mv, 1, LineOf(h).cur - 1)
                               \o ReplayedMoves(g, h) = LineOf(g).mv
    BY DEF ContinuesIsSound
  <2>1. TypeOK /\ \E own : Sound(item, freed, handle, own)
    BY DEF Inv
  <2>2. PICK own : Sound(item, freed, handle, own)
    BY <2>1
  <2>3. Created(g) /\ Created(h)
    BY DEF Owned
  <2>4. ASSUME NEW y \in GameId, Created(y)
        PROVE  LineOf(y) = LineAlong(item, handle[y], y, own[y])
    <3>1. LineKept[y] = LineAlong(item, handle[y], y, own[y])
      BY <2>1, <2>2, <2>4, ListOf
    <3> QED
      BY <2>4, <3>1 DEF LineKept
  <2> DEFINE a == LineOf(g)
             b == LineOf(h)
             k == handle[h].index + 1
  <2>5. GameContinues(a, b)
    <3>1. GameContinues(LineAlong(item, handle[g], g, own[g]),
                        LineAlong(item, handle[h], h, own[h]))
      BY <2>1, <2>2, <2>3, ContinuesImplies
    <3> QED
      BY <2>3, <2>4, <3>1
  <2>6. /\ IsGame(item, handle[g], g, own[g]) /\ handle[g] \in HandleRecord
        /\ Len(own[g]) \in Nat
        /\ IsGame(item, handle[h], h, own[h]) /\ handle[h] \in HandleRecord
        /\ handle[h].index \in Nat /\ k \in 1..Len(own[h]) /\ Len(own[h]) \in Nat
    BY <2>1, <2>2, <2>3, ListOf
  <2>7. item \in [Ref -> ItemRecord]
    BY <2>1 DEF TypeOK
  <2>8. a.mv \in Seq(Move) /\ Len(a.mv) = Len(own[g]) - 1
    <3>1. a = LineAlong(item, handle[g], g, own[g])
      BY <2>3, <2>4
    <3>2. a \in Game /\ Len(a.mv) = Len(own[g]) - 1
      BY <2>6, <2>7, <3>1, LineIsGame
    <3> QED
      BY <3>2 DEF Game
  <2>9. b.mv \in Seq(Move) /\ Len(b.mv) = Len(own[h]) - 1 /\ b.cur = k
    <3>1. b = LineAlong(item, handle[h], h, own[h])
      BY <2>3, <2>4
    <3>2. b \in Game /\ Len(b.mv) = Len(own[h]) - 1
      BY <2>6, <2>7, <3>1, LineIsGame
    <3>3. b.cur = k
      BY <3>1 DEF LineAlong
    <3> QED
      BY <3>2, <3>3 DEF Game
  <2>10. \A i \in 1..(Len(own[g]) - 1) : a.mv[i] = item[own[g][i]].move
    BY <2>3, <2>4 DEF LineAlong
  <2> HIDE DEF a, b, k
  <2>11. Len(b.mv) <= Len(a.mv) /\ SubSeq(a.mv, 1, Len(b.mv)) = b.mv
    BY <2>5 DEF GameContinues
  <2>12. k <= Len(own[g]) /\ k - 1 \in 0..Len(b.mv) /\ k \in Nat
    BY <2>6, <2>8, <2>9, <2>11
  <2>13. /\ ReplayStops(g, h) <=> handle[g].count > 1 \/ item[g].move = NoMove
         /\ ReplayStops(g, h) =>
               ReplayedMoves(g, h) =
                  [i \in 1..(Len(own[g]) - k) |-> item[own[g][k + i - 1]].move]
    BY <2>1, <2>2, <2>12, ReplayIs DEF k
  <2>14. [i \in 1..(Len(own[g]) - k) |-> item[own[g][k + i - 1]].move]
            = [i \in 1..(Len(a.mv) - (k - 1)) |-> a.mv[(k - 1) + i]]
    <3>1. Len(own[g]) - k = Len(a.mv) - (k - 1)
      BY <2>6, <2>8, <2>12
    <3>2. \A i \in 1..(Len(own[g]) - k) :
             /\ k + i - 1 = (k - 1) + i
             /\ (k - 1) + i \in 1..(Len(own[g]) - 1)
      BY <2>6, <2>12
    <3>3. \A i \in 1..(Len(own[g]) - k) : item[own[g][k + i - 1]].move = a.mv[(k - 1) + i]
      BY <2>10, <3>2
    <3> QED
      BY <3>1, <3>3
  <2>15. SubSeq(b.mv, 1, k - 1) \o [i \in 1..(Len(a.mv) - (k - 1)) |-> a.mv[(k - 1) + i]]
            = a.mv
    <3> DEFINE q == k - 1
               am == a.mv
               bm == b.mv
    <3>1. /\ q \in 0..Len(bm) /\ am \in Seq(Move) /\ bm \in Seq(Move)
          /\ Len(bm) <= Len(am) /\ SubSeq(am, 1, Len(bm)) = bm
      BY <2>8, <2>9, <2>11, <2>12
    <3> HIDE DEF q, am, bm
    <3>2. SubSeq(bm, 1, q) \o [i \in 1..(Len(am) - q) |-> am[q + i]] = am
      BY <3>1, RestIs
    <3> QED
      BY <3>2 DEF q, am, bm
  <2> QED
    BY <2>5, <2>9, <2>13, <2>14, <2>15 DEF a, b
<1> QED
  BY <1>1, HeapInvariant, AlwaysUnmoved, PTL

=============================================================================
