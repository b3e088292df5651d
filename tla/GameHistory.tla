---------------------------- MODULE GameHistory ----------------------------
(***************************************************************************)
(* src/src/game.c: a game is a doubly linked list of positions, its first  *)
(* item inside struct game, the others allocated one by one.  The program  *)
(* keeps several games at a time: the one on the board, the one            *)
(* cmd_position reads, and the copy print_move_path replays a line on.     *)
(***************************************************************************)
EXTENDS GameLine, SequencesExt

CONSTANTS
    GameId,         \* the structures game_create and game_copy allocate
    Item,           \* bound: the history items there is memory for
    Null,
    HeadPosition,   \* the positions a FEN may hold
    HeadCount,      \* and the half move counts
    Uninitialised,  \* what an unwritten move_to_next may hold
    MaxLength       \* bound: items in a game

ASSUME HistoryAssumption ==
    /\ IsFiniteSet(GameId) /\ IsFiniteSet(Item)
    /\ GameId \cap Item = {}
    /\ Null \notin GameId \cup Item
    /\ HeadPosition \subseteq Position
    /\ HeadCount \subseteq Nat
    /\ NoMove \in Uninitialised

ASSUME LengthAssumption == MaxLength \in Nat \ {0}

(* The address of an item: a game stands for its own head.                 *)
Ref == GameId \cup Item

VARIABLES
    item,       \* item[x]: pos, next, prev, move (move_to_next) and half
    freed,      \* the addresses that are not allocated
    handle      \* handle[g]: current, tail, index, count (struct game), and
                \*   copy: whether game_copy made it

vars == <<item, freed, handle>>

Place(s, x) == CHOOSE i \in DOMAIN s : s[i] = x

(* The items the next calls of xmalloc return.  No function compares or    *)
(* orders addresses, so one order of them stands for every other.          *)
Fresh == SetToSeq(Item \cap freed)

FreeItem == [pos |-> Start, next |-> Null, prev |-> Null, move |-> NoMove, half |-> 0]

EmptyHandle(g) ==
    [current |-> g, tail |-> g, index |-> 0, count |-> 1, copy |-> FALSE]

Created(g) == g \notin freed

(* The items from x on, following the pointers in link; more than a game   *)
(* may have are not looked for.                                            *)
Along(link, x) ==
    LET at[n \in 1..(MaxLength + 1)] ==
            IF n = 1 THEN x
            ELSE [y \in Ref \cup {Null} |-> IF y = Null THEN Null ELSE link[y]][at[n - 1]]
    IN  SubSeq(at, 1, Cardinality({n \in DOMAIN at : at[n] # Null}))

(* The items of the list it from x on.                                     *)
Walk(it, x) == Along([y \in Ref |-> it[y].next], x)

Chain(it, x) == Range(Walk(it, x))

-----------------------------------------------------------------------------
(* The functions of game.c, from one heap [item, freed, handle] to another. *)

Heap == [item |-> item, freed |-> freed, handle |-> handle]

(* What was in freed memory is of no interest.                             *)
Becomes(h) ==
    /\ freed' = h.freed
    /\ item' = [x \in Ref |-> IF x \in h.freed THEN FreeItem ELSE h.item[x]]
    /\ handle' = [g \in GameId |-> IF g \in h.freed THEN EmptyHandle(g)
                                                   ELSE h.handle[g]]

(* game_truncate                                                           *)
Truncated(g) ==
    LET c == handle[g].current IN
    IF item[c].next = Null THEN Heap
    ELSE [item |-> [item EXCEPT ![c].next = Null, ![c].move = NoMove],
          freed |-> freed \cup Chain(item, item[c].next),
          handle |-> [handle EXCEPT ![g].tail = c,
                                    ![g].count = handle[g].index + 1]]

(* The end of game_reset_fen: the new head overwrites the old one; nobody  *)
(* writes its move_to_next.                                                *)
ResetHead(h, g, p, half) ==
    \E junk \in Uninitialised :
        Becomes([item |-> [h.item EXCEPT ![g] =
                              [FreeItem EXCEPT !.pos = p, !.move = junk, !.half = half]],
                 freed |-> (h.freed \cup Chain(h.item, h.item[g].next)) \ {g},
                 handle |-> [h.handle EXCEPT ![g] = EmptyHandle(g)]])

Init ==
    /\ item = [x \in Ref |-> FreeItem]
    /\ freed = Ref
    /\ handle = [g \in GameId |-> EmptyHandle(g)]

(* game_create                                                             *)
Create(g) == g \in freed /\ ResetHead(Heap, g, Start, 0)

(* The callers reset, truncate and move the cursor of games they created;  *)
(* print_move_path only appends to its copy.                               *)
Owned(g) == Created(g) /\ ~handle[g].copy

(* game_reset_fen                                                          *)
ResetFen(g) ==
    /\ Owned(g)
    /\ \E p \in HeadPosition, half \in HeadCount :
        ResetHead([Truncated(g) EXCEPT !.handle[g].index = 0], g, p, half)

Truncate(g) == Owned(g) /\ Becomes(Truncated(g))

(* Wrong variant: every move counts as reversible.                         *)
NewItemKeepsCount(h, g, m) ==
    LET c == h.item[h.handle[g].current] IN
    [pos |-> Play[c.pos][m], next |-> Null, prev |-> h.handle[g].current,
     move |-> NoMove, half |-> c.half + 1]

(* The item game_append links in after the cursor.                         *)
NewItem(h, g, m) ==
    LET c == h.item[h.handle[g].current] IN
    [pos |-> Play[c.pos][m], next |-> Null, prev |-> h.handle[g].current,
     move |-> NoMove,
     half |-> IF <<c.pos, m>> \in Irreversible THEN 0 ELSE c.half + 1]

(* game_append; the new item is allocated before the list is truncated.    *)
PlayMove(g) ==
    /\ Created(g)
    /\ handle[g].index + 1 < MaxLength
    /\ Fresh # << >>
    /\ LET c == handle[g].current
           h == Truncated(g)
           new == Fresh[1]
       IN  \E m \in Legal[item[c].pos] :
            Becomes([item |-> [h.item EXCEPT ![new] = NewItem(h, g, m),
                                             ![c].next = new, ![c].move = m],
                     freed |-> h.freed \ {new},
                     handle |-> [h.handle EXCEPT ![g].current = new,
                                                 ![g].tail = new,
                                                 ![g].count = @ + 1,
                                                 ![g].index = @ + 1]])

(* game_history_revert                                                     *)
Revert(g) ==
    /\ Owned(g)
    /\ LET c == handle[g].current IN
        /\ item[c].prev # Null
        /\ handle' = [handle EXCEPT ![g].current = item[c].prev,
                                    ![g].index = @ - 1]
    /\ UNCHANGED <<item, freed>>

(* game_history_forward                                                    *)
Forward(g) ==
    /\ Owned(g)
    /\ LET c == handle[g].current IN
        /\ item[c].next # Null
        /\ handle' = [handle EXCEPT ![g].current = item[c].next,
                                    ![g].index = @ + 1]
    /\ UNCHANGED <<item, freed>>

(* Wrong variant: the copy's cursor is left where memcpy put it.           *)
CopiedHandleAlias(g, at) == [handle[g] EXCEPT !.tail = at[handle[g].tail],
                                              !.copy = TRUE]

(* The copy's struct game, at[x] being the copy of the item x.             *)
CopiedHandle(g, at) == [handle[g] EXCEPT !.current = at[handle[g].current],
                                         !.tail = at[handle[g].tail],
                                         !.copy = TRUE]

(* game_copy: every item is copied, then linked from the one before it;    *)
(* its prev still names the item of the original.                          *)
Copy(g, h) ==
    /\ Created(g) /\ ~Created(h)
    /\ LET w == Walk(item, g)
           to == <<h>> \o Fresh
           at == [x \in Range(w) |-> to[Place(w, x)]]
       IN
        /\ Len(w) <= Len(to)
        /\ Becomes(
            [item |-> [y \in Ref |->
                IF \E i \in DOMAIN w : to[i] = y
                THEN LET x == w[Place(to, y)] IN
                     [item[x] EXCEPT !.next = IF @ = Null THEN Null ELSE at[@]]
                ELSE item[y]],
             freed |-> freed \ Range(SubSeq(to, 1, Len(w))),
             handle |-> [handle EXCEPT ![h] = CopiedHandle(g, at)]])

(* Wrong variant: only the struct is freed.                                *)
DestroyHeadOnly(g) ==
    /\ Created(g)
    /\ Becomes([Heap EXCEPT !.freed = @ \cup {g}])

(* game_destroy                                                            *)
Destroy(g) ==
    /\ Created(g)
    /\ Becomes([Heap EXCEPT !.freed = @ \cup Chain(item, g)])

Next ==
    \/ \E g \in GameId :
        \/ Create(g)    \/ ResetFen(g)  \/ PlayMove(g)  \/ Truncate(g)
        \/ Revert(g)    \/ Forward(g)   \/ Destroy(g)
    \/ \E g, h \in GameId : Copy(g, h)

Spec == Init /\ [][Next]_vars

-----------------------------------------------------------------------------
(* What the functions that only read return.                               *)

(* game_continues goes through both lists while their moves agree and the  *)
(* first list goes on; the second must have ended there.                   *)
Parts(a, b, n) ==
    LET x == item[Walk(item, a)[n]]
        y == item[Walk(item, b)[n]]
    IN  x.move # y.move \/ x.next = Null

(* Wrong variant: where the second list ends is not asked.                 *)
ContinuesBeyond(a, b) ==
    /\ item[a].pos = item[b].pos
    /\ \E n \in DOMAIN Walk(item, a) \cap DOMAIN Walk(item, b) :
        /\ Parts(a, b, n)
        /\ \A i \in 1..(n - 1) : ~Parts(a, b, i)

(* The loop reads past b's end when a's moves go on as unwritten memory    *)
(* does; there is no answer then.                                          *)
Continues(a, b) ==
    /\ item[a].pos = item[b].pos
    /\ \E n \in DOMAIN Walk(item, a) \cap DOMAIN Walk(item, b) :
        /\ Parts(a, b, n)
        /\ \A i \in 1..(n - 1) : ~Parts(a, b, i)
        /\ item[Walk(item, b)[n]].move = NoMove

(* game_is_draw_by_repetition counts back from the cursor.                 *)
WalkBack(g) == Along([y \in Ref |-> item[y].prev], handle[g].current)

(* Wrong variant: the old game's length is taken before it is truncated.   *)
ReplayedItemsUntruncated(g, h) ==
    Walk(item, WalkBack(g)[handle[g].count - handle[h].count + 1])

(* replay_new_moves goes back in the new game g, whose cursor stands at    *)
(* its end, as far as the truncated old game h is long, and forward from   *)
(* there.                                                                  *)
ReplayedItems(g, h) == Walk(item, WalkBack(g)[handle[g].count - handle[h].index])

(* Its loop only ends where move_to_next is 0; at an item that has another *)
(* and no next, game_history_forward fails and the loop stays there.       *)
ReplayEnds(g, h) == {n \in DOMAIN ReplayedItems(g, h) :
                        item[ReplayedItems(g, h)[n]].move = NoMove}

ReplayStops(g, h) == ReplayEnds(g, h) # {}

(* The moves it has played by then.                                        *)
ReplayedMoves(g, h) ==
    LET w == ReplayedItems(g, h)
        end == CHOOSE n \in ReplayEnds(g, h) : \A i \in ReplayEnds(g, h) : n <= i
    IN  [i \in 1..(end - 1) |-> item[w[i]].move]

RepetitionCount(g) ==
    Cardinality({i \in DOMAIN WalkBack(g) :
                    item[WalkBack(g)[i]].pos = item[handle[g].current].pos})

-----------------------------------------------------------------------------
(* Properties.                                                             *)

(* The game a list stands for.                                             *)
LineOf(g) ==
    LET w == Walk(item, g)
        cursor == {i \in DOMAIN w : w[i] = handle[g].current}
    IN  [pos |-> [i \in DOMAIN w |-> item[w[i]].pos],
         mv |-> [i \in 1..(Len(w) - 1) |-> item[w[i]].move],
         cur |-> IF cursor = {} THEN 0 ELSE CHOOSE i \in cursor : TRUE,
         half0 |-> item[g].half]

LineKept == [g \in GameId |-> IF Created(g) THEN LineOf(g) ELSE NoGame]

Lines == INSTANCE GameLines WITH line <- LineKept

(* The lists do what game.h promises: each function acts on its own game   *)
(* as GameLine says, and on no other.                                      *)
RefinesLines == Lines!Spec

(* Every allocated item belongs to exactly one game; no game reaches a     *)
(* freed one; cursor, tail, index and count, each kept by hand, are those  *)
(* of the list.                                                            *)
HeapSound ==
    /\ \A g \in GameId : Created(g) =>
        LET w == Walk(item, g) IN
        /\ Range(w) \cap freed = {}
        /\ handle[g].index + 1 \in DOMAIN w /\ w[handle[g].index + 1] = handle[g].current
        /\ w[Len(w)] = handle[g].tail
        /\ Len(w) = handle[g].count
    /\ \A g, h \in GameId :
        Created(g) /\ Created(h) /\ g # h => Chain(item, g) \cap Chain(item, h) = {}
    /\ Item \ freed \subseteq
        UNION {Chain(item, g) : g \in {x \in GameId : Created(x)}}

(* A repetition is found by going back exactly when the line has it, and   *)
(* the fifty-move count of the cursor is the line's; in copies, too.       *)
DrawsAgree ==
    \A g \in GameId : Created(g) =>
        /\ Owned(g) => RepetitionCount(g) = Repetitions(LineOf(g))
        /\ item[handle[g].current].half = HalfMoveCount(LineOf(g))

(* What game_continues accepts is a game h and more, and replay_new_moves   *)
(* then plays on what h lacks of the new game g, neither more nor less; a  *)
(* new game without moves is the exception: its move_to_next was never     *)
(* written, and unless it happens to be 0 the loop never ends.             *)
ContinuesIsSound ==
    \A g, h \in GameId :
        g # h /\ Owned(g) /\ Owned(h) /\ handle[g].current = handle[g].tail
            /\ Continues(g, h)
        => /\ GameContinues(LineOf(g), LineOf(h))
           /\ ReplayStops(g, h) <=> handle[g].count > 1 \/ item[g].move = NoMove
           /\ ReplayStops(g, h) =>
                SubSeq(LineOf(h).mv, 1, LineOf(h).cur - 1) \o ReplayedMoves(g, h)
                    = LineOf(g).mv

=============================================================================
