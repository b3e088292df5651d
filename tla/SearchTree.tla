----------------------------- MODULE SearchTree -----------------------------
(***************************************************************************)
(* search in src/src/search.c: negamax with its array of nodes as a stack, *)
(* over an arbitrary game, with the transposition table (HashSlots), the   *)
(* move order (MoveOrder), and the iterative deepening that calls it.  One *)
(* step enters a node, picks a move, takes a child's value or leaves.      *)
(***************************************************************************)
EXTENDS HashSlots, MoveOrder

CONSTANTS
    Play,           \* Play[p][m]: the position after m
    Pass,           \* Pass[p]: p with the sides swapped, in the domain only if
                    \*   a null move may be considered there
    InCheck, Drawn, \* positions in check; drawn for lack of material
    LoneKing, LoneOpponent, \* positions where a side has only its king
    Irreversible,   \* pairs <<p, m>>
    Progress,       \* Progress[p]: how much has happened that is never undone
    Quiet,          \* pairs <<p, m>>: no capture, no promotion, no castling
    Mobile,         \* positions with enough moves for late move reductions
    Flexible,       \* positions with enough moves for late move pruning
    PositiveCapture,\* positions where the opponent has a positive capture
    MaxValue, MateValue, PawnValue,
    LMR,            \* LMR[d][i]: the reduction of the late move i at depth d
    LMP,            \* LMP[d + 1]: the moves tried at depth d
    LastNode,       \* node_array_length - 1
    NullDepth,      \* 4 * PLY
    CleanupLimit,   \* 98
    Evaluation,     \* Evaluation[e][p]: eval, in the mind of one player or another
    CancelTest,     \* NODES_PER_CANCEL_TEST
    Buckets,        \* the table has 2^Buckets of them
    Roots, TreeRoots, Evaluations, Settings, DepthLimits, NodeLimits,
    Searches        \* bound on the searches of one game

(* Moves are numbers, as in the code, and 0 is none.                       *)
ASSUME MoveAssumption == NoMove = 0 /\ Move \subseteq Nat \ {0}

(* gen_captures finds some of the moves of gen_moves.                      *)
ASSUME GameAssumption ==
    /\ Legal \in [Position -> SUBSET Move] /\ Captures \in [Position -> SUBSET Move]
    /\ \A p \in Position :
           /\ IsFiniteSet(Legal[p]) /\ Captures[p] \subseteq Legal[p]
           /\ \A m \in Legal[p] : /\ StrongValue[p][m] \in Nat /\ DescValue[p][m] \in Int
                                 /\ Play[p][m] \in Position
    /\ \A p \in DOMAIN Pass : Pass[p] \in Position
    /\ Roots \subseteq Position

(* Nothing undoes an irreversible move (is_move_irreversible), no move and  *)
(* no null move.                                                           *)
ASSUME NoWayBack ==
    /\ Progress \in [Position -> Nat]
    /\ \A p \in Position : \A m \in Legal[p] :
           /\ Progress[p] <= Progress[Play[p][m]]
           /\ <<p, m>> \in Irreversible => Progress[p] < Progress[Play[p][m]]
    /\ \A p \in Position \cap DOMAIN Pass : Progress[p] <= Progress[Pass[p]]

ASSUME StackAssumption == LastNode \in Nat /\ LastNode > 1

PLY == 2
NonValue == -(2 * MaxValue)     \* NON_VALUE: below every value

VARIABLES
    node,           \* nodes[0..LastNode]
    sp,             \* the index of the node the program is at
    pc,             \* what it does there
    tt,
    common,         \* nodes_common_data: the settings, limits and counts
    cleanup,        \* the variables of extract_pv
    deepening       \* the variables of iterative_deepening

vars == <<node, sp, pc, tt, common, cleanup, deepening>>

Root == node[1].pos
Eval(p) == Evaluation[common.eval][p]
settings == common.settings
MaxOf(a, b) == IF a > b THEN a ELSE b

-----------------------------------------------------------------------------
(* Nodes.                                                                  *)

(* What xaligned_calloc and setup_node_array make.                         *)
NewNode(pv, i) ==
    [pos |-> 0, type |-> "PV", lower |-> 0, upper |-> 0, alpha |-> 0, beta |-> 0,
     depth |-> 0, value |-> 0, deep |-> NullEntry, fresh |-> NullEntry,
     best |-> 0, barrier |-> FALSE, repeated |-> FALSE, mo |-> NewOrder,
     pv |-> <<>>, forced |-> IF i \in 1..Len(pv) THEN pv[i] ELSE 0,
     extension |-> 0, ra_best |-> 0, ra_any |-> 0,
     in_null |-> FALSE, null_failed |-> FALSE,
     store |-> NullEntry, at |-> "none"]

(* setup_node_array and setup_root_node                                    *)
NewNodes(root, depth, pv) ==
    [i \in 0..LastNode |->
        IF i = 0 THEN [NewNode(<<>>, i) EXCEPT !.barrier = TRUE]
        ELSE IF i = 1
        THEN [NewNode(pv, i) EXCEPT !.barrier = TRUE, !.pos = root, !.depth = depth,
                                    !.alpha = -MaxValue, !.beta = MaxValue]
        ELSE NewNode(pv, i)]

root_distance(i) == i - 1
is_in_check(n) == n.pos \in InCheck
is_qsearch(n) == n.depth <= 0 /\ ~is_in_check(n)

(* The functions negamax calls in turn return whether it is to return.     *)
Returns(n, v) == [n EXCEPT !.value = v, !.at = "done"]
Then(n, Stage(_)) == IF n.at = "done" THEN n ELSE Stage(n)

node_init(n) ==
    [n EXCEPT !.in_null = FALSE, !.null_failed = FALSE, !.ra_any = 0, !.ra_best = 0,
              !.pv = <<>>, !.value = NonValue, !.best = 0, !.deep = NullEntry,
              !.fresh = NullEntry, !.store = NullEntry, !.at = "entering"]

(* The distances find_repetition looks at: even ones, up to the first of   *)
(* them that is a barrier.                                                 *)
Earlier(i) ==
    {r \in 1..i : r % 2 = 0 /\ \A s \in 0..r - 1 : s % 2 = 0 => ~node[i - s].barrier}

find_repetition(i, n) ==
    LET same == {r \in Earlier(i) : node[i - r].pos = n.pos}
        needed == IF settings.strict THEN 2 ELSE 1
    IN IF ~settings.repetition THEN [r |-> 0, seen |-> FALSE]
       ELSE [r |-> IF Cardinality(same) >= needed THEN Min(same) ELSE 0,
             seen |-> settings.strict /\ same # {}]

check_trivial_draw(i, n) ==
    LET found == find_repetition(i, n) IN
    IF n.pos \in Drawn THEN Returns(n, 0)
    ELSE IF found.r > 0
    THEN Returns([n EXCEPT !.repeated = @ \/ found.seen,
                           !.ra_any = found.r, !.ra_best = found.r], 0)
    ELSE [n EXCEPT !.repeated = @ \/ found.seen]

adjust_depth(i, n) ==
    LET depth == n.depth + n.extension IN
    IF root_distance(i) = 0 THEN n
    ELSE IF i = LastNode THEN Returns([n EXCEPT !.depth = depth], Eval(n.pos))
    ELSE [n EXCEPT !.depth = IF depth < PLY /\ depth > 0 THEN PLY ELSE depth]

is_checkmate(n) == is_in_check(n) /\ Legal[n.pos] = {}

handle_mate_search(n) ==
    IF n.beta <= -MaxValue + 2
    THEN Returns(n, IF is_checkmate(n) THEN -MaxValue ELSE n.beta)
    ELSE IF n.alpha >= MaxValue - 2 THEN Returns(n, n.alpha)
    ELSE n

setup_bounds(i, n) ==
    LET stand_pat == IF is_qsearch(n) THEN Eval(n.pos) ELSE -MaxValue
        lone(p) == root_distance(i) > 0 /\ n.pos \in p
        bounded == [n EXCEPT
            !.lower = IF lone(LoneOpponent) THEN MaxOf(0, stand_pat) ELSE stand_pat,
            !.upper = IF lone(LoneKing) THEN 0 ELSE MaxValue]
    IN IF is_qsearch(n) /\ stand_pat >= n.beta
       THEN Returns([n EXCEPT !.lower = stand_pat, !.upper = MaxValue], stand_pat)
       ELSE bounded

setup_moves(n) ==
    LET o == [n EXCEPT !.mo = move_order_setup(@, n.pos, is_qsearch(n))] IN
    IF o.mo.count > 0 THEN o
    ELSE Returns(o, IF is_qsearch(n) THEN n.lower
                    ELSE IF is_in_check(n) THEN -MaxValue ELSE 0)

-----------------------------------------------------------------------------
(* The transposition table.                                                *)

(* A value for the bound, unless the position was on the board before.     *)
check_hash_value_lower_bound(n, e) ==
    LET bound == IF ht_value(e) > 0 /\ n.repeated THEN 0 ELSE ht_value(e)
        raised == [n EXCEPT !.lower = bound]
    IN IF n.lower >= bound THEN n
       ELSE IF bound >= n.beta THEN Returns([raised EXCEPT !.best = e.move], bound)
       ELSE raised

check_hash_value_upper_bound(n, e) ==
    LET bound == IF ht_value(e) < 0 /\ n.repeated THEN 0 ELSE ht_value(e) IN
    IF n.upper <= bound THEN n
    ELSE IF bound <= n.alpha THEN Returns([n EXCEPT !.upper = bound], bound)
    ELSE [n EXCEPT !.upper = bound]

(* A shallow entry counts only if it knows a mate.                         *)
check_shallow_mate(n, e) ==
    LET winning(k) ==
            IF ~(ht_value_is_lower_bound(e) /\ ht_value(e) >= MateValue) THEN k
            ELSE IF ~k.repeated THEN Returns([k EXCEPT !.best = e.move], ht_value(e))
            ELSE IF k.lower >= 0 THEN k
            ELSE IF 0 >= k.beta THEN Returns([k EXCEPT !.lower = 0], k.beta)
            ELSE [k EXCEPT !.lower = 0]
        losing(k) ==
            IF ~(ht_value_is_upper_bound(e) /\ ht_value(e) <= -MateValue) THEN k
            ELSE IF ~k.repeated THEN Returns(k, ht_value(e))
            ELSE IF k.upper <= 0 THEN k
            ELSE IF k.alpha >= 0 THEN Returns([k EXCEPT !.upper = 0], k.alpha)
            ELSE [k EXCEPT !.upper = 0]
    IN Then(winning(n), losing)

(* Wrong variant: entries of any depth count.                              *)
check_hash_value_any_depth(i, n, e) ==
    LET lower(k) == IF ht_value_is_lower_bound(e) THEN check_hash_value_lower_bound(k, e) ELSE k
        upper(k) == IF ht_value_is_upper_bound(e) THEN check_hash_value_upper_bound(k, e) ELSE k
    IN IF root_distance(i) = 0 THEN n ELSE Then(lower(n), upper)

check_hash_value(i, n, e) ==
    LET on_pv == node[i - 1].forced # 0 /\ n.alpha = -MaxValue /\ n.beta = MaxValue
        lower(k) == IF ht_value_is_lower_bound(e) THEN check_hash_value_lower_bound(k, e) ELSE k
        upper(k) == IF ht_value_is_upper_bound(e) THEN check_hash_value_upper_bound(k, e) ELSE k
        closed(k) == IF k.lower >= k.upper THEN Returns(k, k.lower) ELSE k
    IN IF root_distance(i) = 0 \/ on_pv THEN n
       ELSE IF n.depth > e.depth THEN check_shallow_mate(n, e)
       ELSE Then(Then(lower(n), upper), closed)

take_deep(i, n, e) ==
    IF ht_is_set(e) /\ hint_accepted(n.mo, e.move)
    THEN check_hash_value(i,
            [n EXCEPT !.mo = move_order_add_hint(@, e.move, 1), !.deep = e], e)
    ELSE n

(* A cutoff by a fresh entry inserts it again.                             *)
stored_if_done(n, e) == IF n.at = "done" THEN [n EXCEPT !.store = e] ELSE n

take_fresh(i, n, e) ==
    IF n.at # "done" /\ ht_is_set(e) /\ hint_accepted(n.mo, e.move)
    THEN stored_if_done(check_hash_value(i,
            [n EXCEPT !.fresh = e,
                !.mo = IF ht_has_move(n.deep) THEN move_order_add_weak_hint(@, e.move)
                       ELSE move_order_add_hint(@, e.move, 1)], e), e)
    ELSE n

fetch_hash_value(i, n) ==
    take_fresh(i, take_deep(i, n, ht_lookup_deep(tt, n.pos, n.depth, n.beta)),
               ht_lookup_fresh(tt, n.pos))

hint_or_fetch(i, n) ==
    IF n.at = "done" THEN n
    ELSE IF n.forced = 0 THEN fetch_hash_value(i, n)
    ELSE [n EXCEPT !.mo = move_order_add_hint(@, n.forced, 0)]

hash_current_node_value(n) ==
    LET e == ht_set_depth(NullEntry, n.depth)
        type == (IF n.value < 0 \/ n.ra_any = 0 THEN UpperBound ELSE None) \cup
                (IF n.value > 0 \/ n.ra_best = 0 THEN LowerBound ELSE None)
    IN IF n.best = 0
       THEN IF n.alpha < 0 \/ n.ra_any = 0 THEN ht_set_value(e, UpperBound, n.alpha) ELSE e
       ELSE IF n.value >= n.beta
       THEN IF n.beta > 0 \/ n.ra_best = 0 THEN ht_set_value(e, LowerBound, n.beta) ELSE e
       ELSE IF type # None THEN ht_set_value(e, type, n.value) ELSE e

setup_best_move(n) ==
    IF n.best # 0 THEN n.best
    ELSE IF ht_has_move(n.deep) THEN n.deep.move
    ELSE IF ht_has_move(n.fresh) THEN n.fresh.move ELSE 0

StoredEntry(n) ==
    LET value == hash_current_node_value(n)
        best == setup_best_move(n)
        moved == IF best # 0 THEN ht_set_move(value, best) ELSE value
        full == IF n.null_failed THEN ht_set_no_null(moved) ELSE moved
    IN IF n.depth > 0 /\ (full.type # None \/ best # 0) THEN full ELSE NullEntry

-----------------------------------------------------------------------------
(* Null moves and late moves.                                              *)

ht_entry_prevents_null_move(n, e) ==
    /\ ht_is_set(e) /\ e.depth >= n.depth - 2 * PLY
    /\ \/ e.no_null
       \/ ht_value_is_upper_bound(e) /\ ht_value(e) <= n.beta

tries_null_move(i, n) ==
    LET advantage == Eval(n.pos) - n.beta IN
    /\ settings.null_moves /\ n.forced = 0
    /\ ~ht_entry_prevents_null_move(n, n.deep)
    /\ ~ht_entry_prevents_null_move(n, n.fresh)
    /\ ~n.repeated /\ root_distance(i) # 0 /\ ~node[i - 1].in_null
    /\ n.type # "PV" /\ advantage >= -PawnValue
    /\ n.depth > NullDepth
    /\ n.depth > NullDepth + 3 * PLY => advantage >= 0
    /\ ~is_in_check(n) /\ n.pos \in DOMAIN Pass
    /\ advantage < 0 => n.pos \notin PositiveCapture

null_required(n) ==
    n.beta + (IF n.depth < NullDepth + 5 * PLY
              THEN ((n.depth - NullDepth) * PawnValue) \div PLY ELSE 5 * PawnValue)

null_child(n, child) ==
    [child EXCEPT !.pos = Pass[n.pos], !.repeated = FALSE, !.barrier = TRUE,
        !.type = "all", !.alpha = -null_required(n) - 1, !.beta = -null_required(n),
        !.depth = MaxOf(n.depth - 4 * PLY, PLY)]

Capped(f, i) == f[Min({i, Max(DOMAIN f)})]

get_LMR_factor(n, type) ==
    LET r == Capped(Capped(LMR, n.depth), n.mo.lmr_index)
                - (IF type = "PV" THEN 1 ELSE 0)
                - (IF mo_current_move_value(n.mo) > 0 THEN PLY ELSE 0)
        more == IF mo_current_move_value(n.mo) <= 0 /\ r > 2 * PLY
                   /\ mo_current_move_value(n.mo) < -300 THEN 1 ELSE 0
    IN IF \/ ~settings.LMR \/ n.value <= -MateValue \/ n.mo.lmr_index < 0
          \/ is_in_check(n) \/ n.depth <= PLY \/ n.pos \notin Mobile
       THEN 0 ELSE MaxOf(r + more, 0)

can_prune_moves(i, n) ==
    /\ ~is_in_check(n)
    /\ mo_current_move_value(n.mo) <= 0
    /\ \/ is_qsearch(n)
       \/ /\ settings.LMP /\ n.pos \in Flexible
          /\ root_distance(i) > 3 /\ n.value > -MateValue
          /\ n.depth < Len(LMP) /\ n.mo.picked > LMP[n.depth + 1]

-----------------------------------------------------------------------------
(* The loop over the moves.                                                *)

(* handle_node_types: the types of the node and of its child               *)
NodeTypes(n) ==
    CASE n.type = "PV" -> <<"PV", IF n.mo.picked = 1 THEN "PV" ELSE "cut">>
      [] n.type = "all" -> <<"all", "cut">>
      [] n.type = "cut" -> IF n.mo.picked > 1 THEN <<"all", "cut">> ELSE <<"cut", "all">>

setup_child_node(n, child, m) ==
    LET irreversible == <<n.pos, m>> \in Irreversible
        types == NodeTypes(n)
        reduced == get_LMR_factor(n, types[1])
        moved == [child EXCEPT
            !.pos = Play[n.pos][m], !.type = types[2],
            !.depth = n.depth - PLY - reduced, !.beta = -n.alpha,
            !.alpha = IF reduced # 0 THEN -n.alpha - 1 ELSE -n.beta]
    IN IF settings.repetition
       THEN [moved EXCEPT !.barrier = irreversible,
                          !.repeated = ~irreversible /\ n.repeated]
       ELSE moved

(* negamax_child: a mate is one ply farther away in the child's view.      *)
farther(v) ==
    IF v < -MateValue /\ v > -MaxValue THEN v - 1
    ELSE IF v > MateValue /\ v < MaxValue THEN v + 1 ELSE v
(* Wrong variant: a mate is as near in the parent's view.                  *)
as_near(v) == v

nearer(v) == IF v > MateValue THEN v - 1 ELSE IF v < -MateValue THEN v + 1 ELSE v

Calling(child) ==
    [child EXCEPT !.alpha = farther(@), !.beta = farther(@)]

full_window(n, child, depth) ==
    [child EXCEPT !.depth = depth, !.alpha = -n.beta, !.beta = -n.alpha]

search_more_moves(n) ==
    ~move_order_done(n.mo) /\ n.alpha < n.beta /\ n.alpha < MaxValue - 1

(* fail_high: a quiet cutoff move is remembered.                           *)
fail_high(n) ==
    IF mo_current_move_value(n.mo) < KillerValue
    THEN [n EXCEPT !.mo = move_order_add_killer(@, n.best)] ELSE n

(* Wrong variant: the distance is not one less, seen from the parent.      *)
from_child(r) == r

(* How far back a repetition reaches, seen from the parent                 *)
from_parent(r) == r - 1

(* Wrong variant: the line of the child is not looked at again.            *)
new_best_move_stale(n, child, m) ==
    [n EXCEPT !.best = m, !.pv = <<m>> \o (IF @ = <<>> THEN child.pv ELSE Tail(@))]

new_best_move(n, child, m) ==
    [n EXCEPT !.best = m,
        !.ra_best = IF settings.strict THEN MaxOf(@, from_parent(child.ra_any)) ELSE @,
        !.pv = IF n.alpha < n.beta THEN <<m>> \o child.pv ELSE @]

(* The value of a move is taken over.                                      *)
Took(n, child, value) ==
    LET better == [n EXCEPT !.value = value]
        raised == new_best_move([better EXCEPT !.alpha = value], child,
                                mo_current_move(n.mo))
    IN IF value <= n.value THEN n
       ELSE IF value <= n.alpha THEN better
       ELSE IF value >= n.beta THEN fail_high(raised)
       ELSE [raised EXCEPT !.type = "PV"]

(* handle_beta_extension: a quiet check that fails high is looked at       *)
(* deeper, unless it was tried first or in a null move search.             *)
wants_beta_extension(i, n, child, value) ==
    /\ settings.beta_extensions
    /\ value >= n.beta /\ value < MateValue
    /\ ~node[i - 1].in_null /\ is_in_check(child)
    /\ n.depth > PLY /\ n.depth < 10 * PLY /\ n.mo.picked > 1
    /\ <<n.pos, mo_current_move(n.mo)>> \in Quiet

(* Everything negamax does before its loop, the null move aside.           *)
Entered(i, n) ==
    LET draw(k) == check_trivial_draw(i, k)
        adjust(k) == adjust_depth(i, k)
        bounds(k) == setup_bounds(i, k)
    IN hint_or_fetch(i, Then(Then(Then(Then(Then(node_init(n), draw), adjust),
                             handle_mate_search), bounds), setup_moves))

recheck_bounds(n) ==
    LET k == [n EXCEPT !.alpha = MaxOf(@, n.lower),
                       !.beta = IF n.upper < @ THEN n.upper ELSE @]
    IN IF k.alpha >= k.beta THEN Returns(k, k.lower)
       ELSE IF k.beta <= -MaxValue + 2 THEN Returns(k, k.beta)
       ELSE IF k.alpha >= MaxValue - 2 THEN Returns(k, k.alpha)
       ELSE [k EXCEPT !.at = "loop"]

-----------------------------------------------------------------------------
(* Steps of negamax.  at of a node says which call its child is in.        *)

Goes(n) == IF n.at = "done" THEN "return" ELSE "pick"

Terminated ==
    /\ pc' = "terminated"
    /\ common' = [common EXCEPT !.node_count = @ + 1]
    /\ UNCHANGED <<node, sp, tt, cleanup, deepening>>

(* check_node_count_limit                                                  *)
RunOut ==
    /\ pc = "enter" /\ common.node_count + 1 = common.node_limit
    /\ Terminated

(* check_time_limit and check_run_flag, at every CancelTest-th node         *)
Cancel ==
    /\ pc = "enter" /\ common.node_count + 1 # common.node_limit
    /\ (common.node_count + 1) % CancelTest = 0
    /\ Terminated

TryNull(n) ==
    /\ node' = [node EXCEPT ![sp] = [n EXCEPT !.in_null = TRUE, !.at = "null"],
                            ![sp + 1] = Calling(null_child(n, @))]
    /\ sp' = sp + 1 /\ pc' = "enter"

Settle(n) ==
    /\ node' = [node EXCEPT ![sp] = n]
    /\ pc' = Goes(n) /\ sp' = sp

Enter ==
    /\ pc = "enter" /\ common.node_count + 1 # common.node_limit
    /\ \E n \in {Entered(sp, node[sp])} :
          /\ IF n.at # "done" /\ tries_null_move(sp, n) THEN TryNull(n)
             ELSE Settle(Then(n, recheck_bounds))
          /\ tt' = ht_pos_insert(tt, n.pos, n.store)
    /\ common' = [common EXCEPT !.node_count = @ + 1]
    /\ UNCHANGED <<cleanup, deepening>>

(* The move just picked is searched, unless it and the rest are pruned.    *)
Try(n) ==
    LET reduced == get_LMR_factor(n, NodeTypes(n)[1]) # 0 IN
    IF can_prune_moves(sp, n)
    THEN /\ node' = [node EXCEPT ![sp] = n]
         /\ pc' = "finish" /\ sp' = sp
    ELSE /\ node' = [node EXCEPT
                ![sp] = [n EXCEPT !.type = NodeTypes(n)[1],
                                  !.at = IF reduced THEN "reduced" ELSE "full"],
                ![sp + 1] = Calling(setup_child_node(n, @, mo_current_move(n.mo)))]
         /\ sp' = sp + 1 /\ pc' = "enter"

Pick ==
    /\ \/ pc = "pick"
       \/ pc = "more" /\ search_more_moves(node[sp])
    /\ Try([node[sp] EXCEPT !.mo = move_order_pick_next(@, node[sp].pos)])
    /\ UNCHANGED <<tt, common, cleanup, deepening>>

(* Wrong variant: a line that was forced on a node stays forced.           *)
Finished_keeps_forced(n) == [n EXCEPT !.value = MaxOf(@, n.lower), !.at = "done"]

(* The end of negamax                                                      *)
Finished(n) ==
    [n EXCEPT !.value = MaxOf(@, n.lower), !.forced = 0, !.at = "done",
              !.best = setup_best_move(n)]

Finish ==
    /\ \/ pc = "finish"
       \/ pc = "more" /\ ~search_more_moves(node[sp])
    /\ tt' = ht_pos_insert(tt, node[sp].pos, StoredEntry(node[sp]))
    /\ node' = [node EXCEPT ![sp] = Finished(@)]
    /\ pc' = "return"
    /\ UNCHANGED <<sp, common, cleanup, deepening>>

(* What is left of negamax_child when the child has returned               *)
ParentOf(n, child) ==
    [n EXCEPT !.ra_any = IF settings.strict THEN MaxOf(@, from_parent(child.ra_best)) ELSE @]
ChildOf(n, child) == [child EXCEPT !.forced = IF n.forced = 0 THEN 0 ELSE @]

(* The same child is searched again.                                       *)
Again(n, child) ==
    /\ node' = [node EXCEPT ![sp - 1] = n, ![sp] = Calling(child)]
    /\ pc' = "enter" /\ sp' = sp

Back(n, child, next) ==
    /\ node' = [node EXCEPT ![sp - 1] = n, ![sp] = child]
    /\ pc' = next /\ sp' = sp - 1

Return ==
    /\ pc = "return" /\ sp > 1
    /\ LET n == ParentOf(node[sp - 1], node[sp])
           child == ChildOf(n, node[sp])
           value == nearer(-child.value)
           returned == [n EXCEPT !.at = "loop"]
       IN \/ /\ n.at = "null"
             /\ LET over == [n EXCEPT !.in_null = FALSE]
                    failed == recheck_bounds([over EXCEPT !.null_failed = TRUE])
                IN IF value > null_required(n) /\ value <= MateValue
                   THEN Back(Returns(over, n.beta), child, "return")
                   ELSE Back(failed, child, Goes(failed))
          \/ /\ n.at = "reduced"
             /\ IF value > n.alpha
                THEN Again([n EXCEPT !.at = "full"],
                           full_window(n, child, n.depth - PLY))
                ELSE Back(returned, child, "more")
          \/ /\ n.at = "full"
             /\ IF wants_beta_extension(sp - 1, n, child, value)
                THEN Again([n EXCEPT !.at = "extended"], full_window(n, child, n.depth))
                ELSE Back(Took(returned, child, value), child, "more")
          \/ /\ n.at = "extended"
             /\ Back(Took(returned, child, value), child, "more")
    /\ UNCHANGED <<tt, common, cleanup, deepening>>

-----------------------------------------------------------------------------
(* extract_pv, and the deepening.                                          *)

CommonPrefix(lines) ==
    Max({k \in 0..Len(lines[1]) : \A i \in 1..Len(lines) :
            Len(lines[i]) >= k /\ SubSeq(lines[i], 1, k) = SubSeq(lines[1], 1, k)})

(* update_engine_result cuts the line where the search was nominally.      *)
KnownLine(pv, depth) == SubSeq(pv, 1, Min({Len(pv), depth \div PLY + 1}))

NewCleanup == [stored |-> <<>>, iteration |-> 0, location |-> -1]

StartSearch(root, depth, pv, counts) ==
    /\ node' = NewNodes(root, depth, pv)
    /\ sp' = 1 /\ pc' = "enter"
    /\ common' = counts
    /\ cleanup' = NewCleanup

Goes_on(depth, value) ==
    /\ value > -MateValue /\ value < MateValue
    /\ depth <= common.depth_limit * PLY

(* The result of a search arrives, and the next depth is begun.            *)
Deliver ==
    LET root == node[1]
        counts == [common EXCEPT !.node_count = 0,
            !.node_limit = IF @ > 0 THEN @ - common.node_count ELSE 0]
    IN /\ deepening' = [deepening EXCEPT
              !.depth = @ + 1, !.done = @ + 1, !.value = root.value,
              !.best = IF root.best # 0 THEN root.best ELSE @,
              !.pv = KnownLine(root.pv, root.depth), !.line = root.pv]
       /\ IF Goes_on(root.depth + 1, root.value)
          THEN StartSearch(root.pos, root.depth + 1, KnownLine(root.pv, root.depth), counts)
          ELSE pc' = "idle" /\ common' = counts /\ UNCHANGED <<node, sp, cleanup>>
       /\ UNCHANGED tt

ForceLine(pv) ==
    [i \in 0..LastNode |->
        IF i \in 1..Len(pv) THEN [node[i] EXCEPT !.forced = pv[i]] ELSE node[i]]

(* The line found before comes back: some node on it is extended by one.   *)
Extend(pv) ==
    LET prefix == CommonPrefix(cleanup.stored) - 1
        old == cleanup.location
        location == IF old = -1 \/ prefix < old THEN prefix ELSE old - 1
        forced == ForceLine(pv)
    IN IF old = 1 \/ prefix < 1 THEN Deliver
       ELSE /\ node' = [i \in 0..LastNode |->
                  IF i = 1 + location THEN [forced[i] EXCEPT !.extension = 1]
                  ELSE IF i = 1 + old THEN [forced[i] EXCEPT !.extension = 0]
                  ELSE forced[i]]
            /\ cleanup' = [cleanup EXCEPT !.location = location,
                              !.stored = <<<<node[1].best>>>>, !.iteration = @ + 1]
            /\ UNCHANGED <<sp, pc, tt, common, deepening>>

(* A short line is searched again with its moves tried first.              *)
Research(pv) ==
    LET forced == ForceLine(pv) IN
    /\ node' = [i \in 0..LastNode |->
          IF i = 1 THEN [forced[i] EXCEPT !.alpha = -MaxValue, !.beta = MaxValue, !.type = "PV"]
          ELSE IF i > Len(pv) THEN [forced[i] EXCEPT !.forced = 0] ELSE forced[i]]
    /\ cleanup' = [cleanup EXCEPT !.stored = Append(@, pv), !.iteration = @ + 1]
    /\ pc' = "enter"
    /\ UNCHANGED <<sp, tt, common, deepening>>

ExtractPv ==
    /\ pc = "return" /\ sp = 1
    /\ LET pv == node[1].pv
           value == node[1].value
           final == \/ ~settings.pv_cleanup \/ cleanup.iteration >= CleanupLimit
                    \/ node[1].depth < 3 * PLY \/ pv = <<>>
           good == \/ value = 0 \/ value <= -MateValue \/ value >= MateValue
                   \/ Len(pv) >= node[1].depth \div PLY - 1
       IN IF final THEN Deliver
          ELSE IF pv \in Range(cleanup.stored) THEN Extend(pv)
          ELSE IF good THEN Deliver ELSE Research(pv)

(* setup_search: the table may know the root already.                      *)
starting_from(e, root) ==
    LET known == e.type = Exact /\ e.depth > 0
                    /\ ~(ht_value(e) = 0 /\ e.depth = MarkDepth)
    IN [depth |-> IF known THEN e.depth + 1 ELSE PLY,
        best |-> IF known /\ ht_has_move(e) THEN e.move ELSE Min(Legal[root])]

setup_search(t, root) ==
    starting_from(ht_lookup_deep(t, root, 1, MaxValue), root)

NewDeepening(start, searches) ==
    [depth |-> start.depth, best |-> start.best, done |-> 0, value |-> 0,
     pv |-> <<>>, line |-> <<>>, searches |-> searches]

(* think on the next position of the game: a move of each side is made, if *)
(* it is legal (game_append).  The generations of the table are swapped.   *)
NextMove ==
    /\ pc \in {"idle", "terminated"} /\ deepening.searches > 1
    /\ deepening.best \in Legal[Root]
    /\ \E reply \in Legal[Play[Root][deepening.best]] :
          LET root == Play[Play[Root][deepening.best]][reply]
              counts == [common EXCEPT !.node_count = 0, !.node_limit = common.exact]
          IN /\ Legal[root] # {}
             /\ tt' = ht_swap(tt)
             /\ deepening' = NewDeepening(setup_search(tt', root), deepening.searches - 1)
             /\ IF deepening'.depth <= common.depth_limit * PLY
                THEN StartSearch(root, deepening'.depth, <<>>, counts)
                ELSE /\ node' = NewNodes(root, deepening'.depth, <<>>)
                     /\ pc' = "idle" /\ sp' = 1
                     /\ common' = counts /\ cleanup' = NewCleanup

Init ==
    \E root \in Roots : \E eval \in Evaluations, s \in Settings,
       depth_limit \in DepthLimits[root], node_limit \in NodeLimits :
        /\ tt = Cleared(2^Buckets, Buckets)
        /\ node = NewNodes(root, PLY, <<>>)
        /\ sp = 1 /\ pc = "enter"
        /\ common = [settings |-> s, eval |-> eval, node_count |-> 0,
                     node_limit |-> node_limit, exact |-> node_limit, depth_limit |-> depth_limit]
        /\ cleanup = NewCleanup
        /\ deepening = NewDeepening(setup_search(tt, root), Searches)

Next == RunOut \/ Cancel \/ Enter \/ Pick \/ Finish \/ Return \/ ExtractPv \/ NextMove

Spec == Init /\ [][Next]_vars

-----------------------------------------------------------------------------
(* What the values mean.                                                   *)

(* Mates[k, p]: the player to move can mate in k plies at most.            *)
Mates[k \in 0..MaxValue - MateValue, p \in Position] ==
    \E m \in Legal[p] :
        LET q == Play[p][m] IN
        /\ k > 0 /\ q \notin Drawn
        /\ IF Legal[q] = {} THEN q \in InCheck
           ELSE k > 2 /\ \A r \in Legal[q] : Mates[k - 2, Play[q][r]]

IsMated(k, p) ==
    Legal[p] # {} /\ \A m \in Legal[p] : k > 1 /\ Mates[k - 1, Play[p][m]]

(* Minimax with quiescence and no table: what alpha-beta has to agree with *)
(* when nothing is pruned or reduced.                                      *)
Minimax[d \in -(PLY * LastNode)..PLY * LastNode, p \in Position] ==
    LET depth == IF d > 0 /\ d < PLY THEN PLY ELSE d
        quiet == depth <= 0 /\ p \notin InCheck
        moves == IF quiet THEN Captures[p] ELSE Legal[p]
        values == {nearer(-Minimax[depth - PLY, Play[p][m]]) : m \in moves}
                    \cup (IF quiet THEN {Eval(p)} ELSE {})
        best == IF values # {} THEN Max(values) ELSE IF p \in InCheck THEN -MaxValue ELSE 0
    IN IF p \in Drawn THEN 0
       ELSE IF p \in LoneKing THEN Min({0, best})
       ELSE IF p \in LoneOpponent THEN MaxOf(0, best) ELSE best

RootValue(depth) == Max({nearer(-Minimax[depth - PLY, Play[Root][m]]) : m \in Legal[Root]})

(* A path visits no position twice.                                        *)
IsTree(root) == root \in TreeRoots

Searched == pc = "idle" /\ deepening.done > 0
InLoop(n) == n.at \in {"loop", "full", "reduced", "extended"}
MovesOf(n) == IF is_qsearch(n) THEN Captures[n.pos] ELSE Legal[n.pos]

(* A move forced on a node by an earlier search is one the node may make   *)
(* (the assertion at search.c:1079), though the line was found at another  *)
(* depth and the node may be quiescent now.                                *)
ForcedMoveKnown == pc = "pick" => node[sp].forced \in {0} \cup MovesOf(node[sp])

(* No draw by repetition reaches back beyond an irreversible move, or the  *)
(* value would depend on what cannot recur (search.c:1136).                *)
BarrierHolds ==
    pc \in {"more", "finish"} /\ node[sp].barrier =>
        node[sp].ra_any = 0 /\ node[sp].ra_best = 0

(* In every node on the stack each move is raw or an entry, once, and the  *)
(* entries still to be picked are sorted.                                  *)
EveryMoveOnce ==
    \A i \in 1..sp : InLoop(node[i]) =>
        OrderComplete(node[i].mo, MovesOf(node[i])) /\ OrderSorted(node[i].mo)

(* A mate that is announced is forced, within the plies the value tells,    *)
(* whatever was pruned, reduced, extended or read from the table.          *)
MateClaimSound ==
    Searched =>
        /\ deepening.value >= MateValue => Mates[MaxValue - deepening.value, Root]
        /\ deepening.value <= -MateValue => IsMated(MaxValue + deepening.value, Root)

(* Without reductions and prunings the value is that of plain minimax at    *)
(* the depth searched, cutoffs, hints and table notwithstanding.           *)
ValueExact ==
    Searched /\ IsTree(Root) /\ settings.plain /\ deepening.searches = Searches =>
        deepening.value = RootValue(deepening.depth - 1)

(* The line shown can be played from the root and starts with the move      *)
(* exported as the best one.                                               *)
LinePlayable ==
    /\ pc # "enter" => deepening.best \in Legal[Root]
    /\ Searched =>
        LET pv == deepening.line
            position[i \in 0..Len(pv)] ==
                IF i = 0 THEN Root ELSE Play[position[i - 1]][pv[i]]
        IN /\ Root \notin Drawn => pv # <<>>
           /\ pv # <<>> => pv[1] = deepening.best
           /\ \A i \in 1..Len(pv) : pv[i] \in Legal[position[i - 1]]

=============================================================================
