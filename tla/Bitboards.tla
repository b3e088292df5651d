----------------------------- MODULE Bitboards -----------------------------
(***************************************************************************)
(* The squares of src/src/chess.h and the bitboards of bitboard.h and      *)
(* constants.h.  A bitboard is the set of the squares whose bit is set; a  *)
(* square is its index, 0 (h8) .. 63 (a1), ranks running south and files   *)
(* running west, always from the point of view of the player to move.      *)
(***************************************************************************)
EXTENDS Integers, FiniteSets, Sequences

Square == 0 .. 63
ind(rank, file) == 8 * rank + file
ind_rank(i) == i \div 8
ind_file(i) == i % 8

rank_8 == 0
rank_5 == 3
rank_2 == 6
file_h == 0
file_a == 7

sq_h8 == 0
sq_g8 == 1
sq_f8 == 2
sq_e8 == 3
sq_d8 == 4
sq_c8 == 5
sq_a8 == 7
sq_h1 == 56
sq_g1 == 57
sq_f1 == 58
sq_e1 == 59
sq_d1 == 60
sq_c1 == 61
sq_b1 == 62
sq_a1 == 63

NORTH == -8
SOUTH == 8
WEST == 1
EAST == -1

RANK(r) == {i \in Square : ind_rank(i) = r}
FILE(f) == {i \in Square : ind_file(i) = f}
BLACK_SQUARES == {i \in Square : (ind_rank(i) + ind_file(i)) % 2 = 0}

(* i ^ 0x38, and the byte swap of a bitboard: the board seen by the        *)
(* opponent.                                                               *)
flip_i(i) == ind(7 - ind_rank(i), ind_file(i))
bswap(bb) == {flip_i(i) : i \in bb}

(* A shift of the 64 bits: what leaves the board is lost, what leaves a    *)
(* file comes back on the next rank unless the caller masked it.           *)
shift(bb, by) == {i + by : i \in bb} \cap Square

north_of(bb) == shift(bb, NORTH)
south_of(bb) == shift(bb, SOUTH)
east_of(bb) == shift(bb, EAST)
west_of(bb) == shift(bb, WEST)

pawn_reach_north(bb) ==
  shift(bb \ FILE(file_a), NORTH + WEST) \cup shift(bb \ FILE(file_h), NORTH + EAST)

pawn_reach_south(bb) ==
  shift(bb \ FILE(file_h), SOUTH + EAST) \cup shift(bb \ FILE(file_a), SOUTH + WEST)

(* A fill in one direction (kogge_stone_north and _south).                 *)
kogge_stone_north(bb) == UNION {{i - 8 * k : k \in 0 .. ind_rank(i)} : i \in bb}
kogge_stone_south(bb) == UNION {{i + 8 * k : k \in 0 .. 7 - ind_rank(i)} : i \in bb}

is_singular(bb) == Cardinality(bb) = 1
bsf(bb) == CHOOSE i \in bb : \A j \in bb : i <= j

(***************************************************************************)
(* The tables of tools/gen_bb_constants.c.  A direction is a pair of steps *)
(* in rank and file.                                                       *)
(***************************************************************************)
Reaches(i, d) ==
  {k \in 1 .. 7 : ind_rank(i) + k * d[1] \in 0 .. 7 /\ ind_file(i) + k * d[2] \in 0 .. 7}

Steps == {<<r, f>> : r \in -2 .. 2, f \in -2 .. 2}
KingSteps == {d \in Steps : d # <<0, 0>> /\ d[1] \in -1 .. 1 /\ d[2] \in -1 .. 1}
KnightSteps == {d \in Steps : d[1] * d[1] + d[2] * d[2] = 5}

simple_table(steps) ==
  [i \in Square |-> {i + 8 * d[1] + d[2] : d \in {e \in steps : 1 \in Reaches(i, e)}}]

king_pattern == simple_table(KingSteps)
knight_pattern == simple_table(KnightSteps)

(* The squares from i to the edge of the board, nearest first.             *)
gen_ray ==
  [i \in Square |->
    [d \in KingSteps |->
      [k \in 1 .. Cardinality(Reaches(i, d)) |-> i + k * (8 * d[1] + d[2])]]]

masks(dirs) ==
  [i \in Square |-> UNION {{gen_ray[i][d][k] : k \in DOMAIN gen_ray[i][d]} : d \in dirs}]

DiagDirs == {<<1, -1>>, <<-1, 1>>}
AdiagDirs == {<<1, 1>>, <<-1, -1>>}
HorDirs == {<<0, 1>>, <<0, -1>>}
VerDirs == {<<1, 0>>, <<-1, 0>>}

diag_masks == masks(DiagDirs)
adiag_masks == masks(AdiagDirs)
hor_masks == masks(HorDirs)
ver_masks == masks(VerDirs)
bishop_masks == masks(DiagDirs \cup AdiagDirs)
rook_masks == masks(HorDirs \cup VerDirs)

Slider == {"bishop", "rook"}

slider_masks == [s \in Slider |-> IF s = "bishop" THEN bishop_masks ELSE rook_masks]
slider_dirs ==
  [s \in Slider |-> IF s = "bishop" THEN DiagDirs \cup AdiagDirs ELSE HorDirs \cup VerDirs]

(* What a slider on i reaches: every ray up to and with its first piece.   *)
reach(occupied, i, dirs) ==
  UNION {LET r == gen_ray[i][d]
         IN  {r[k] : k \in {k \in DOMAIN r : \A j \in 1 .. k - 1 : r[j] \notin occupied}}
           : d \in dirs}
=============================================================================
