----------------------------- MODULE EngineClock -----------------------------
(***************************************************************************)
(* The time and node limits of src/src/engine.c: the setters the commands  *)
(* call, the limits think gives a search, what iterative_deepening leaves  *)
(* of them after each depth, and the clock after the computer's move.      *)
(* Times are in centiseconds.  The threads are in EngineThreads: a setter  *)
(* that waits for a running search under engine_mutex hangs there, so here *)
(* it finds none.                                                          *)
(***************************************************************************)
EXTENDS Integers, Sequences, FiniteSetsExt

CONSTANTS
    TimeSafety,         \* time_safety
    DefaultDivisor,     \* default_move_divisor
    MaxPly,             \* MAX_PLY, in depths
    StartClock, StartMoves, \* what init_settings sets
    Levels,             \* arguments of level: <<moves, seconds, increment>>
    Clocks, SecsPerMove, NpsRates, DepthLimits, NodeCounts,
    GoOptions,          \* sequences of pairs <<option, number>>
    DepthNodes,         \* the nodes a completed depth may take
    Lateness,           \* how late the search notices its time limit
    MaxCommands         \* bound: the commands read

ASSUME ClockAssumption ==
    /\ {TimeSafety, StartClock, StartMoves} \subseteq Nat
    /\ DefaultDivisor \in Nat \ {0} /\ MaxPly \in Nat
    /\ DepthNodes \subseteq Nat \ {0} /\ Lateness \subseteq Nat
    /\ NodeCounts \subseteq Nat \ {0} /\ SecsPerMove \subseteq Nat \ {0}
    /\ Levels \subseteq Nat \X Nat \X Nat
    /\ Clocks \subseteq Nat /\ NpsRates \subseteq Nat /\ DepthLimits \subseteq Nat
    /\ GoOptions \subseteq
          Seq({"infinite", "time", "inc", "movestogo", "nodes"} \X Nat)

VARIABLES
    clock,      \* the static variables of engine.c
    search,     \* the limits of the running search and what it has used
    perMove,    \* history: the last argument of st
    share,      \* history: the time for each move left, when it was last set
    punctual,   \* history: since then every search was for a move, and in time
    commands    \* the commands read so far

vars == <<clock, search, perMove, share, punctual, commands>>

Idle == [running |-> FALSE]

-----------------------------------------------------------------------------
(* The setters: what each makes of the clock c.                            *)

SetMovesLeft(c, n) ==
    [c EXCEPT !.secsPerMove = FALSE, !.infinite = FALSE,
              !.movesLeft = n, !.baseMoves = n]

SetComputerClock(c, t) == [c EXCEPT !.time = t, !.infinite = FALSE]

SetTimeInc(c, n) ==
    [c EXCEPT !.secsPerMove = FALSE, !.infinite = FALSE, !.inc = n]

SetSecsPerMove(c, n) ==
    [c EXCEPT !.secsPerMove = TRUE, !.infinite = FALSE, !.time = 100 * n]

SetExactNodeCount(c, n) ==
    [c EXCEPT !.exactNodes = n, !.depthLimit = 0, !.infinite = FALSE,
              !.inc = 0]

SetTimeInfinite(c) == [c EXCEPT !.infinite = TRUE]

(* One option of go.                                                       *)
GoOption(c, o) ==
    CASE o[1] = "infinite" -> SetTimeInfinite(c)
      [] o[1] = "time" -> SetComputerClock(c, o[2])
      [] o[1] = "inc" -> SetTimeInc(c, o[2])
      [] o[1] = "movestogo" -> SetMovesLeft(c, o[2])
      [] o[1] = "nodes" -> SetExactNodeCount(c, o[2])

(* All of them, in the order they are read.                                *)
GoOptionsSet(c, options) ==
    LET after[n \in 0..Len(options)] ==
            IF n = 0 THEN c ELSE GoOption(after[n - 1], options[n])
    IN  after[Len(options)]

-----------------------------------------------------------------------------
(* The time for the next move.                                             *)

TimeShare(c) ==
    IF c.secsPerMove THEN c.time
    ELSE c.time \div (IF c.movesLeft > 0 THEN c.movesLeft ELSE DefaultDivisor)

(* Wrong variant: what is left may be zero, which is no limit.             *)
GetTimeForMoveOrNone(c) == Max({TimeShare(c) - TimeSafety, 0})

(* Wrong variant: the whole share is spent.                                *)
GetTimeForMoveUnsafe(c) == Max({TimeShare(c), 1})

GetTimeForMove(c) == Max({TimeShare(c) - TimeSafety, 1})

(* The limits think sets.                                                  *)
Limits(c) ==
    LET none == [time |-> 0, nodes |-> 0]
    IN  IF c.exactNodes # 0 THEN [none EXCEPT !.nodes = c.exactNodes]
        ELSE IF c.infinite THEN none
        ELSE IF c.nps = 0 THEN [none EXCEPT !.time = GetTimeForMove(c)]
        ELSE [none EXCEPT !.nodes = (c.nps * GetTimeForMove(c)) \div 100]

(* engine_move_count_inc; base_computer_time, which it adds to the clock   *)
(* at the time control, is zero: nothing sets it.                          *)
MoveCountInc(c) ==
    IF c.secsPerMove THEN c
    ELSE IF c.movesLeft > 1 THEN [c EXCEPT !.movesLeft = @ - 1]
    ELSE IF c.baseMoves > 0 THEN [c EXCEPT !.movesLeft = c.baseMoves]
    ELSE c

-----------------------------------------------------------------------------
(* The commands.                                                           *)

(* The time for each move left after a move: a new one at the time control. *)
ShareAfterMove(before, after, fair) ==
    IF before.movesLeft > 1 THEN fair ELSE TimeShare(after)

(* The history variables after the clock was set to c.                     *)
Set(c) ==
    /\ clock' = c
    /\ share' = TimeShare(c)
    /\ punctual' = ~search.running

Init ==
    /\ clock = SetTimeInc(SetMovesLeft(SetComputerClock(
                  [secsPerMove |-> FALSE, infinite |-> FALSE, time |-> 0,
                   inc |-> 0, movesLeft |-> 0, baseMoves |-> 0, nps |-> 0,
                   depthLimit |-> 0, exactNodes |-> 0],
                  StartClock), StartMoves), 0)
    /\ search = Idle /\ perMove = 0
    /\ share = TimeShare(clock) /\ punctual = TRUE /\ commands = 0

CmdLevel(l) ==
    /\ ~search.running
    /\ Set(SetTimeInc(SetComputerClock(SetMovesLeft(clock, l[1]),
                                       100 * l[2]), 100 * l[3]))
    /\ UNCHANGED <<search, perMove>>

CmdTime(t) == Set(SetComputerClock(clock, t)) /\ UNCHANGED <<search, perMove>>

CmdSt(n) ==
    Set(SetSecsPerMove(clock, n)) /\ perMove' = n /\ UNCHANGED search

CmdSti == Set(SetTimeInfinite(clock)) /\ UNCHANGED <<search, perMove>>

CmdNodes(n) ==
    /\ ~search.running
    /\ Set(SetExactNodeCount(clock, n)) /\ UNCHANGED <<search, perMove>>

CmdSd(n) ==
    clock' = [clock EXCEPT !.depthLimit = n]
        /\ UNCHANGED <<search, perMove, share, punctual>>

CmdNps(n) ==
    clock' = [clock EXCEPT !.nps = n]
        /\ UNCHANGED <<search, perMove, share, punctual>>

(* A search for the answer to cb, under the limits c calls for.            *)
Think(cb, c) ==
    search' = [running |-> TRUE, cb |-> cb, ended |-> FALSE,
               limits |-> Limits(c), nodesLeft |-> Limits(c).nodes,
               depthLimit |-> c.depthLimit, depth |-> 0, nodes |-> 0]

(* decide_move: nothing in a game that has ended, a single response or a   *)
(* book move at once, or else a search.                                    *)
DecideMove(c, fair) ==
    \/ clock' = c /\ share' = fair /\ UNCHANGED search
    \/ /\ clock' = MoveCountInc(c)
       /\ share' = ShareAfterMove(c, clock', fair)
       /\ UNCHANGED search
    \/ clock' = c /\ share' = fair /\ Think("computer_move", c)

CmdGo(options) ==
    LET c == GoOptionsSet(clock, options)
    IN  /\ ~search.running
        /\ DecideMove(c, IF options = << >> THEN share ELSE TimeShare(c))
        /\ punctual' = (punctual \/ options # << >>)
        /\ UNCHANGED perMove

CmdSearch ==
    /\ ~search.running
    /\ Think("search_cb", clock)
    /\ UNCHANGED <<clock, perMove, share, punctual>>

(* A new game ends the search unheard.                                     *)
CmdNew ==
    /\ clock' = [clock EXCEPT !.depthLimit = 0]
    /\ search' = Idle
    /\ UNCHANGED <<perMove, share, punctual>>

-----------------------------------------------------------------------------
(* The search thread.                                                      *)

Ended(s) ==
    IF s.depthLimit = 0 THEN s.depth >= MaxPly ELSE s.depth > s.depthLimit

(* setup_search starts at the depth after the one the table knows.         *)
SetupSearch(d) ==
    /\ search.running /\ search.depth = 0
    /\ search' = [search EXCEPT !.depth = d,
                                !.ended = Ended([search EXCEPT !.depth = d])]
    /\ UNCHANGED <<clock, perMove, share, punctual>>

(* Wrong variant: every depth has all of the nodes.                        *)
NodesLeftForgotten(s, n) == s.nodesLeft

NodesLeft(s, n) == IF s.nodesLeft > 0 THEN s.nodesLeft - n ELSE 0

Searching == search.running /\ search.depth > 0 /\ ~search.ended

(* A depth of n nodes; a mate is the end.                                  *)
DepthCompleted(n, mate) ==
    /\ Searching /\ (search.nodesLeft = 0 \/ n < search.nodesLeft)
    /\ LET next == [search EXCEPT !.nodes = @ + n, !.depth = @ + 1,
                                  !.nodesLeft = NodesLeft(search, n)]
       IN  search' = [next EXCEPT !.ended = mate \/ Ended(next)]
    /\ UNCHANGED <<clock, perMove, share, punctual>>

(* The search ends in node n of a depth: the one that makes the limit, or  *)
(* one before it when the time is over or the search is told to stop.      *)
DepthTerminated(n) ==
    /\ Searching /\ (search.nodesLeft = 0 \/ n <= search.nodesLeft)
    /\ search' = [search EXCEPT !.nodes = @ + n, !.ended = TRUE]
    /\ UNCHANGED <<clock, perMove, share, punctual>>

(* thinking_done, when the time spent is t: the move is made, then the     *)
(* clock is charged.  A search nobody waits for changes nothing.           *)
ThinkingDone(valid, t) ==
    LET counted == IF search.cb = "computer_move" THEN MoveCountInc(clock)
                   ELSE clock
        charged == IF clock.secsPerMove \/ clock.infinite THEN counted
                   ELSE [counted EXCEPT !.time = Max({@ - t, 0})]
    IN  /\ search.running /\ search.ended
        /\ search' = Idle
        /\ clock' = IF valid THEN charged ELSE clock
        /\ punctual' = /\ punctual
                       /\ search.cb = "computer_move" \/ t = 0
                       /\ search.limits.time > 0 \/ t = 0
                       /\ t <= search.limits.time + TimeSafety
        /\ share' = IF valid /\ search.cb = "computer_move"
                    THEN ShareAfterMove(clock, clock', share) ELSE share
        /\ UNCHANGED perMove

(* A search without a time limit takes what it takes.                      *)
TimeSpent ==
    {0} \cup (IF search.running THEN {search.limits.time + l : l \in Lateness}
             ELSE {})

Command ==
    /\ commands < MaxCommands /\ commands' = commands + 1
    /\ \/ \E l \in Levels : CmdLevel(l)
       \/ \E t \in Clocks : CmdTime(t)
       \/ \E n \in SecsPerMove : CmdSt(n)
       \/ CmdSti
       \/ \E n \in NodeCounts : CmdNodes(n)
       \/ \E n \in DepthLimits : CmdSd(n)
       \/ \E n \in NpsRates : CmdNps(n)
       \/ \E o \in GoOptions : CmdGo(o)
       \/ CmdSearch
       \/ CmdNew

SearchStep ==
    /\ UNCHANGED commands
    /\ \/ \E d \in 1..MaxPly : SetupSearch(d)
       \/ \E n \in DepthNodes : \/ \E mate \in BOOLEAN : DepthCompleted(n, mate)
                                \/ DepthTerminated(n)
       \/ \E valid \in BOOLEAN, t \in TimeSpent : ThinkingDone(valid, t)

Next == Command \/ SearchStep

Spec == Init /\ [][Next]_vars

-----------------------------------------------------------------------------
(* Properties.                                                             *)

(* A search that was not asked to be infinite is limited, in time or in    *)
(* nodes: with any move count, any clock, even at zero, and any mode.      *)
(* (Below 100 nodes per second the node limit may come out as zero, which  *)
(* is none.)                                                               *)
SearchIsLimited ==
    [][\/ search.running \/ ~search'.running \/ clock'.infinite
       \/ clock'.nps \in 1..99
       \/ search'.limits.time > 0 \/ search'.limits.nodes > 0]_vars

(* All the depths of a search together stay within its node limit: what is *)
(* left of it after a depth is never zero, which would be no limit.        *)
NodeBudgetKept ==
    search.running /\ search.limits.nodes > 0 =>
        search.nodes <= search.limits.nodes

(* A computer that is late by no more than time_safety keeps, for each of  *)
(* the moves left until the time control, the time it had for each when a  *)
(* command last set the clock, or since then the time control was reached. *)
FairShareKept ==
    punctual /\ ~clock.secsPerMove /\ clock.movesLeft > 0 /\ share > TimeSafety
        => clock.time >= share * clock.movesLeft

(* engine.c:61-66: in the mode of st each move is given "a fix number of   *)
(* seconds".                                                               *)
FixedTimePerMove ==
    [][search'.running /\ ~search.running /\ clock'.secsPerMove
         /\ search'.limits.time > 0
       => search'.limits.time = 100 * perMove' - TimeSafety]_vars

=============================================================================
