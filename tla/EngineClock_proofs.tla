------------------------ MODULE EngineClock_proofs ------------------------
(***************************************************************************)
(* Theorems of EngineClock, for every time control, every limit and every  *)
(* lateness.                                                               *)
(***************************************************************************)
EXTENDS EngineClock, NatFacts

-----------------------------------------------------------------------------
(* The inductive invariant.                                                *)

Clock ==
    [secsPerMove : BOOLEAN, infinite : BOOLEAN, time : Nat, inc : Nat,
     movesLeft : Nat, baseMoves : Nat, nps : Nat, depthLimit : Nat,
     exactNodes : Nat]

Search ==
    [running : {TRUE}, cb : {"computer_move", "search_cb"}, ended : BOOLEAN,
     limits : [time : Nat, nodes : Nat], nodesLeft : Nat, depthLimit : Nat,
     depth : Nat, nodes : Nat]

TypeOK ==
    /\ clock \in Clock
    /\ search \in Search \cup {Idle}
    /\ share \in Nat
    /\ punctual \in BOOLEAN

(* Until the search ends it knows what is left of its nodes.               *)
BudgetExact ==
    search.running /\ search.limits.nodes > 0 =>
        /\ search.nodes <= search.limits.nodes
        /\ search.depth = 0 \/ ~search.ended =>
              /\ search.nodesLeft > 0
              /\ search.nodes + search.nodesLeft = search.limits.nodes

(* The time limit of a search for the computer's move is still what the    *)
(* clock gives for it, unless a command came between.                      *)
LimitIsCurrent ==
    punctual /\ search.running /\ search.cb = "computer_move"
             /\ search.limits.time > 0 =>
        search.limits.time = GetTimeForMove(clock)

Inv == TypeOK /\ BudgetExact /\ LimitIsCurrent /\ FairShareKept

Option == {"infinite", "time", "inc", "movestogo", "nodes"} \X Nat

-----------------------------------------------------------------------------
(* The setters.                                                            *)

LEMMA SettersType ==
    ASSUME NEW c \in Clock, NEW n \in Nat
    PROVE  /\ SetMovesLeft(c, n) \in Clock
           /\ SetComputerClock(c, n) \in Clock
           /\ SetTimeInc(c, n) \in Clock
           /\ SetSecsPerMove(c, n) \in Clock
           /\ SetExactNodeCount(c, n) \in Clock
           /\ SetTimeInfinite(c) \in Clock
           /\ [c EXCEPT !.depthLimit = n] \in Clock
           /\ [c EXCEPT !.nps = n] \in Clock
<1>1. 100 * n \in Nat
  OBVIOUS
<1> QED
  BY <1>1 DEF Clock, SetMovesLeft, SetComputerClock, SetTimeInc, SetSecsPerMove,
              SetExactNodeCount, SetTimeInfinite

LEMMA GoOptionType ==
    ASSUME NEW c \in Clock, NEW o \in Option
    PROVE  GoOption(c, o) \in Clock
<1>1. o[2] \in Nat /\ o[1] \in {"infinite", "time", "inc", "movestogo", "nodes"}
  BY DEF Option
<1> QED
  BY <1>1, SettersType DEF GoOption

(* Every option of go is read: the clock after them is one.                *)
LEMMA GoOptionsSetType ==
    ASSUME NEW c \in Clock, NEW q \in Seq(Option)
    PROVE  GoOptionsSet(c, q) \in Clock
<1> DEFINE Step(g) == [n \in 0..Len(q) |-> IF n = 0 THEN c ELSE GoOption(g[n - 1], q[n])]
           after == CHOOSE g : g = Step(g)
           f == [x \in Clock \X Option |-> GoOption(x[1], x[2])]
           P == {n \in 0..Len(q) : after[n] \in Clock}
<1>1. f \in [Clock \X Option -> Clock]
  BY GoOptionType
<1>2. PICK g : IsFold(g, Clock, f, c, q)
  <2> HIDE DEF f
  <2> QED
    BY <1>1, FoldExists
<1>3. g = Step(g)
  <2>1. ASSUME NEW n \in 0..Len(q)
        PROVE  g[n] = IF n = 0 THEN c ELSE GoOption(g[n - 1], q[n])
    <3>1. CASE n = 0
      BY <1>2, <3>1 DEF IsFold
    <3>2. CASE n # 0
      <4>1. n \in 1..Len(q) /\ n - 1 \in 0..Len(q)
        BY <3>2
      <4>2. g[n - 1] \in Clock /\ q[n] \in Option
        BY <1>2, <4>1 DEF IsFold
      <4>3. f[<<g[n - 1], q[n]>>] = GoOption(g[n - 1], q[n])
        BY <4>2
      <4> QED
        BY <1>2, <3>2, <4>1, <4>3 DEF IsFold
    <3> QED
      BY <3>1, <3>2
  <2> QED
    BY <1>2, <2>1 DEF IsFold
<1>4. after = Step(after)
  BY <1>3
<1> HIDE DEF after, f
<1>5. \A n \in 0..Len(q) : after[n] = IF n = 0 THEN c ELSE GoOption(after[n - 1], q[n])
  BY <1>4
<1>6. 0 \in P /\ Len(q) \in Nat
  BY <1>5
<1>7. ASSUME NEW i \in 1..Len(q), i - 1 \in P
      PROVE  i \in P
  BY <1>5, <1>7, GoOptionType
<1> HIDE DEF P
<1>8. \A n \in 0..Len(q) : n \in P
  BY <1>6, <1>7, Induction
<1>9. after[Len(q)] \in Clock
  BY <1>6, <1>8 DEF P
<1>10. GoOptionsSet(c, q) = after[Len(q)]
  BY DEF GoOptionsSet, after
<1> QED
  BY <1>9, <1>10

LEMMA GoWithoutOptions ==
    ASSUME NEW c \in Clock
    PROVE  GoOptionsSet(c, << >>) = c
<1> DEFINE q == << >>
           Step(g) == [n \in 0..Len(q) |-> IF n = 0 THEN c ELSE GoOption(g[n - 1], q[n])]
           after == CHOOSE g : g = Step(g)
           h == [n \in 0..Len(q) |-> c]
<1>1. Len(q) = 0
  OBVIOUS
<1>2. h = Step(h)
  BY <1>1
<1>3. after = Step(after)
  BY <1>2
<1> HIDE DEF after
<1>4. after[0] = c
  BY <1>1, <1>3
<1>5. GoOptionsSet(c, q) = after[Len(q)]
  BY DEF GoOptionsSet, after
<1> QED
  BY <1>1, <1>4, <1>5

-----------------------------------------------------------------------------
(* The time for a move.                                                    *)

(* What a share of T for m moves is.                                       *)
LEMMA ShareIs ==
    ASSUME NEW T \in Nat, NEW m \in Nat \ {0}
    PROVE  /\ T \div m \in Nat
           /\ (T \div m) * m <= T
           /\ T < (T \div m + 1) * m
OBVIOUS

(* Who had s for each of m moves, and takes no more than the share of T,   *)
(* has s for each of the others.                                           *)
LEMMA ShareLeft ==
    ASSUME NEW T \in Nat, NEW m \in Nat \ {0}, NEW s \in Nat, NEW t \in Nat,
           s * m <= T, t <= T \div m
    PROVE  T - t \in Nat /\ s <= T \div m /\ s * (m - 1) <= T - t
<1> DEFINE d == T \div m
<1>1. d \in Nat /\ d * m <= T /\ T < (d + 1) * m
  BY ShareIs
<1> HIDE DEF d
<1>2. s <= d
  <2> SUFFICES ASSUME d + 1 <= s PROVE FALSE
    BY <1>1
  <2>1. (d + 1) * m <= s * m
    BY <1>1
  <2> QED
    BY <1>1, <2>1
<1>3. s * (m - 1) <= d * (m - 1)
  BY <1>1, <1>2
<1>4. d * (m - 1) = d * m - d
  BY <1>1
<1>5. d <= d * m
  BY <1>1
<1>6. t <= d
  BY DEF d
<1>7. T - t >= d * m - d /\ T - t >= 0
  BY <1>1, <1>5, <1>6
<1> QED
  BY <1>1, <1>2, <1>3, <1>4, <1>7 DEF d

LEMMA TimeShareType ==
    ASSUME NEW c \in Clock
    PROVE  TimeShare(c) \in Nat
<1>1. c.time \in Nat /\ c.movesLeft \in Nat /\ DefaultDivisor \in Nat \ {0}
  BY ClockAssumption DEF Clock
<1>2. (IF c.movesLeft > 0 THEN c.movesLeft ELSE DefaultDivisor) \in Nat \ {0}
  BY <1>1
<1> QED
  BY <1>1, <1>2, ShareIs DEF TimeShare

(* No share is too small for a limit.                                      *)
LEMMA GetTimeForMoveIs ==
    ASSUME NEW c \in Clock
    PROVE  /\ GetTimeForMove(c) \in Nat \ {0}
           /\ TimeShare(c) > TimeSafety => GetTimeForMove(c) = TimeShare(c) - TimeSafety
<1>1. TimeShare(c) \in Nat /\ TimeSafety \in Nat
  BY TimeShareType, ClockAssumption
<1>2. TimeShare(c) - TimeSafety \in Int
  BY <1>1
<1>3. GetTimeForMove(c) =
        IF TimeShare(c) - TimeSafety >= 1 THEN TimeShare(c) - TimeSafety ELSE 1
  BY <1>2, MaxOfTwo DEF GetTimeForMove
<1> QED
  BY <1>1, <1>3

LEMMA LimitsType ==
    ASSUME NEW c \in Clock
    PROVE  /\ Limits(c) \in [time : Nat, nodes : Nat]
           /\ Limits(c).time > 0 => Limits(c).time = GetTimeForMove(c)
           /\ \/ c.infinite \/ c.nps \in 1..99
              \/ Limits(c).time > 0 \/ Limits(c).nodes > 0
<1> DEFINE none == [time |-> 0, nodes |-> 0]
           T == GetTimeForMove(c)
<1>1. T \in Nat \ {0} /\ c.nps \in Nat /\ c.exactNodes \in Nat /\ c.infinite \in BOOLEAN
  BY GetTimeForMoveIs DEF Clock
<1>2. c.nps * T \in Nat /\ (c.nps * T) \div 100 \in Nat
  BY <1>1, ShareIs
<1>3. c.nps >= 100 => (c.nps * T) \div 100 > 0
  <2> SUFFICES ASSUME c.nps >= 100 PROVE (c.nps * T) \div 100 > 0
    OBVIOUS
  <2>1. c.nps * T >= c.nps
    BY <1>1
  <2> QED
    BY <1>1, <1>2, <2>1
<1>4. Limits(c) =
        IF c.exactNodes # 0 THEN [none EXCEPT !.nodes = c.exactNodes]
        ELSE IF c.infinite THEN none
        ELSE IF c.nps = 0 THEN [none EXCEPT !.time = T]
        ELSE [none EXCEPT !.nodes = (c.nps * T) \div 100]
  BY DEF Limits
<1> HIDE DEF T
<1>5. CASE c.exactNodes # 0
  BY <1>1, <1>4, <1>5
<1>6. CASE c.exactNodes = 0 /\ c.infinite
  BY <1>4, <1>6
<1>7. CASE c.exactNodes = 0 /\ ~c.infinite /\ c.nps = 0
  <2>1. Limits(c) = [time |-> T, nodes |-> 0]
    BY <1>4, <1>7
  <2> QED
    BY <1>1, <2>1 DEF T
<1>8. CASE c.exactNodes = 0 /\ ~c.infinite /\ c.nps # 0
  <2>1. Limits(c) = [time |-> 0, nodes |-> (c.nps * T) \div 100]
    BY <1>4, <1>8
  <2> QED
    BY <1>1, <1>2, <1>3, <1>8, <2>1
<1> QED
  BY <1>1, <1>5, <1>6, <1>7, <1>8

LEMMA MoveCountIncIs ==
    ASSUME NEW c \in Clock
    PROVE  /\ MoveCountInc(c) \in Clock
           /\ MoveCountInc(c).time = c.time
           /\ MoveCountInc(c).secsPerMove = c.secsPerMove
           /\ c.movesLeft > 1 /\ ~c.secsPerMove => MoveCountInc(c).movesLeft = c.movesLeft - 1
BY DEF MoveCountInc, Clock

-----------------------------------------------------------------------------
(* The share of each move.                                                 *)

(* The clock c has s for each of the moves left.                           *)
Fair(c, s) ==
    ~c.secsPerMove /\ c.movesLeft > 0 => c.time >= s * c.movesLeft

LEMMA ClockFields ==
    ASSUME NEW c \in Clock
    PROVE  /\ c.secsPerMove \in BOOLEAN /\ c.infinite \in BOOLEAN
           /\ c.time \in Nat /\ c.movesLeft \in Nat
BY DEF Clock

(* The share a clock gives is fair.                                        *)
LEMMA FairAtFirst ==
    ASSUME NEW c \in Clock
    PROVE  Fair(c, TimeShare(c))
<1> SUFFICES ASSUME ~c.secsPerMove, c.movesLeft > 0
             PROVE  c.time >= TimeShare(c) * c.movesLeft
  BY DEF Fair
<1>1. c.time \in Nat /\ c.movesLeft \in Nat \ {0}
  BY ClockFields
<1>2. TimeShare(c) = c.time \div c.movesLeft
  BY <1>1 DEF TimeShare
<1> QED
  BY <1>1, <1>2, ShareIs

(* It stays fair when a move takes no more than the share of the clock.    *)
LEMMA FairAfterMove ==
    ASSUME NEW c \in Clock, NEW d \in Clock, NEW s \in Nat, NEW t \in Nat,
           d.secsPerMove = c.secsPerMove,
           c.movesLeft > 1 /\ ~c.secsPerMove => d.movesLeft = c.movesLeft - 1,
           d.time = c.time - t,
           Fair(c, s),
           ~c.secsPerMove => t <= TimeShare(c)
    PROVE  Fair(d, ShareAfterMove(c, d, s))
<1>1. CASE c.movesLeft > 1
  <2> SUFFICES ASSUME ~c.secsPerMove PROVE s * d.movesLeft <= d.time
    BY <1>1, ClockFields DEF Fair, ShareAfterMove
  <2>1. c.time \in Nat /\ c.movesLeft \in Nat \ {0}
    BY <1>1, ClockFields
  <2>2. TimeShare(c) = c.time \div c.movesLeft
    <3>1. c.movesLeft > 0
      BY <1>1, <2>1
    <3> QED
      BY <3>1 DEF TimeShare
  <2>3. s * c.movesLeft <= c.time
    BY <1>1, <2>1 DEF Fair
  <2>4. s * (c.movesLeft - 1) <= c.time - t
    BY <2>1, <2>2, <2>3, ShareLeft
  <2> QED
    BY <1>1, <2>4
<1>2. CASE ~(c.movesLeft > 1)
  BY <1>2, FairAtFirst DEF ShareAfterMove
<1> QED
  BY <1>1, <1>2

LEMMA ShareAfterMoveType ==
    ASSUME NEW c, NEW d \in Clock, NEW s \in Nat
    PROVE  ShareAfterMove(c, d, s) \in Nat
BY TimeShareType DEF ShareAfterMove

LEMMA FairIs ==
    FairShareKept <=> (punctual /\ share > TimeSafety => Fair(clock, share))
BY DEF FairShareKept, Fair

LEMMA FairIsNext ==
    FairShareKept' <=> (punctual' /\ share' > TimeSafety => Fair(clock', share'))
BY DEF FairShareKept, Fair

-----------------------------------------------------------------------------
(* The steps.                                                              *)

LEMMA RunningIs ==
    TypeOK => /\ search.running \in BOOLEAN
              /\ search.running => search \in Search
              /\ ~search.running => search = Idle
<1> SUFFICES ASSUME TypeOK PROVE \/ search \in Search /\ search.running = TRUE
                                 \/ search = Idle /\ search.running = FALSE
  OBVIOUS
<1>1. CASE search \in Search
  BY <1>1 DEF Search
<1>2. CASE search = Idle
  BY <1>2 DEF Idle
<1> QED
  BY <1>1, <1>2 DEF TypeOK

LEMMA InitInv == Init => Inv
<1> SUFFICES ASSUME Init PROVE Inv
  OBVIOUS
<1> DEFINE zero == [secsPerMove |-> FALSE, infinite |-> FALSE, time |-> 0,
                    inc |-> 0, movesLeft |-> 0, baseMoves |-> 0, nps |-> 0,
                    depthLimit |-> 0, exactNodes |-> 0]
<1>1. zero \in Clock
  BY DEF Clock
<1>2. clock = SetTimeInc(SetMovesLeft(SetComputerClock(zero, StartClock), StartMoves), 0)
  BY DEF Init
<1>3. StartClock \in Nat /\ StartMoves \in Nat /\ 0 \in Nat
  BY ClockAssumption
<1> HIDE DEF zero
<1>4. clock \in Clock
  BY <1>1, <1>2, <1>3, SettersType
<1>5. share \in Nat /\ Fair(clock, share)
  BY <1>4, TimeShareType, FairAtFirst DEF Init
<1>6. search = Idle /\ ~search.running /\ punctual = TRUE
  BY DEF Init, Idle
<1> QED
  BY <1>4, <1>5, <1>6, FairIs DEF Inv, TypeOK, BudgetExact, LimitIsCurrent

(* The clock is set to c, a search goes on as it is.                       *)
LEMMA SetInv ==
    ASSUME Inv, NEW c \in Clock, Set(c), UNCHANGED search
    PROVE  Inv'
<1>1. clock' = c /\ share' = TimeShare(c) /\ punctual' = ~search.running
  BY DEF Set
<1>2. share' \in Nat /\ Fair(clock', share')
  BY <1>1, TimeShareType, FairAtFirst
<1>3. search.running \in BOOLEAN
  BY RunningIs DEF Inv
<1>4. TypeOK'
  BY <1>1, <1>2, <1>3 DEF Inv, TypeOK
<1>5. BudgetExact'
  BY DEF Inv, BudgetExact
<1>6. LimitIsCurrent'
  BY <1>1 DEF LimitIsCurrent
<1> QED
  BY <1>2, <1>4, <1>5, <1>6, FairIsNext DEF Inv

(* A limit that does not touch the time for a move is set.                 *)
LEMMA LimitInv ==
    ASSUME Inv, NEW c \in Clock, clock' = c,
           c.secsPerMove = clock.secsPerMove, c.time = clock.time,
           c.movesLeft = clock.movesLeft,
           UNCHANGED <<search, share, punctual>>
    PROVE  Inv'
<1>1. GetTimeForMove(clock') = GetTimeForMove(clock)
  BY DEF GetTimeForMove, TimeShare
<1>2. Fair(clock, share) => Fair(clock', share')
  BY DEF Fair
<1> QED
  BY <1>1, <1>2, FairIs, FairIsNext DEF Inv, TypeOK, BudgetExact, LimitIsCurrent

(* A search begins, with the limits of c.                                  *)
LEMMA ThinkIs ==
    ASSUME NEW c \in Clock, NEW cb \in {"computer_move", "search_cb"}, Think(cb, c)
    PROVE  /\ search' \in Search /\ search'.running /\ search'.cb = cb
           /\ search'.limits = Limits(c)
           /\ BudgetExact'
<1>1. Limits(c) \in [time : Nat, nodes : Nat] /\ c.depthLimit \in Nat
  BY LimitsType DEF Clock
<1>2. search' = [running |-> TRUE, cb |-> cb, ended |-> FALSE,
                 limits |-> Limits(c), nodesLeft |-> Limits(c).nodes,
                 depthLimit |-> c.depthLimit, depth |-> 0, nodes |-> 0]
  BY DEF Think
<1>3. search' \in Search
  BY <1>1, <1>2 DEF Search
<1>4. BudgetExact'
  BY <1>1, <1>2 DEF BudgetExact
<1> QED
  BY <1>2, <1>3, <1>4

(* The commands that set the clock, or a limit.                            *)
LEMMA SettersInv ==
    ASSUME Inv,
           \/ \E l \in Levels : CmdLevel(l)
           \/ \E t \in Clocks : CmdTime(t)
           \/ \E n \in SecsPerMove : CmdSt(n)
           \/ CmdSti
           \/ \E n \in NodeCounts : CmdNodes(n)
           \/ \E n \in DepthLimits : CmdSd(n)
           \/ \E n \in NpsRates : CmdNps(n)
    PROVE  Inv'
<1>1. clock \in Clock
  BY DEF Inv, TypeOK
<1>2. ASSUME NEW l \in Levels, CmdLevel(l) PROVE Inv'
  <2>1. l[1] \in Nat /\ 100 * l[2] \in Nat /\ 100 * l[3] \in Nat
    <3>1. l \in Nat \X Nat \X Nat
      BY ClockAssumption
    <3> QED
      BY <3>1
  <2>2. SetTimeInc(SetComputerClock(SetMovesLeft(clock, l[1]), 100 * l[2]), 100 * l[3])
          \in Clock
    BY <1>1, <2>1, SettersType
  <2> QED
    BY <1>2, <2>2, SetInv DEF CmdLevel
<1>3. ASSUME NEW t \in Clocks, CmdTime(t) PROVE Inv'
  <2>1. SetComputerClock(clock, t) \in Clock
    BY <1>1, ClockAssumption, SettersType
  <2> QED
    BY <1>3, <2>1, SetInv DEF CmdTime
<1>4. ASSUME NEW n \in SecsPerMove, CmdSt(n) PROVE Inv'
  <2>1. SetSecsPerMove(clock, n) \in Clock
    BY <1>1, ClockAssumption, SettersType
  <2> QED
    BY <1>4, <2>1, SetInv DEF CmdSt
<1>5. ASSUME CmdSti PROVE Inv'
  <2>1. SetTimeInfinite(clock) \in Clock
    BY <1>1, SettersType
  <2> QED
    BY <1>5, <2>1, SetInv DEF CmdSti
<1>6. ASSUME NEW n \in NodeCounts, CmdNodes(n) PROVE Inv'
  <2>1. SetExactNodeCount(clock, n) \in Clock
    BY <1>1, ClockAssumption, SettersType
  <2> QED
    BY <1>6, <2>1, SetInv DEF CmdNodes
<1>7. ASSUME NEW n \in DepthLimits, CmdSd(n) PROVE Inv'
  <2> DEFINE c == [clock EXCEPT !.depthLimit = n]
  <2>1. c \in Clock
    BY <1>1, ClockAssumption, SettersType
  <2>2. c.secsPerMove = clock.secsPerMove /\ c.time = clock.time
        /\ c.movesLeft = clock.movesLeft
    BY <1>1 DEF Clock
  <2> HIDE DEF c
  <2>3. clock' = c /\ UNCHANGED <<search, share, punctual>>
    BY <1>7 DEF CmdSd, c
  <2> QED
    BY <2>1, <2>2, <2>3, LimitInv
<1>8. ASSUME NEW n \in NpsRates, CmdNps(n) PROVE Inv'
  <2> DEFINE c == [clock EXCEPT !.nps = n]
  <2>1. c \in Clock
    BY <1>1, ClockAssumption, SettersType
  <2>2. c.secsPerMove = clock.secsPerMove /\ c.time = clock.time
        /\ c.movesLeft = clock.movesLeft
    BY <1>1 DEF Clock
  <2> HIDE DEF c
  <2>3. clock' = c /\ UNCHANGED <<search, share, punctual>>
    BY <1>8 DEF CmdNps, c
  <2> QED
    BY <2>1, <2>2, <2>3, LimitInv
<1> QED
  BY <1>2, <1>3, <1>4, <1>5, <1>6, <1>7, <1>8

(* decide_move, from a clock c whose share is fair.                        *)
LEMMA DecideMoveInv ==
    ASSUME Inv, ~search.running, NEW c \in Clock, NEW fair \in Nat,
           DecideMove(c, fair), punctual' \in BOOLEAN,
           punctual' /\ fair > TimeSafety => Fair(c, fair)
    PROVE  Inv'
<1>1. CASE clock' = c /\ share' = fair /\ UNCHANGED search
  BY <1>1, FairIsNext DEF Inv, TypeOK, BudgetExact, LimitIsCurrent
<1>2. CASE /\ clock' = MoveCountInc(c) /\ share' = ShareAfterMove(c, clock', fair)
           /\ UNCHANGED search
  <2>1. /\ clock' \in Clock /\ clock'.time = c.time - 0
        /\ clock'.secsPerMove = c.secsPerMove
        /\ c.movesLeft > 1 /\ ~c.secsPerMove => clock'.movesLeft = c.movesLeft - 1
    BY <1>2, MoveCountIncIs, ClockFields
  <2>2. 0 \in Nat /\ 0 <= TimeShare(c)
    BY TimeShareType
  <2>3. Fair(c, fair) => Fair(clock', share')
    BY <1>2, <2>1, <2>2, FairAfterMove
  <2>4. c.movesLeft > 1 \/ Fair(clock', share')
    BY <1>2, <2>1, FairAtFirst DEF ShareAfterMove
  <2>5. c.movesLeft > 1 => share' = fair
    BY <1>2 DEF ShareAfterMove
  <2>6. FairShareKept'
    BY <2>3, <2>4, <2>5, FairIsNext
  <2>7. share' \in Nat
    BY <1>2, <2>1, ShareAfterMoveType
  <2> QED
    BY <1>2, <2>1, <2>6, <2>7 DEF Inv, TypeOK, BudgetExact, LimitIsCurrent
<1>3. CASE clock' = c /\ share' = fair /\ Think("computer_move", c)
  <2>1. search' \in Search /\ BudgetExact' /\ search'.limits = Limits(c)
    BY <1>3, ThinkIs
  <2>2. LimitIsCurrent'
    BY <1>3, <2>1, LimitsType DEF LimitIsCurrent
  <2> QED
    BY <1>3, <2>1, <2>2, FairIsNext DEF Inv, TypeOK
<1> QED
  BY <1>1, <1>2, <1>3 DEF DecideMove

(* The commands that begin and end a search.                               *)
LEMMA SearchCommandsInv ==
    ASSUME Inv, (\E o \in GoOptions : CmdGo(o)) \/ CmdSearch \/ CmdNew
    PROVE  Inv'
<1>1. ASSUME NEW o \in GoOptions, CmdGo(o) PROVE Inv'
  <2> DEFINE c == GoOptionsSet(clock, o)
             fair == IF o = << >> THEN share ELSE TimeShare(c)
  <2>1. c \in Clock
    BY ClockAssumption, GoOptionsSetType DEF Inv, TypeOK, Option
  <2>2. fair \in Nat
    BY <2>1, TimeShareType DEF Inv, TypeOK
  <2>3. ~search.running /\ DecideMove(c, fair) /\ punctual' = (punctual \/ o # << >>)
    BY <1>1 DEF CmdGo
  <2>4. CASE o = << >>
    <3>1. c = clock
      BY <2>4, GoWithoutOptions DEF Inv, TypeOK
    <3> QED
      BY <2>1, <2>2, <2>3, <2>4, <3>1, FairIs, DecideMoveInv DEF Inv, TypeOK
  <2>5. CASE o # << >>
    <3>1. Fair(c, fair)
      BY <2>1, <2>5, FairAtFirst
    <3> QED
      BY <2>1, <2>2, <2>3, <2>5, <3>1, DecideMoveInv
  <2> QED
    BY <2>4, <2>5
<1>2. ASSUME CmdSearch PROVE Inv'
  <2>1. /\ Think("search_cb", clock)
        /\ UNCHANGED <<clock, share, punctual>>
    BY <1>2 DEF CmdSearch
  <2>2. search' \in Search /\ BudgetExact' /\ search'.cb = "search_cb"
    BY <2>1, ThinkIs DEF Inv, TypeOK
  <2>3. FairShareKept'
    BY <2>1 DEF Inv, FairShareKept
  <2> QED
    BY <2>1, <2>2, <2>3 DEF Inv, TypeOK, LimitIsCurrent
<1>3. ASSUME CmdNew PROVE Inv'
  <2> DEFINE c == [clock EXCEPT !.depthLimit = 0]
  <2>1. c \in Clock /\ c.secsPerMove = clock.secsPerMove /\ c.time = clock.time
        /\ c.movesLeft = clock.movesLeft
    BY DEF Inv, TypeOK, Clock
  <2> HIDE DEF c
  <2>2. clock' = c /\ search' = Idle /\ ~search'.running /\ UNCHANGED <<share, punctual>>
    BY <1>3 DEF CmdNew, c, Idle
  <2>3. FairShareKept'
    BY <2>1, <2>2 DEF Inv, FairShareKept
  <2> QED
    BY <2>1, <2>2, <2>3 DEF Inv, TypeOK, BudgetExact, LimitIsCurrent
<1> QED
  BY <1>1, <1>2, <1>3

LEMMA EndedType ==
    ASSUME NEW s \in Search
    PROVE  Ended(s) \in BOOLEAN
<1>1. (s.depth >= MaxPly) \in BOOLEAN /\ (s.depth > s.depthLimit) \in BOOLEAN
  OBVIOUS
<1> QED
  BY <1>1 DEF Ended

(* A search goes on, or ends, under the limits it has.                     *)
LEMMA SearchGoesOn ==
    ASSUME Inv, search.running, search' \in Search,
           search'.cb = search.cb, search'.limits = search.limits, BudgetExact',
           UNCHANGED <<clock, share, punctual>>
    PROVE  Inv'
<1>1. GetTimeForMove(clock') = GetTimeForMove(clock)
  BY DEF GetTimeForMove, TimeShare
<1> QED
  BY <1>1 DEF Inv, TypeOK, LimitIsCurrent, FairShareKept

(* The depths of a search: none takes more nodes than are left.            *)
LEMMA DepthsInv ==
    ASSUME Inv,
           \/ \E d \in 1..MaxPly : SetupSearch(d)
           \/ \E n \in DepthNodes : \/ \E mate \in BOOLEAN : DepthCompleted(n, mate)
                                    \/ DepthTerminated(n)
    PROVE  Inv'
<1>1. search.running => search \in Search
  BY RunningIs DEF Inv
<1>2. ASSUME NEW d \in 1..MaxPly, SetupSearch(d) PROVE Inv'
  <2> DEFINE e == Ended([search EXCEPT !.depth = d])
  <2>1. search.running /\ search.depth = 0 /\ UNCHANGED <<clock, share, punctual>>
    BY <1>2 DEF SetupSearch
  <2>2. search \in Search
    BY <1>1, <2>1
  <2>3. e \in BOOLEAN /\ d \in Nat
    <3>1. d \in Nat
      BY ClockAssumption
    <3>2. [search EXCEPT !.depth = d] \in Search
      BY <2>2, <3>1 DEF Search
    <3> QED
      BY <3>1, <3>2, EndedType
  <2> HIDE DEF e
  <2>4. search' = [search EXCEPT !.depth = d, !.ended = e]
    BY <1>2 DEF SetupSearch, e
  <2>5. /\ search' \in Search /\ search'.cb = search.cb /\ search'.limits = search.limits
        /\ search'.nodes = search.nodes /\ search'.nodesLeft = search.nodesLeft
    BY <2>1, <2>2, <2>3, <2>4 DEF Search
  <2>6. BudgetExact'
    BY <2>1, <2>5 DEF Inv, BudgetExact
  <2> QED
    BY <2>1, <2>5, <2>6, SearchGoesOn
<1>3. ASSUME NEW n \in DepthNodes, NEW mate \in BOOLEAN, DepthCompleted(n, mate) PROVE Inv'
  <2> DEFINE next == [search EXCEPT !.nodes = @ + n, !.depth = @ + 1,
                                    !.nodesLeft = NodesLeft(search, n)]
             e == mate \/ Ended(next)
  <2>1. /\ n \in Nat \ {0} /\ search.running /\ search.depth > 0 /\ ~search.ended
        /\ search.nodesLeft = 0 \/ n < search.nodesLeft
        /\ UNCHANGED <<clock, share, punctual>>
    BY <1>3, ClockAssumption DEF DepthCompleted, Searching
  <2>2. search \in Search
    BY <1>1, <2>1
  <2>3. NodesLeft(search, n) \in Nat
    BY <2>1, <2>2 DEF NodesLeft, Search
  <2>4. next \in Search
    <3>1. search.nodes + n \in Nat /\ search.depth + 1 \in Nat
      BY <2>1, <2>2 DEF Search
    <3> QED
      BY <2>2, <2>3, <3>1 DEF Search
  <2>5. e \in BOOLEAN
    BY <2>4, EndedType
  <2>6. /\ next.cb = search.cb /\ next.limits = search.limits
        /\ next.nodes = search.nodes + n
        /\ next.nodesLeft = NodesLeft(search, n)
    BY <2>2 DEF Search
  <2> HIDE DEF next
  <2>7. search' = [next EXCEPT !.ended = e]
    BY <1>3 DEF DepthCompleted, next
  <2> HIDE DEF e
  <2>8. /\ search' \in Search /\ search'.cb = search.cb /\ search'.limits = search.limits
        /\ search'.nodes = search.nodes + n
        /\ search'.nodesLeft = NodesLeft(search, n)
    BY <2>4, <2>5, <2>6, <2>7 DEF Search
  <2>9. BudgetExact'
    <3> SUFFICES ASSUME search.limits.nodes > 0
                 PROVE  /\ search'.nodes <= search.limits.nodes
                        /\ search'.nodesLeft > 0
                        /\ search'.nodes + search'.nodesLeft = search.limits.nodes
      BY <2>8 DEF BudgetExact
    <3>1. search.nodesLeft > 0 /\ search.nodes + search.nodesLeft = search.limits.nodes
      BY <2>1 DEF Inv, BudgetExact
    <3>2. NodesLeft(search, n) = search.nodesLeft - n /\ n < search.nodesLeft
      BY <2>1, <3>1 DEF NodesLeft
    <3>3. search.nodes \in Nat /\ search.nodesLeft \in Nat /\ search.limits.nodes \in Nat
      BY <2>2 DEF Search
    <3> QED
      BY <2>1, <2>8, <3>1, <3>2, <3>3
  <2> QED
    BY <2>1, <2>8, <2>9, SearchGoesOn
<1>4. ASSUME NEW n \in DepthNodes, DepthTerminated(n) PROVE Inv'
  <2>1. /\ n \in Nat \ {0} /\ search.running /\ search.depth > 0 /\ ~search.ended
        /\ search.nodesLeft = 0 \/ n <= search.nodesLeft
        /\ UNCHANGED <<clock, share, punctual>>
        /\ search' = [search EXCEPT !.nodes = @ + n, !.ended = TRUE]
    BY <1>4, ClockAssumption DEF DepthTerminated, Searching
  <2>2. search \in Search
    BY <1>1, <2>1
  <2>3. /\ search' \in Search /\ search'.cb = search.cb /\ search'.limits = search.limits
        /\ search'.nodes = search.nodes + n /\ search'.ended = TRUE
        /\ search'.depth = search.depth
    <3>1. search.nodes + n \in Nat
      BY <2>1, <2>2 DEF Search
    <3> QED
      BY <2>1, <2>2, <3>1 DEF Search
  <2>4. BudgetExact'
    <3> SUFFICES ASSUME search.limits.nodes > 0
                 PROVE  search'.nodes <= search.limits.nodes
      BY <2>1, <2>2, <2>3 DEF BudgetExact, Search
    <3>1. search.nodesLeft > 0 /\ search.nodes + search.nodesLeft = search.limits.nodes
      BY <2>1 DEF Inv, BudgetExact
    <3>2. search.nodes \in Nat /\ search.nodesLeft \in Nat
      BY <2>2 DEF Search
    <3> QED
      BY <2>1, <2>3, <3>1, <3>2
  <2> QED
    BY <2>1, <2>3, <2>4, SearchGoesOn
<1> QED
  BY <1>2, <1>3, <1>4

(* thinking_done charges the clock for the time that was spent.            *)
LEMMA ThinkingDoneInv ==
    ASSUME Inv, NEW valid \in BOOLEAN, NEW t \in TimeSpent, ThinkingDone(valid, t)
    PROVE  Inv'
<1> DEFINE counted == IF search.cb = "computer_move" THEN MoveCountInc(clock) ELSE clock
           charged == IF clock.secsPerMove \/ clock.infinite THEN counted
                      ELSE [counted EXCEPT !.time = Max({@ - t, 0})]
<1>1. /\ search.running /\ search' = Idle /\ ~search'.running
      /\ clock' = IF valid THEN charged ELSE clock
      /\ punctual' = /\ punctual
                     /\ search.cb = "computer_move" \/ t = 0
                     /\ search.limits.time > 0 \/ t = 0
                     /\ t <= search.limits.time + TimeSafety
      /\ share' = IF valid /\ search.cb = "computer_move"
                  THEN ShareAfterMove(clock, clock', share) ELSE share
  BY DEF ThinkingDone, Idle
<1>2. clock \in Clock /\ search \in Search /\ share \in Nat /\ punctual \in BOOLEAN
  BY <1>1, RunningIs DEF Inv, TypeOK
<1>3. t \in Nat /\ TimeSafety \in Nat
  <2>1. search.limits.time \in Nat
    BY <1>2 DEF Search
  <2> QED
    BY <1>1, <2>1, ClockAssumption DEF TimeSpent
<1>4. /\ counted \in Clock /\ counted.time = clock.time
      /\ counted.secsPerMove = clock.secsPerMove
      /\ search.cb = "computer_move" /\ clock.movesLeft > 1 /\ ~clock.secsPerMove
            => counted.movesLeft = clock.movesLeft - 1
  BY <1>2, MoveCountIncIs
<1> HIDE DEF counted
<1>5. /\ charged \in Clock /\ charged.secsPerMove = clock.secsPerMove
      /\ charged.movesLeft = counted.movesLeft
      /\ \/ charged.time = clock.time
         \/ /\ ~clock.secsPerMove /\ ~clock.infinite
            /\ charged.time = Max({clock.time - t, 0})
  <2>1. clock.time \in Nat /\ clock.time - t \in Int
    BY <1>2, <1>3, ClockFields
  <2>2. Max({clock.time - t, 0}) \in Nat
    BY <2>1, MaxOfTwo
  <2> QED
    BY <1>4, <2>2 DEF Clock
<1> HIDE DEF charged
<1>6. clock' \in Clock /\ share' \in Nat
  BY <1>1, <1>2, <1>5, ShareAfterMoveType
<1>7. TypeOK' /\ BudgetExact' /\ LimitIsCurrent'
  BY <1>1, <1>6 DEF TypeOK, BudgetExact, LimitIsCurrent
<1>8. ASSUME punctual', share' > TimeSafety PROVE Fair(clock', share')
  <2>1. punctual /\ (search.cb = "computer_move" \/ t = 0)
        /\ (search.limits.time > 0 \/ t = 0) /\ t <= search.limits.time + TimeSafety
    BY <1>1, <1>8
  <2>2. clock.time \in Nat /\ clock.movesLeft \in Nat
    BY <1>2, ClockFields
  <2>3. CASE ~valid
    BY <1>1, <1>8, <2>1, <2>3, FairIs DEF Inv
  <2>4. CASE valid /\ search.cb # "computer_move"
    <3>1. t = 0 /\ clock' = charged /\ share' = share
      BY <1>1, <2>1, <2>4
    <3>2. Max({clock.time - 0, 0}) = clock.time
      BY <2>2, MaxOfTwo
    <3>3. clock'.time = clock.time /\ clock'.secsPerMove = clock.secsPerMove
          /\ clock'.movesLeft = clock.movesLeft
      BY <1>5, <2>4, <3>1, <3>2 DEF counted
    <3>4. Fair(clock, share)
      BY <1>8, <2>1, <3>1, FairIs DEF Inv
    <3> QED
      BY <3>1, <3>3, <3>4 DEF Fair
  <2>5. CASE valid /\ search.cb = "computer_move" /\ ~(clock.movesLeft > 1)
    BY <1>1, <1>6, <2>5, FairAtFirst DEF ShareAfterMove
  <2>6. CASE valid /\ search.cb = "computer_move" /\ clock.movesLeft > 1
    <3>1. clock' = charged /\ share' = share /\ share' = ShareAfterMove(clock, clock', share)
      BY <1>1, <2>6 DEF ShareAfterMove
    <3>2. Fair(clock, share)
      BY <1>8, <2>1, <3>1, FairIs DEF Inv
    <3>3. CASE clock.secsPerMove
      BY <1>5, <3>1, <3>3 DEF Fair
    <3>4. CASE ~clock.secsPerMove
      <4>1. share * clock.movesLeft <= clock.time
        BY <2>6, <3>2, <3>4, <2>2 DEF Fair
      <4>2. TimeShare(clock) = clock.time \div clock.movesLeft
        BY <2>2, <2>6, <3>4 DEF TimeShare
      <4>3. TimeShare(clock) \in Nat /\ share <= TimeShare(clock)
        BY <1>2, <2>2, <2>6, <4>1, <4>2, ShareLeft, TimeShareType
      <4>4. TimeShare(clock) > TimeSafety
        <5>1. share > TimeSafety
          BY <1>8, <3>1
        <5> QED
          BY <1>2, <1>3, <4>3, <5>1
      <4>5. t <= TimeShare(clock)
        <5>1. CASE t = 0
          BY <4>3, <5>1
        <5>2. CASE t # 0
          <6>1. search.limits.time = GetTimeForMove(clock)
            BY <1>1, <2>1, <2>6, <5>2 DEF Inv, LimitIsCurrent
          <6>2. GetTimeForMove(clock) = TimeShare(clock) - TimeSafety
            BY <1>2, <4>4, GetTimeForMoveIs
          <6> QED
            BY <1>3, <2>1, <4>3, <6>1, <6>2
        <5> QED
          BY <5>1, <5>2
      <4>6. clock.time - t \in Nat
        BY <1>2, <1>3, <2>2, <2>6, <4>1, <4>2, <4>5, ShareLeft
      <4>7. Max({clock.time - t, 0}) = clock.time - t
        BY <4>6, MaxOfTwo
      <4>8. \E u \in Nat : clock'.time = clock.time - u /\ u <= TimeShare(clock)
        <5>1. CASE charged.time = clock.time
          <6>1. clock'.time = clock.time
            BY <3>1, <5>1
          <6>2. 0 \in Nat /\ clock'.time = clock.time - 0 /\ 0 <= TimeShare(clock)
            BY <2>2, <4>3, <6>1
          <6> QED
            BY <6>2
        <5>2. CASE charged.time # clock.time
          BY <1>3, <1>5, <3>1, <4>5, <4>7, <5>2
        <5> QED
          BY <5>1, <5>2
      <4>9. clock'.secsPerMove = clock.secsPerMove /\ clock'.movesLeft = clock.movesLeft - 1
        BY <1>4, <1>5, <2>6, <3>1, <3>4
      <4> QED
        BY <1>2, <1>6, <3>1, <3>2, <4>8, <4>9, FairAfterMove
    <3> QED
      BY <3>3, <3>4
  <2> QED
    BY <2>3, <2>4, <2>5, <2>6
<1> QED
  BY <1>7, <1>8, FairIsNext DEF Inv

-----------------------------------------------------------------------------
(* The theorems.                                                           *)

LEMMA NextInv == Inv /\ [Next]_vars => Inv'
<1> SUFFICES ASSUME Inv, [Next]_vars PROVE Inv'
  OBVIOUS
<1>1. CASE Command
  BY <1>1, SettersInv, SearchCommandsInv DEF Command
<1>2. CASE SearchStep
  BY <1>2, DepthsInv, ThinkingDoneInv DEF SearchStep
<1>3. CASE UNCHANGED vars
  BY <1>3 DEF vars, Inv, TypeOK, BudgetExact, LimitIsCurrent, FairShareKept,
              GetTimeForMove, TimeShare
<1> QED
  BY <1>1, <1>2, <1>3 DEF Next

(* What the engine's clock functions keep: types, a node budget that adds  *)
(* up from depth to depth, a time limit that is still what                 *)
(* get_time_for_move would give, and a fair share.                         *)
THEOREM ClockInvariant == Spec => []Inv
<1> QED
  BY InitInv, NextInv, PTL DEF Spec

(* Every command and every step of a search leaves a clock, and a search   *)
(* with limits or none.                                                    *)
THEOREM TypeCorrect == Spec => []TypeOK
<1>1. Inv => TypeOK
  BY DEF Inv
<1> QED
  BY <1>1, ClockInvariant, PTL

(* iterative_deepening hands each depth what the others left of the nodes: *)
(* together they never take more than the limit think set.                 *)
THEOREM NodeBudgetIsKept == Spec => []NodeBudgetKept
<1>1. Inv => NodeBudgetKept
  BY DEF Inv, BudgetExact, NodeBudgetKept
<1> QED
  BY <1>1, ClockInvariant, PTL

(* With any time control, get_time_for_move and thinking_done leave each   *)
(* of the moves to the time control its share of the clock, as long as no  *)
(* search is later than time_safety.                                       *)
THEOREM FairShareIsKept == Spec => []FairShareKept
<1>1. Inv => FairShareKept
  BY DEF Inv
<1> QED
  BY <1>1, ClockInvariant, PTL

(* think never starts a search without a limit, unless it was asked for    *)
(* one, or the nodes per second are below 100.                             *)
THEOREM SearchesAreLimited == Spec => SearchIsLimited
<1> DEFINE A == \/ search.running \/ ~search'.running \/ clock'.infinite
                \/ clock'.nps \in 1..99
                \/ search'.limits.time > 0 \/ search'.limits.nodes > 0
<1>1. ASSUME TypeOK, ~search.running, NEW c \in Clock, NEW cb, Think(cb, c), clock' = c
      PROVE  A
  <2>1. search'.limits = Limits(c)
    BY <1>1 DEF Think
  <2> QED
    BY <1>1, <2>1, LimitsType
<1>2. ASSUME UNCHANGED search
      PROVE  A
  BY <1>2
<1>3. ASSUME search' = Idle
      PROVE  A
  BY <1>3 DEF Idle
<1>4. ASSUME TypeOK, NEW o \in GoOptions, CmdGo(o)
      PROVE  A
  <2> DEFINE c == GoOptionsSet(clock, o)
  <2>1. c \in Clock
    BY <1>4, ClockAssumption, GoOptionsSetType DEF TypeOK, Option
  <2>2. UNCHANGED search \/ (clock' = c /\ Think("computer_move", c) /\ ~search.running)
    BY <1>4 DEF CmdGo, DecideMove
  <2> QED
    BY <1>1, <1>2, <1>4, <2>1, <2>2
<1>5. ASSUME TypeOK, CmdSearch
      PROVE  A
  BY <1>1, <1>5 DEF CmdSearch, TypeOK
<1>6. TypeOK /\ [Next]_vars => A
  <2> SUFFICES ASSUME TypeOK, [Next]_vars PROVE A
    OBVIOUS
  <2>1. CASE Command
    <3>1. \/ UNCHANGED search \/ (\E o \in GoOptions : CmdGo(o)) \/ CmdSearch
          \/ search' = Idle
      BY <2>1 DEF Command, CmdLevel, CmdTime, CmdSt, CmdSti, CmdNodes, CmdSd, CmdNps,
                  CmdNew
    <3> QED
      BY <1>2, <1>3, <1>4, <1>5, <3>1
  <2>2. CASE SearchStep
    BY <2>2 DEF SearchStep, SetupSearch, DepthCompleted, DepthTerminated, Searching,
                ThinkingDone
  <2>3. CASE UNCHANGED vars
    BY <1>2, <2>3 DEF vars
  <2> QED
    BY <2>1, <2>2, <2>3 DEF Next
<1>7. A => [A]_vars
  OBVIOUS
<1> QED
  BY <1>6, TypeCorrect, PTL DEF Spec, SearchIsLimited

=============================================================================
