----------------------- MODULE EngineThreads_proofs -----------------------
(***************************************************************************)
(* Theorems of EngineThreads, for every game tree, every set of commands   *)
(* and every bound.                                                        *)
(***************************************************************************)
EXTENDS EngineThreads, GameLine_proofs

-----------------------------------------------------------------------------
(* The steps of the handlers are steps.                                    *)

LEMMA CallType ==
    ASSUME NEW k \in Nat
    PROVE  \A o \in Op \ {"process_move"} : Call(o) \in StepUpTo(k)
BY DEF Call, StepUpTo, Step, NoMutex, Callback

LEMMA CallMoveType ==
    ASSUME NEW k \in Nat
    PROVE  \A o \in Op, m \in Move \cup {NoMove} :
              (o = "process_move" => m \in Move) => CallMove(o, m) \in StepUpTo(k)
BY DEF CallMove, Call, StepUpTo, Step, NoMutex, Callback

LEMMA CallCbType ==
    ASSUME NEW k \in Nat
    PROVE  \A o \in Op \ {"process_move"}, f \in Callback :
              CallCb(o, f, k) \in StepUpTo(k)
<1> TAKE o \in Op \ {"process_move"}, f \in Callback
<1>1. CallCb(o, f, k) = [op |-> o, mx |-> NoMutex, mv |-> NoMove, key |-> k,
                         cb |-> f]
  BY DEF CallCb
<1>2. k <= k
  OBVIOUS
<1> QED
  BY <1>1, <1>2 DEF StepUpTo, Step

LEMMA LockType ==
    ASSUME NEW k \in Nat
    PROVE  \A mx \in Mutex : Lock(mx) \in StepUpTo(k) /\ Unlock(mx) \in StepUpTo(k)
BY DEF Lock, Unlock, Call, StepUpTo, Step, Callback, Op, LockOp, NoMutex

LEMMA LockedType ==
    ASSUME NEW k \in Nat, NEW mx \in Mutex, NEW body \in Seq(StepUpTo(k))
    PROVE  Locked(mx, body) \in Seq(StepUpTo(k))
<1>1. <<Lock(mx)>> \in Seq(StepUpTo(k)) /\ <<Unlock(mx)>> \in Seq(StepUpTo(k))
  BY LockType
<1> QED
  BY <1>1 DEF Locked

LEMMA ConcatType ==
    ASSUME NEW k, NEW a \in Seq(StepUpTo(k)), NEW b \in Seq(StepUpTo(k))
    PROVE  a \o b \in Seq(StepUpTo(k))
OBVIOUS

LEMMA EmptyBody == \A k : << >> \in Seq(StepUpTo(k))
OBVIOUS

(* The bodies that do not depend on an argument.                           *)
LEMMA BodyTypes ==
    ASSUME NEW k \in Nat
    PROVE
    /\ StopThinking \in Seq(StepUpTo(k))
    /\ WaitThinking \in Seq(StepUpTo(k))
    /\ Think \in Seq(StepUpTo(k))
    /\ ResetEngine \in Seq(StepUpTo(k))
    /\ DecideMove \in Seq(StepUpTo(k))
    /\ ThinkingDone \in Seq(StepUpTo(k))
    /\ IterativeDeepening \in Seq(StepUpTo(k))
    /\ ComputerMove \in Seq(StepUpTo(k))
    /\ SearchCb \in Seq(StepUpTo(k))
    /\ SetTimeInc \in Seq(StepUpTo(k))
    /\ LockedSetter \in Seq(StepUpTo(k))
<1> USE EmptyBody
<1> "engine" \in Mutex /\ "game" \in Mutex
  BY DEF Mutex
<1>1. \A o \in {"stop_signal", "wait_signal", "spawn", "reset_history", "decide",
                "thinking_cb", "setup_search", "answer", "report"} : Call(o) \in StepUpTo(k)
  BY CallType DEF Op, JoinOp, EngineOp, GameOp, SearchOp
<1>2. StopThinking \in Seq(StepUpTo(k)) /\ WaitThinking \in Seq(StepUpTo(k))
  BY <1>1, LockType DEF StopThinking, WaitThinking
<1>3. Think \in Seq(StepUpTo(k))
  <2>1. StopThinking \o <<Call("spawn")>> \in Seq(StepUpTo(k))
    BY <1>1, <1>2
  <2> QED
    BY <2>1, LockedType DEF Think
<1>4. ResetEngine \in Seq(StepUpTo(k))
  <2>1. StopThinking \o <<Call("reset_history")>> \in Seq(StepUpTo(k))
    BY <1>1, <1>2
  <2> QED
    BY <2>1, LockedType DEF ResetEngine
<1>5. \A o \in {"decide", "answer", "report", "thinking_cb"}, mx \in Mutex :
         Locked(mx, <<Call(o)>>) \in Seq(StepUpTo(k))
  <2>1. TAKE o \in {"decide", "answer", "report", "thinking_cb"}, mx \in Mutex
  <2>2. <<Call(o)>> \in Seq(StepUpTo(k))
    BY <1>1
  <2> QED
    BY <2>2, LockedType
<1>6. ThinkingDone \in Seq(StepUpTo(k))
  <2>1. <<Unlock("engine")>> \in Seq(StepUpTo(k))
    BY LockType
  <2>2. Locked("engine", <<Call("thinking_cb")>>) \in Seq(StepUpTo(k))
    BY <1>5
  <2> QED
    BY <2>1, <2>2, ConcatType DEF ThinkingDone
<1>7. IterativeDeepening \in Seq(StepUpTo(k))
  BY <1>1, LockType DEF IterativeDeepening
<1> QED
  BY <1>2, <1>3, <1>4, <1>5, <1>6, <1>7, LockedType
     DEF DecideMove, ComputerMove, SearchCb, SetTimeInc, LockedSetter

(* The bodies with a move or a key.                                        *)
LEMMA MoveBodyTypes ==
    ASSUME NEW k \in Nat, NEW m \in Move \cup {NoMove}
    PROVE  /\ m \in Move => EngineProcessMove(m) \in Seq(StepUpTo(k))
           /\ AddMove(m) \in Seq(StepUpTo(k))
           /\ PrintComputerMove(m) \in Seq(StepUpTo(k))
           /\ OperatorMove(m) \in Seq(StepUpTo(k))
           /\ PrintCurrentResult(m) \in Seq(StepUpTo(k))
           /\ AnswerAtOnce(m) \in Seq(StepUpTo(k))
<1> USE EmptyBody
<1> "engine" \in Mutex /\ "game" \in Mutex /\ "stdout" \in Mutex
  BY DEF Mutex
<1>1. \A o \in {"append", "announce", "print_pv"} :
         <<CallMove(o, m)>> \in Seq(StepUpTo(k))
  <2>1. TAKE o \in {"append", "announce", "print_pv"}
  <2>2. o \in Op
    BY DEF Op, GameOp, SearchOp
  <2>3. CallMove(o, m) \in StepUpTo(k)
    BY <2>2, CallMoveType
  <2> QED
    BY <2>3
<1>2. \A o \in {"append", "announce", "print_pv"}, mx \in Mutex :
         Locked(mx, <<CallMove(o, m)>>) \in Seq(StepUpTo(k))
  BY <1>1, LockedType
<1>3. Locked("game", << >>) \in Seq(StepUpTo(k))
  BY LockedType
<1>4. AddMove(m) \in Seq(StepUpTo(k)) /\ PrintComputerMove(m) \in Seq(StepUpTo(k))
  <2>1. /\ Locked("game", <<CallMove("append", m)>>) \in Seq(StepUpTo(k))
        /\ Locked("stdout", <<CallMove("announce", m)>>) \in Seq(StepUpTo(k))
    BY <1>2
  <2> QED
    BY <1>3, <2>1, ConcatType DEF AddMove, PrintComputerMove
<1>5. OperatorMove(m) \in Seq(StepUpTo(k))
  <2>1. <<Call("start_game")>> \in Seq(StepUpTo(k))
    BY CallType DEF Op, GameOp
  <2>2. <<Call("start_game")>> \o AddMove(m) \o DecideMove \in Seq(StepUpTo(k))
    BY <1>4, <2>1, BodyTypes, ConcatType
  <2>3. Locked("game", <<Call("start_game")>> \o AddMove(m) \o DecideMove)
            \in Seq(StepUpTo(k))
    BY <2>2, LockedType
  <2> QED
    BY <2>3, BodyTypes, ConcatType DEF OperatorMove
<1>6. PrintCurrentResult(m) \in Seq(StepUpTo(k))
  BY <1>2, LockedType DEF PrintCurrentResult
<1>7. AnswerAtOnce(m) \in Seq(StepUpTo(k))
  BY <1>4, ConcatType DEF AnswerAtOnce
<1>8. m \in Move => EngineProcessMove(m) \in Seq(StepUpTo(k))
  <2>1. SUFFICES ASSUME m \in Move
                 PROVE  EngineProcessMove(m) \in Seq(StepUpTo(k))
    OBVIOUS
  <2>2. CallMove("process_move", m) \in StepUpTo(k)
    BY <2>1, CallMoveType DEF Op, GameOp
  <2>3. <<CallMove("process_move", m)>> \in Seq(StepUpTo(k))
    BY <2>2
  <2> QED
    BY <2>3, LockedType DEF EngineProcessMove
<1> QED
  BY <1>4, <1>5, <1>6, <1>7, <1>8

LEMMA SetCbType ==
    ASSUME NEW f \in Callback, NEW k \in Nat
    PROVE  SetThinkingDoneCb(f, k) \in Seq(StepUpTo(k))
<1>1. <<CallCb("set_cb", f, k)>> \in Seq(StepUpTo(k))
  BY CallCbType DEF Op, EngineOp
<1> QED
  BY <1>1, LockedType DEF SetThinkingDoneCb, Mutex

LEMMA PlainBodyType ==
    ASSUME NEW k \in Nat, NEW c \in PlainCommand
    PROVE  PlainBody[c] \in Seq(StepUpTo(k))
<1> USE EmptyBody
<1> "engine" \in Mutex /\ "game" \in Mutex /\ "stdout" \in Mutex
  BY DEF Mutex
<1>1. \A o \in {"set_show", "set_no_show"} : <<Call(o)>> \in Seq(StepUpTo(k))
  BY CallType DEF Op, EngineOp
<1>2. \A mx \in Mutex : Locked(mx, << >>) \in Seq(StepUpTo(k))
  BY LockedType
<1>3. \A mx \in Mutex : Locked(mx, LockedSetter) \in Seq(StepUpTo(k))
  BY LockedType, BodyTypes
<1>4. Locked("stdout", Locked("game", << >>)) \in Seq(StepUpTo(k))
  BY <1>2, LockedType
<1>5. \A o \in {"set_show", "set_no_show"} :
          Locked("engine", <<Call(o)>>) \in Seq(StepUpTo(k))
  BY <1>1, LockedType
<1>6. /\ LockedSetter \o LockedSetter \o SetTimeInc \in Seq(StepUpTo(k))
      /\ Locked("game", << >>) \o Locked("stdout", << >>) \in Seq(StepUpTo(k))
  BY <1>2, BodyTypes
<1>7. /\ PlainBody["stop"] \in Seq(StepUpTo(k))
      /\ PlainBody["hard"] \in Seq(StepUpTo(k))
      /\ PlainBody["hint"] \in Seq(StepUpTo(k))
      /\ PlainBody["level"] \in Seq(StepUpTo(k))
      /\ PlainBody["set_option"] \in Seq(StepUpTo(k))
  BY <1>3, <1>6, BodyTypes DEF PlainBody
<1>8. /\ PlainBody["post"] \in Seq(StepUpTo(k))
      /\ PlainBody["nopost"] \in Seq(StepUpTo(k))
      /\ PlainBody["hash_size"] \in Seq(StepUpTo(k))
      /\ PlainBody["ping"] \in Seq(StepUpTo(k))
      /\ PlainBody["divide"] \in Seq(StepUpTo(k))
      /\ PlainBody["position_info"] \in Seq(StepUpTo(k))
  BY <1>2, <1>3, <1>4, <1>5, <1>6 DEF PlainBody
<1> QED
  BY <1>7, <1>8 DEF PlainCommand

-----------------------------------------------------------------------------
(* The invariant: TypeOK, and the keys of the steps still to be taken.     *)
IndInv == TypeOK /\ KeysGivenOut

(* What each kind of step keeps.                                           *)

LEMMA StepUpToWidens ==
    ASSUME NEW k \in Nat, NEW n \in Nat, k <= n
    PROVE  /\ Seq(StepUpTo(k)) \subseteq Seq(StepUpTo(n))
           /\ Seq(StepUpTo(k)) \subseteq Seq(Step)
<1>1. StepUpTo(k) \subseteq StepUpTo(n) /\ StepUpTo(k) \subseteq Step
  BY DEF StepUpTo, Step
<1> QED
  BY <1>1

LEMMA ArgType ==
    ASSUME IndInv, NEW t \in Thread, NEW o, At(t, o)
    PROVE  /\ Arg(t).mv \in Move \cup {NoMove}
           /\ o = "process_move" => Arg(t).mv \in Move
           /\ Arg(t).cb \in Callback
           /\ Arg(t).key \in Nat
           /\ Arg(t).key <= callbackKey
           /\ Arg(t).mx \in Mutex \cup {NoMutex}
<1>1. todo[t] \in Seq(StepUpTo(callbackKey)) /\ todo[t] # << >>
  BY DEF IndInv, KeysGivenOut, At
<1>2. Head(todo[t]) \in StepUpTo(callbackKey)
  BY <1>1
<1> QED
  BY <1>2 DEF Arg, StepUpTo, Step, At

LEMMA ContinueType ==
    ASSUME IndInv, NEW t \in Thread, NEW o, At(t, o), NEW k \in Nat,
           callbackKey <= k, NEW body \in Seq(StepUpTo(k)), Continue(t, body)
    PROVE  todo' \in [Thread -> Seq(StepUpTo(k))]
<1>1. todo \in [Thread -> Seq(StepUpTo(k))] /\ todo[t] # << >>
  BY StepUpToWidens DEF IndInv, TypeOK, KeysGivenOut, At
<1>2. Tail(todo[t]) \in Seq(StepUpTo(k))
  BY <1>1
<1>3. body \o Tail(todo[t]) \in Seq(StepUpTo(k))
  BY <1>2, ConcatType
<1> QED
  BY <1>1, <1>3 DEF Continue

(* The same when no key is given out.                                      *)
LEMMA SameKeyType ==
    ASSUME IndInv, NEW t \in Thread, NEW o, At(t, o),
           NEW body \in Seq(StepUpTo(callbackKey)), Continue(t, body)
    PROVE  /\ todo' \in [Thread -> Seq(StepUpTo(callbackKey))]
           /\ todo' \in [Thread -> Seq(Step)]
<1>1. callbackKey \in Nat /\ callbackKey <= callbackKey
  BY DEF IndInv, TypeOK
<1>2. todo' \in [Thread -> Seq(StepUpTo(callbackKey))]
  BY <1>1, ContinueType
<1> QED
  BY <1>1, <1>2, StepUpToWidens

LEMMA OnlyType ==
    ASSUME IndInv, NEW t \in Thread, NEW o, At(t, o),
           NEW body \in Seq(StepUpTo(callbackKey)), Only(t, body)
    PROVE  IndInv'
<1>1. Continue(t, body)
  BY DEF Only
<1>2. /\ todo' \in [Thread -> Seq(StepUpTo(callbackKey))]
      /\ todo' \in [Thread -> Seq(Step)]
  BY <1>1, SameKeyType
<1> QED
  BY <1>2 DEF IndInv, TypeOK, KeysGivenOut, KeyNeverAhead, Only, locks, outside

LEMMA CliStepType ==
    ASSUME IndInv, NEW t \in Thread, NEW o, At(t, o), NEW c \in CliType,
           NEW body \in Seq(StepUpTo(callbackKey)), CliStep(t, c, body)
    PROVE  IndInv'
<1>1. Continue(t, body)
  BY DEF CliStep
<1>2. /\ todo' \in [Thread -> Seq(StepUpTo(callbackKey))]
      /\ todo' \in [Thread -> Seq(Step)]
  BY <1>1, SameKeyType
<1> QED
  BY <1>2 DEF IndInv, TypeOK, KeysGivenOut, KeyNeverAhead, CliStep, locks, outside

LEMMA KeyStepType ==
    ASSUME IndInv, NEW t \in Thread, NEW o, At(t, o), NEW c \in CliType,
           NEW body \in Seq(StepUpTo(callbackKey + 1)), KeyStep(t, c, body)
    PROVE  IndInv'
<1> DEFINE k == callbackKey + 1
<1>1. callbackKey \in Nat /\ k \in Nat /\ callbackKey <= k /\ k <= k
  BY DEF IndInv, TypeOK
<1>2. callbackKey' = k /\ Continue(t, body)
  BY DEF KeyStep
<1> HIDE DEF k
<1>3. body \in Seq(StepUpTo(k))
  BY DEF k
<1>4. todo' \in [Thread -> Seq(StepUpTo(k))]
  BY <1>1, <1>2, <1>3, ContinueType
<1>5. todo' \in [Thread -> Seq(Step)]
  BY <1>1, <1>4, StepUpToWidens
<1>6. engine' = engine /\ engine.arg \in Nat /\ engine.arg <= k
  BY <1>1 DEF KeyStep, IndInv, TypeOK, EngineType, KeysGivenOut, KeyNeverAhead, k
<1>7. TypeOK'
  BY <1>1, <1>2, <1>5 DEF IndInv, TypeOK, KeyStep, locks, outside
<1> QED
  BY <1>2, <1>4, <1>6, <1>7 DEF IndInv, KeysGivenOut, KeyNeverAhead

LEMMA EngineStepType ==
    ASSUME IndInv, NEW t \in Thread, NEW o, At(t, o),
           NEW e \in EngineType, e.arg <= callbackKey,
           NEW body \in Seq(StepUpTo(callbackKey)), EngineStep(t, e, body)
    PROVE  IndInv'
<1>1. Continue(t, body)
  BY DEF EngineStep
<1>2. /\ todo' \in [Thread -> Seq(StepUpTo(callbackKey))]
      /\ todo' \in [Thread -> Seq(Step)]
  BY <1>1, SameKeyType
<1> QED
  BY <1>2 DEF IndInv, TypeOK, KeysGivenOut, KeyNeverAhead, EngineStep, locks, outside

LEMMA WorkerStepType ==
    ASSUME IndInv, NEW t \in Thread, NEW o, At(t, o), NEW w \in WorkerType,
           NEW body \in Seq(StepUpTo(callbackKey)), WorkerStep(t, w, body)
    PROVE  IndInv'
<1>1. Continue(t, body)
  BY DEF WorkerStep
<1>2. /\ todo' \in [Thread -> Seq(StepUpTo(callbackKey))]
      /\ todo' \in [Thread -> Seq(Step)]
  BY <1>1, SameKeyType
<1> QED
  BY <1>2 DEF IndInv, TypeOK, KeysGivenOut, KeyNeverAhead, WorkerStep, locks, outside

LEMMA ExitStepType ==
    ASSUME IndInv, NEW t \in Thread, NEW o, At(t, o),
           NEW s \in {"no", "success", "failure", "crash"}, ExitStep(t, s)
    PROVE  IndInv'
<1>1. Continue(t, << >>)
  BY DEF ExitStep
<1>2. /\ todo' \in [Thread -> Seq(StepUpTo(callbackKey))]
      /\ todo' \in [Thread -> Seq(Step)]
  BY <1>1, EmptyBody, SameKeyType
<1> QED
  BY <1>2 DEF IndInv, TypeOK, KeysGivenOut, KeyNeverAhead, ExitStep, locks

LEMMA CommandErrorType ==
    ASSUME IndInv, CommandError
    PROVE  IndInv'
<1>0. << >> \in Seq(StepUpTo(callbackKey)) /\ << >> \in Seq(Step)
  OBVIOUS
<1>1. /\ todo' \in [Thread -> Seq(StepUpTo(callbackKey))]
      /\ todo' \in [Thread -> Seq(Step)]
  BY <1>0 DEF IndInv, TypeOK, KeysGivenOut, CommandError
<1> QED
  BY <1>1 DEF IndInv, TypeOK, KeysGivenOut, KeyNeverAhead, CommandError, outside

(* The game, the position and the best move at hand.                       *)
LEMMA StateTypes ==
    ASSUME IndInv
    PROVE  /\ game \in Game /\ cli.uciGame \in Game
           /\ CurrentPosition(game) \in Position
           /\ Turn(game) \in Player
           /\ engine.pos \in Position /\ worker.root \in Position
           /\ bestMove \in Move \cup {NoMove}
           /\ cli \in CliType /\ engine \in EngineType /\ worker \in WorkerType
           /\ callbackKey \in Nat /\ callbackKey + 1 \in Nat
           /\ engine.arg <= callbackKey
           /\ Seq(StepUpTo(callbackKey)) \subseteq Seq(StepUpTo(callbackKey + 1))
<1>1. game \in Game /\ cli.uciGame \in Game
  BY DEF IndInv, TypeOK, CliType, game
<1>2. CurrentPosition(game) \in Position
  BY <1>1, CurrentPositionType
<1>3. Turn(game) \in Player
  BY <1>2, SideAssumption DEF Turn
<1>4. /\ callbackKey \in Nat /\ callbackKey + 1 \in Nat
      /\ callbackKey <= callbackKey + 1
  BY DEF IndInv, TypeOK
<1>5. Seq(StepUpTo(callbackKey)) \subseteq Seq(StepUpTo(callbackKey + 1))
  BY <1>4, StepUpToWidens
<1> QED
  BY <1>1, <1>2, <1>3, <1>4, <1>5
     DEF IndInv, TypeOK, KeysGivenOut, KeyNeverAhead, EngineType, WorkerType, bestMove

LEMMA EngineAtType ==
    ASSUME IndInv, NEW p \in Position
    PROVE  EngineAt(p) \in EngineType /\ EngineAt(p).arg <= callbackKey
BY FirstMoveAssumption
   DEF IndInv, TypeOK, KeysGivenOut, KeyNeverAhead, EngineType, EngineAt

-----------------------------------------------------------------------------
(* Type correctness, one lemma per group of actions.                       *)

LEMMA MutexStepType ==
    ASSUME IndInv, NEW t \in Thread, MtxLock(t) \/ MtxUnlock(t)
    PROVE  IndInv'
<1> /\ callbackKey \in Nat /\ callbackKey + 1 \in Nat
    /\ << >> \in Seq(StepUpTo(callbackKey))
    /\ Seq(StepUpTo(callbackKey)) \subseteq Seq(StepUpTo(callbackKey + 1))
  BY StateTypes, EmptyBody
<1> DEFINE mx == Arg(t).mx
<1>0. /\ owner \in [Mutex -> Thread \cup {NoOwner}]
      /\ held \in [Mutex -> Nat]
      /\ \A x \in Mutex : owner[x] = NoOwner <=> held[x] = 0
      /\ t # NoOwner
  BY DEF IndInv, TypeOK, Thread, NoOwner
<1>1. CASE MtxLock(t)
  <2>1. /\ todo' \in [Thread -> Seq(StepUpTo(callbackKey))]
        /\ todo' \in [Thread -> Seq(Step)]
    BY <1>1, SameKeyType DEF MtxLock
  <2>2. /\ owner' = [owner EXCEPT ![mx] = t]
        /\ held' = [held EXCEPT ![mx] = held[mx] + 1]
    BY <1>1 DEF MtxLock
  <2> HIDE DEF mx
  <2>3. /\ owner' \in [Mutex -> Thread \cup {NoOwner}]
        /\ held' \in [Mutex -> Nat]
        /\ \A x \in Mutex : owner'[x] = NoOwner <=> held'[x] = 0
    <3>1. CASE mx \in Mutex
      <4>1. held[mx] + 1 \in Nat \ {0}
        BY <1>0, <3>1
      <4> DEFINE n == held[mx] + 1
      <4> HIDE DEF n
      <4>2. n \in Nat \ {0} /\ held' = [held EXCEPT ![mx] = n]
        BY <2>2, <4>1 DEF n
      <4> QED
        BY <1>0, <2>2, <3>1, <4>2
    <3>2. CASE mx \notin Mutex
      <4>1. owner' = owner /\ held' = held
        BY <1>0, <2>2, <3>2
      <4> QED
        BY <1>0, <4>1
    <3> QED
      BY <3>1, <3>2
  <2> QED
    BY <1>1, <2>1, <2>3
       DEF MtxLock, IndInv, TypeOK, KeysGivenOut, KeyNeverAhead, outside
<1>2. CASE MtxUnlock(t)
  <2>1. /\ todo' \in [Thread -> Seq(StepUpTo(callbackKey))]
        /\ todo' \in [Thread -> Seq(Step)]
    BY <1>2, SameKeyType DEF MtxUnlock
  <2>2. IF owner[mx] = t
        THEN /\ held' = [held EXCEPT ![mx] = held[mx] - 1]
             /\ owner' = [owner EXCEPT ![mx] = IF held[mx] = 1 THEN NoOwner ELSE t]
        ELSE owner' = owner /\ held' = held
    BY <1>2 DEF MtxUnlock, locks
  <2> HIDE DEF mx
  <2>3. /\ owner' \in [Mutex -> Thread \cup {NoOwner}]
        /\ held' \in [Mutex -> Nat]
        /\ \A x \in Mutex : owner'[x] = NoOwner <=> held'[x] = 0
    <3>1. CASE owner[mx] = t /\ mx \in Mutex
      <4>1. held[mx] \in Nat \ {0}
        BY <1>0, <3>1
      <4> QED
        BY <1>0, <2>2, <3>1, <4>1
    <3>2. CASE ~(owner[mx] = t /\ mx \in Mutex)
      BY <1>0, <2>2, <3>2
    <3> QED
      BY <3>1, <3>2
  <2> QED
    BY <1>2, <2>1, <2>3
       DEF MtxUnlock, IndInv, TypeOK, KeysGivenOut, KeyNeverAhead, outside
<1> QED
  BY <1>1, <1>2

(* Moves of the game, on either thread.                                    *)
LEMMA MoveStepType ==
    ASSUME IndInv, NEW t \in Thread,
           \/ AppendMove(t) \/ ProcessMove(t) \/ CheckEnd(t)
           \/ Announce(t)   \/ SetCb(t)
    PROVE  IndInv'
<1> /\ callbackKey \in Nat /\ callbackKey + 1 \in Nat
    /\ << >> \in Seq(StepUpTo(callbackKey))
    /\ Seq(StepUpTo(callbackKey)) \subseteq Seq(StepUpTo(callbackKey + 1))
  BY StateTypes, EmptyBody
<1>1. CASE AppendMove(t)
  <2> DEFINE m == Arg(t).mv
  <2>1. At(t, "append") /\ m \in Move \cup {NoMove}
    BY <1>1, ArgType DEF AppendMove
  <2>2. CASE CanAppend(game, m)
    <3>0. m \in Move
      BY <2>2, StateTypes, LegalAssumption DEF CanAppend
    <3>1. GameAppend(game, m) \in Game
      BY <3>0, StateTypes, GameAppendType
    <3>2. [cli EXCEPT !.game = GameAppend(game, m)] \in CliType
      BY <3>1, StateTypes DEF CliType
    <3>3. EngineProcessMove(m) \o <<Call("check_end")>> \in Seq(StepUpTo(callbackKey))
      <4>1. <<Call("check_end")>> \in Seq(StepUpTo(callbackKey))
        BY CallType DEF Op, GameOp
      <4> QED
        BY <3>0, <4>1, MoveBodyTypes, ConcatType
    <3>4. CliStep(t, [cli EXCEPT !.game = GameAppend(game, m)],
                  EngineProcessMove(m) \o <<Call("check_end")>>)
      BY <1>1, <2>2 DEF AppendMove
    <3> QED
      BY <2>1, <3>2, <3>3, <3>4, CliStepType
  <2>3. CASE ~CanAppend(game, m)
    BY <1>1, <2>1, <2>3, OnlyType DEF AppendMove
  <2> QED
    BY <2>2, <2>3
<1>2. CASE ProcessMove(t)
  <2> DEFINE m == Arg(t).mv
  <2>1. At(t, "process_move") /\ EngineStep(t, EngineAt(Play[engine.pos][m]), << >>)
    BY <1>2 DEF ProcessMove
  <2>2. m \in Move
    BY <2>1, ArgType
  <2>3. Play[engine.pos][m] \in Position
    BY <2>2, StateTypes, PlayAssumption
  <2>4. /\ EngineAt(Play[engine.pos][m]) \in EngineType
        /\ EngineAt(Play[engine.pos][m]).arg <= callbackKey
    BY <2>3, EngineAtType
  <2> QED
    BY <2>1, <2>4, EngineStepType
<1>3. CASE CheckEnd(t)
  <2>1. [cli EXCEPT !.started = @ /\ ~GameIsEnded(game)] \in CliType
    BY StateTypes DEF CliType
  <2> QED
    BY <1>3, <2>1, CliStepType DEF CheckEnd
<1>4. CASE Announce(t)
  BY <1>4, OnlyType DEF Announce
<1>5. CASE SetCb(t)
  <2> DEFINE e == [engine EXCEPT !.cb = Arg(t).cb, !.arg = Arg(t).key]
  <2>1. e \in EngineType /\ e.arg <= callbackKey
    BY <1>5, ArgType, StateTypes DEF EngineType, SetCb
  <2> QED
    BY <1>5, <2>1, EngineStepType DEF SetCb
<1> QED
  BY <1>1, <1>2, <1>3, <1>4, <1>5

(* Joining, starting and resetting the search.                             *)
LEMMA JoinStepType ==
    ASSUME IndInv,
           \/ \E o \in JoinOp, stop \in BOOLEAN : JoinSignal(o, stop)
           \/ ThrdJoin \/ Spawn \/ ResetHistory
           \/ \E o \in EngineOp, on \in BOOLEAN : SetShow(o, on)
    PROVE  IndInv'
<1> /\ callbackKey \in Nat /\ callbackKey + 1 \in Nat
    /\ << >> \in Seq(StepUpTo(callbackKey))
    /\ Seq(StepUpTo(callbackKey)) \subseteq Seq(StepUpTo(callbackKey + 1))
  BY StateTypes, EmptyBody
<1> "main" \in Thread /\ "search" \in Thread
  BY DEF Thread
<1>1. ASSUME NEW o \in JoinOp, NEW stop \in BOOLEAN, JoinSignal(o, stop)
      PROVE  IndInv'
  <2>1. At("main", o)
    BY <1>1 DEF JoinSignal
  <2>2. <<Unlock("engine")>> \in Seq(StepUpTo(callbackKey))
    BY LockType DEF Mutex
  <2>3. <<Unlock("engine"), Call("thrd_join")>> \in Seq(StepUpTo(callbackKey))
    BY LockType, CallType DEF Mutex, Op, JoinOp
  <2>4. [worker EXCEPT !.started = FALSE, !.run = @ /\ ~stop] \in WorkerType
    BY StateTypes DEF WorkerType
  <2> QED
    BY <1>1, <2>1, <2>2, <2>3, <2>4, OnlyType, WorkerStepType DEF JoinSignal
<1>2. CASE ThrdJoin
  <2>1. [worker EXCEPT !.joinable = FALSE, !.run = FALSE] \in WorkerType
    BY StateTypes DEF WorkerType
  <2> QED
    BY <1>2, <2>1, WorkerStepType DEF ThrdJoin
<1>3. CASE Spawn
  <2>1. worker' \in WorkerType
    BY <1>3, StateTypes DEF Spawn, WorkerType, EngineType
  <2>2. /\ todo \in [Thread -> Seq(StepUpTo(callbackKey))]
        /\ todo["main"] \in Seq(StepUpTo(callbackKey)) /\ todo["main"] # << >>
    BY <1>3 DEF Spawn, At, IndInv, KeysGivenOut
  <2>3. Tail(todo["main"]) \in Seq(StepUpTo(callbackKey))
    BY <2>2
  <2>4. todo' \in [Thread -> Seq(StepUpTo(callbackKey))]
    BY <1>3, <2>2, <2>3, BodyTypes DEF Spawn
  <2>5. todo' \in [Thread -> Seq(Step)]
    BY <2>4, StepUpToWidens DEF IndInv, TypeOK
  <2> QED
    BY <1>3, <2>1, <2>4, <2>5
       DEF Spawn, IndInv, TypeOK, KeysGivenOut, KeyNeverAhead, locks, outside
<1>4. CASE ResetHistory
  <2>1. /\ EngineAt(CurrentPosition(game)) \in EngineType
        /\ EngineAt(CurrentPosition(game)).arg <= callbackKey
    BY EngineAtType, StateTypes
  <2> QED
    BY <1>4, <2>1, EngineStepType DEF ResetHistory
<1>5. ASSUME NEW o \in EngineOp, NEW on \in BOOLEAN, SetShow(o, on)
      PROVE  IndInv'
  <2>1. /\ [engine EXCEPT !.show = on] \in EngineType
        /\ [engine EXCEPT !.show = on].arg <= callbackKey
    BY StateTypes DEF EngineType
  <2> QED
    BY <1>5, <2>1, EngineStepType DEF SetShow
<1> QED
  BY <1>1, <1>2, <1>3, <1>4, <1>5

(* The search thread's own steps.                                          *)
LEMMA DeepenStepType ==
    ASSUME IndInv,
           \/ SetupSearch \/ Deepen \/ SearchCompletes \/ SearchTerminated
           \/ Update \/ PrintPv \/ NextDepth
    PROVE  IndInv'
<1> /\ callbackKey \in Nat /\ callbackKey + 1 \in Nat
    /\ << >> \in Seq(StepUpTo(callbackKey))
    /\ Seq(StepUpTo(callbackKey)) \subseteq Seq(StepUpTo(callbackKey + 1))
  BY StateTypes, EmptyBody
<1> "search" \in Thread /\ "engine" \in Mutex
  BY DEF Thread, Mutex
<1>0. /\ <<Lock("engine")>> \in Seq(StepUpTo(callbackKey)) /\ <<Unlock("engine")>> \in Seq(StepUpTo(callbackKey))
      /\ \A o \in {"deepen", "search", "next_depth"} : <<Call(o)>> \in Seq(StepUpTo(callbackKey))
  BY LockType, CallType DEF Op, SearchOp
<1>1. CASE SetupSearch
  <2>1. At("search", "setup_search") /\ Continue("search", <<Call("deepen")>>)
    BY <1>1 DEF SetupSearch
  <2>2. /\ todo' \in [Thread -> Seq(StepUpTo(callbackKey))]
        /\ todo' \in [Thread -> Seq(Step)]
    BY <1>0, <2>1, SameKeyType
  <2>3. PICK d \in 1..(MaxDepth + 1), m \in {bestMove} \cup Legal[worker.root] :
          /\ worker' = [worker EXCEPT !.depth = d]
          /\ engine' = [engine EXCEPT !.best = m]
    BY <1>1 DEF SetupSearch
  <2>4. m \in Move \cup {NoMove}
    BY StateTypes, LegalAssumption
  <2>5. d \in Nat
    BY BoundAssumption
  <2>6. worker' \in WorkerType /\ engine' \in EngineType /\ engine'.arg = engine.arg
    BY <2>3, <2>4, <2>5, StateTypes DEF WorkerType, EngineType
  <2> QED
    BY <1>1, <2>2, <2>6
       DEF SetupSearch, IndInv, TypeOK, KeysGivenOut, KeyNeverAhead, locks, outside
<1>2. CASE Deepen
  <2>1. <<Unlock("engine"), Call("search")>> \in Seq(StepUpTo(callbackKey))
    BY LockType, CallType DEF Op, SearchOp
  <2> QED
    BY <1>2, <2>1, BodyTypes, OnlyType DEF Deepen
<1>3. CASE SearchCompletes
  <2>1. PICK m \in Move \cup {NoMove} :
          /\ At("search", "search")
          /\ Only("search", <<Lock("engine"), CallMove("update", m)>>)
    BY <1>3, StateTypes, LegalAssumption DEF SearchCompletes
  <2>2. <<Lock("engine"), CallMove("update", m)>> \in Seq(StepUpTo(callbackKey))
    BY LockType, CallMoveType DEF Op, SearchOp
  <2> QED
    BY <2>1, <2>2, OnlyType
<1>4. CASE SearchTerminated
  <2>1. <<Lock("engine")>> \o ThinkingDone \in Seq(StepUpTo(callbackKey))
    BY <1>0, BodyTypes, ConcatType
  <2> QED
    BY <1>4, <2>1, OnlyType DEF SearchTerminated
<1>5. CASE Update
  <2> DEFINE m == Arg("search").mv
             e == [engine EXCEPT !.best = IF m # NoMove THEN m ELSE @]
             body == (IF worker.show THEN PrintCurrentResult(m) ELSE << >>)
                         \o <<Call("next_depth")>>
  <2>1. At("search", "update") /\ EngineStep("search", e, body)
    BY <1>5 DEF Update
  <2>2. m \in Move \cup {NoMove}
    BY <2>1, ArgType
  <2>3. e \in EngineType /\ e.arg <= callbackKey
    BY <2>2, StateTypes DEF EngineType
  <2>4. body \in Seq(StepUpTo(callbackKey))
    BY <1>0, <2>2, MoveBodyTypes, ConcatType
  <2> QED
    BY <2>1, <2>3, <2>4, EngineStepType
<1>6. CASE PrintPv
  BY <1>6, ExitStepType DEF PrintPv
<1>7. CASE NextDepth
  <2>1. [worker EXCEPT !.depth = @ + 1] \in WorkerType
    BY StateTypes DEF WorkerType
  <2> QED
    BY <1>0, <1>7, <2>1, BodyTypes, OnlyType, WorkerStepType DEF NextDepth
<1> QED
  BY <1>1, <1>2, <1>3, <1>4, <1>5, <1>6, <1>7

(* The callbacks, on the search thread.                                    *)
LEMMA CallbackStepType ==
    ASSUME IndInv, ThinkingCb \/ Answer \/ Report \/ Rearm \/ ExitOnDone
    PROVE  IndInv'
<1> /\ callbackKey \in Nat /\ callbackKey + 1 \in Nat
    /\ << >> \in Seq(StepUpTo(callbackKey))
    /\ Seq(StepUpTo(callbackKey)) \subseteq Seq(StepUpTo(callbackKey + 1))
  BY StateTypes, EmptyBody
<1> "search" \in Thread
  BY DEF Thread
<1>0. \A o \in {"exit_on_done", "rearm"} : <<Call(o)>> \in Seq(StepUpTo(callbackKey))
  BY CallType DEF Op, GameOp, SearchOp
<1>1. CASE ThinkingCb
  BY <1>1, BodyTypes, OnlyType DEF ThinkingCb
<1>2. CASE Answer
  <2>1. PrintComputerMove(bestMove) \o <<Call("exit_on_done")>> \o AddMove(bestMove)
            \in Seq(StepUpTo(callbackKey))
    BY <1>0, StateTypes, MoveBodyTypes, ConcatType
  <2> QED
    BY <1>2, <2>1, OnlyType DEF Answer
<1>3. CASE Report
  <2>1. PrintComputerMove(bestMove) \o <<Call("rearm")>> \in Seq(StepUpTo(callbackKey))
    BY <1>0, StateTypes, MoveBodyTypes, ConcatType
  <2>2. (IF bestMove = NoMove THEN << >>
         ELSE PrintComputerMove(bestMove) \o <<Call("rearm")>>)
            \o <<Call("exit_on_done")>> \in Seq(StepUpTo(callbackKey))
    BY <1>0, <2>1, ConcatType
  <2> QED
    BY <1>3, <2>2, OnlyType DEF Report
<1>4. CASE Rearm
  BY <1>4, StateTypes, SetCbType, KeyStepType DEF Rearm, Callback
<1>5. CASE ExitOnDone
  BY <1>5, ExitStepType DEF ExitOnDone
<1> QED
  BY <1>1, <1>2, <1>3, <1>4, <1>5

(* Reading a line, moves of the user and answers at once.                  *)
LEMMA LineStepType ==
    ASSUME IndInv, ReadMove \/ ReadCommand \/ EndOfInput
    PROVE  IndInv'
<1> /\ callbackKey \in Nat /\ callbackKey + 1 \in Nat
    /\ << >> \in Seq(StepUpTo(callbackKey))
    /\ Seq(StepUpTo(callbackKey)) \subseteq Seq(StepUpTo(callbackKey + 1))
  BY StateTypes, EmptyBody
<1> "main" \in Thread /\ "game" \in Mutex
  BY DEF Thread, Mutex
<1>0. ASSUME NEW body \in Seq(StepUpTo(callbackKey)), Begin(body), lines' \in Nat
      PROVE  IndInv'
  <2>1. todo' \in [Thread -> Seq(StepUpTo(callbackKey))]
    BY <1>0 DEF Begin, IndInv, KeysGivenOut
  <2>2. todo' \in [Thread -> Seq(Step)]
    BY <2>1, StepUpToWidens
  <2> QED
    BY <1>0, <2>1, <2>2 DEF Begin, IndInv, TypeOK, KeysGivenOut, KeyNeverAhead, locks
<1>1. lines \in Nat /\ lines + 1 \in Nat
  BY DEF IndInv, TypeOK
<1>2. CASE ReadMove
  <2>1. PICK m \in TypedMove : Begin(Locked("game", <<CallMove("try_move", m)>>))
    BY <1>2 DEF ReadMove
  <2>2. m \in Move
    BY InputAssumption
  <2>3. <<CallMove("try_move", m)>> \in Seq(StepUpTo(callbackKey))
    <3>1. "try_move" \in Op \ {"process_move"}
      BY DEF Op, GameOp
    <3>2. CallMove("try_move", m) \in StepUpTo(callbackKey)
      BY <2>2, <3>1, CallMoveType
    <3> QED
      BY <3>2
  <2>4. Locked("game", <<CallMove("try_move", m)>>) \in Seq(StepUpTo(callbackKey))
    BY <2>3, LockedType
  <2> QED
    BY <1>0, <1>1, <1>2, <2>1, <2>4 DEF ReadMove
<1>3. CASE ReadCommand
  <2>1. PICK c \in Commands : Begin(Locked("game", << >>) \o <<Call(c)>>)
    BY <1>3 DEF ReadCommand
  <2>2. c \in Op \ {"process_move"}
    BY CommandAssumption DEF Op, PlainCommand, OtherCommand
  <2>3. <<Call(c)>> \in Seq(StepUpTo(callbackKey))
    BY <2>2, CallType
  <2>4. Locked("game", << >>) \o <<Call(c)>> \in Seq(StepUpTo(callbackKey))
    BY <2>3, LockedType, ConcatType
  <2> QED
    BY <1>0, <1>1, <1>3, <2>1, <2>4 DEF ReadCommand
<1>4. CASE EndOfInput
  <2>1. <<Call("exit")>> \in Seq(StepUpTo(callbackKey))
    BY CallType DEF Op, InsideCommand
  <2>2. (IF cli.exitOnDone THEN WaitThinking ELSE << >>) \o <<Call("exit")>>
            \in Seq(StepUpTo(callbackKey))
    BY <2>1, BodyTypes, ConcatType
  <2> QED
    BY <1>0, <1>1, <1>4, <2>2 DEF EndOfInput
<1> QED
  BY <1>2, <1>3, <1>4

LEMMA DecideStepType ==
    ASSUME IndInv, Decide \/ TryMove \/ StartGame \/ Exit
    PROVE  IndInv'
<1> /\ callbackKey \in Nat /\ callbackKey + 1 \in Nat
    /\ << >> \in Seq(StepUpTo(callbackKey))
    /\ Seq(StepUpTo(callbackKey)) \subseteq Seq(StepUpTo(callbackKey + 1))
  BY StateTypes, EmptyBody
<1> "main" \in Thread
  BY DEF Thread
<1>1. CASE Decide
  <2> DEFINE p == CurrentPosition(game)
             c == [cli EXCEPT !.started = FALSE]
             body == SetThinkingDoneCb("computer_move", callbackKey + 1) \o Think
  <2>1. At("main", "decide")
    BY <1>1 DEF Decide
  <2>2. c \in CliType
    BY StateTypes DEF CliType
  <2>3. /\ FirstMove[p] \in Move \cup {NoMove}
        /\ BookMove[p] \in Move \cup {NoMove}
    BY StateTypes, FirstMoveAssumption, BookAssumption
  <2>4. /\ AnswerAtOnce(FirstMove[p]) \in Seq(StepUpTo(callbackKey))
        /\ AnswerAtOnce(BookMove[p]) \in Seq(StepUpTo(callbackKey))
    BY <2>3, MoveBodyTypes
  <2>5. body \in Seq(StepUpTo(callbackKey + 1))
    BY SetCbType, BodyTypes, ConcatType DEF Callback
  <2>6. \/ CliStep("main", c, << >>)
        \/ Only("main", AnswerAtOnce(FirstMove[p]))
        \/ Only("main", AnswerAtOnce(BookMove[p]))
        \/ KeyStep("main", cli, body)
    BY <1>1 DEF Decide
  <2> HIDE DEF p, c, body
  <2> QED
    BY <2>1, <2>2, <2>4, <2>5, <2>6, StateTypes, CliStepType, OnlyType, KeyStepType
<1>2. CASE TryMove
  <2>1. At("main", "try_move") /\ Arg("main").mv \in Move \cup {NoMove}
    BY <1>2, ArgType DEF TryMove
  <2>2. OperatorMove(Arg("main").mv) \in Seq(StepUpTo(callbackKey))
    BY <2>1, MoveBodyTypes
  <2> QED
    BY <1>2, <2>1, <2>2, OnlyType DEF TryMove
<1>3. CASE StartGame
  <2>1. [cli EXCEPT !.started = @ \/ ~isForceMode] \in CliType
    BY StateTypes DEF CliType, isForceMode
  <2> QED
    BY <1>3, <2>1, CliStepType DEF StartGame
<1>4. CASE Exit
  BY <1>4, ExitStepType DEF Exit
<1> QED
  BY <1>1, <1>2, <1>3, <1>4

(* A step carries a move, or none.                                         *)
LEMMA ArgMove ==
    ASSUME IndInv, NEW o, At("main", o)
    PROVE  Arg("main").mv \in Move \cup {NoMove}
<1>1. todo["main"] \in Seq(Step) /\ todo["main"] # << >>
  BY DEF IndInv, TypeOK, At, Thread
<1>2. Head(todo["main"]) \in Step
  BY <1>1
<1> QED
  BY <1>2 DEF Arg, Step

(* The commands that play, stop or set up a game.                          *)
LEMMA NewStepType ==
    ASSUME IndInv,
           \/ PlainCmd \/ CmdEasy \/ CmdQuit \/ CmdNew \/ NewReset \/ NewRearm
           \/ NewFlags \/ CmdForce \/ CmdPosition \/ SetPosition \/ Replay
    PROVE  IndInv'
<1> /\ callbackKey \in Nat /\ callbackKey + 1 \in Nat
    /\ << >> \in Seq(StepUpTo(callbackKey))
    /\ Seq(StepUpTo(callbackKey)) \subseteq Seq(StepUpTo(callbackKey + 1))
  BY StateTypes, EmptyBody
<1> "main" \in Thread /\ "game" \in Mutex /\ "stdout" \in Mutex
  BY DEF Thread, Mutex
<1>0. \A o \in {"exit", "new_reset", "new_rearm", "new_flags", "set_position"} :
         <<Call(o)>> \in Seq(StepUpTo(callbackKey))
  BY CallType DEF Op, InsideCommand
<1>13. \A m \in Move \cup {NoMove} : <<CallMove("replay", m)>> \in Seq(StepUpTo(callbackKey))
  <2>1. "replay" \in Op
    BY DEF Op, GameOp
  <2> QED
    BY <2>1, CallMoveType
<1>1. ASSUME NEW body \in Seq(StepUpTo(callbackKey)), NEW o, At("main", o), EnterForceMode(body)
      PROVE  IndInv'
  <2>1. [cli EXCEPT !.force = TRUE, !.started = FALSE] \in CliType
    BY StateTypes DEF CliType
  <2>2. StopThinking \o body \in Seq(StepUpTo(callbackKey + 1))
    BY BodyTypes, ConcatType
  <2> QED
    BY <1>1, <2>1, <2>2, KeyStepType DEF EnterForceMode
<1>2. CASE PlainCmd
  BY <1>2, PlainBodyType, OnlyType DEF PlainCmd
<1>3. CASE CmdEasy
  BY <1>3, BodyTypes, OnlyType DEF CmdEasy
<1>4. CASE CmdQuit
  <2>1. StopThinking \o <<Call("exit")>> \in Seq(StepUpTo(callbackKey + 1))
    BY <1>0, BodyTypes, ConcatType
  <2> QED
    BY <1>4, <2>1, StateTypes, KeyStepType DEF CmdQuit
<1>5. CASE CmdNew
  <2> DEFINE inner == <<Call("new_reset")>> \o ResetEngine \o <<Call("new_rearm")>>
  <2>1. inner \in Seq(StepUpTo(callbackKey))
    BY <1>0, BodyTypes, ConcatType
  <2>2. StopThinking \o Locked("game", inner) \in Seq(StepUpTo(callbackKey + 1))
    BY <2>1, LockedType, BodyTypes, ConcatType
  <2> QED
    BY <1>5, <2>2, StateTypes, KeyStepType DEF CmdNew
<1>6. CASE NewReset
  <2>1. [cli EXCEPT !.game = GameCreate] \in CliType
    BY StateTypes, GameCreateType DEF CliType
  <2> QED
    BY <1>6, <2>1, CliStepType DEF NewReset
<1>7. CASE NewRearm
  <2>1. [cli EXCEPT !.side = "black"] \in CliType
    BY StateTypes DEF CliType, Player
  <2>2. SetThinkingDoneCb("computer_move", callbackKey + 1) \o LockedSetter
            \o <<Call("new_flags")>> \in Seq(StepUpTo(callbackKey + 1))
    <3>1. SetThinkingDoneCb("computer_move", callbackKey + 1)
              \in Seq(StepUpTo(callbackKey + 1))
      BY SetCbType DEF Callback
    <3>2. <<Call("new_flags")>> \in Seq(StepUpTo(callbackKey + 1))
      BY <1>0
    <3> QED
      BY <3>1, <3>2, BodyTypes, ConcatType
  <2> QED
    BY <1>7, <2>1, <2>2, KeyStepType DEF NewRearm
<1>8. CASE NewFlags
  <2>1. [cli EXCEPT !.started = FALSE, !.force = FALSE] \in CliType
    BY StateTypes DEF CliType
  <2> QED
    BY <1>8, <2>1, CliStepType DEF NewFlags
<1>9. CASE CmdForce
  BY <1>1, <1>9 DEF CmdForce
<1>10. CASE CmdPosition
  <2>1. Locked("stdout", Locked("game", <<Call("set_position")>>)) \in Seq(StepUpTo(callbackKey))
    <3>1. Locked("game", <<Call("set_position")>>) \in Seq(StepUpTo(callbackKey))
      BY <1>0, LockedType
    <3> QED
      BY <3>1, LockedType
  <2> QED
    BY <1>1, <1>10, <2>1 DEF CmdPosition
<1>11. CASE SetPosition
  <2>1. At("main", "set_position") /\ "main" \in Thread
    BY <1>11 DEF SetPosition
  <2>2. CASE Only("main", << >>)
    BY <2>1, <2>2, OnlyType
  <2>3. ASSUME NEW g \in UciGame, GameContinues(g, game), NEW y \in EndMove(g),
               CliStep("main",
                       [cli EXCEPT !.game = GameTruncate(game),
                                   !.uciGame = [g EXCEPT !.cur =
                                                   Len(GameTruncate(game).pos)]],
                       <<CallMove("replay", y)>>)
        PROVE  IndInv'
    <3>1. g \in Game
      BY InputAssumption
    <3>2. game \in Game /\ GameTruncate(game) \in Game
             /\ Len(GameTruncate(game).pos) = game.cur
      BY StateTypes, GameTruncateType
    <3>3. game.cur \in 1..Len(g.pos)
      BY <2>3, <3>1, <3>2, GameContinuesLength
    <3>4. [g EXCEPT !.cur = Len(GameTruncate(game).pos)] \in Game
      BY <3>1, <3>2, <3>3, CursorType
    <3> DEFINE u == [g EXCEPT !.cur = Len(GameTruncate(game).pos)]
    <3> HIDE DEF u
    <3>5. [cli EXCEPT !.game = GameTruncate(game), !.uciGame = u] \in CliType
      BY <3>2, <3>4, StateTypes DEF CliType, u
    <3>6. y \in Move \cup {NoMove}
      BY <2>3, InputAssumption DEF EndMove
    <3> QED
      BY <1>13, <2>1, <2>3, <3>5, <3>6, CliStepType DEF u
  <2>4. ASSUME NEW g \in UciGame,
               CliStep("main", [cli EXCEPT !.game = g], ResetEngine)
        PROVE  IndInv'
    <3>1. [cli EXCEPT !.game = g] \in CliType
      BY StateTypes, InputAssumption DEF CliType
    <3> QED
      BY <2>1, <2>4, <3>1, BodyTypes, CliStepType
  <2>5. CASE ExitStep("main", "crash")
    BY <2>1, <2>5, ExitStepType
  <2> QED
    BY <1>11, <2>2, <2>3, <2>4, <2>5 DEF SetPosition
<1>12. CASE Replay
  <2> DEFINE end == Arg("main").mv
  <2>1. At("main", "replay") /\ cli.uciGame \in Game
    BY <1>12, StateTypes DEF Replay
  <2>0. end \in Move \cup {NoMove}
    BY <2>1, ArgMove
  <2>2. CASE HasMoveToNext(cli.uciGame)
    <3>1. GameForward(cli.uciGame) \in Game
      BY <2>1, <2>2, CursorType DEF HasMoveToNext, CanForward
    <3>2. [cli EXCEPT !.uciGame = GameForward(@)] \in CliType
      BY <3>1, StateTypes DEF CliType
    <3>3. MoveToNext(cli.uciGame) \in Move
      BY <2>1, <2>2, MoveToNextType
    <3>4. AddMove(MoveToNext(cli.uciGame)) \o <<CallMove("replay", end)>>
              \in Seq(StepUpTo(callbackKey))
      BY <1>13, <2>0, <3>3, MoveBodyTypes, ConcatType
    <3> QED
      BY <1>12, <2>1, <2>2, <3>2, <3>4, CliStepType DEF Replay
  <2>3. CASE ~HasMoveToNext(cli.uciGame) /\ end = NoMove
    <3>1. [cli EXCEPT !.uciGame = GameCreate] \in CliType
      BY StateTypes, GameCreateType DEF CliType
    <3> QED
      BY <1>12, <2>1, <2>3, <3>1, CliStepType DEF Replay
  <2>4. CASE ~HasMoveToNext(cli.uciGame) /\ end # NoMove
    <3>1. AddMove(end) \o <<CallMove("replay", end)>> \in Seq(StepUpTo(callbackKey))
      BY <1>13, <2>0, MoveBodyTypes, ConcatType
    <3> QED
      BY <1>12, <2>1, <2>4, <3>1, OnlyType DEF Replay
  <2> QED
    BY <2>2, <2>3, <2>4
<1> QED
  BY <1>2, <1>3, <1>4, <1>5, <1>6, <1>7, <1>8, <1>9, <1>10, <1>11, <1>12

(* The other commands.                                                     *)
LEMMA CommandStepType ==
    ASSUME IndInv,
           \/ CmdGo \/ GoStart \/ CmdResult \/ ResultDone
           \/ CmdSide("black") \/ CmdSide("white") \/ CmdPlayother
           \/ CmdSearch("search_cmd", << >>) \/ CmdSearch("search_sync", WaitThinking)
           \/ CmdSetboard \/ SetBoard \/ CmdExitondone
    PROVE  IndInv'
<1> /\ callbackKey \in Nat /\ callbackKey + 1 \in Nat
    /\ << >> \in Seq(StepUpTo(callbackKey))
    /\ Seq(StepUpTo(callbackKey)) \subseteq Seq(StepUpTo(callbackKey + 1))
  BY StateTypes, EmptyBody
<1> "main" \in Thread /\ "game" \in Mutex /\ {"black", "white"} = Player
  BY DEF Thread, Mutex, Player
<1>0. \A o \in {"go_start", "result_done", "set_board", "bad_argument"} :
          <<Call(o)>> \in Seq(StepUpTo(callbackKey))
  BY CallType DEF Op, OtherCommand, InsideCommand
<1>1. CASE CmdGo
  <2>1. At("main", "go")
    BY <1>1 DEF CmdGo
  <2>2. CASE Only("main", << >>)
    BY <2>1, <2>2, OnlyType
  <2>3. ASSUME NEW options \in {<< >>, LockedSetter, SetTimeInc}
                      \cup {<<Call(c)>> : c \in Commands \cap {"bad_argument"}},
               CliStep("main", [cli EXCEPT !.side = Turn(game)],
                       options \o <<Call("go_start")>> \o DecideMove)
        PROVE  IndInv'
    <3>1. options \in Seq(StepUpTo(callbackKey))
      BY <1>0, BodyTypes
    <3>2. options \o <<Call("go_start")>> \o DecideMove \in Seq(StepUpTo(callbackKey))
      BY <1>0, <3>1, BodyTypes, ConcatType
    <3>3. [cli EXCEPT !.side = Turn(game)] \in CliType
      BY StateTypes DEF CliType
    <3> QED
      BY <2>1, <2>3, <3>2, <3>3, CliStepType
  <2> QED
    BY <1>1, <2>2, <2>3 DEF CmdGo
<1>2. CASE GoStart
  <2>1. [cli EXCEPT !.force = FALSE, !.started = TRUE] \in CliType
    BY StateTypes DEF CliType
  <2> QED
    BY <1>2, <2>1, CliStepType DEF GoStart
<1>3. CASE CmdResult
  <2>1. StopThinking \o <<Call("result_done")>> \in Seq(StepUpTo(callbackKey))
    BY <1>0, BodyTypes, ConcatType
  <2> QED
    BY <1>3, <2>1, OnlyType DEF CmdResult
<1>4. CASE ResultDone
  <2>1. [cli EXCEPT !.started = FALSE] \in CliType
    BY StateTypes DEF CliType
  <2> QED
    BY <1>4, <2>1, CliStepType DEF ResultDone
<1>5. ASSUME NEW side \in Player, CmdSide(side)
      PROVE  IndInv'
  <2>1. [cli EXCEPT !.side = side] \in CliType
    BY StateTypes DEF CliType
  <2> QED
    BY <1>5, <2>1, BodyTypes, CliStepType DEF CmdSide
<1>6. CASE CmdPlayother
  <2>1. [cli EXCEPT !.side = Opponent(@)] \in CliType
    BY StateTypes DEF CliType, Opponent
  <2>2. StopThinking \o DecideMove \in Seq(StepUpTo(callbackKey + 1))
    BY BodyTypes, ConcatType
  <2> QED
    BY <1>6, <2>1, <2>2, StateTypes, KeyStepType DEF CmdPlayother
<1>7. ASSUME NEW c, NEW wait \in Seq(StepUpTo(callbackKey)), CmdSearch(c, wait)
      PROVE  IndInv'
  <2> DEFINE body == SetThinkingDoneCb("search_cb", callbackKey + 1) \o Think \o wait
  <2>1. body \in Seq(StepUpTo(callbackKey + 1))
    <3>1. SetThinkingDoneCb("search_cb", callbackKey + 1)
              \in Seq(StepUpTo(callbackKey + 1))
      BY SetCbType DEF Callback
    <3>2. wait \in Seq(StepUpTo(callbackKey + 1))
      BY <1>7
    <3> QED
      BY <3>1, <3>2, BodyTypes, ConcatType
  <2>2. At("main", c) /\ (Only("main", << >>) \/ KeyStep("main", cli, body))
    BY <1>7 DEF CmdSearch
  <2> HIDE DEF body
  <2> QED
    BY <2>1, <2>2, StateTypes, OnlyType, KeyStepType
<1>8. CASE CmdSetboard
  <2>1. Locked("game", <<Call("set_board")>> \o ResetEngine) \in Seq(StepUpTo(callbackKey))
    <3>1. <<Call("set_board")>> \o ResetEngine \in Seq(StepUpTo(callbackKey))
      BY <1>0, BodyTypes, ConcatType
    <3> QED
      BY <3>1, LockedType
  <2> QED
    BY <1>8, <2>1, OnlyType DEF CmdSetboard
<1>9. CASE SetBoard
  <2>1. PICK p \in SetupPosition :
          /\ At("main", "set_board")
          /\ CliStep("main", [cli EXCEPT !.game = GameFrom(p, 0)], << >>)
    BY <1>9 DEF SetBoard
  <2>2. GameFrom(p, 0) \in Game
    BY InputAssumption, GameFromType
  <2>3. [cli EXCEPT !.game = GameFrom(p, 0)] \in CliType
    BY <2>2, StateTypes DEF CliType
  <2> QED
    BY <2>1, <2>3, CliStepType
<1>10. CASE CmdExitondone
  <2>1. \A on \in BOOLEAN : [cli EXCEPT !.exitOnDone = on] \in CliType
    BY StateTypes DEF CliType
  <2> QED
    BY <1>10, <2>1, CliStepType DEF CmdExitondone
<1> QED
  BY <1>1, <1>2, <1>3, <1>4, <1>5, <1>6, <1>7, <1>8, <1>9, <1>10, BodyTypes

(* Undo, redo and the commands given up.                                   *)
LEMMA CursorStepType ==
    ASSUME IndInv, CmdBadArgument \/ CmdUndo \/ CmdRedo \/ RedoForward
    PROVE  IndInv'
<1> /\ callbackKey \in Nat /\ callbackKey + 1 \in Nat
    /\ << >> \in Seq(StepUpTo(callbackKey))
    /\ Seq(StepUpTo(callbackKey)) \subseteq Seq(StepUpTo(callbackKey + 1))
  BY StateTypes, EmptyBody
<1> "main" \in Thread /\ "game" \in Mutex
  BY DEF Thread, Mutex
<1>1. ASSUME NEW o, At("main", o), NEW can \in BOOLEAN, NEW g,
             can => g \in Game, MoveCursor(can, g)
      PROVE  IndInv'
  <2>1. CASE can
    <3>1. [cli EXCEPT !.game = g] \in CliType
      BY <1>1, <2>1, StateTypes DEF CliType
    <3> QED
      BY <1>1, <2>1, <3>1, BodyTypes, OnlyType, CliStepType DEF MoveCursor
  <2>2. CASE ~can
    BY <1>1, <2>2, OnlyType, CommandErrorType DEF MoveCursor
  <2> QED
    BY <2>1, <2>2
<1>2. CASE CmdBadArgument
  BY <1>2, CommandErrorType DEF CmdBadArgument
<1>3. CASE CmdUndo
  <2>1. /\ CanRevert(game) \in BOOLEAN
        /\ CanRevert(game) => GameRevert(game) \in Game
    BY StateTypes, CursorType DEF CanRevert
  <2> QED
    BY <1>1, <1>3, <2>1 DEF CmdUndo
<1>4. CASE CmdRedo
  <2>1. <<Call("redo_forward")>> \in Seq(StepUpTo(callbackKey))
    BY CallType DEF Op, InsideCommand
  <2>2. Locked("game", <<Call("redo_forward")>>) \in Seq(StepUpTo(callbackKey))
    BY <2>1, LockedType
  <2> QED
    BY <1>4, <2>2, OnlyType DEF CmdRedo
<1>5. CASE RedoForward
  <2>1. /\ CanForward(game) \in BOOLEAN
        /\ CanForward(game) => GameForward(game) \in Game
    BY StateTypes, CursorType DEF CanForward
  <2> QED
    BY <1>1, <1>5, <2>1 DEF RedoForward
<1> QED
  BY <1>2, <1>3, <1>4, <1>5

LEMMA InitType == Init => IndInv
<1> SUFFICES ASSUME Init PROVE IndInv
  OBVIOUS
<1>1. cli \in CliType
  BY GameCreateType DEF Init, CliType, Player
<1>2. engine \in EngineType
  BY StartAssumption, FirstMoveAssumption DEF Init, EngineType, Callback
<1>3. worker \in WorkerType
  BY StartAssumption DEF Init, WorkerType
<1>4. << >> \in Seq(StepUpTo(callbackKey)) /\ << >> \in Seq(Step)
  OBVIOUS
<1> QED
  BY <1>1, <1>2, <1>3, <1>4 DEF Init, IndInv, TypeOK, KeysGivenOut, KeyNeverAhead

LEMMA NextType == IndInv /\ [Next]_vars => IndInv'
<1> SUFFICES ASSUME IndInv, [Next]_vars PROVE IndInv'
  OBVIOUS
<1> "main" \in Thread /\ "search" \in Thread
  BY DEF Thread
<1>1. ASSUME NEW t \in Thread, AnyThread(t) PROVE IndInv'
  BY <1>1, MutexStepType, MoveStepType DEF AnyThread
<1>2. CASE SearchThread
  BY <1>1, <1>2, DeepenStepType, CallbackStepType DEF SearchThread
<1>3. CASE MainThread
  <2>1. /\ "stop_signal" \in JoinOp /\ "wait_signal" \in JoinOp
        /\ "set_show" \in EngineOp /\ "set_no_show" \in EngineOp
    BY DEF JoinOp, EngineOp
  <2> QED
    BY <1>1, <1>3, <2>1, JoinStepType, DecideStepType, NewStepType,
       CommandStepType, CursorStepType DEF MainThread
<1>4. CASE ReadMove \/ ReadCommand \/ EndOfInput
  BY <1>4, LineStepType
<1>5. CASE UNCHANGED vars
  BY <1>5 DEF vars, IndInv, TypeOK, KeysGivenOut, KeyNeverAhead
<1> QED
  BY <1>2, <1>3, <1>4, <1>5 DEF Next, Exited

(* The invariant holds in every state a step leads to as well.             *)
LEMMA Inductive == Spec => []IndInv
BY InitType, NextType, PTL DEF Spec

(* Type correctness of the two threads: every value stays in its range, a  *)
(* mutex has an owner exactly while it is held, and the cursor of the game *)
(* never leaves the line of moves, whatever is typed and whatever the      *)
(* search finds.                                                           *)
THEOREM TypeCorrect == Spec => []TypeOK
<1>1. IndInv => TypeOK
  BY DEF IndInv
<1> QED
  BY <1>1, Inductive, PTL

-----------------------------------------------------------------------------
(* The keys of the callbacks.                                              *)

(* The engine never holds a key of the callback that the command loop has  *)
(* not given out: callback_key only grows, and a key passed to             *)
(* set_thinking_done_cb was the latest one when it was passed.             *)
THEOREM KeysAreGivenOut == Spec => []KeyNeverAhead
<1>1. IndInv => KeyNeverAhead
  BY DEF IndInv, KeysGivenOut
<1> QED
  BY <1>1, Inductive, PTL

(* No step takes a key back.                                               *)
LEMMA KeyGrows == IndInv /\ [Next]_vars => callbackKey' >= callbackKey
<1> SUFFICES ASSUME IndInv, [Next]_vars
             PROVE  callbackKey' >= callbackKey
  OBVIOUS
<1>1. callbackKey \in Nat
  BY DEF IndInv, TypeOK
<1>2. ASSUME callbackKey' = callbackKey \/ callbackKey' = callbackKey + 1
      PROVE  callbackKey' >= callbackKey
  BY <1>1, <1>2
<1>3. CASE SearchThread
  BY <1>2, <1>3
     DEF SearchThread, AnyThread, MtxLock, MtxUnlock, AppendMove, ProcessMove,
         CheckEnd, Announce, SetCb, SetupSearch, Deepen, SearchCompletes,
         SearchTerminated, Update, PrintPv, NextDepth, ThinkingCb, Answer, Report,
         Rearm, ExitOnDone, Only, CliStep, KeyStep, EngineStep, WorkerStep, ExitStep
<1>4. CASE MainThread
  <2>1. CASE AnyThread("main") \/ JoinSignal("stop_signal", TRUE)
                \/ JoinSignal("wait_signal", FALSE) \/ ThrdJoin \/ Spawn
                \/ ResetHistory \/ SetShow("set_show", TRUE)
                \/ SetShow("set_no_show", FALSE)
    BY <1>2, <2>1
       DEF AnyThread, MtxLock, MtxUnlock, AppendMove, ProcessMove, CheckEnd,
           Announce, SetCb, JoinSignal, ThrdJoin, Spawn, ResetHistory, SetShow,
           Only, CliStep, EngineStep, WorkerStep
  <2>2. CASE Decide \/ TryMove \/ StartGame \/ PlainCmd \/ CmdEasy \/ CmdQuit
                \/ CmdNew \/ NewReset \/ NewRearm \/ NewFlags
    BY <1>2, <2>2
       DEF Decide, TryMove, StartGame, PlainCmd, CmdEasy, CmdQuit, CmdNew,
           NewReset, NewRearm, NewFlags, Only, CliStep, KeyStep
  <2>3. CASE CmdForce \/ CmdPosition \/ SetPosition \/ Replay \/ CmdGo \/ GoStart
                \/ CmdResult \/ ResultDone \/ CmdSide("black") \/ CmdSide("white")
    BY <1>2, <2>3
       DEF CmdForce, CmdPosition, EnterForceMode, SetPosition, Replay, CmdGo,
           GoStart, CmdResult, ResultDone, CmdSide, Only, CliStep, KeyStep, ExitStep
  <2>4. CASE CmdPlayother \/ CmdSearch("search_cmd", << >>)
                \/ CmdSearch("search_sync", WaitThinking) \/ CmdSetboard
                \/ SetBoard \/ CmdExitondone
    BY <1>2, <2>4
       DEF CmdPlayother, CmdSearch, CmdSetboard, SetBoard, CmdExitondone,
           Only, CliStep, KeyStep
  <2>5. CASE CmdBadArgument \/ CmdUndo \/ CmdRedo \/ RedoForward \/ Exit
    BY <1>2, <2>5
       DEF CmdBadArgument, CmdUndo, CmdRedo, RedoForward, MoveCursor,
           CommandError, Exit, Only, CliStep, ExitStep
  <2> QED
    BY <1>4, <2>1, <2>2, <2>3, <2>4, <2>5 DEF MainThread
<1>5. CASE ReadMove \/ ReadCommand \/ EndOfInput
  BY <1>2, <1>5 DEF ReadMove, ReadCommand, EndOfInput, Begin
<1>6. CASE UNCHANGED vars
  BY <1>2, <1>6 DEF vars
<1> QED
  BY <1>3, <1>4, <1>5, <1>6 DEF Next, Exited

(* A late answer stays ignored: once its key is given up, the engine's key *)
(* is good again only when a later one has replaced it, so the callbacks   *)
(* never play or print the result of a search that was given up.           *)
THEOREM StaleStaysStale == Spec => StaleAnswerStaysStale
<1>1. IndInv /\ [Next]_vars =>
        [engine.arg # callbackKey /\ engine'.arg = callbackKey'
            => engine'.arg > engine.arg]_vars
  <2> SUFFICES ASSUME IndInv, [Next]_vars,
                      engine.arg # callbackKey, engine'.arg = callbackKey'
               PROVE  engine'.arg > engine.arg
    OBVIOUS
  <2>1. /\ engine.arg \in Nat /\ callbackKey \in Nat /\ callbackKey' \in Nat
        /\ engine.arg <= callbackKey
    BY NextType DEF IndInv, TypeOK, EngineType, KeysGivenOut, KeyNeverAhead
  <2>2. callbackKey' >= callbackKey
    BY KeyGrows
  <2> QED
    BY <2>1, <2>2
<1> QED
  BY <1>1, Inductive, PTL DEF Spec, StaleAnswerStaysStale

-----------------------------------------------------------------------------
(* The two modes of the command loop.                                      *)

(* A step that neither starts a game nor enters the force mode.            *)
KeepsModes == (cli'.started => cli.started) /\ (cli'.force => cli.force)

LEMMA ModesApart ==
    IndInv /\ StartedExcludesForce /\ [Next]_vars => StartedExcludesForce'
<1> SUFFICES ASSUME IndInv, StartedExcludesForce, [Next]_vars
             PROVE  StartedExcludesForce'
  OBVIOUS
<1>0. cli \in CliType
  BY DEF IndInv, TypeOK
<1>1. ASSUME KeepsModes PROVE StartedExcludesForce'
  BY <1>1 DEF KeepsModes, StartedExcludesForce, gameStarted, isForceMode
<1>2. ASSUME cli' = cli PROVE StartedExcludesForce'
  BY <1>1, <1>2 DEF KeepsModes
<1>3. CASE SearchThread
  <2>1. CASE AnyThread("search")
    BY <1>0, <1>1, <1>2, <2>1
       DEF AnyThread, MtxLock, MtxUnlock, AppendMove, ProcessMove, CheckEnd,
           Announce, SetCb, Only, CliStep, EngineStep, KeepsModes, CliType
  <2>2. CASE ~AnyThread("search")
    BY <1>2, <1>3, <2>2
       DEF SearchThread, SetupSearch, Deepen, SearchCompletes, SearchTerminated,
           Update, PrintPv, NextDepth, ThinkingCb, Answer, Report, Rearm,
           ExitOnDone, Only, KeyStep, EngineStep, WorkerStep, ExitStep
  <2> QED
    BY <2>1, <2>2
<1>4. CASE MainThread
  <2>1. CASE AnyThread("main")
    BY <1>0, <1>1, <1>2, <2>1
       DEF AnyThread, MtxLock, MtxUnlock, AppendMove, ProcessMove, CheckEnd,
           Announce, SetCb, Only, CliStep, EngineStep, KeepsModes, CliType
  <2>2. CASE JoinSignal("stop_signal", TRUE) \/ JoinSignal("wait_signal", FALSE)
                \/ ThrdJoin \/ Spawn \/ ResetHistory
                \/ SetShow("set_show", TRUE) \/ SetShow("set_no_show", FALSE)
    BY <1>2, <2>2
       DEF JoinSignal, ThrdJoin, Spawn, ResetHistory, SetShow, Only,
           EngineStep, WorkerStep
  <2>3. CASE Decide \/ TryMove \/ PlainCmd \/ CmdEasy \/ CmdQuit \/ CmdNew
                \/ NewReset \/ NewRearm \/ Exit
    BY <1>0, <1>1, <1>2, <2>3
       DEF Decide, TryMove, PlainCmd, CmdEasy, CmdQuit, CmdNew, NewReset,
           NewRearm, Exit, Only, CliStep, KeyStep, ExitStep, KeepsModes, CliType
  <2>4. CASE StartGame \/ GoStart \/ NewFlags \/ CmdForce \/ CmdPosition
    BY <1>0, <2>4
       DEF StartGame, GoStart, NewFlags, CmdForce, CmdPosition, EnterForceMode,
           CliStep, KeyStep, StartedExcludesForce, gameStarted, isForceMode, CliType
  <2>5. CASE SetPosition \/ Replay \/ CmdGo \/ CmdResult \/ ResultDone
                \/ CmdSide("black") \/ CmdSide("white") \/ CmdPlayother
    BY <1>0, <1>1, <1>2, <2>5
       DEF SetPosition, Replay, CmdGo, CmdResult, ResultDone, CmdSide,
           CmdPlayother, Only, CliStep, KeyStep, ExitStep, KeepsModes, CliType
  <2>6. CASE CmdSearch("search_cmd", << >>) \/ CmdSearch("search_sync", WaitThinking)
                \/ CmdSetboard \/ SetBoard \/ CmdExitondone
    BY <1>0, <1>1, <1>2, <2>6
       DEF CmdSearch, CmdSetboard, SetBoard, CmdExitondone, Only, CliStep,
           KeyStep, KeepsModes, CliType
  <2>7. CASE CmdBadArgument \/ CmdUndo \/ CmdRedo \/ RedoForward
    BY <1>0, <1>1, <1>2, <2>7
       DEF CmdBadArgument, CmdUndo, CmdRedo, RedoForward, MoveCursor,
           CommandError, Only, CliStep, KeepsModes, CliType
  <2> QED
    BY <1>4, <2>1, <2>2, <2>3, <2>4, <2>5, <2>6, <2>7 DEF MainThread
<1>5. CASE ReadMove \/ ReadCommand \/ EndOfInput
  BY <1>2, <1>5 DEF ReadMove, ReadCommand, EndOfInput, Begin
<1>6. CASE UNCHANGED vars
  BY <1>2, <1>6 DEF vars
<1> QED
  BY <1>3, <1>4, <1>5, <1>6 DEF Next, Exited

(* A game is never under way in force mode: whatever the order of commands *)
(* and moves, and whichever thread ends a game, game_started and           *)
(* is_force_mode are not set together.                                     *)
THEOREM ModesStayApart == Spec => []StartedExcludesForce
<1>1. Init => StartedExcludesForce
  BY DEF Init, StartedExcludesForce, gameStarted, isForceMode
<1> QED
  BY <1>1, Inductive, ModesApart, PTL DEF Spec

-----------------------------------------------------------------------------
(* One search at a time.                                                   *)

(* No search is under way, and the thread of the last one is joined.       *)
SearchOver == todo["search"] = << >> /\ ~worker.joinable

(* The steps of the engine that must find the search joined.               *)
AfterJoin == {"spawn", "reset_history"}

(* Every one of them in the steps q comes right after the steps of a join. *)
SpawnsJoined(q) ==
    \A i \in 1..Len(q) : q[i].op \in AfterJoin => i > 1 /\ q[i - 1].op \in JoinOp

SafeSeq == {q \in Seq(Step) : SpawnsJoined(q)}

(* The same of what the main thread has still to do: a join that is done   *)
(* has left its unlock, or nothing, before them.                            *)
SpawnsReady(q, over) ==
    \A i \in 1..Len(q) : q[i].op \in AfterJoin =>
        \/ i > 1 /\ q[i - 1].op \in JoinOp
        \/ i = 2 /\ q[1].op = "unlock" /\ over
        \/ i = 1 /\ over

(* The next thing but an unlock is the join.                               *)
JoinPending(q) ==
    \/ Len(q) > 0 /\ q[1].op = "thrd_join"
    \/ Len(q) > 1 /\ q[1].op = "unlock" /\ q[2].op = "thrd_join"

(* The invariant: a thread that join_all_threads takes for stopped already *)
(* is joined, or about to be.                                              *)
SearchInv ==
    /\ SpawnsReady(todo["main"], SearchOver)
    /\ worker.started \/ SearchOver \/ JoinPending(todo["main"])

LEMMA SafeConcat ==
    ASSUME NEW a \in SafeSeq, NEW b \in SafeSeq
    PROVE  a \o b \in SafeSeq
<1>1. a \in Seq(Step) /\ b \in Seq(Step) /\ a \o b \in Seq(Step)
  BY DEF SafeSeq
<1>2. ASSUME NEW i \in 1..Len(a \o b), (a \o b)[i].op \in AfterJoin
      PROVE  i > 1 /\ (a \o b)[i - 1].op \in JoinOp
  <2>1. CASE i <= Len(a)
    <3>1. a[i].op \in AfterJoin /\ i \in 1..Len(a)
      BY <1>1, <1>2, <2>1
    <3>2. i > 1 /\ a[i - 1].op \in JoinOp
      BY <3>1 DEF SafeSeq, SpawnsJoined
    <3> QED
      BY <1>1, <2>1, <3>2
  <2>2. CASE i > Len(a)
    <3>1. b[i - Len(a)].op \in AfterJoin /\ i - Len(a) \in 1..Len(b)
      BY <1>1, <1>2, <2>2
    <3>2. i - Len(a) > 1 /\ b[i - Len(a) - 1].op \in JoinOp
      BY <3>1 DEF SafeSeq, SpawnsJoined
    <3>3. i - 1 \in 1..Len(a \o b) /\ i - 1 > Len(a) /\ i > 1
      BY <1>1, <1>2, <2>2, <3>1, <3>2
    <3>4. (a \o b)[i - 1] = b[i - Len(a) - 1]
      BY <1>1, <3>1, <3>3
    <3> QED
      BY <3>2, <3>3, <3>4
  <2> QED
    BY <1>1, <2>1, <2>2
<1> QED
  BY <1>1, <1>2 DEF SafeSeq, SpawnsJoined

(* A spawn right after a join.                                             *)
LEMMA SafeSpawn ==
    ASSUME NEW q \in SafeSeq, Len(q) > 0, q[Len(q)].op \in JoinOp, NEW s \in Step
    PROVE  q \o <<s>> \in SafeSeq
<1> DEFINE r == q \o <<s>>
<1>1. /\ q \in Seq(Step) /\ r \in Seq(Step) /\ Len(r) = Len(q) + 1
      /\ \A i \in 1..Len(q) : r[i] = q[i]
  BY DEF SafeSeq
<1> HIDE DEF r
<1>2. ASSUME NEW i \in 1..Len(r), r[i].op \in AfterJoin
      PROVE  i > 1 /\ r[i - 1].op \in JoinOp
  <2>1. CASE i = Len(q) + 1
    <3>1. i > 1 /\ i - 1 = Len(q) /\ r[Len(q)] = q[Len(q)]
      BY <1>1, <2>1
    <3> QED
      BY <3>1
  <2>2. CASE i <= Len(q)
    <3>1. i \in 1..Len(q) /\ q[i].op \in AfterJoin
      BY <1>1, <1>2, <2>2
    <3>2. i > 1 /\ q[i - 1].op \in JoinOp
      BY <3>1 DEF SafeSeq, SpawnsJoined
    <3>3. r[i - 1] = q[i - 1]
      BY <1>1, <3>1, <3>2
    <3> QED
      BY <3>2, <3>3
  <2> QED
    BY <1>1, <1>2, <2>1, <2>2
<1> QED
  BY <1>1, <1>2 DEF r, SafeSeq, SpawnsJoined

LEMMA SafeOne ==
    /\ << >> \in SafeSeq
    /\ \A s \in Step : s.op \notin {"spawn", "reset_history"} => <<s>> \in SafeSeq
BY DEF SafeSeq, SpawnsJoined, AfterJoin

LEMMA CallSafe ==
    /\ \A o \in Op \ {"process_move"} : Call(o) \in Step /\ Call(o).op = o
    /\ \A o \in Op, m \in Move \cup {NoMove} :
          /\ CallMove(o, m).op = o
          /\ (o = "process_move" => m \in Move) => CallMove(o, m) \in Step
    /\ \A o \in Op \ {"process_move"}, f \in Callback, k \in Nat :
          CallCb(o, f, k) \in Step /\ CallCb(o, f, k).op = o
    /\ \A mx \in Mutex : /\ Lock(mx) \in Step /\ Lock(mx).op = "lock"
                         /\ Unlock(mx) \in Step /\ Unlock(mx).op = "unlock"
<1>1. \A o \in Op \ {"process_move"} : Call(o) \in Step /\ Call(o).op = o
  BY DEF Call, Step, NoMutex, Callback
<1>2. \A o \in Op, m \in Move \cup {NoMove} :
          /\ CallMove(o, m).op = o
          /\ (o = "process_move" => m \in Move) => CallMove(o, m) \in Step
  BY DEF CallMove, Call, Step, NoMutex, Callback
<1>3. \A o \in Op \ {"process_move"}, f \in Callback, k \in Nat :
          CallCb(o, f, k) \in Step /\ CallCb(o, f, k).op = o
  BY DEF CallCb, Step, NoMutex
<1>4. \A mx \in Mutex : /\ Lock(mx) \in Step /\ Lock(mx).op = "lock"
                        /\ Unlock(mx) \in Step /\ Unlock(mx).op = "unlock"
  BY DEF Lock, Unlock, Call, Step, Callback, Op, LockOp, NoMutex
<1> QED
  BY <1>1, <1>2, <1>3, <1>4

LEMMA SafeLocked ==
    ASSUME NEW mx \in Mutex, NEW body \in SafeSeq
    PROVE  Locked(mx, body) \in SafeSeq
<1>1. <<Lock(mx)>> \in SafeSeq /\ <<Unlock(mx)>> \in SafeSeq
  BY SafeOne, CallSafe
<1> QED
  BY <1>1, SafeConcat DEF Locked

(* A call that needs no join.                                              *)
LEMMA SafeCall ==
    \A o \in Op \ {"process_move", "spawn", "reset_history"} : <<Call(o)>> \in SafeSeq
BY SafeOne, CallSafe

(* The handlers join before they spawn.                                    *)
LEMMA SafeBodies ==
    /\ StopThinking \in SafeSeq /\ WaitThinking \in SafeSeq
    /\ Think \in SafeSeq        /\ ResetEngine \in SafeSeq
    /\ DecideMove \in SafeSeq   /\ SetTimeInc \in SafeSeq
    /\ LockedSetter \in SafeSeq
<1> "engine" \in Mutex /\ "game" \in Mutex
  BY DEF Mutex
<1> /\ << >> \in SafeSeq
    /\ \A o \in {"stop_signal", "wait_signal", "decide"} :
          <<Call(o)>> \in SafeSeq
  BY SafeOne, SafeCall DEF Op, JoinOp, EngineOp, GameOp
<1>1. StopThinking \in SafeSeq /\ WaitThinking \in SafeSeq
  <2>1. <<Lock("engine")>> \in SafeSeq
    BY SafeOne, CallSafe
  <2>2. /\ StopThinking = <<Lock("engine")>> \o <<Call("stop_signal")>>
        /\ WaitThinking = <<Lock("engine")>> \o <<Call("wait_signal")>>
    BY DEF StopThinking, WaitThinking
  <2> QED
    BY <2>1, <2>2, SafeConcat
<1>2. Think \in SafeSeq
  <2>1. /\ Call("stop_signal") \in Step /\ Call("stop_signal").op = "stop_signal"
        /\ Call("spawn") \in Step /\ Lock("engine") \in Step
    BY CallSafe DEF Op, JoinOp, EngineOp
  <2>2. /\ Len(StopThinking) > 0
        /\ StopThinking[Len(StopThinking)].op \in JoinOp
    BY <2>1 DEF StopThinking, JoinOp
  <2>3. StopThinking \o <<Call("spawn")>> \in SafeSeq
    BY <1>1, <2>1, <2>2, SafeSpawn
  <2> QED
    BY <2>3, SafeLocked DEF Think
<1>3. ResetEngine \in SafeSeq
  <2>1. /\ Call("stop_signal") \in Step /\ Call("stop_signal").op = "stop_signal"
        /\ Call("reset_history") \in Step /\ Lock("engine") \in Step
    BY CallSafe DEF Op, JoinOp, EngineOp
  <2>2. /\ Len(StopThinking) > 0
        /\ StopThinking[Len(StopThinking)].op \in JoinOp
    BY <2>1 DEF StopThinking, JoinOp
  <2>3. StopThinking \o <<Call("reset_history")>> \in SafeSeq
    BY <1>1, <2>1, <2>2, SafeSpawn
  <2> QED
    BY <2>3, SafeLocked DEF ResetEngine
<1> QED
  BY <1>1, <1>2, <1>3, SafeLocked DEF DecideMove, SetTimeInc, LockedSetter

LEMMA SafeMoveBodies ==
    ASSUME NEW m \in Move \cup {NoMove}
    PROVE  /\ m \in Move => EngineProcessMove(m) \in SafeSeq
           /\ AddMove(m) \in SafeSeq
           /\ OperatorMove(m) \in SafeSeq
           /\ AnswerAtOnce(m) \in SafeSeq
<1> "engine" \in Mutex /\ "game" \in Mutex /\ "stdout" \in Mutex
  BY DEF Mutex
<1>1. \A o \in {"append", "announce"} : <<CallMove(o, m)>> \in SafeSeq
  BY SafeOne, CallSafe DEF Op, GameOp
<1>2. m \in Move => <<CallMove("process_move", m)>> \in SafeSeq
  <2>1. "process_move" \in Op
    BY DEF Op, GameOp
  <2>2. m \in Move => /\ CallMove("process_move", m) \in Step
                      /\ CallMove("process_move", m).op = "process_move"
    BY <2>1, CallSafe
  <2> QED
    BY <2>2, SafeOne
<1>3. /\ AddMove(m) \in SafeSeq
      /\ Locked("stdout", <<CallMove("announce", m)>>) \in SafeSeq
      /\ Locked("game", << >>) \in SafeSeq
  BY <1>1, SafeOne, SafeLocked DEF AddMove
<1>4. PrintComputerMove(m) \in SafeSeq
  BY <1>3, SafeConcat DEF PrintComputerMove
<1>5. <<Call("start_game")>> \o AddMove(m) \o DecideMove \in SafeSeq
  BY <1>3, SafeBodies, SafeCall, SafeConcat DEF Op, GameOp
<1>6. OperatorMove(m) \in SafeSeq
  <2>1. Locked("game", <<Call("start_game")>> \o AddMove(m) \o DecideMove) \in SafeSeq
    BY <1>5, SafeLocked
  <2> QED
    BY <2>1, SafeBodies, SafeConcat DEF OperatorMove
<1> QED
  BY <1>2, <1>3, <1>4, <1>6, SafeLocked, SafeConcat DEF EngineProcessMove, AnswerAtOnce

LEMMA SafeSetCb ==
    ASSUME NEW f \in Callback, NEW k \in Nat
    PROVE  SetThinkingDoneCb(f, k) \in SafeSeq
<1>1. "set_cb" \in Op \ {"process_move"}
  BY DEF Op, EngineOp
<1>2. CallCb("set_cb", f, k) \in Step /\ CallCb("set_cb", f, k).op = "set_cb"
  BY <1>1, CallSafe
<1>3. <<CallCb("set_cb", f, k)>> \in SafeSeq
  BY <1>2, SafeOne
<1> QED
  BY <1>3, SafeLocked DEF SetThinkingDoneCb, Mutex

LEMMA SafePlainBody ==
    ASSUME NEW c \in PlainCommand
    PROVE  PlainBody[c] \in SafeSeq
<1> "engine" \in Mutex /\ "game" \in Mutex /\ "stdout" \in Mutex
  BY DEF Mutex
<1>1. \A o \in {"set_show", "set_no_show"} : Locked("engine", <<Call(o)>>) \in SafeSeq
  BY SafeCall, SafeLocked DEF Op, EngineOp
<1>2. \A mx \in Mutex : /\ Locked(mx, << >>) \in SafeSeq
                        /\ Locked(mx, LockedSetter) \in SafeSeq
  BY SafeOne, SafeLocked, SafeBodies
<1>3. /\ LockedSetter \o LockedSetter \o SetTimeInc \in SafeSeq
      /\ Locked("game", << >>) \o Locked("stdout", << >>) \in SafeSeq
      /\ Locked("stdout", Locked("game", << >>)) \in SafeSeq
  BY <1>2, SafeBodies, SafeConcat, SafeLocked
<1>4. /\ PlainBody["stop"] \in SafeSeq
      /\ PlainBody["hard"] \in SafeSeq
      /\ PlainBody["hint"] \in SafeSeq
      /\ PlainBody["level"] \in SafeSeq
      /\ PlainBody["set_option"] \in SafeSeq
  BY <1>2, <1>3, SafeBodies DEF PlainBody
<1>5. /\ PlainBody["post"] \in SafeSeq
      /\ PlainBody["nopost"] \in SafeSeq
      /\ PlainBody["hash_size"] \in SafeSeq
      /\ PlainBody["ping"] \in SafeSeq
      /\ PlainBody["divide"] \in SafeSeq
      /\ PlainBody["position_info"] \in SafeSeq
  BY <1>1, <1>2, <1>3 DEF PlainBody
<1> QED
  BY <1>4, <1>5 DEF PlainCommand

-----------------------------------------------------------------------------
(* What each kind of step keeps.                                           *)

(* The steps of a handler in front of what is left.                        *)
LEMMA SafeIsReady ==
    ASSUME NEW q \in SafeSeq, NEW over
    PROVE  SpawnsReady(q, over)
BY DEF SafeSeq, SpawnsJoined, SpawnsReady

LEMMA TailIsSafe ==
    ASSUME NEW q \in Seq(Step), q # << >>, NEW over, SpawnsReady(q, over),
           Head(q).op \notin JoinOp \cup {"unlock"}
    PROVE  Tail(q) \in SafeSeq /\ ~JoinPending(q)
<1>1. Tail(q) \in Seq(Step) /\ Len(Tail(q)) = Len(q) - 1 /\ Head(q) = q[1]
  OBVIOUS
<1>2. ASSUME NEW i \in 1..Len(Tail(q)), Tail(q)[i].op \in AfterJoin
      PROVE  i > 1 /\ Tail(q)[i - 1].op \in JoinOp
  <2>1. i + 1 \in 1..Len(q) /\ q[i + 1].op \in AfterJoin /\ i + 1 - 1 = i
    BY <1>1, <1>2
  <2>2. q[i].op \in JoinOp
    BY <1>1, <2>1 DEF SpawnsReady
  <2>3. i > 1
    BY <1>1, <1>2, <2>2
  <2> QED
    BY <1>1, <1>2, <2>2, <2>3
<1> QED
  BY <1>1, <1>2 DEF SafeSeq, SpawnsJoined, JoinPending, JoinOp

(* A step of the main thread other than a join or an unlock.               *)
LEMMA OtherStep ==
    ASSUME IndInv, SearchInv, NEW o, o \notin JoinOp \cup {"unlock"},
           At("main", o), NEW body \in SafeSeq, Continue("main", body),
           worker' = worker
    PROVE  SearchInv'
<1> DEFINE q == todo["main"]
<1>1. q \in Seq(Step) /\ q # << >> /\ Head(q).op = o /\ SpawnsReady(q, SearchOver)
  BY DEF IndInv, TypeOK, Thread, At, SearchInv
<1>2. Tail(q) \in SafeSeq /\ ~JoinPending(q)
  BY <1>1, TailIsSafe
<1>3. /\ todo'["main"] = body \o Tail(q) /\ todo'["search"] = todo["search"]
  BY DEF IndInv, TypeOK, Thread, Continue
<1>4. todo'["main"] \in SafeSeq
  BY <1>2, <1>3, SafeConcat
<1>5. SpawnsReady(todo'["main"], SearchOver')
  BY <1>4, SafeIsReady
<1>6. worker'.started \/ SearchOver'
  BY <1>2, <1>3 DEF SearchInv, SearchOver
<1> QED
  BY <1>5, <1>6 DEF SearchInv

(* A step of the search thread.                                            *)
LEMMA SearchStep ==
    ASSUME IndInv, SearchInv, NEW o, At("search", o), NEW body,
           Continue("search", body),
           worker'.started = worker.started, worker'.joinable = worker.joinable
    PROVE  SearchInv'
<1>1. ~SearchOver
  BY DEF At, SearchOver
<1>2. todo'["main"] = todo["main"]
  BY DEF IndInv, TypeOK, Thread, Continue
<1>3. SpawnsReady(todo["main"], FALSE)
  BY <1>1 DEF SearchInv, SpawnsReady
<1>4. SpawnsReady(todo'["main"], SearchOver')
  BY <1>2, <1>3 DEF SpawnsReady
<1> QED
  BY <1>1, <1>2, <1>4 DEF SearchInv

(* An idle main thread begins a command.                                   *)
LEMMA BeginStep ==
    ASSUME IndInv, SearchInv, Idle, NEW body \in SafeSeq, Begin(body)
    PROVE  SearchInv'
<1>1. /\ todo'["main"] = body /\ todo'["search"] = todo["search"]
      /\ worker' = worker /\ ~JoinPending(todo["main"])
  BY DEF IndInv, TypeOK, Thread, Begin, Idle, JoinPending
<1>2. SpawnsReady(todo'["main"], SearchOver')
  BY <1>1, SafeIsReady
<1> QED
  BY <1>1, <1>2 DEF SearchInv, SearchOver

(* A command is given up, outside of any join.                             *)
LEMMA ErrorStep ==
    ASSUME IndInv, SearchInv, NEW o, o \notin JoinOp \cup {"unlock"},
           At("main", o), CommandError
    PROVE  SearchInv'
<1>1. /\ todo'["main"] = << >> /\ todo'["search"] = todo["search"]
      /\ worker' = worker
  BY DEF IndInv, TypeOK, Thread, CommandError
<1>2. ~JoinPending(todo["main"])
  BY DEF IndInv, TypeOK, Thread, At, JoinPending, JoinOp
<1>3. SpawnsReady(todo'["main"], SearchOver')
  BY <1>1, SafeOne, SafeIsReady
<1> QED
  BY <1>1, <1>2, <1>3 DEF SearchInv, SearchOver

-----------------------------------------------------------------------------
(* The join, step by step.                                                 *)

(* What a step may put in front of the rest of a join.                     *)
LEMMA ReadyAfterJoin ==
    ASSUME NEW q \in Seq(Step), q # << >>, NEW over, SpawnsReady(q, over),
           Head(q).op \in JoinOp
    PROVE  /\ over => SpawnsReady(Tail(q), over)
           /\ over => SpawnsReady(<<Unlock("engine")>> \o Tail(q), over)
           /\ \A any : SpawnsReady(<<Unlock("engine"), Call("thrd_join")>> \o Tail(q), any)
<1> DEFINE r == Tail(q)
<1>1. r \in Seq(Step) /\ Len(r) = Len(q) - 1 /\ Head(q) = q[1]
  OBVIOUS
<1>2. ASSUME NEW i \in 1..Len(r), r[i].op \in AfterJoin, i > 1
      PROVE  r[i - 1].op \in JoinOp
  <2>1. i + 1 \in 1..Len(q) /\ q[i + 1].op \in AfterJoin /\ i + 1 - 1 = i
    BY <1>1, <1>2
  <2>2. i + 1 # 2 /\ i + 1 # 1
    BY <1>2
  <2>3. q[i].op \in JoinOp
    BY <1>1, <2>1, <2>2 DEF SpawnsReady
  <2> QED
    BY <1>1, <1>2, <2>3
<1>3. over => SpawnsReady(r, over)
  BY <1>2 DEF SpawnsReady
<1>4. /\ Unlock("engine") \in Step /\ Unlock("engine").op = "unlock"
      /\ Call("thrd_join") \in Step /\ Call("thrd_join").op = "thrd_join"
  BY CallSafe DEF Mutex, Op, JoinOp
<1> HIDE DEF r
<1>5. over => SpawnsReady(<<Unlock("engine")>> \o r, over)
  <2> DEFINE s == <<Unlock("engine")>> \o r
  <2>1. /\ Len(s) = Len(r) + 1 /\ s[1] = Unlock("engine")
        /\ \A i \in 2..Len(s) : s[i] = r[i - 1]
    BY <1>1, <1>4
  <2> HIDE DEF s
  <2>2. ASSUME over, NEW i \in 1..Len(s), s[i].op \in AfterJoin
        PROVE  \/ i > 1 /\ s[i - 1].op \in JoinOp
               \/ i = 2 /\ s[1].op = "unlock" /\ over
    <3>1. i > 1
      BY <1>4, <2>1, <2>2 DEF AfterJoin
    <3>2. CASE i = 2
      BY <1>4, <2>1, <2>2, <3>2
    <3>3. CASE i > 2
      <4>1. i - 1 \in 1..Len(r) /\ r[i - 1].op \in AfterJoin /\ i - 1 > 1
        BY <1>1, <2>1, <2>2, <3>3
      <4>2. r[i - 1 - 1].op \in JoinOp
        BY <1>2, <4>1
      <4>3. i - 1 \in 2..Len(s)
        BY <1>1, <2>1, <4>1
      <4> QED
        BY <2>1, <3>1, <4>2, <4>3
    <3> QED
      BY <3>1, <3>2, <3>3
  <2> QED
    BY <2>2 DEF SpawnsReady, s
<1>6. \A any : SpawnsReady(<<Unlock("engine"), Call("thrd_join")>> \o r, any)
  <2> DEFINE s == <<Unlock("engine"), Call("thrd_join")>> \o r
  <2>1. /\ Len(s) = Len(r) + 2 /\ s[1] = Unlock("engine") /\ s[2] = Call("thrd_join")
        /\ \A i \in 3..Len(s) : s[i] = r[i - 2]
    BY <1>1, <1>4
  <2> HIDE DEF s
  <2>2. ASSUME NEW i \in 1..Len(s), s[i].op \in AfterJoin
        PROVE  i > 1 /\ s[i - 1].op \in JoinOp
    <3>1. i # 1 /\ i # 2
      BY <1>4, <2>1, <2>2 DEF AfterJoin
    <3>2. i > 2
      BY <2>2, <3>1
    <3>3. CASE i = 3
      BY <1>4, <2>1, <3>3 DEF JoinOp
    <3>4. CASE i > 3
      <4>1. i - 2 \in 1..Len(r) /\ r[i - 2].op \in AfterJoin /\ i - 2 > 1
        BY <1>1, <2>1, <2>2, <3>4
      <4>2. r[i - 2 - 1].op \in JoinOp
        BY <1>2, <4>1
      <4>3. i - 1 \in 3..Len(s)
        BY <1>1, <2>1, <4>1, <3>4
      <4> QED
        BY <2>1, <3>2, <4>2, <4>3
    <3> QED
      BY <3>2, <3>3, <3>4
  <2> QED
    BY <2>2 DEF SpawnsReady, s
<1> QED
  BY <1>3, <1>5, <1>6 DEF r

LEMMA UnlockStep ==
    ASSUME IndInv, SearchInv, MtxUnlock("main")
    PROVE  SearchInv'
<1> DEFINE q == todo["main"]
           r == Tail(q)
<1>1. /\ q \in Seq(Step) /\ q # << >> /\ q[1].op = "unlock"
      /\ SpawnsReady(q, SearchOver)
  BY DEF IndInv, TypeOK, Thread, MtxUnlock, At, SearchInv
<1>2. /\ todo'["main"] = r /\ todo'["search"] = todo["search"]
      /\ worker' = worker
  BY <1>1 DEF IndInv, TypeOK, Thread, MtxUnlock, Continue
<1>3. r \in Seq(Step) /\ Len(r) = Len(q) - 1 /\ \A i \in 1..Len(r) : r[i] = q[i + 1]
  BY <1>1
<1>4. SearchOver' <=> SearchOver
  BY <1>2 DEF SearchOver
<1> HIDE DEF q, r
<1>5. SpawnsReady(r, SearchOver)
  <2>1. ASSUME NEW i \in 1..Len(r), r[i].op \in AfterJoin
        PROVE  \/ i > 1 /\ r[i - 1].op \in JoinOp
               \/ i = 1 /\ SearchOver
    <3>1. i + 1 \in 1..Len(q) /\ q[i + 1].op \in AfterJoin /\ i + 1 - 1 = i
      BY <1>1, <1>3, <2>1
    <3>2. q[i].op \in JoinOp \/ (i + 1 = 2 /\ SearchOver)
      BY <1>1, <3>1 DEF SpawnsReady
    <3>3. CASE i = 1
      BY <1>1, <3>2, <3>3 DEF JoinOp
    <3>4. CASE i > 1
      <4>1. i - 1 \in 1..Len(r) /\ r[i - 1] = q[i]
        BY <1>1, <1>3, <2>1, <3>4
      <4> QED
        BY <3>2, <3>4, <4>1
    <3> QED
      BY <3>3, <3>4
  <2> QED
    BY <2>1 DEF SpawnsReady
<1>6. JoinPending(q) => JoinPending(r)
  BY <1>1, <1>3 DEF JoinPending
<1> QED
  BY <1>2, <1>4, <1>5, <1>6 DEF SearchInv, q

LEMMA SignalStep ==
    ASSUME IndInv, SearchInv, NEW o \in {"stop_signal", "wait_signal"},
           NEW stop \in BOOLEAN, JoinSignal(o, stop)
    PROVE  SearchInv'
<1> DEFINE q == todo["main"]
           unlocked == <<Unlock("engine")>> \o Tail(q)
           joining == <<Unlock("engine"), Call("thrd_join")>> \o Tail(q)
<1>1. /\ q \in Seq(Step) /\ q # << >> /\ Head(q).op = o
      /\ SpawnsReady(q, SearchOver) /\ o \in JoinOp
  BY DEF IndInv, TypeOK, Thread, JoinSignal, At, SearchInv, JoinOp
<1>2. Tail(q) \in Seq(Step)
  BY <1>1
<1>3. todo'["search"] = todo["search"]
  BY DEF IndInv, TypeOK, Thread, JoinSignal, Only, WorkerStep, Continue
<1>4. CASE worker.started
  <2>1. todo'["main"] = joining
    BY <1>4 DEF IndInv, TypeOK, Thread, JoinSignal, WorkerStep, Continue
  <2>2. SpawnsReady(joining, SearchOver')
    BY <1>1, ReadyAfterJoin
  <2>3. JoinPending(joining)
    <3>1. /\ Unlock("engine") \in Step /\ Unlock("engine").op = "unlock"
          /\ Call("thrd_join") \in Step /\ Call("thrd_join").op = "thrd_join"
      BY CallSafe DEF Mutex, Op, JoinOp
    <3>2. /\ Len(joining) > 1 /\ joining[1] = Unlock("engine")
          /\ joining[2] = Call("thrd_join")
      BY <1>2, <3>1
    <3> QED
      BY <3>1, <3>2 DEF JoinPending
  <2> QED
    BY <2>1, <2>2, <2>3 DEF SearchInv
<1>5. CASE ~worker.started
  <2>1. todo'["main"] = unlocked /\ worker' = worker
    BY <1>5 DEF IndInv, TypeOK, Thread, JoinSignal, Only, Continue
  <2>2. ~JoinPending(q)
    BY <1>1 DEF JoinPending
  <2>3. SearchOver
    BY <1>5, <2>2 DEF SearchInv
  <2>4. SearchOver'
    BY <1>3, <2>1, <2>3 DEF SearchOver
  <2>5. SpawnsReady(unlocked, SearchOver')
    BY <1>1, <2>3, <2>4, ReadyAfterJoin
  <2> QED
    BY <2>1, <2>4, <2>5 DEF SearchInv
<1> QED
  BY <1>4, <1>5

LEMMA JoinStep ==
    ASSUME IndInv, SearchInv, ThrdJoin
    PROVE  SearchInv'
<1> DEFINE q == todo["main"]
<1>1. /\ q \in Seq(Step) /\ q # << >> /\ Head(q).op \in JoinOp
      /\ SpawnsReady(q, SearchOver)
  BY DEF IndInv, TypeOK, Thread, ThrdJoin, At, SearchInv, JoinOp
<1>2. /\ todo'["main"] = Tail(q) /\ todo'["search"] = << >>
      /\ ~worker'.joinable
  BY <1>1 DEF IndInv, TypeOK, Thread, ThrdJoin, WorkerStep, WorkerType, Continue
<1>3. SearchOver'
  BY <1>2 DEF SearchOver
<1>4. SpawnsReady(q, TRUE)
  BY <1>1 DEF SpawnsReady
<1>5. SpawnsReady(Tail(q), TRUE)
  BY <1>1, <1>4, ReadyAfterJoin
<1>6. SpawnsReady(Tail(q), SearchOver')
  BY <1>3, <1>5
<1> QED
  BY <1>2, <1>3, <1>6 DEF SearchInv

LEMMA SpawnStep ==
    ASSUME IndInv, SearchInv, Spawn
    PROVE  SearchInv'
<1> DEFINE q == todo["main"]
<1>1. /\ q \in Seq(Step) /\ q # << >> /\ Head(q).op \in AfterJoin
      /\ SpawnsReady(q, SearchOver)
  BY DEF IndInv, TypeOK, Thread, Spawn, At, SearchInv, AfterJoin
<1>2. Tail(q) \in SafeSeq
  BY <1>1, TailIsSafe DEF JoinOp, AfterJoin
<1>3. todo'["main"] = Tail(q) /\ worker'.started
  BY DEF IndInv, TypeOK, Thread, Spawn, WorkerType
<1> QED
  BY <1>2, <1>3, SafeIsReady DEF SearchInv

-----------------------------------------------------------------------------
(* The invariant of the search, one lemma per group of actions.            *)

(* The steps either thread takes.                                          *)
LEMMA EitherThreadStep ==
    ASSUME IndInv, SearchInv, NEW t \in Thread, AnyThread(t)
    PROVE  SearchInv'
<1> << >> \in SafeSeq
  BY SafeOne
<1>1. CASE t = "search"
  <2>1. PICK o, body : /\ At("search", o) /\ Continue("search", body)
                       /\ worker' = worker
    BY <1>1 DEF AnyThread, MtxLock, MtxUnlock, AppendMove, ProcessMove, CheckEnd,
                Announce, SetCb, Only, CliStep, EngineStep
  <2> QED
    BY <2>1, SearchStep
<1>2. CASE t = "main"
  <2>1. CASE MtxUnlock("main")
    BY <2>1, UnlockStep
  <2>2. CASE AppendMove("main")
    <3> DEFINE m == Arg("main").mv
    <3>1. At("main", "append") /\ worker' = worker
      BY <2>2 DEF AppendMove, CliStep, Only
    <3>2. CASE CanAppend(game, m)
      <4>1. m \in Move
        BY <3>2, StateTypes, LegalAssumption DEF CanAppend
      <4>2. EngineProcessMove(m) \o <<Call("check_end")>> \in SafeSeq
        BY <4>1, SafeMoveBodies, SafeCall, SafeConcat DEF Op, GameOp
      <4>3. Continue("main", EngineProcessMove(m) \o <<Call("check_end")>>)
        BY <2>2, <3>2 DEF AppendMove, CliStep
      <4> QED
        BY <3>1, <4>2, <4>3, OtherStep DEF JoinOp
    <3>3. CASE ~CanAppend(game, m)
      <4>1. Continue("main", << >>)
        BY <2>2, <3>3 DEF AppendMove, Only
      <4> QED
        BY <3>1, <4>1, OtherStep DEF JoinOp
    <3> QED
      BY <3>2, <3>3
  <2>3. CASE MtxLock("main") \/ ProcessMove("main") \/ CheckEnd("main")
                \/ Announce("main") \/ SetCb("main")
    <3>1. \E o \in {"lock", "process_move", "check_end", "announce", "set_cb"} :
              At("main", o) /\ Continue("main", << >>) /\ worker' = worker
      BY <2>3 DEF MtxLock, ProcessMove, CheckEnd, Announce, SetCb, Only, CliStep,
                  EngineStep
    <3> QED
      BY <3>1, OtherStep DEF JoinOp
  <2> QED
    BY <1>2, <2>1, <2>2, <2>3 DEF AnyThread
<1> QED
  BY <1>1, <1>2 DEF Thread

LEMMA SearchThreadStep ==
    ASSUME IndInv, SearchInv, SearchThread
    PROVE  SearchInv'
<1>1. CASE AnyThread("search")
  BY <1>1, EitherThreadStep DEF Thread
<1>2. CASE ~AnyThread("search")
  <2>1. PICK o, body : /\ At("search", o) /\ Continue("search", body)
                       /\ \/ worker' = worker
                          \/ \E d : worker' = [worker EXCEPT !.depth = d]
    BY <1>2 DEF SearchThread, SetupSearch, Deepen, SearchCompletes,
                SearchTerminated, Update, PrintPv, NextDepth, ThinkingCb, Answer,
                Report, Rearm, ExitOnDone, Only, KeyStep, EngineStep, WorkerStep,
                ExitStep
  <2>2. worker'.started = worker.started /\ worker'.joinable = worker.joinable
    BY <2>1 DEF IndInv, TypeOK, WorkerType
  <2> QED
    BY <2>1, <2>2, SearchStep
<1> QED
  BY <1>1, <1>2

LEMMA LineSearch ==
    ASSUME IndInv, SearchInv, ReadMove \/ ReadCommand \/ EndOfInput
    PROVE  SearchInv'
<1> << >> \in SafeSeq /\ "game" \in Mutex
  BY SafeOne DEF Mutex
<1>1. CASE ReadMove
  <2>1. PICK m \in TypedMove : Begin(Locked("game", <<CallMove("try_move", m)>>))
    BY <1>1 DEF ReadMove
  <2>2. <<CallMove("try_move", m)>> \in SafeSeq
    <3>1. "try_move" \in Op /\ m \in Move
      BY InputAssumption DEF Op, GameOp
    <3>2. /\ CallMove("try_move", m) \in Step
          /\ CallMove("try_move", m).op = "try_move"
      BY <3>1, CallSafe
    <3> QED
      BY <3>2, SafeOne
  <2>3. Locked("game", <<CallMove("try_move", m)>>) \in SafeSeq
    BY <2>2, SafeLocked
  <2> QED
    BY <1>1, <2>1, <2>3, BeginStep DEF ReadMove
<1>2. CASE ReadCommand
  <2>1. PICK c \in Commands : Begin(Locked("game", << >>) \o <<Call(c)>>)
    BY <1>2 DEF ReadCommand
  <2>2. c \in Op \ {"process_move", "spawn", "reset_history"}
    BY CommandAssumption DEF Op, PlainCommand, OtherCommand
  <2>3. Locked("game", << >>) \o <<Call(c)>> \in SafeSeq
    BY <2>2, SafeCall, SafeLocked, SafeConcat
  <2> QED
    BY <1>2, <2>1, <2>3, BeginStep DEF ReadCommand
<1>3. CASE EndOfInput
  <2>1. (IF cli.exitOnDone THEN WaitThinking ELSE << >>) \o <<Call("exit")>> \in SafeSeq
    BY SafeBodies, SafeCall, SafeConcat DEF Op, InsideCommand
  <2> QED
    BY <1>3, <2>1, BeginStep DEF EndOfInput
<1> QED
  BY <1>1, <1>2, <1>3

(* The engine's functions, moves of the user and answers at once.          *)
LEMMA EngineSearch ==
    ASSUME IndInv, SearchInv,
           \/ JoinSignal("stop_signal", TRUE) \/ JoinSignal("wait_signal", FALSE)
           \/ ThrdJoin \/ Spawn \/ ResetHistory
           \/ SetShow("set_show", TRUE) \/ SetShow("set_no_show", FALSE)
           \/ Decide \/ TryMove \/ StartGame \/ Exit
    PROVE  SearchInv'
<1> << >> \in SafeSeq
  BY SafeOne
<1>1. CASE JoinSignal("stop_signal", TRUE) \/ JoinSignal("wait_signal", FALSE)
  BY <1>1, SignalStep
<1>2. CASE ThrdJoin \/ Spawn
  BY <1>2, JoinStep, SpawnStep
<1>3. CASE ResetHistory \/ SetShow("set_show", TRUE) \/ SetShow("set_no_show", FALSE)
              \/ StartGame \/ Exit
  <2>1. \E o \in {"reset_history", "set_show", "set_no_show", "start_game", "exit"} :
            At("main", o) /\ Continue("main", << >>) /\ worker' = worker
    BY <1>3 DEF ResetHistory, SetShow, StartGame, Exit, CliStep, EngineStep, ExitStep
  <2> QED
    BY <2>1, OtherStep DEF JoinOp
<1>4. CASE Decide
  <2> DEFINE p == CurrentPosition(game)
             think == SetThinkingDoneCb("computer_move", callbackKey + 1) \o Think
  <2>1. /\ FirstMove[p] \in Move \cup {NoMove}
        /\ BookMove[p] \in Move \cup {NoMove}
    BY StateTypes, FirstMoveAssumption, BookAssumption
  <2>2. AnswerAtOnce(FirstMove[p]) \in SafeSeq /\ AnswerAtOnce(BookMove[p]) \in SafeSeq
    BY <2>1, SafeMoveBodies
  <2>3. think \in SafeSeq
    BY StateTypes, SafeSetCb, SafeBodies, SafeConcat DEF Callback
  <2>4. /\ At("main", "decide") /\ worker' = worker
        /\ \E body \in {<< >>, AnswerAtOnce(FirstMove[p]), AnswerAtOnce(BookMove[p]),
                        think} : Continue("main", body)
    BY <1>4 DEF Decide, CliStep, Only, KeyStep
  <2> HIDE DEF p, think
  <2> QED
    BY <2>2, <2>3, <2>4, OtherStep DEF JoinOp
<1>5. CASE TryMove
  <2>1. At("main", "try_move") /\ Arg("main").mv \in Move \cup {NoMove}
    BY <1>5, ArgType DEF TryMove, Thread
  <2>2. OperatorMove(Arg("main").mv) \in SafeSeq
    BY <2>1, SafeMoveBodies
  <2>3. /\ worker' = worker
        /\ \E body \in {<< >>, OperatorMove(Arg("main").mv)} : Continue("main", body)
    BY <1>5 DEF TryMove, Only
  <2> QED
    BY <2>1, <2>2, <2>3, OtherStep DEF JoinOp
<1> QED
  BY <1>1, <1>2, <1>3, <1>4, <1>5

LEMMA NewSearch ==
    ASSUME IndInv, SearchInv,
           \/ PlainCmd \/ CmdEasy \/ CmdQuit \/ CmdNew \/ NewReset \/ NewRearm
           \/ NewFlags \/ CmdForce \/ CmdPosition \/ SetPosition \/ Replay
    PROVE  SearchInv'
<1> << >> \in SafeSeq /\ "game" \in Mutex /\ "stdout" \in Mutex
  BY SafeOne DEF Mutex
<1>0. \A o \in {"exit", "new_reset", "new_rearm", "new_flags", "set_position"} :
         <<Call(o)>> \in SafeSeq
  BY SafeCall DEF Op, InsideCommand
<1>9. \A m \in Move \cup {NoMove} : <<CallMove("replay", m)>> \in SafeSeq
  <2>1. "replay" \in Op \ {"process_move", "spawn", "reset_history"}
    BY DEF Op, GameOp
  <2> QED
    BY <2>1, SafeOne, CallSafe
<1>1. CASE PlainCmd
  <2>1. PICK c \in PlainCommand :
          At("main", c) /\ Continue("main", PlainBody[c]) /\ worker' = worker
    BY <1>1 DEF PlainCmd, Only
  <2>2. c \notin JoinOp \cup {"unlock"}
    BY DEF PlainCommand, JoinOp
  <2> QED
    BY <2>1, <2>2, SafePlainBody, OtherStep
<1>2. CASE CmdEasy \/ CmdQuit
  <2>1. StopThinking \o <<Call("exit")>> \in SafeSeq
    BY <1>0, SafeBodies, SafeConcat
  <2>2. /\ worker' = worker
        /\ \E o \in {"easy", "quit"},
              body \in {<< >>, StopThinking, StopThinking \o <<Call("exit")>>} :
              At("main", o) /\ Continue("main", body)
    BY <1>2 DEF CmdEasy, CmdQuit, Only, KeyStep
  <2> QED
    BY <2>1, <2>2, SafeBodies, OtherStep DEF JoinOp
<1>3. CASE CmdNew
  <2> DEFINE inner == <<Call("new_reset")>> \o ResetEngine \o <<Call("new_rearm")>>
  <2>1. inner \in SafeSeq
    BY <1>0, SafeBodies, SafeConcat
  <2>2. StopThinking \o Locked("game", inner) \in SafeSeq
    BY <2>1, SafeLocked, SafeBodies, SafeConcat
  <2> QED
    BY <1>3, <2>2, OtherStep DEF CmdNew, KeyStep, JoinOp
<1>4. CASE NewReset \/ NewFlags
  BY <1>4, OtherStep DEF NewReset, NewFlags, CliStep, JoinOp
<1>5. CASE NewRearm
  <2> DEFINE body == SetThinkingDoneCb("computer_move", callbackKey + 1)
                         \o LockedSetter \o <<Call("new_flags")>>
  <2>1. body \in SafeSeq
    BY <1>0, StateTypes, SafeSetCb, SafeBodies, SafeConcat DEF Callback
  <2>2. At("main", "new_rearm") /\ Continue("main", body) /\ worker' = worker
    BY <1>5 DEF NewRearm, KeyStep
  <2> HIDE DEF body
  <2> QED
    BY <2>1, <2>2, OtherStep DEF JoinOp
<1>6. CASE CmdForce \/ CmdPosition
  <2> DEFINE body == Locked("stdout", Locked("game", <<Call("set_position")>>))
  <2>1. StopThinking \o << >> \in SafeSeq /\ StopThinking \o body \in SafeSeq
    BY <1>0, SafeLocked, SafeBodies, SafeConcat
  <2>2. /\ worker' = worker
        /\ \E o \in {"force", "position"}, b \in {<< >>, body} :
              At("main", o) /\ Continue("main", StopThinking \o b)
    BY <1>6 DEF CmdForce, CmdPosition, EnterForceMode, KeyStep
  <2> QED
    BY <2>1, <2>2, OtherStep DEF JoinOp
<1>7. CASE SetPosition
  <2>1. At("main", "set_position") /\ worker' = worker
    BY <1>7 DEF SetPosition, Only, CliStep, ExitStep
  <2>2. \/ \E body \in {<< >>, ResetEngine} : Continue("main", body)
        \/ \E g \in UciGame : \E y \in EndMove(g) : Continue("main", <<CallMove("replay", y)>>)
    BY <1>7 DEF SetPosition, Only, CliStep, ExitStep
  <2>3. CASE \E body \in {<< >>, ResetEngine} : Continue("main", body)
    BY <2>1, <2>3, SafeBodies, OtherStep DEF JoinOp
  <2>4. CASE \E g \in UciGame : \E y \in EndMove(g) : Continue("main", <<CallMove("replay", y)>>)
    <3>1. PICK g \in UciGame : \E y \in EndMove(g) : Continue("main", <<CallMove("replay", y)>>)
      BY <2>4
    <3>2. PICK y \in EndMove(g) : Continue("main", <<CallMove("replay", y)>>)
      BY <3>1
    <3>3. y \in Move \cup {NoMove}
      BY InputAssumption DEF EndMove
    <3> QED
      BY <1>9, <2>1, <3>2, <3>3, OtherStep DEF JoinOp
  <2> QED
    BY <2>2, <2>3, <2>4
<1>8. CASE Replay
  <2> DEFINE m == MoveToNext(cli.uciGame)
             end == Arg("main").mv
  <2>1. At("main", "replay") /\ worker' = worker
    BY <1>8 DEF Replay, CliStep, Only
  <2>0. end \in Move \cup {NoMove}
    BY <2>1, ArgMove
  <2>2. CASE HasMoveToNext(cli.uciGame)
    <3>1. m \in Move
      BY <2>2, StateTypes, MoveToNextType
    <3>2. AddMove(m) \o <<CallMove("replay", end)>> \in SafeSeq
      BY <1>9, <2>0, <3>1, SafeMoveBodies, SafeConcat
    <3>3. Continue("main", AddMove(m) \o <<CallMove("replay", end)>>)
      BY <1>8, <2>2 DEF Replay, CliStep
    <3> QED
      BY <2>1, <3>2, <3>3, OtherStep DEF JoinOp
  <2>3. CASE ~HasMoveToNext(cli.uciGame) /\ end = NoMove
    <3>1. Continue("main", << >>)
      BY <1>8, <2>3 DEF Replay, CliStep
    <3> QED
      BY <2>1, <3>1, OtherStep DEF JoinOp
  <2>4. CASE ~HasMoveToNext(cli.uciGame) /\ end # NoMove
    <3>1. AddMove(end) \o <<CallMove("replay", end)>> \in SafeSeq
      BY <1>9, <2>0, SafeMoveBodies, SafeConcat
    <3>2. Continue("main", AddMove(end) \o <<CallMove("replay", end)>>)
      BY <1>8, <2>4 DEF Replay, Only
    <3> QED
      BY <2>1, <3>1, <3>2, OtherStep DEF JoinOp
  <2> QED
    BY <2>2, <2>3, <2>4
<1> QED
  BY <1>1, <1>2, <1>3, <1>4, <1>5, <1>6, <1>7, <1>8

LEMMA CommandSearch ==
    ASSUME IndInv, SearchInv,
           \/ CmdGo \/ GoStart \/ CmdResult \/ ResultDone
           \/ CmdSide("black") \/ CmdSide("white") \/ CmdPlayother
           \/ CmdSearch("search_cmd", << >>) \/ CmdSearch("search_sync", WaitThinking)
           \/ CmdSetboard \/ SetBoard \/ CmdExitondone
           \/ CmdBadArgument \/ CmdUndo \/ CmdRedo \/ RedoForward
    PROVE  SearchInv'
<1> << >> \in SafeSeq /\ "game" \in Mutex
  BY SafeOne DEF Mutex
<1>0. \A o \in {"go_start", "result_done", "set_board", "bad_argument",
                "redo_forward"} : <<Call(o)>> \in SafeSeq
  BY SafeCall DEF Op, OtherCommand, InsideCommand
<1>1. CASE CmdGo
  <2>1. /\ At("main", "go") /\ worker' = worker
        /\ \/ Continue("main", << >>)
           \/ \E options \in {<< >>, LockedSetter, SetTimeInc, <<Call("bad_argument")>>} :
                 Continue("main", options \o <<Call("go_start")>> \o DecideMove)
    BY <1>1 DEF CmdGo, Only, CliStep
  <2>2. \A options \in {<< >>, LockedSetter, SetTimeInc, <<Call("bad_argument")>>} :
            options \o <<Call("go_start")>> \o DecideMove \in SafeSeq
    BY <1>0, SafeBodies, SafeConcat
  <2> QED
    BY <2>1, <2>2, OtherStep DEF JoinOp
<1>2. CASE GoStart \/ ResultDone \/ SetBoard \/ CmdExitondone
  <2>1. \E o \in {"go_start", "result_done", "set_board", "exitondone"} :
            At("main", o) /\ Continue("main", << >>) /\ worker' = worker
    BY <1>2 DEF GoStart, ResultDone, SetBoard, CmdExitondone, CliStep
  <2> QED
    BY <2>1, OtherStep DEF JoinOp
<1>3. CASE CmdResult
  <2>1. StopThinking \o <<Call("result_done")>> \in SafeSeq
    BY <1>0, SafeBodies, SafeConcat
  <2> QED
    BY <1>3, <2>1, OtherStep DEF CmdResult, Only, JoinOp
<1>4. CASE CmdSide("black") \/ CmdSide("white")
  <2>1. \E o \in {"black", "white"}, body \in {<< >>, DecideMove} :
            At("main", o) /\ Continue("main", body) /\ worker' = worker
    BY <1>4 DEF CmdSide, CliStep
  <2> QED
    BY <2>1, SafeBodies, OtherStep DEF JoinOp
<1>5. CASE CmdPlayother
  <2>1. /\ At("main", "playother") /\ worker' = worker
        /\ \E body \in {<< >>, StopThinking \o DecideMove} : Continue("main", body)
    BY <1>5 DEF CmdPlayother, KeyStep
  <2>2. StopThinking \o DecideMove \in SafeSeq
    BY SafeBodies, SafeConcat
  <2> QED
    BY <2>1, <2>2, OtherStep DEF JoinOp
<1>6. ASSUME NEW c \in {"search_cmd", "search_sync"}, NEW wait \in SafeSeq,
             CmdSearch(c, wait)
      PROVE  SearchInv'
  <2> DEFINE body == SetThinkingDoneCb("search_cb", callbackKey + 1) \o Think \o wait
  <2>1. body \in SafeSeq
    BY StateTypes, SafeSetCb, SafeBodies, SafeConcat DEF Callback
  <2>2. /\ At("main", c) /\ worker' = worker
        /\ Continue("main", << >>) \/ Continue("main", body)
    BY <1>6 DEF CmdSearch, Only, KeyStep
  <2> HIDE DEF body
  <2> QED
    BY <2>1, <2>2, OtherStep DEF JoinOp
<1>7. CASE CmdSetboard
  <2> DEFINE body == Locked("game", <<Call("set_board")>> \o ResetEngine)
  <2>1. body \in SafeSeq
    BY <1>0, SafeBodies, SafeConcat, SafeLocked
  <2>2. /\ At("main", "setboard") /\ worker' = worker
        /\ Continue("main", << >>) \/ Continue("main", body)
    BY <1>7 DEF CmdSetboard, Only
  <2> HIDE DEF body
  <2> QED
    BY <2>1, <2>2, OtherStep DEF JoinOp
<1>8. ASSUME NEW o \in {"undo", "redo_forward"}, NEW can, NEW g, At("main", o),
             MoveCursor(can, g)
      PROVE  SearchInv'
  <2>1. \/ CommandError
        \/ /\ worker' = worker
           /\ Continue("main", << >>) \/ Continue("main", ResetEngine)
    BY <1>8 DEF MoveCursor, Only, CliStep
  <2> QED
    BY <1>8, <2>1, SafeBodies, OtherStep, ErrorStep DEF JoinOp
<1>9. CASE CmdBadArgument
  BY <1>9, ErrorStep DEF CmdBadArgument, JoinOp
<1>10. CASE CmdUndo \/ RedoForward
  BY <1>8, <1>10 DEF CmdUndo, RedoForward
<1>11. CASE CmdRedo
  <2>1. Locked("game", <<Call("redo_forward")>>) \in SafeSeq
    BY <1>0, SafeLocked
  <2> QED
    BY <1>11, <2>1, OtherStep DEF CmdRedo, Only, JoinOp
<1> QED
  BY <1>1, <1>2, <1>3, <1>4, <1>5, <1>6, <1>7, <1>9, <1>10, <1>11, SafeBodies

LEMMA SearchInductive == IndInv /\ SearchInv /\ [Next]_vars => SearchInv'
<1> SUFFICES ASSUME IndInv, SearchInv, [Next]_vars PROVE SearchInv'
  OBVIOUS
<1>1. CASE SearchThread
  BY <1>1, SearchThreadStep
<1>2. CASE MainThread
  BY <1>2, EitherThreadStep, EngineSearch, NewSearch, CommandSearch
     DEF MainThread, Thread
<1>3. CASE ReadMove \/ ReadCommand \/ EndOfInput
  BY <1>3, LineSearch
<1>4. CASE UNCHANGED vars
  BY <1>4 DEF vars, SearchInv, SearchOver
<1> QED
  BY <1>1, <1>2, <1>3, <1>4 DEF Next, Exited

(* think never overwrites the data or the handle of a search that is still *)
(* under way or not joined: whatever is typed, and however long a search   *)
(* takes to notice that it is to stop, when thrd_create is next the last   *)
(* search thread has ended and has been joined.                            *)
THEOREM OneSearchAtATime == Spec => []OneSearch
<1>1. Init => SearchInv
  BY DEF Init, SearchInv, SpawnsReady, SearchOver, Thread
<1>2. IndInv /\ SearchInv => OneSearch
  <2> SUFFICES ASSUME IndInv, SearchInv, todo["main"] # << >>,
                      Head(todo["main"]).op = "spawn"
               PROVE  SearchOver
    BY DEF OneSearch, SearchOver
  <2>1. todo["main"] \in Seq(Step) /\ 1 \in 1..Len(todo["main"])
            /\ todo["main"][1].op \in AfterJoin
    BY DEF IndInv, TypeOK, Thread, AfterJoin
  <2> QED
    BY <2>1 DEF SearchInv, SpawnsReady, JoinOp
<1> QED
  BY <1>1, <1>2, Inductive, SearchInductive, PTL DEF Spec

-----------------------------------------------------------------------------
(* The game, the engine's copy of it, and its best move: what follows      *)
(* holds for every game tree, every bound and every command but two, a     *)
(* search of the user, whose moves nothing stops, and an argument that is  *)
(* no number, which makes anew mutexes that are held.                      *)

(* The commands the theorems are about.                                    *)
Disorderly == {"search_cmd", "bad_argument"}
OrderlyCommands == Commands \cap Disorderly = {}

-----------------------------------------------------------------------------
(* The shape of what a thread has still to do.                             *)

ThinkOp == {"setup_search", "deepen", "search", "update", "print_pv",
            "next_depth", "thinking_cb"}

(* The steps after which only unlocks are left.                            *)
FinalOp ==
    PlainCommand \cup OtherCommand
        \cup {"try_move", "redo_forward", "decide", "setup_search", "deepen",
              "search", "update", "next_depth", "thinking_cb"}

(* The steps that another game replaces, before the engine is told.        *)
ReplacingOp == {"new_reset", "set_board"}

(* The steps that need the game mutex.                                     *)
GameLockedOp == {"append", "decide"}

(* The steps of the main thread that no search may be thinking at.         *)
CalmOp == {"append", "process_move", "new_reset", "set_position", "replay",
           "set_board", "new_rearm", "new_flags", "result_done"}

Has(q, o) == \E i \in 1..Len(q) : q[i].op = o
AllOf(q, ops) == \A i \in 1..Len(q) : q[i].op \in ops
None(q, ops) == \A i \in 1..Len(q) : q[i].op \notin ops

FinalLast(q) ==
    \A i, j \in 1..Len(q) : q[i].op \in FinalOp /\ i < j => q[j].op = "unlock"

ResetFollows(q) ==
    \A i \in 1..Len(q) : q[i].op \in ReplacingOp =>
        \E j \in 1..Len(q) : i < j /\ q[j].op = "reset_history"

(* owns: the thread holds the game mutex.                                  *)
Guarded(q, owns) ==
    \A i \in 1..Len(q) : q[i].op \in GameLockedOp =>
        \/ i = 1 /\ owns
        \/ i > 1 /\ q[i - 1] = Lock("game")

Processes(q, owns) ==
    \A i \in 1..Len(q) : q[i].op = "process_move" =>
        owns /\ (i = 1 \/ (i = 2 /\ q[1] = Lock("engine")))

(* A join comes before every step that needs calm.                         *)
CalmSeq(q) ==
    \A i \in 1..Len(q) : q[i].op \in CalmOp =>
        \E j \in 1..Len(q) : j < i /\ q[j].op \in JoinOp

(* But for locks and unlocks, a join is next.                              *)
JoinFirst(q, k) ==
    /\ q[k].op \in JoinOp
    /\ \A j \in 1..Len(q) : j < k => q[j].op \in LockOp
JoinComing(q) == \E k \in 1..Len(q) : JoinFirst(q, k)

Shape(q, owns) ==
    /\ FinalLast(q) /\ ResetFollows(q) /\ Guarded(q, owns) /\ Processes(q, owns)
    /\ None(q, Disorderly)

(* The steps of a handler that starts no search itself, and of a function  *)
(* it calls on its way.                                                    *)
ShapeSeq == {b \in Seq(Step) : Shape(b, FALSE)}
Handler == {b \in ShapeSeq : None(b, {"spawn"})}
Helper == {b \in Handler : None(b, FinalOp)}

-----------------------------------------------------------------------------
(* A step is taken: the steps b come in front of what is left of q.        *)

LEMMA FrontOf ==
    ASSUME NEW q \in Seq(Step), q # << >>, NEW b \in Seq(Step)
    PROVE  /\ b \o Tail(q) \in Seq(Step)
           /\ Len(b \o Tail(q)) = Len(b) + Len(q) - 1
           /\ Len(b) \in Nat /\ Len(q) \in Nat /\ Len(q) > 0 /\ Head(q) = q[1]
           /\ \A i \in 1..Len(b) : /\ i \in 1..Len(b \o Tail(q))
                                   /\ (b \o Tail(q))[i] = b[i]
           /\ \A i \in 2..Len(q) : /\ Len(b) + i - 1 \in 1..Len(b \o Tail(q))
                                   /\ (b \o Tail(q))[Len(b) + i - 1] = q[i]
           /\ \A i \in 1..Len(b \o Tail(q)) :
                 i \in 1..Len(b) \/ i - Len(b) + 1 \in 2..Len(q)
OBVIOUS

LEMMA ConcatOf ==
    ASSUME NEW a \in Seq(Step), NEW b \in Seq(Step)
    PROVE  /\ a \o b \in Seq(Step)
           /\ Len(a \o b) = Len(a) + Len(b)
           /\ Len(a) \in Nat /\ Len(b) \in Nat
           /\ \A i \in 1..Len(a) : i \in 1..Len(a \o b) /\ (a \o b)[i] = a[i]
           /\ \A i \in 1..Len(b) : /\ Len(a) + i \in 1..Len(a \o b)
                                   /\ (a \o b)[Len(a) + i] = b[i]
           /\ \A i \in 1..Len(a \o b) : i \in 1..Len(a) \/ i - Len(a) \in 1..Len(b)
OBVIOUS

LEMMA ConcatAssoc ==
    ASSUME NEW a \in Seq(Step), NEW b \in Seq(Step), NEW c \in Seq(Step)
    PROVE  (a \o b) \o c = a \o (b \o c)
OBVIOUS

LEMMA TailOf ==
    ASSUME NEW q \in Seq(Step), q # << >>
    PROVE  /\ Tail(q) \in Seq(Step)
           /\ Len(q) \in Nat /\ Len(q) > 0 /\ Len(Tail(q)) = Len(q) - 1
           /\ Head(q) = q[1] /\ 1 \in 1..Len(q) /\ q[1] \in Step
           /\ \A i \in 1..Len(Tail(q)) : i + 1 \in 1..Len(q) /\ Tail(q)[i] = q[i + 1]
           /\ \A i \in 1..Len(q) : i > 1 => /\ i - 1 \in 1..Len(Tail(q))
                                            /\ Tail(q)[i - 1] = q[i]
OBVIOUS

LEMMA TwoSteps ==
    ASSUME NEW x \in Step, NEW y \in Step
    PROVE  /\ <<x, y>> \in Seq(Step) /\ Len(<<x, y>>) = 2
           /\ <<x, y>>[1] = x /\ <<x, y>>[2] = y
           /\ <<x, y>> = <<x>> \o <<y>>
<1> DEFINE a == <<x>>
           b == <<y>>
<1>1. /\ a \in Seq(Step) /\ Len(a) = 1 /\ a[1] = x
      /\ b \in Seq(Step) /\ Len(b) = 1 /\ b[1] = y
  OBVIOUS
<1> HIDE DEF a, b
<1>2. /\ a \o b \in Seq(Step) /\ Len(a \o b) = 2
      /\ (a \o b)[1] = x /\ (a \o b)[2] = y
  <2>1. /\ a \o b \in Seq(Step) /\ Len(a \o b) = Len(a) + Len(b)
        /\ \A i \in 1..Len(a) : (a \o b)[i] = a[i]
        /\ \A i \in 1..Len(b) : (a \o b)[Len(a) + i] = b[i]
    BY <1>1, ConcatOf
  <2>2. 1 \in 1..Len(a) /\ 1 \in 1..Len(b)
    BY <1>1
  <2> QED
    BY <1>1, <2>1, <2>2
<1>3. \A s \in Seq(Step) : Len(s) = 2 => s = <<s[1], s[2]>>
  OBVIOUS
<1> QED
  BY <1>2, <1>3 DEF a, b

LEMMA NoneConcat ==
    ASSUME NEW a \in Seq(Step), NEW b \in Seq(Step), NEW ops
    PROVE  /\ None(a, ops) /\ None(b, ops) => None(a \o b, ops)
           /\ AllOf(a, ops) /\ AllOf(b, ops) => AllOf(a \o b, ops)
<1> DEFINE c == a \o b
<1>1. \A i \in 1..Len(c) :
          \/ /\ i \in 1..Len(a)
             /\ c[i] = a[i]
          \/ \E j \in 1..Len(b) : c[i] = b[j]
  <2>1. /\ Len(c) = Len(a) + Len(b) /\ Len(a) \in Nat /\ Len(b) \in Nat
        /\ \A i \in 1..Len(a) : c[i] = a[i]
        /\ \A i \in 1..Len(b) : c[Len(a) + i] = b[i]
    BY ConcatOf
  <2> HIDE DEF c
  <2>2. ASSUME NEW i \in 1..Len(c), i \notin 1..Len(a)
        PROVE  i - Len(a) \in 1..Len(b) /\ i = Len(a) + (i - Len(a))
    BY <2>1, <2>2
  <2>3. ASSUME NEW i \in 1..Len(c), i \notin 1..Len(a)
        PROVE  c[i] = b[i - Len(a)]
    BY <2>1, <2>2, <2>3
  <2> QED
    BY <2>1, <2>2, <2>3
<1> HIDE DEF c
<1>2. None(a, ops) /\ None(b, ops) => None(c, ops)
  BY <1>1 DEF None
<1>3. AllOf(a, ops) /\ AllOf(b, ops) => AllOf(c, ops)
  BY <1>1 DEF AllOf
<1> QED
  BY <1>2, <1>3 DEF c

LEMMA NoneTail ==
    ASSUME NEW q \in Seq(Step), q # << >>, NEW ops
    PROVE  /\ None(q, ops) => None(Tail(q), ops)
           /\ AllOf(q, ops) => AllOf(Tail(q), ops)
BY TailOf DEF None, AllOf

LEMMA TailShape ==
    ASSUME NEW q \in Seq(Step), q # << >>, NEW owns, Shape(q, owns),
           Head(q).op # "lock"
    PROVE  /\ Tail(q) \in ShapeSeq
           /\ Head(q).op \in FinalOp => AllOf(Tail(q), {"unlock"})
<1> DEFINE r == Tail(q)
<1>1. /\ r \in Seq(Step) /\ Len(q) \in Nat /\ Len(q) > 0 /\ Len(r) = Len(q) - 1
      /\ q[1].op # "lock" /\ q[1] = Head(q) /\ 1 \in 1..Len(q)
      /\ \A i \in 1..Len(r) : i + 1 \in 1..Len(q) /\ r[i] = q[i + 1]
      /\ \A i \in 1..Len(q) : i > 1 => i - 1 \in 1..Len(r) /\ r[i - 1] = q[i]
  BY TailOf
<1>2. q[1] # Lock("game") /\ q[1] # Lock("engine")
  BY <1>1, CallSafe DEF Mutex
<1> HIDE DEF r
<1>3. FinalLast(r)
  <2>1. ASSUME NEW i \in 1..Len(r), NEW j \in 1..Len(r), r[i].op \in FinalOp, i < j
        PROVE  r[j].op = "unlock"
    <3>1. i + 1 \in 1..Len(q) /\ j + 1 \in 1..Len(q) /\ i + 1 < j + 1
      BY <1>1, <2>1
    <3>2. q[i + 1].op \in FinalOp
      BY <1>1, <2>1
    <3>3. q[j + 1].op = "unlock"
      BY <3>1, <3>2 DEF Shape, FinalLast
    <3> QED
      BY <1>1, <3>3
  <2> QED
    BY <2>1 DEF FinalLast
<1>4. ResetFollows(r)
  <2>1. ASSUME NEW i \in 1..Len(r), r[i].op \in ReplacingOp
        PROVE  \E j \in 1..Len(r) : i < j /\ r[j].op = "reset_history"
    <3>1. i + 1 \in 1..Len(q) /\ q[i + 1].op \in ReplacingOp
      BY <1>1, <2>1
    <3>2. PICK j \in 1..Len(q) : i + 1 < j /\ q[j].op = "reset_history"
      BY <3>1 DEF Shape, ResetFollows
    <3>3. j > 1 /\ i < j - 1
      BY <3>2
    <3> QED
      BY <1>1, <3>2, <3>3
  <2> QED
    BY <2>1 DEF ResetFollows
<1>5. Guarded(r, FALSE)
  <2>1. ASSUME NEW i \in 1..Len(r), r[i].op \in GameLockedOp
        PROVE  i > 1 /\ r[i - 1] = Lock("game")
    <3>1. i + 1 \in 1..Len(q) /\ q[i + 1].op \in GameLockedOp /\ i + 1 # 1
              /\ i + 1 - 1 = i
      BY <1>1, <2>1
    <3>2. q[i] = Lock("game")
      BY <3>1 DEF Shape, Guarded
    <3>3. i # 1
      BY <1>2, <3>2
    <3> QED
      BY <1>1, <3>1, <3>2, <3>3
  <2> QED
    BY <2>1 DEF Guarded
<1>6. Processes(r, FALSE)
  <2>1. ASSUME NEW i \in 1..Len(r), r[i].op = "process_move"
        PROVE  FALSE
    <3>1. i + 1 \in 1..Len(q) /\ q[i + 1].op = "process_move" /\ i + 1 # 1
      BY <1>1, <2>1
    <3>2. q[1] = Lock("engine")
      BY <3>1 DEF Shape, Processes
    <3> QED
      BY <1>2, <3>2
  <2> QED
    BY <2>1 DEF Processes
<1>7. Head(q).op \in FinalOp => AllOf(r, {"unlock"})
  <2>1. ASSUME q[1].op \in FinalOp, NEW j \in 1..Len(r)
        PROVE  r[j].op = "unlock"
    <3>1. j + 1 \in 1..Len(q) /\ 1 < j + 1
      BY <1>1
    <3>2. q[j + 1].op = "unlock"
      BY <1>1, <2>1, <3>1 DEF Shape, FinalLast
    <3> QED
      BY <1>1, <3>2
  <2> QED
    BY <1>1, <2>1 DEF AllOf
<1>8. None(r, Disorderly)
  BY NoneTail DEF r, Shape
<1> QED
  BY <1>1, <1>3, <1>4, <1>5, <1>6, <1>7, <1>8 DEF r, ShapeSeq, Shape

LEMMA ShapeConcat ==
    ASSUME NEW a \in ShapeSeq, NEW b \in ShapeSeq,
           None(a, FinalOp) \/ AllOf(b, {"unlock"})
    PROVE  a \o b \in ShapeSeq
<1> DEFINE r == a \o b
<1>1. /\ a \in Seq(Step) /\ b \in Seq(Step)
      /\ Shape(a, FALSE) /\ Shape(b, FALSE)
  BY DEF ShapeSeq
<1>2. /\ r \in Seq(Step) /\ Len(r) = Len(a) + Len(b)
      /\ Len(a) \in Nat /\ Len(b) \in Nat
      /\ \A i \in 1..Len(a) : i \in 1..Len(r) /\ r[i] = a[i]
      /\ \A i \in 1..Len(b) : Len(a) + i \in 1..Len(r) /\ r[Len(a) + i] = b[i]
      /\ \A i \in 1..Len(r) : i \in 1..Len(a) \/ i - Len(a) \in 1..Len(b)
  BY <1>1, ConcatOf
<1> HIDE DEF r
<1>0. \A i \in 1..Len(r) : i - Len(a) \in 1..Len(b) => r[i] = b[i - Len(a)]
  BY <1>2
<1>3. FinalLast(r)
  <2>1. ASSUME NEW i \in 1..Len(r), NEW j \in 1..Len(r), r[i].op \in FinalOp, i < j
        PROVE  r[j].op = "unlock"
    <3>1. CASE i \in 1..Len(a) /\ j \in 1..Len(a)
      BY <1>1, <1>2, <2>1, <3>1 DEF Shape, FinalLast
    <3>2. CASE i \in 1..Len(a) /\ j - Len(a) \in 1..Len(b)
      <4>1. a[i].op \in FinalOp
        BY <1>2, <2>1, <3>2
      <4>2. AllOf(b, {"unlock"})
        BY <3>2, <4>1 DEF None
      <4> QED
        BY <1>0, <3>2, <4>2 DEF AllOf
    <3>3. CASE i - Len(a) \in 1..Len(b)
      <4>1. j - Len(a) \in 1..Len(b) /\ i - Len(a) < j - Len(a)
        BY <1>2, <2>1, <3>3
      <4>2. b[i - Len(a)].op \in FinalOp
        BY <1>0, <2>1, <3>3
      <4>3. b[j - Len(a)].op = "unlock"
        BY <1>1, <3>3, <4>1, <4>2 DEF Shape, FinalLast
      <4> QED
        BY <1>0, <4>1, <4>3
    <3> QED
      BY <1>2, <3>1, <3>2, <3>3
  <2> QED
    BY <2>1 DEF FinalLast
<1>4. ResetFollows(r)
  <2>1. ASSUME NEW i \in 1..Len(r), r[i].op \in ReplacingOp
        PROVE  \E j \in 1..Len(r) : i < j /\ r[j].op = "reset_history"
    <3>1. CASE i \in 1..Len(a)
      <4>1. PICK j \in 1..Len(a) : i < j /\ a[j].op = "reset_history"
        BY <1>1, <1>2, <2>1, <3>1 DEF Shape, ResetFollows
      <4> QED
        BY <1>2, <4>1
    <3>2. CASE i - Len(a) \in 1..Len(b)
      <4>1. PICK j \in 1..Len(b) : i - Len(a) < j /\ b[j].op = "reset_history"
        BY <1>0, <1>1, <2>1, <3>2 DEF Shape, ResetFollows
      <4>2. i < Len(a) + j
        BY <1>2, <4>1
      <4> QED
        BY <1>2, <4>1, <4>2
    <3> QED
      BY <1>2, <3>1, <3>2
  <2> QED
    BY <2>1 DEF ResetFollows
<1>5. Guarded(r, FALSE)
  <2>1. ASSUME NEW i \in 1..Len(r), r[i].op \in GameLockedOp
        PROVE  i > 1 /\ r[i - 1] = Lock("game")
    <3>1. CASE i \in 1..Len(a)
      <4>1. i > 1 /\ a[i - 1] = Lock("game")
        BY <1>1, <1>2, <2>1, <3>1 DEF Shape, Guarded
      <4>2. i - 1 \in 1..Len(a)
        BY <3>1, <4>1
      <4> QED
        BY <1>2, <4>1, <4>2
    <3>2. CASE i - Len(a) \in 1..Len(b)
      <4>1. i - Len(a) > 1 /\ b[i - Len(a) - 1] = Lock("game")
        BY <1>0, <1>1, <2>1, <3>2 DEF Shape, Guarded
      <4>2. i - 1 - Len(a) \in 1..Len(b) /\ i - 1 \in 1..Len(r) /\ i > 1
                /\ i - 1 - Len(a) = i - Len(a) - 1
        BY <1>2, <3>2, <4>1
      <4> QED
        BY <1>0, <4>1, <4>2
    <3> QED
      BY <1>2, <3>1, <3>2
  <2> QED
    BY <2>1 DEF Guarded
<1>6. Processes(r, FALSE)
  <2>1. \A i \in 1..Len(a) : a[i].op # "process_move"
    BY <1>1 DEF Shape, Processes
  <2>2. \A i \in 1..Len(b) : b[i].op # "process_move"
    BY <1>1 DEF Shape, Processes
  <2> QED
    BY <1>0, <1>2, <2>1, <2>2 DEF Processes
<1>7. None(r, Disorderly)
  BY <1>1, NoneConcat DEF r, Shape
<1> QED
  BY <1>2, <1>3, <1>4, <1>5, <1>6, <1>7 DEF r, ShapeSeq, Shape

-----------------------------------------------------------------------------
(* The steps of the handlers have that shape.                              *)

LEMMA ShapeOne ==
    ASSUME NEW s \in Step,
           s.op \notin {"append", "decide", "process_move", "new_reset", "set_board"},
           s.op \notin Disorderly
    PROVE  /\ <<s>> \in ShapeSeq
           /\ s.op # "spawn" => <<s>> \in Handler
           /\ s.op # "spawn" /\ s.op \notin FinalOp => <<s>> \in Helper
<1> DEFINE q == <<s>>
<1>1. q \in Seq(Step) /\ Len(q) = 1 /\ q[1] = s
  OBVIOUS
<1> HIDE DEF q
<1>2. /\ FinalLast(q) /\ ResetFollows(q) /\ Guarded(q, FALSE)
      /\ Processes(q, FALSE)
  BY <1>1 DEF FinalLast, ResetFollows, Guarded, Processes, ReplacingOp, GameLockedOp
<1>3. \A ops : s.op \notin ops => None(q, ops)
  BY <1>1 DEF None
<1>4. q \in ShapeSeq
  BY <1>1, <1>2, <1>3 DEF ShapeSeq, Shape
<1> QED
  BY <1>3, <1>4 DEF q, Handler, Helper

LEMMA HandlerConcat ==
    ASSUME NEW a \in Handler, NEW b \in Handler
    PROVE  /\ a \in Helper => a \o b \in Handler
           /\ a \in Helper /\ b \in Helper => a \o b \in Helper
           /\ AllOf(b, {"unlock"}) => a \o b \in Handler
<1>1. /\ a \in ShapeSeq /\ b \in ShapeSeq /\ a \in Seq(Step) /\ b \in Seq(Step)
      /\ None(a, {"spawn"}) /\ None(b, {"spawn"})
  BY DEF Handler, ShapeSeq
<1>2. None(a \o b, {"spawn"})
  BY <1>1, NoneConcat
<1>3. a \in Helper => a \o b \in Handler
  <2>1. a \in Helper => None(a, FinalOp)
    BY DEF Helper
  <2>2. a \in Helper => a \o b \in ShapeSeq
    BY <1>1, <2>1, ShapeConcat
  <2> QED
    BY <1>2, <2>2 DEF Handler
<1>4. a \in Helper /\ b \in Helper => a \o b \in Helper
  <2>1. a \in Helper /\ b \in Helper => None(a \o b, FinalOp)
    BY <1>1, NoneConcat DEF Helper
  <2> QED
    BY <1>3, <2>1 DEF Helper
<1>5. AllOf(b, {"unlock"}) => a \o b \in Handler
  <2>1. AllOf(b, {"unlock"}) => a \o b \in ShapeSeq
    BY <1>1, ShapeConcat
  <2> QED
    BY <1>2, <2>1 DEF Handler
<1> QED
  BY <1>3, <1>4, <1>5

LEMMA HelperIsHandler == Helper \subseteq Handler /\ << >> \in Helper
<1>1. << >> \in Helper
  BY DEF Helper, Handler, ShapeSeq, Shape, FinalLast, ResetFollows, Guarded, Processes,
         None
<1> QED
  BY <1>1 DEF Helper

LEMMA LockIsHelper ==
    ASSUME NEW mx \in Mutex
    PROVE  /\ <<Lock(mx)>> \in Helper /\ <<Unlock(mx)>> \in Helper
           /\ AllOf(<<Unlock(mx)>>, {"unlock"})
<1>1. /\ Lock(mx) \in Step /\ Lock(mx).op = "lock"
      /\ Unlock(mx) \in Step /\ Unlock(mx).op = "unlock"
  BY CallSafe
<1>2. "lock" \notin FinalOp \cup Disorderly /\ "unlock" \notin FinalOp \cup Disorderly
  BY DEF FinalOp, PlainCommand, OtherCommand, Disorderly
<1>3. AllOf(<<Unlock(mx)>>, {"unlock"})
  BY <1>1 DEF AllOf
<1> QED
  BY <1>1, <1>2, <1>3, ShapeOne

LEMMA LockedHandler ==
    ASSUME NEW mx \in Mutex, NEW body \in Handler
    PROVE  /\ Locked(mx, body) \in Handler
           /\ body \in Helper => Locked(mx, body) \in Helper
<1>1. /\ <<Lock(mx)>> \in Helper /\ <<Unlock(mx)>> \in Helper
      /\ AllOf(<<Unlock(mx)>>, {"unlock"})
      /\ <<Lock(mx)>> \in Handler /\ <<Unlock(mx)>> \in Handler
  BY LockIsHelper, HelperIsHandler
<1>2. <<Lock(mx)>> \o body \in Handler
  BY <1>1, HandlerConcat
<1>3. (<<Lock(mx)>> \o body) \o <<Unlock(mx)>> \in Handler
  BY <1>1, <1>2, HandlerConcat
<1>4. body \in Helper => <<Lock(mx)>> \o body \in Helper
  BY <1>1, HandlerConcat
<1>5. body \in Helper => (<<Lock(mx)>> \o body) \o <<Unlock(mx)>> \in Helper
  BY <1>1, <1>2, <1>4, HandlerConcat
<1> QED
  BY <1>3, <1>5 DEF Locked

(* A step that needs the game mutex, right behind the lock of it.          *)
LEMMA LockedGame ==
    ASSUME NEW s \in Step, s.op \in GameLockedOp
    PROVE  /\ Locked("game", <<s>>) \in Handler
           /\ s.op = "append" => Locked("game", <<s>>) \in Helper
<1> DEFINE q == Locked("game", <<s>>)
<1>0. /\ Lock("game") \in Step /\ Lock("game").op = "lock"
      /\ Unlock("game") \in Step /\ Unlock("game").op = "unlock"
  BY CallSafe DEF Mutex
<1>1. /\ q \in Seq(Step) /\ Len(q) = 3
      /\ q[1] = Lock("game") /\ q[2] = s /\ q[3] = Unlock("game")
  BY <1>0 DEF Locked
<1> HIDE DEF q
<1>2. /\ "lock" \notin FinalOp /\ "unlock" \notin FinalOp /\ "append" \notin FinalOp
      /\ "lock" \notin GameLockedOp /\ "unlock" \notin GameLockedOp
  BY DEF FinalOp, PlainCommand, OtherCommand, GameLockedOp
<1>3. s.op \notin {"process_move", "spawn", "new_reset", "set_board"} \cup Disorderly
  BY DEF GameLockedOp, Disorderly
<1>4. \A i \in 1..Len(q) : i = 1 \/ i = 2 \/ i = 3
  BY <1>1
<1>5. FinalLast(q)
  BY <1>0, <1>1, <1>2, <1>4 DEF FinalLast
<1>6. ResetFollows(q)
  BY <1>0, <1>1, <1>3, <1>4 DEF ResetFollows, ReplacingOp
<1>7. Guarded(q, FALSE)
  <2>1. ASSUME NEW i \in 1..Len(q), q[i].op \in GameLockedOp
        PROVE  i > 1 /\ q[i - 1] = Lock("game")
    <3>1. i = 2
      BY <1>0, <1>1, <1>2, <1>4, <2>1
    <3> QED
      BY <1>1, <3>1
  <2> QED
    BY <2>1 DEF Guarded
<1>8. None(q, {"process_move", "spawn"}) /\ None(q, Disorderly)
  BY <1>0, <1>1, <1>3, <1>4 DEF None, Disorderly
<1>9. Processes(q, FALSE) /\ None(q, {"spawn"})
  BY <1>8 DEF None, Processes
<1>10. s.op = "append" => None(q, FinalOp)
  BY <1>0, <1>1, <1>2, <1>4 DEF None
<1> QED
  BY <1>1, <1>5, <1>6, <1>7, <1>8, <1>9, <1>10 DEF q, Helper, Handler, ShapeSeq, Shape

(* A step that replaces the game, with the reset of the engine behind it.  *)
LEMMA ReplacedGame ==
    ASSUME NEW s \in Step, s.op \in ReplacingOp, NEW b \in Helper,
           Has(b, "reset_history")
    PROVE  <<s>> \o b \in Helper
<1> DEFINE a == <<s>>
           r == a \o b
<1>0. a \in Seq(Step) /\ Len(a) = 1 /\ a[1] = s
  OBVIOUS
<1>1. /\ a \in Seq(Step) /\ Len(a) = 1 /\ a[1] = s
      /\ b \in Seq(Step) /\ Shape(b, FALSE) /\ None(b, {"spawn"}) /\ None(b, FinalOp)
  BY <1>0, Zenon DEF Helper, Handler, ShapeSeq
<1>2. /\ s.op \notin {"append", "decide", "process_move", "spawn"} \cup FinalOp
      /\ s.op \notin Disorderly
  BY DEF ReplacingOp, FinalOp, PlainCommand, OtherCommand, Disorderly
<1>3. /\ r \in Seq(Step) /\ Len(r) = 1 + Len(b) /\ Len(b) \in Nat /\ r[1] = s
      /\ \A i \in 1..Len(b) : 1 + i \in 1..Len(r) /\ r[1 + i] = b[i]
      /\ \A i \in 1..Len(r) : i = 1 \/ i - 1 \in 1..Len(b)
  BY <1>1, ConcatOf
<1>4. None(a, {"spawn"}) /\ None(a, FinalOp) /\ None(a, Disorderly)
  BY <1>1, <1>2 DEF None
<1>11. None(b, Disorderly)
  BY <1>1 DEF Shape
<1>5. None(r, {"spawn"}) /\ None(r, FinalOp) /\ None(r, Disorderly)
  BY <1>1, <1>4, <1>11, NoneConcat
<1> HIDE DEF a, r
<1>6. FinalLast(r)
  BY <1>5 DEF None, FinalLast
<1>7. \A i \in 1..Len(r) : i # 1 => i - 1 \in 1..Len(b) /\ r[i] = b[i - 1]
  BY <1>3
<1>8. ResetFollows(r)
  <2>1. ASSUME NEW i \in 1..Len(r), r[i].op \in ReplacingOp
        PROVE  \E j \in 1..Len(r) : i < j /\ r[j].op = "reset_history"
    <3>1. CASE i = 1
      <4>1. PICK j \in 1..Len(b) : b[j].op = "reset_history"
        BY DEF Has
      <4>2. i < 1 + j
        BY <3>1
      <4> QED
        BY <1>3, <4>1, <4>2
    <3>2. CASE i # 1
      <4>1. PICK j \in 1..Len(b) : i - 1 < j /\ b[j].op = "reset_history"
        BY <1>1, <1>7, <2>1, <3>2 DEF Shape, ResetFollows
      <4>2. i < 1 + j
        BY <4>1
      <4> QED
        BY <1>3, <4>1, <4>2
    <3> QED
      BY <3>1, <3>2
  <2> QED
    BY <2>1 DEF ResetFollows
<1>9. Guarded(r, FALSE)
  <2>1. ASSUME NEW i \in 1..Len(r), r[i].op \in GameLockedOp
        PROVE  i > 1 /\ r[i - 1] = Lock("game")
    <3>1. i # 1
      BY <1>2, <1>3, <2>1 DEF GameLockedOp
    <3>2. i - 1 > 1 /\ b[i - 1 - 1] = Lock("game")
      BY <1>1, <1>7, <2>1, <3>1 DEF Shape, Guarded
    <3>3. i - 1 \in 1..Len(r) /\ i - 1 # 1 /\ i > 1
      BY <2>1, <3>2
    <3> QED
      BY <1>7, <3>2, <3>3
  <2> QED
    BY <2>1 DEF Guarded
<1>10. Processes(r, FALSE)
  BY <1>1, <1>2, <1>3, <1>7 DEF Shape, Processes
<1> QED
  BY <1>3, <1>5, <1>6, <1>8, <1>9, <1>10 DEF r, a, Helper, Handler, ShapeSeq, Shape

(* Calls that neither are the last thing a handler does nor need a mutex.  *)
PassingOp == {"stop_signal", "wait_signal", "thrd_join", "print_pv", "answer",
              "report", "rearm", "check_end", "announce", "exit_on_done",
              "start_game", "reset_history", "set_cb", "set_show",
              "set_no_show", "exit", "new_rearm", "new_flags", "go_start",
              "result_done", "set_position"}

LEMMA CallHandler ==
    /\ \A o \in PassingOp : <<Call(o)>> \in Helper
    /\ \A o \in FinalOp \ (Disorderly \cup {"decide"}) : <<Call(o)>> \in Handler
    /\ \A o \in {"print_pv", "announce", "replay"}, m \in Move \cup {NoMove} :
          <<CallMove(o, m)>> \in Helper
    /\ \A m \in Move \cup {NoMove} : /\ <<CallMove("try_move", m)>> \in Handler
                                     /\ <<CallMove("update", m)>> \in Handler
<1>1. ASSUME NEW o \in PassingOp PROVE <<Call(o)>> \in Helper
  <2>1. /\ o \in Op \ {"process_move"} /\ o \notin FinalOp
        /\ o \notin {"append", "decide", "process_move", "new_reset", "set_board",
                     "spawn"} \cup Disorderly
    BY DEF Disorderly, PassingOp, Op, JoinOp, SearchOp, GameOp, EngineOp, InsideCommand,
           FinalOp, PlainCommand, OtherCommand
  <2>2. Call(o) \in Step /\ Call(o).op = o
    BY <2>1, CallSafe
  <2> QED
    BY <2>1, <2>2, ShapeOne
<1>2. ASSUME NEW o \in FinalOp \ (Disorderly \cup {"decide"}) PROVE <<Call(o)>> \in Handler
  <2>1. /\ o \in Op \ {"process_move"}
        /\ o \notin {"append", "decide", "process_move", "new_reset", "set_board",
                     "spawn"}
    BY DEF Op, SearchOp, GameOp, InsideCommand, FinalOp, PlainCommand, OtherCommand
  <2>2. Call(o) \in Step /\ Call(o).op = o
    BY <2>1, CallSafe
  <2> QED
    BY <2>1, <2>2, ShapeOne
<1>3. ASSUME NEW o \in {"print_pv", "announce", "replay", "try_move", "update"},
             NEW m \in Move \cup {NoMove}
      PROVE  /\ CallMove(o, m) \in Step /\ CallMove(o, m).op = o
             /\ o \notin Disorderly
             /\ o \in {"print_pv", "announce", "replay"} => o \notin FinalOp
  <2>1. o \in Op /\ o # "process_move" /\ o \notin Disorderly
    BY DEF Op, SearchOp, GameOp, Disorderly
  <2>2. o \in {"print_pv", "announce", "replay"} => o \notin FinalOp
    BY DEF FinalOp, PlainCommand, OtherCommand
  <2> QED
    BY <2>1, <2>2, CallSafe
<1>4. \A o \in {"print_pv", "announce", "replay"}, m \in Move \cup {NoMove} :
          <<CallMove(o, m)>> \in Helper
  BY <1>3, ShapeOne
<1>5. \A m \in Move \cup {NoMove} : /\ <<CallMove("try_move", m)>> \in Handler
                                    /\ <<CallMove("update", m)>> \in Handler
  BY <1>3, ShapeOne
<1> QED
  BY <1>1, <1>2, <1>4, <1>5

LEMMA Mutexes == "game" \in Mutex /\ "engine" \in Mutex /\ "stdout" \in Mutex
BY DEF Mutex

(* The functions of the engine.                                            *)
LEMMA EngineHelpers ==
    /\ StopThinking \in Helper /\ WaitThinking \in Helper
    /\ ResetEngine \in Helper /\ LockedSetter \in Helper /\ SetTimeInc \in Helper
    /\ DecideMove \in Handler /\ ThinkingDone \in Handler
    /\ ComputerMove \in Helper /\ SearchCb \in Helper
    /\ \A f \in Callback, k \in Nat : SetThinkingDoneCb(f, k) \in Helper
<1> USE Mutexes, HelperIsHandler, LockIsHelper
<1>1. \A o \in {"stop_signal", "wait_signal", "reset_history", "answer", "report"} :
          <<Call(o)>> \in Helper
  BY CallHandler DEF PassingOp
<1>2. StopThinking \in Helper /\ WaitThinking \in Helper
  <2>1. /\ StopThinking = <<Lock("engine")>> \o <<Call("stop_signal")>>
        /\ WaitThinking = <<Lock("engine")>> \o <<Call("wait_signal")>>
    BY DEF StopThinking, WaitThinking
  <2> QED
    BY <1>1, <2>1, HandlerConcat
<1>3. ResetEngine \in Helper
  <2>1. StopThinking \o <<Call("reset_history")>> \in Helper
    BY <1>1, <1>2, HandlerConcat
  <2> QED
    BY <2>1, LockedHandler DEF ResetEngine
<1>4. /\ LockedSetter \in Helper /\ SetTimeInc \in Helper
      /\ ComputerMove \in Helper /\ SearchCb \in Helper
  BY <1>1, <1>2, LockedHandler DEF LockedSetter, SetTimeInc, ComputerMove, SearchCb
<1>5. DecideMove \in Handler
  <2>1. Call("decide") \in Step /\ Call("decide").op = "decide"
    BY CallSafe DEF Op, GameOp
  <2> QED
    BY <2>1, LockedGame DEF DecideMove, GameLockedOp
<1>6. ThinkingDone \in Handler
  <2>1. <<Call("thinking_cb")>> \in Handler
    BY CallHandler DEF FinalOp, Disorderly
  <2>2. Locked("engine", <<Call("thinking_cb")>>) \in Handler
    BY <2>1, LockedHandler
  <2> QED
    BY <2>2, HandlerConcat DEF ThinkingDone
<1>7. ASSUME NEW f \in Callback, NEW k \in Nat
      PROVE  SetThinkingDoneCb(f, k) \in Helper
  <2>1. CallCb("set_cb", f, k) \in Step /\ CallCb("set_cb", f, k).op = "set_cb"
    BY CallSafe DEF Op, EngineOp
  <2>2. "set_cb" \notin FinalOp \cup Disorderly
    BY DEF FinalOp, PlainCommand, OtherCommand, Disorderly
  <2>3. <<CallCb("set_cb", f, k)>> \in Helper
    BY <2>1, <2>2, ShapeOne
  <2> QED
    BY <2>3, LockedHandler DEF SetThinkingDoneCb
<1> QED
  BY <1>2, <1>3, <1>4, <1>5, <1>6, <1>7

(* The functions that play or print a move.                                *)
LEMMA MoveHelpers ==
    ASSUME NEW m \in Move \cup {NoMove}
    PROVE  /\ AddMove(m) \in Helper
           /\ PrintComputerMove(m) \in Helper
           /\ AnswerAtOnce(m) \in Helper
           /\ OperatorMove(m) \in Handler
           /\ PrintCurrentResult(m) \in Helper
<1> USE Mutexes, HelperIsHandler
<1>1. AddMove(m) \in Helper
  <2>1. CallMove("append", m) \in Step /\ CallMove("append", m).op = "append"
    BY CallSafe DEF Op, GameOp
  <2> QED
    BY <2>1, LockedGame DEF AddMove, GameLockedOp
<1>2. PrintComputerMove(m) \in Helper
  <2>1. Locked("stdout", <<CallMove("announce", m)>>) \in Helper
    BY CallHandler, LockedHandler
  <2>2. Locked("game", << >>) \in Helper
    BY LockedHandler
  <2> QED
    BY <2>1, <2>2, HandlerConcat DEF PrintComputerMove
<1>3. AnswerAtOnce(m) \in Helper
  BY <1>1, <1>2, HandlerConcat DEF AnswerAtOnce
<1>4. OperatorMove(m) \in Handler
  <2>1. <<Call("start_game")>> \in Helper
    BY CallHandler DEF PassingOp
  <2>2. <<Call("start_game")>> \o AddMove(m) \in Helper
    BY <1>1, <2>1, HandlerConcat
  <2>3. (<<Call("start_game")>> \o AddMove(m)) \o DecideMove \in Handler
    BY <2>2, EngineHelpers, HandlerConcat
  <2>4. Locked("game", (<<Call("start_game")>> \o AddMove(m)) \o DecideMove) \in Handler
    BY <2>3, LockedHandler
  <2>5. StopThinking \o Locked("game", (<<Call("start_game")>> \o AddMove(m)) \o DecideMove)
            \in Handler
    BY <2>4, EngineHelpers, HandlerConcat
  <2> QED
    BY <2>5 DEF OperatorMove
<1>5. PrintCurrentResult(m) \in Helper
  <2>1. Locked("stdout", <<CallMove("print_pv", m)>>) \in Helper
    BY CallHandler, LockedHandler
  <2> QED
    BY <2>1, LockedHandler DEF PrintCurrentResult
<1> QED
  BY <1>1, <1>2, <1>3, <1>4, <1>5

(* The functions that replace the game.                                    *)
LEMMA ReplacingHelpers ==
    /\ Has(ResetEngine, "reset_history")
    /\ <<Call("new_reset")>> \o ResetEngine \in Helper
    /\ <<Call("set_board")>> \o ResetEngine \in Helper
<1>1. /\ Call("stop_signal") \in Step /\ Call("reset_history") \in Step
      /\ Call("reset_history").op = "reset_history"
      /\ Lock("engine") \in Step /\ Unlock("engine") \in Step
      /\ Call("new_reset") \in Step /\ Call("new_reset").op = "new_reset"
      /\ Call("set_board") \in Step /\ Call("set_board").op = "set_board"
  BY CallSafe DEF Op, JoinOp, EngineOp, InsideCommand, Mutex
<1>2. Len(ResetEngine) = 5 /\ ResetEngine[4] = Call("reset_history")
  BY <1>1 DEF ResetEngine, Locked, StopThinking
<1>3. Has(ResetEngine, "reset_history")
  BY <1>1, <1>2 DEF Has
<1> QED
  BY <1>1, <1>3, EngineHelpers, ReplacedGame DEF ReplacingOp

-----------------------------------------------------------------------------
(* Calm, and a join that is coming.                                        *)

LEMMA CalmConcat ==
    ASSUME NEW a \in Seq(Step), NEW b \in Seq(Step), CalmSeq(a),
           CalmSeq(b) \/ \E j \in 1..Len(a) : a[j].op \in JoinOp
    PROVE  CalmSeq(a \o b)
<1> DEFINE r == a \o b
<1>1. /\ r \in Seq(Step) /\ Len(r) = Len(a) + Len(b)
      /\ Len(a) \in Nat /\ Len(b) \in Nat
      /\ \A i \in 1..Len(a) : i \in 1..Len(r) /\ r[i] = a[i]
      /\ \A i \in 1..Len(b) : Len(a) + i \in 1..Len(r) /\ r[Len(a) + i] = b[i]
      /\ \A i \in 1..Len(r) : i \in 1..Len(a) \/ i - Len(a) \in 1..Len(b)
  BY ConcatOf
<1> HIDE DEF r
<1>2. \A i \in 1..Len(r) : i - Len(a) \in 1..Len(b) => r[i] = b[i - Len(a)]
  BY <1>1
<1>3. ASSUME NEW i \in 1..Len(r), r[i].op \in CalmOp
      PROVE  \E j \in 1..Len(r) : j < i /\ r[j].op \in JoinOp
  <2>1. CASE i \in 1..Len(a)
    <3>1. PICK j \in 1..Len(a) : j < i /\ a[j].op \in JoinOp
      BY <1>1, <1>3, <2>1 DEF CalmSeq
    <3> QED
      BY <1>1, <3>1
  <2>2. CASE i - Len(a) \in 1..Len(b) /\ CalmSeq(b)
    <3>1. PICK j \in 1..Len(b) : j < i - Len(a) /\ b[j].op \in JoinOp
      BY <1>2, <1>3, <2>2 DEF CalmSeq
    <3>2. Len(a) + j < i
      BY <1>1, <3>1
    <3> QED
      BY <1>1, <3>1, <3>2
  <2>3. CASE i - Len(a) \in 1..Len(b) /\ \E j \in 1..Len(a) : a[j].op \in JoinOp
    <3>1. PICK j \in 1..Len(a) : a[j].op \in JoinOp
      BY <2>3
    <3>2. j < i
      BY <1>1, <2>3
    <3> QED
      BY <1>1, <3>1, <3>2
  <2> QED
    BY <1>1, <2>1, <2>2, <2>3
<1> QED
  BY <1>3 DEF r, CalmSeq

LEMMA CalmTail ==
    ASSUME NEW q \in Seq(Step), q # << >>, CalmSeq(q), Head(q).op \notin JoinOp
    PROVE  CalmSeq(Tail(q)) /\ Head(q).op \notin CalmOp
<1> DEFINE r == Tail(q)
<1>1. /\ r \in Seq(Step) /\ Len(q) \in Nat /\ Len(q) > 0 /\ Len(r) = Len(q) - 1
      /\ Head(q) = q[1] /\ 1 \in 1..Len(q)
      /\ \A i \in 1..Len(r) : i + 1 \in 1..Len(q) /\ r[i] = q[i + 1]
      /\ \A i \in 1..Len(q) : i > 1 => i - 1 \in 1..Len(r) /\ r[i - 1] = q[i]
  BY TailOf
<1> HIDE DEF r
<1>2. ASSUME NEW i \in 1..Len(r), r[i].op \in CalmOp
      PROVE  \E j \in 1..Len(r) : j < i /\ r[j].op \in JoinOp
  <2>1. i + 1 \in 1..Len(q) /\ q[i + 1].op \in CalmOp
    BY <1>1, <1>2
  <2>2. PICK j \in 1..Len(q) : j < i + 1 /\ q[j].op \in JoinOp
    BY <2>1 DEF CalmSeq
  <2>3. j > 1 /\ j - 1 < i
    BY <1>1, <2>2
  <2> QED
    BY <1>1, <2>2, <2>3
<1>3. q[1].op \notin CalmOp
  <2>1. ASSUME q[1].op \in CalmOp PROVE FALSE
    <3>1. PICK j \in 1..Len(q) : j < 1
      BY <1>1, <2>1 DEF CalmSeq
    <3> QED
      BY <3>1
  <2> QED
    BY <2>1
<1> QED
  BY <1>1, <1>2, <1>3 DEF r, CalmSeq

LEMMA NoCalmOp ==
    ASSUME NEW q, None(q, CalmOp)
    PROVE  CalmSeq(q)
BY DEF None, CalmSeq

(* After stop_thinking or its like, anything.                              *)
LEMMA StopFirst ==
    ASSUME NEW b \in Seq(Step)
    PROVE  /\ CalmSeq(StopThinking \o b) /\ JoinComing(StopThinking \o b)
           /\ CalmSeq(WaitThinking \o b) /\ JoinComing(WaitThinking \o b)
<1>1. ASSUME NEW o \in {"stop_signal", "wait_signal"}
      PROVE  /\ CalmSeq(<<Lock("engine"), Call(o)>> \o b)
             /\ JoinComing(<<Lock("engine"), Call(o)>> \o b)
  <2> DEFINE a == <<Lock("engine"), Call(o)>>
             r == a \o b
  <2>1. /\ Lock("engine") \in Step /\ Lock("engine").op = "lock"
        /\ Call(o) \in Step /\ Call(o).op = o /\ o \in JoinOp
    BY CallSafe, Mutexes DEF Op, JoinOp
  <2>2. a \in Seq(Step) /\ Len(a) = 2 /\ a[1] = Lock("engine") /\ a[2] = Call(o)
    BY <2>1
  <2> HIDE DEF a
  <2>3. /\ Len(r) = 2 + Len(b) /\ Len(b) \in Nat
        /\ \A i \in 1..2 : i \in 1..Len(r) /\ r[i] = a[i]
    <3>1. /\ Len(r) = Len(a) + Len(b) /\ Len(b) \in Nat
          /\ \A i \in 1..Len(a) : i \in 1..Len(r) /\ r[i] = a[i]
      BY <2>2, ConcatOf
    <3> QED
      BY <2>2, <3>1
  <2> HIDE DEF r
  <2>4. None(a, CalmOp)
    BY <2>1, <2>2 DEF None, CalmOp, JoinOp
  <2>5. CalmSeq(a)
    BY <2>4, NoCalmOp
  <2>6. CalmSeq(a \o b)
    BY <2>1, <2>2, <2>5, CalmConcat
  <2>7. JoinFirst(r, 2)
    <3>1. ASSUME NEW j \in 1..Len(r), j < 2
          PROVE  r[j].op \in LockOp
      <4>1. j = 1
        BY <3>1
      <4> QED
        BY <2>1, <2>2, <2>3, <4>1 DEF LockOp
    <3> QED
      BY <2>1, <2>2, <2>3, <3>1 DEF JoinFirst
  <2>8. JoinComing(r)
    BY <2>3, <2>7 DEF JoinComing
  <2> QED
    BY <2>6, <2>8 DEF a, r
<1> QED
  BY <1>1 DEF StopThinking, WaitThinking

LEMMA NoJoinComing ==
    ASSUME NEW q \in Seq(Step), q # << >>, Head(q).op \notin JoinOp \cup LockOp
    PROVE  ~JoinComing(q)
<1>1. SUFFICES ASSUME NEW k \in 1..Len(q), JoinFirst(q, k) PROVE FALSE
  BY DEF JoinComing
<1>2. Head(q) = q[1] /\ 1 \in 1..Len(q) /\ Len(q) \in Nat
  BY TailOf
<1>3. CASE k = 1
  BY <1>1, <1>2, <1>3 DEF JoinFirst
<1>4. CASE k # 1
  <2>1. 1 < k
    BY <1>4
  <2> QED
    BY <1>1, <1>2, <2>1 DEF JoinFirst
<1> QED
  BY <1>3, <1>4

(* A lock or an unlock on the way to the join.                             *)
LEMMA JoinCloser ==
    ASSUME NEW q \in Seq(Step), q # << >>, Head(q).op \in LockOp, JoinComing(q)
    PROVE  JoinComing(Tail(q))
<1> DEFINE r == Tail(q)
<1>1. /\ Len(q) \in Nat /\ Len(q) > 0 /\ Len(r) = Len(q) - 1
      /\ Head(q) = q[1] /\ 1 \in 1..Len(q)
      /\ \A i \in 1..Len(r) : i + 1 \in 1..Len(q) /\ r[i] = q[i + 1]
      /\ \A i \in 1..Len(q) : i > 1 => i - 1 \in 1..Len(r) /\ r[i - 1] = q[i]
  BY TailOf
<1> HIDE DEF r
<1>2. PICK k \in 1..Len(q) : JoinFirst(q, k)
  BY DEF JoinComing
<1>3. k # 1
  BY <1>1, <1>2 DEF JoinFirst, JoinOp, LockOp
<1>4. k - 1 \in 1..Len(r) /\ r[k - 1].op \in JoinOp
  BY <1>1, <1>2, <1>3 DEF JoinFirst
<1>5. ASSUME NEW j \in 1..Len(r), j < k - 1
      PROVE  r[j].op \in LockOp
  <2>1. j + 1 \in 1..Len(q) /\ j + 1 < k
    BY <1>1, <1>5
  <2> QED
    BY <1>1, <1>2, <2>1 DEF JoinFirst
<1> QED
  BY <1>4, <1>5 DEF r, JoinComing, JoinFirst

-----------------------------------------------------------------------------
(* The invariant.                                                          *)

Thinking == ~None(todo["search"], ThinkOp)

(* The computer must think to find its move.                               *)
Undecided(g) ==
    /\ ~GameIsEnded(g)
    /\ ~HasSingleResponse(CurrentPosition(g))
    /\ BookMove[CurrentPosition(g)] = NoMove

Disciplined == \A t \in Thread : Shape(todo[t], owner["game"] = t)

(* What a search has found in p is a move of p.                            *)
FoundIn(q, p) ==
    \A i \in 1..Len(q) :
        q[i].op \in {"update", "print_pv"} => q[i].mv \in Legal[p] \cup {NoMove}

SearchSteps ==
    /\ Thinking => AllOf(todo["search"], ThinkOp \cup LockOp)
    /\ FoundIn(todo["search"], worker.root)

(* A search that thinks does so about the position on the board, which is  *)
(* the engine's, and nothing but a join is in store for it.                *)
ThinkingSound ==
    Thinking =>
        /\ worker.root = engine.pos
        /\ engine.pos = CurrentPosition(game)
        /\ (gameStarted /\ Undecided(game)) \/ JoinComing(todo["main"])

(* In force mode no search is under way.                                   *)
ForceSound ==
    todo["search"] # << >> => ~isForceMode \/ JoinComing(todo["main"])

Calm == Thinking => CalmSeq(todo["main"])

(* Nothing but the join is left to do before a spawn, and after it.        *)
BeforeSpawn == {s \in Step : \/ s.op \in JoinOp \cup {"set_cb"}
                             \/ s = Lock("engine") \/ s = Unlock("engine")}
SpawnSeq(q) ==
    \A i, j \in 1..Len(q) : q[i].op = "spawn" =>
        /\ j < i => q[j] \in BeforeSpawn
        /\ i < j => q[j].op \in LockOp \cup JoinOp

(* The command that starts the search waits for it.                        *)
WaitsAfter(q, i) ==
    \E k \in 1..Len(q) :
        /\ i < k /\ q[k].op \in JoinOp
        /\ \A j \in 1..Len(q) : i < j /\ j < k => q[j].op \in LockOp

(* The computer is to move, and nobody else changes that.                  *)
MayThink ==
    /\ owner["game"] = "main"
    /\ gameStarted /\ ~isForceMode /\ Undecided(game)

SpawnSound ==
    /\ SpawnSeq(todo["main"])
    /\ \A i \in 1..Len(todo["main"]) : todo["main"][i].op = "spawn" =>
            MayThink \/ WaitsAfter(todo["main"], i)

(* The engine is a move behind the game while one is handed to it.         *)
PlaysTo(q, p, r) ==
    \A i \in 1..Len(q) : q[i].op = "process_move" => Play[p][q[i].mv] = r
NobodyPlays == \A t \in Thread : None(todo[t], {"process_move"})

Mirror ==
    \/ Has(todo["main"], "reset_history")
    \/ /\ \A t \in Thread : PlaysTo(todo[t], engine.pos, CurrentPosition(game))
       /\ NobodyPlays => engine.pos = CurrentPosition(game)

BestFor(p, m) == IF Legal[p] = {} THEN m = NoMove ELSE m \in Legal[p]
BestLegal == BestFor(engine.pos, bestMove)

PlayInv ==
    /\ Disciplined   /\ SearchSteps  /\ ThinkingSound /\ ForceSound
    /\ Calm          /\ SpawnSound   /\ Mirror        /\ BestLegal
    /\ NoInternalError

-----------------------------------------------------------------------------
(* What each kind of step keeps.                                           *)

(* Thread t takes its next step.                                           *)
LEMMA StepTaken ==
    ASSUME IndInv, NEW t \in Thread, NEW o, At(t, o), NEW body, Continue(t, body)
    PROVE  /\ todo[t] \in Seq(Step) /\ todo[t] # << >> /\ Head(todo[t]).op = o
           /\ todo'[t] = body \o Tail(todo[t])
           /\ \A u \in Thread \ {t} : todo'[u] = todo[u]
BY DEF IndInv, TypeOK, At, Continue

LEMMA TodoType == IndInv => \A t \in Thread : todo[t] \in Seq(Step)
BY DEF IndInv, TypeOK

LEMMA ShapeWeaker ==
    ASSUME NEW q \in ShapeSeq, NEW owns
    PROVE  Shape(q, owns) /\ None(q, {"process_move"})
BY DEF ShapeSeq, Shape, Guarded, Processes, None

LEMMA DisciplinedStep ==
    ASSUME IndInv, Disciplined, NEW t \in Thread, NEW o, At(t, o), o # "lock",
           NEW body \in ShapeSeq, o \in FinalOp \/ None(body, FinalOp),
           Continue(t, body),
           \A u \in Thread \ {t} : (owner["game"] = u) <=> (owner'["game"] = u)
    PROVE  Disciplined' /\ todo'[t] \in ShapeSeq
<1> DEFINE q == todo[t]
<1>1. /\ q \in Seq(Step) /\ q # << >> /\ Head(q).op = o
      /\ todo'[t] = body \o Tail(q)
      /\ \A u \in Thread \ {t} : todo'[u] = todo[u]
  BY StepTaken
<1>2. Shape(q, owner["game"] = t)
  BY DEF Disciplined
<1> HIDE DEF q
<1>3. /\ Tail(q) \in ShapeSeq
      /\ o \in FinalOp => AllOf(Tail(q), {"unlock"})
  BY <1>1, <1>2, TailShape
<1>4. body \o Tail(q) \in ShapeSeq
  BY <1>3, ShapeConcat
<1>5. Shape(todo'[t], owner'["game"] = t)
  BY <1>1, <1>4, ShapeWeaker
<1>6. ASSUME NEW u \in Thread \ {t} PROVE Shape(todo'[u], owner'["game"] = u)
  <2>1. Shape(todo[u], owner["game"] = u)
    BY DEF Disciplined
  <2>2. todo'[u] = todo[u] /\ ((owner["game"] = u) <=> (owner'["game"] = u))
    BY <1>1
  <2> QED
    BY <2>1, <2>2 DEF Shape, Guarded, Processes
<1> QED
  BY <1>1, <1>4, <1>5, <1>6 DEF Disciplined

(* A thread whose next step is another does not hand a move to the engine. *)
LEMMA NotProcessing ==
    ASSUME NEW q \in Seq(Step), q # << >>, NEW owns, Shape(q, owns),
           Head(q).op \notin {"lock", "process_move"}
    PROVE  None(q, {"process_move"})
<1>1. Head(q) = q[1] /\ 1 \in 1..Len(q) /\ Len(q) \in Nat
  BY TailOf
<1>2. q[1] # Lock("engine")
  BY <1>1, CallSafe, Mutexes
<1>3. ASSUME NEW i \in 1..Len(q), q[i].op = "process_move" PROVE FALSE
  <2>1. i = 1
    BY <1>2, <1>3 DEF Shape, Processes
  <2> QED
    BY <1>1, <1>3, <2>1
<1> QED
  BY <1>3 DEF None

LEMMA NoSpawn ==
    ASSUME NEW q \in Seq(Step), q # << >>, SpawnSeq(q),
           Head(q).op \notin JoinOp \cup LockOp \cup {"set_cb", "spawn"}
    PROVE  None(q, {"spawn"})
<1>1. Head(q) = q[1] /\ 1 \in 1..Len(q) /\ Len(q) \in Nat
  BY TailOf
<1>2. q[1] \notin BeforeSpawn
  BY <1>1, CallSafe, Mutexes DEF BeforeSpawn, LockOp
<1>3. ASSUME NEW i \in 1..Len(q), q[i].op = "spawn" PROVE FALSE
  <2>1. i # 1
    BY <1>1, <1>3
  <2>2. 1 < i
    BY <2>1
  <2> QED
    BY <1>1, <1>2, <1>3, <2>2 DEF SpawnSeq
<1> QED
  BY <1>3 DEF None

LEMMA NoSpawnSound ==
    ASSUME NEW q, None(q, {"spawn"})
    PROVE  SpawnSeq(q) /\ \A i \in 1..Len(q) : q[i].op # "spawn"
BY DEF None, SpawnSeq

LEMMA ResetStays ==
    ASSUME NEW q \in Seq(Step), q # << >>, NEW b \in Seq(Step)
    PROVE  /\ Has(q, "reset_history") /\ Head(q).op # "reset_history"
                => Has(b \o Tail(q), "reset_history")
           /\ Has(b, "reset_history") => Has(b \o Tail(q), "reset_history")
<1>1. /\ Head(q) = q[1] /\ Len(q) \in Nat
      /\ \A i \in 1..Len(b) : /\ i \in 1..Len(b \o Tail(q))
                              /\ (b \o Tail(q))[i] = b[i]
      /\ \A i \in 2..Len(q) : /\ Len(b) + i - 1 \in 1..Len(b \o Tail(q))
                              /\ (b \o Tail(q))[Len(b) + i - 1] = q[i]
  BY FrontOf
<1>2. ASSUME NEW i \in 1..Len(q), q[i].op = "reset_history",
             Head(q).op # "reset_history"
      PROVE  Has(b \o Tail(q), "reset_history")
  <2>1. i \in 2..Len(q)
    BY <1>1, <1>2
  <2> QED
    BY <1>1, <1>2, <2>1 DEF Has
<1>3. Has(b, "reset_history") => Has(b \o Tail(q), "reset_history")
  BY <1>1 DEF Has
<1> QED
  BY <1>2, <1>3 DEF Has

(* The steps of the main thread that have lemmas of their own.             *)
SpecialOp == JoinOp \cup LockOp
                \cup {"spawn", "reset_history", "process_move", "set_cb"}

(* What a step of the main thread may do to the command loop's state, next *)
(* being the steps it leaves.                                              *)
CliKept(next) ==
    /\ Has(next, "reset_history")
          \/ CurrentPosition(cli'.game) = CurrentPosition(cli.game)
    /\ Thinking => /\ cli'.game = cli.game
                   /\ (cli.started => cli'.started) \/ JoinComing(next)
    /\ todo["search"] # << >> => (cli'.force => cli.force) \/ JoinComing(next)

AnyBody(o, body) ==
    /\ o \notin SpecialOp
    /\ body \in ShapeSeq /\ (o \in FinalOp \/ None(body, FinalOp))
    /\ Thinking => CalmSeq(body)

MainBody(o, body) ==
    /\ o \notin SpecialOp
    /\ body \in Handler /\ (o \in FinalOp \/ body \in Helper)
    /\ Thinking => CalmSeq(body)

MainKeeps ==
    /\ owner' = owner /\ worker' = worker
    /\ engine'.pos = engine.pos /\ engine'.best = engine.best
    /\ exited' # "failure"

LEMMA MainStepKeeps ==
    ASSUME IndInv, PlayInv, NEW o, At("main", o), NEW body, AnyBody(o, body),
           Continue("main", body), MainKeeps, CliKept(todo'["main"]), SpawnSound'
    PROVE  PlayInv'
<1> USE DEF game, gameStarted, isForceMode, bestMove, AnyBody, MainKeeps
<1> DEFINE q == todo["main"]
           r == todo'["main"]
<1>0. "main" \in Thread /\ "search" \in Thread /\ "search" # "main"
  BY DEF Thread
<1>1. /\ q \in Seq(Step) /\ q # << >> /\ Head(q).op = o
      /\ r = body \o Tail(q) /\ todo'["search"] = todo["search"]
      /\ Tail(q) \in Seq(Step)
  BY <1>0, StepTaken, TailOf
<1>2. /\ body \in ShapeSeq /\ body \in Seq(Step)
      /\ o \in FinalOp \/ None(body, FinalOp)
  BY DEF ShapeSeq
<1>3. o \notin JoinOp \cup LockOp /\ o # "lock" /\ o # "unlock"
        /\ o \notin {"spawn", "set_cb", "process_move", "reset_history"}
  BY DEF SpecialOp, LockOp
<1>4. Disciplined' /\ r \in ShapeSeq
  BY <1>0, <1>2, <1>3, DisciplinedStep DEF PlayInv
<1>5. Thinking' <=> Thinking
  BY <1>1 DEF Thinking
<1>6. ~JoinComing(q)
  BY <1>1, <1>3, NoJoinComing
<1>7. SearchSteps'
  BY <1>1, <1>5 DEF PlayInv, SearchSteps
<1> HIDE DEF q, r
<1>8. ThinkingSound'
  <2>1. SUFFICES ASSUME Thinking
                 PROVE  /\ worker'.root = engine'.pos
                        /\ engine'.pos = CurrentPosition(cli'.game)
                        /\ (cli'.started /\ Undecided(cli'.game)) \/ JoinComing(r)
    BY <1>5 DEF ThinkingSound, r
  <2>2. /\ worker.root = engine.pos /\ engine.pos = CurrentPosition(cli.game)
        /\ cli.started /\ Undecided(cli.game)
    BY <1>6, <2>1 DEF PlayInv, ThinkingSound, q
  <2>3. cli'.game = cli.game /\ (cli'.started \/ JoinComing(r))
    BY <2>1, <2>2 DEF CliKept, r
  <2> QED
    BY <2>2, <2>3
<1>9. ForceSound'
  <2>1. SUFFICES ASSUME todo["search"] # << >>
                 PROVE  ~cli'.force \/ JoinComing(r)
    BY <1>1 DEF ForceSound, r
  <2>2. ~cli.force
    BY <1>6, <2>1 DEF PlayInv, ForceSound, q
  <2> QED
    BY <2>1, <2>2 DEF CliKept, r
<1>10. Calm'
  <2>1. SUFFICES ASSUME Thinking PROVE CalmSeq(r)
    BY <1>5 DEF Calm, r
  <2>2. CalmSeq(q)
    BY <2>1 DEF PlayInv, Calm, q
  <2>3. CalmSeq(Tail(q))
    BY <1>1, <1>3, <2>2, CalmTail
  <2> QED
    BY <1>1, <1>2, <2>1, <2>3, CalmConcat
<1>12. Mirror'
  <2>1. SUFFICES ASSUME ~Has(r, "reset_history") PROVE Mirror'
    BY DEF Mirror, r
  <2>2. ~Has(q, "reset_history")
    BY <1>1, <1>2, <1>3, <2>1, ResetStays
  <2>3. CurrentPosition(cli'.game) = CurrentPosition(cli.game)
    BY <2>1 DEF CliKept, r
  <2>4. None(q, {"process_move"}) /\ None(r, {"process_move"})
    <3>1. Shape(q, owner["game"] = "main")
      BY <1>0 DEF PlayInv, Disciplined, q
    <3> QED
      BY <1>1, <1>3, <1>4, <3>1, NotProcessing, ShapeWeaker
  <2>5. /\ \A t \in Thread : PlaysTo(todo[t], engine.pos, CurrentPosition(cli.game))
        /\ NobodyPlays => engine.pos = CurrentPosition(cli.game)
    BY <2>2 DEF PlayInv, Mirror, q
  <2>6. PlaysTo(todo'["search"], engine'.pos, CurrentPosition(cli'.game))
    BY <1>0, <1>1, <2>3, <2>5
  <2>7. PlaysTo(r, engine'.pos, CurrentPosition(cli'.game))
    BY <2>4 DEF None, PlaysTo
  <2>8. NobodyPlays' => NobodyPlays
    BY <1>0, <1>1, <2>4 DEF NobodyPlays, Thread, q
  <2> QED
    BY <1>0, <2>3, <2>5, <2>6, <2>7, <2>8 DEF Mirror, Thread, r
<1>13. BestLegal'
  BY DEF PlayInv, BestLegal
<1>14. NoInternalError'
  BY DEF NoInternalError
<1> QED
  BY <1>4, <1>7, <1>8, <1>9, <1>10, <1>12, <1>13, <1>14 DEF PlayInv

(* A handler that starts no search.                                        *)
LEMMA MainStep ==
    ASSUME IndInv, PlayInv, NEW o, At("main", o), NEW body, MainBody(o, body),
           Continue("main", body), MainKeeps, CliKept(todo'["main"])
    PROVE  PlayInv'
<1> DEFINE q == todo["main"]
           r == todo'["main"]
<1>1. /\ q \in Seq(Step) /\ q # << >> /\ Head(q).op = o
      /\ r = body \o Tail(q) /\ Tail(q) \in Seq(Step)
  BY StepTaken, TailOf DEF Thread
<1>2. /\ body \in ShapeSeq /\ body \in Seq(Step) /\ None(body, {"spawn"})
      /\ o \in FinalOp \/ None(body, FinalOp)
  BY DEF MainBody, Handler, ShapeSeq, Helper
<1>3. o \notin JoinOp \cup LockOp /\ o # "lock" /\ o # "unlock"
        /\ o \notin {"spawn", "set_cb", "process_move", "reset_history"}
  BY DEF MainBody, SpecialOp, LockOp
<1> HIDE DEF q, r
<1>4. SpawnSound'
  <2>1. SpawnSeq(q)
    BY DEF PlayInv, SpawnSound, q
  <2>2. None(q, {"spawn"})
    BY <1>1, <1>3, <2>1, NoSpawn
  <2>3. None(r, {"spawn"})
    BY <1>1, <1>2, <2>2, NoneTail, NoneConcat
  <2> QED
    BY <2>3, NoSpawnSound DEF SpawnSound, r
<1>5. AnyBody(o, body)
  BY <1>2 DEF MainBody, AnyBody
<1> QED
  BY <1>4, <1>5, MainStepKeeps

(* The same when the command loop's state stays.                           *)
LEMMA MainCall ==
    ASSUME IndInv, PlayInv, NEW o, At("main", o), NEW body, MainBody(o, body),
           Continue("main", body),
           UNCHANGED <<owner, worker, engine, exited, cli>>
    PROVE  PlayInv'
<1>1. CliKept(todo'["main"])
  BY DEF CliKept
<1>2. MainKeeps
  BY DEF PlayInv, NoInternalError, MainKeeps
<1> QED
  BY <1>1, <1>2, MainStep

LEMMA FoundConcat ==
    ASSUME NEW p, NEW q \in Seq(Step), q # << >>, NEW b \in Seq(Step),
           FoundIn(q, p), FoundIn(b, p)
    PROVE  FoundIn(b \o Tail(q), p)
<1> DEFINE r == b \o Tail(q)
<1>1. /\ Len(b) \in Nat /\ Len(q) \in Nat
      /\ \A i \in 1..Len(b) : r[i] = b[i]
      /\ \A i \in 2..Len(q) : r[Len(b) + i - 1] = q[i]
      /\ \A i \in 1..Len(r) : i \in 1..Len(b) \/ i - Len(b) + 1 \in 2..Len(q)
  BY FrontOf
<1> HIDE DEF r
<1>2. ASSUME NEW i \in 1..Len(r), r[i].op \in {"update", "print_pv"}
      PROVE  r[i].mv \in Legal[p] \cup {NoMove}
  <2>1. CASE i \in 1..Len(b)
    BY <1>1, <1>2, <2>1 DEF FoundIn
  <2>2. CASE i - Len(b) + 1 \in 2..Len(q)
    <3>1. Len(b) + (i - Len(b) + 1) - 1 = i
      BY <1>1
    <3>2. r[i] = q[i - Len(b) + 1] /\ i - Len(b) + 1 \in 1..Len(q)
      BY <1>1, <2>2, <3>1
    <3> QED
      BY <1>2, <3>2 DEF FoundIn
  <2> QED
    BY <1>1, <2>1, <2>2
<1> QED
  BY <1>2 DEF r, FoundIn

(* The next step of the search thread says whether it still thinks.        *)
LEMMA ThinkingHead ==
    ASSUME IndInv, PlayInv, NEW o, At("search", o), o \notin LockOp
    PROVE  Thinking <=> o \in ThinkOp
<1> DEFINE q == todo["search"]
<1>1. q \in Seq(Step) /\ q # << >> /\ Head(q).op = o
  BY DEF IndInv, TypeOK, Thread, At
<1>2. Head(q) = q[1] /\ 1 \in 1..Len(q)
  BY <1>1, TailOf
<1>3. o \in ThinkOp => Thinking
  BY <1>1, <1>2 DEF Thinking, None
<1>4. Thinking => o \in ThinkOp
  <2>1. Thinking => AllOf(q, ThinkOp \cup LockOp)
    BY DEF PlayInv, SearchSteps
  <2> QED
    BY <1>1, <1>2, <2>1 DEF AllOf
<1> QED
  BY <1>3, <1>4

(* A step of the search thread.                                            *)
ThinksOn(o) == o \in ThinkOp \ {"thinking_cb"}

SearcherBody(o, body) ==
    /\ o \notin LockOp \cup {"process_move"}
    /\ body \in ShapeSeq /\ (o \in FinalOp \/ None(body, FinalOp))
    /\ ThinksOn(o) => AllOf(body, ThinkOp \cup LockOp)
    /\ ~ThinksOn(o) => None(body, ThinkOp)
    /\ FoundIn(body, worker.root)

SearcherKeeps ==
    /\ owner' = owner /\ worker'.root = worker.root /\ engine'.pos = engine.pos
    /\ BestFor(engine.pos, engine'.best) /\ exited' # "failure"
    /\ cli'.game = cli.game /\ cli'.force = cli.force
    /\ cli.started /\ ~GameIsEnded(cli.game) => cli'.started

LEMMA SearcherStep ==
    ASSUME IndInv, PlayInv, NEW o, At("search", o), NEW body,
           SearcherBody(o, body), Continue("search", body), SearcherKeeps
    PROVE  PlayInv'
<1> USE DEF game, gameStarted, isForceMode, bestMove, SearcherBody, SearcherKeeps
<1> DEFINE q == todo["search"]
           r == todo'["search"]
<1>0. "main" \in Thread /\ "search" \in Thread /\ "search" # "main"
  BY DEF Thread
<1>1. /\ q \in Seq(Step) /\ q # << >> /\ Head(q).op = o
      /\ r = body \o Tail(q) /\ todo'["main"] = todo["main"]
      /\ Tail(q) \in Seq(Step)
  BY <1>0, StepTaken, TailOf
<1>2. body \in Seq(Step) /\ o # "lock" /\ o # "unlock" /\ o # "process_move"
  BY DEF ShapeSeq, LockOp
<1>3. Disciplined' /\ r \in ShapeSeq
  BY <1>0, <1>2, DisciplinedStep DEF PlayInv
<1>4. Thinking <=> o \in ThinkOp
  BY ThinkingHead
<1>5. Shape(q, owner["game"] = "search")
  BY <1>0 DEF PlayInv, Disciplined
<1>6. Thinking' <=> ~None(r, ThinkOp)
  BY DEF Thinking
<1>7. None(q, ThinkOp) <=> ~Thinking
  BY DEF Thinking
<1> HIDE DEF q, r
<1>8. ~ThinksOn(o) => ~Thinking'
  <2>1. CASE o = "thinking_cb"
    <3>1. o \in FinalOp
      BY <2>1 DEF FinalOp
    <3>2. AllOf(Tail(q), {"unlock"})
      BY <1>1, <1>2, <1>5, <3>1, TailShape
    <3>3. None(Tail(q), ThinkOp)
      BY <3>2 DEF AllOf, None, ThinkOp
    <3> QED
      BY <1>1, <1>2, <1>6, <2>1, <3>3, NoneConcat DEF ThinksOn
  <2>2. CASE o \notin ThinkOp
    <3>1. None(Tail(q), ThinkOp)
      BY <1>1, <1>4, <1>7, <2>2, NoneTail
    <3>2. None(body, ThinkOp)
      BY <2>2 DEF ThinksOn
    <3> QED
      BY <1>1, <1>2, <1>6, <3>1, <3>2, NoneConcat
  <2> QED
    BY <2>1, <2>2 DEF ThinksOn
<1>9. Thinking' => Thinking
  BY <1>4, <1>8 DEF ThinksOn
<1>10. SearchSteps'
  <2>1. Thinking' => AllOf(r, ThinkOp \cup LockOp)
    <3>1. SUFFICES ASSUME Thinking' PROVE AllOf(r, ThinkOp \cup LockOp)
      OBVIOUS
    <3>2. AllOf(q, ThinkOp \cup LockOp) /\ AllOf(body, ThinkOp \cup LockOp)
      BY <1>8, <1>9, <3>1 DEF PlayInv, SearchSteps, q
    <3> QED
      BY <1>1, <1>2, <3>2, NoneTail, NoneConcat
  <2>2. FoundIn(q, worker.root)
    BY DEF PlayInv, SearchSteps, q
  <2>3. FoundIn(r, worker.root)
    BY <1>1, <1>2, <2>2, FoundConcat
  <2> QED
    BY <2>1, <2>3 DEF SearchSteps, r
<1>11. ThinkingSound'
  <2>1. SUFFICES ASSUME Thinking
                 PROVE  /\ worker'.root = engine'.pos
                        /\ engine'.pos = CurrentPosition(cli'.game)
                        /\ \/ cli'.started /\ Undecided(cli'.game)
                           \/ JoinComing(todo["main"])
    BY <1>1, <1>9 DEF ThinkingSound
  <2>2. /\ worker.root = engine.pos /\ engine.pos = CurrentPosition(cli.game)
        /\ (cli.started /\ Undecided(cli.game)) \/ JoinComing(todo["main"])
    BY <2>1 DEF PlayInv, ThinkingSound
  <2> QED
    BY <2>2 DEF Undecided
<1>12. ForceSound'
  BY <1>1 DEF PlayInv, ForceSound, q
<1>13. Calm'
  BY <1>1, <1>9 DEF PlayInv, Calm
<1>14. SpawnSound'
  <2>1. MayThink => MayThink'
    BY DEF MayThink, Undecided
  <2> QED
    BY <1>1, <2>1 DEF PlayInv, SpawnSound
<1>15. Mirror'
  <2>1. CASE Has(todo["main"], "reset_history")
    BY <1>1, <2>1 DEF Mirror
  <2>2. CASE ~Has(todo["main"], "reset_history")
    <3>1. None(q, {"process_move"}) /\ None(r, {"process_move"})
      BY <1>1, <1>2, <1>3, <1>5, NotProcessing, ShapeWeaker
    <3>2. /\ \A t \in Thread : PlaysTo(todo[t], engine.pos, CurrentPosition(cli.game))
          /\ NobodyPlays => engine.pos = CurrentPosition(cli.game)
      BY <2>2 DEF PlayInv, Mirror
    <3>3. PlaysTo(todo'["main"], engine'.pos, CurrentPosition(cli'.game))
      BY <1>0, <1>1, <3>2
    <3>4. PlaysTo(r, engine'.pos, CurrentPosition(cli'.game))
      BY <3>1 DEF None, PlaysTo
    <3>5. NobodyPlays' => NobodyPlays
      BY <1>0, <1>1, <3>1 DEF NobodyPlays, Thread, q
    <3> QED
      BY <1>0, <3>2, <3>3, <3>4, <3>5 DEF Mirror, Thread, r
  <2> QED
    BY <2>1, <2>2
<1>16. BestLegal'
  BY DEF BestLegal
<1>17. NoInternalError'
  BY DEF NoInternalError
<1> QED
  BY <1>3, <1>10, <1>11, <1>12, <1>13, <1>14, <1>15, <1>16, <1>17 DEF PlayInv

-----------------------------------------------------------------------------
(* The search thread.                                                      *)

(* What a search in p goes on with.                                        *)
ThinkSeq(p) ==
    {b \in Seq(Step) : AllOf(b, ThinkOp \cup LockOp) /\ FoundIn(b, p)}

LEMMA ThinkSeqConcat ==
    ASSUME NEW p, NEW a \in ThinkSeq(p), NEW b \in ThinkSeq(p)
    PROVE  a \o b \in ThinkSeq(p)
<1> DEFINE r == a \o b
<1>1. /\ a \in Seq(Step) /\ b \in Seq(Step) /\ FoundIn(a, p) /\ FoundIn(b, p)
      /\ AllOf(a, ThinkOp \cup LockOp) /\ AllOf(b, ThinkOp \cup LockOp)
  BY DEF ThinkSeq
<1>2. AllOf(r, ThinkOp \cup LockOp)
  BY <1>1, NoneConcat
<1>3. /\ r \in Seq(Step) /\ Len(a) \in Nat
      /\ \A i \in 1..Len(a) : r[i] = a[i]
      /\ \A i \in 1..Len(b) : r[Len(a) + i] = b[i]
      /\ \A i \in 1..Len(r) : i \in 1..Len(a) \/ i - Len(a) \in 1..Len(b)
  BY <1>1, ConcatOf
<1> HIDE DEF r
<1>4. \A i \in 1..Len(r) : i - Len(a) \in 1..Len(b) => r[i] = b[i - Len(a)]
  BY <1>3
<1>5. FoundIn(r, p)
  BY <1>1, <1>3, <1>4 DEF FoundIn
<1> QED
  BY <1>2, <1>3, <1>5 DEF ThinkSeq, r

LEMMA ThinkSeqOne ==
    ASSUME NEW p, NEW s \in Step, s.op \in ThinkOp \cup LockOp,
           s.op \in {"update", "print_pv"} => s.mv \in Legal[p] \cup {NoMove}
    PROVE  <<s>> \in ThinkSeq(p)
<1>1. <<s>> \in Seq(Step) /\ Len(<<s>>) = 1 /\ <<s>>[1] = s
  OBVIOUS
<1> QED
  BY <1>1 DEF ThinkSeq, AllOf, FoundIn

LEMMA ThinkSeqLocked ==
    ASSUME NEW p, NEW mx \in Mutex, NEW b \in ThinkSeq(p)
    PROVE  /\ <<Lock(mx)>> \in ThinkSeq(p) /\ <<Unlock(mx)>> \in ThinkSeq(p)
           /\ Locked(mx, b) \in ThinkSeq(p)
<1>1. /\ Lock(mx) \in Step /\ Lock(mx).op = "lock"
      /\ Unlock(mx) \in Step /\ Unlock(mx).op = "unlock"
  BY CallSafe
<1>2. <<Lock(mx)>> \in ThinkSeq(p) /\ <<Unlock(mx)>> \in ThinkSeq(p)
  BY <1>1, ThinkSeqOne DEF LockOp
<1> QED
  BY <1>2, ThinkSeqConcat DEF Locked

LEMMA ThinkBodies ==
    ASSUME NEW p \in Position
    PROVE  /\ \A o \in ThinkOp : <<Call(o)>> \in ThinkSeq(p)
           /\ \A m \in Legal[p] \cup {NoMove} :
                 /\ <<CallMove("update", m)>> \in ThinkSeq(p)
                 /\ PrintCurrentResult(m) \in ThinkSeq(p)
           /\ ThinkingDone \in ThinkSeq(p) /\ << >> \in ThinkSeq(p)
<1> USE Mutexes
<1>1. ASSUME NEW o \in ThinkOp PROVE <<Call(o)>> \in ThinkSeq(p)
  <2>1. o \in Op \ {"process_move"}
    BY DEF ThinkOp, Op, SearchOp
  <2>2. Call(o) \in Step /\ Call(o).op = o /\ Call(o).mv = NoMove
    BY <2>1, CallSafe DEF Call
  <2> QED
    BY <2>2, ThinkSeqOne
<1>2. ASSUME NEW m \in Legal[p] \cup {NoMove}
      PROVE  /\ <<CallMove("update", m)>> \in ThinkSeq(p)
             /\ PrintCurrentResult(m) \in ThinkSeq(p)
  <2>1. m \in Move \cup {NoMove}
    BY LegalAssumption
  <2>2. ASSUME NEW o \in {"update", "print_pv"}
        PROVE  <<CallMove(o, m)>> \in ThinkSeq(p)
    <3>1. o \in Op /\ o # "process_move" /\ o \in ThinkOp
      BY DEF Op, SearchOp, ThinkOp
    <3>2. CallMove(o, m) \in Step /\ CallMove(o, m).op = o
      BY <2>1, <3>1, CallSafe
    <3>3. CallMove(o, m).mv = m
      BY DEF CallMove, Call
    <3> QED
      BY <3>1, <3>2, <3>3, ThinkSeqOne
  <2>3. Locked("stdout", <<CallMove("print_pv", m)>>) \in ThinkSeq(p)
    BY <2>2, ThinkSeqLocked
  <2> QED
    BY <2>2, <2>3, ThinkSeqLocked DEF PrintCurrentResult
<1>3. ThinkingDone \in ThinkSeq(p)
  <2>1. <<Call("thinking_cb")>> \in ThinkSeq(p)
    BY <1>1 DEF ThinkOp
  <2>2. Locked("engine", <<Call("thinking_cb")>>) \in ThinkSeq(p)
    BY <2>1, ThinkSeqLocked
  <2>3. <<Unlock("engine")>> \in ThinkSeq(p)
    BY <2>1, ThinkSeqLocked
  <2> QED
    BY <2>2, <2>3, ThinkSeqConcat DEF ThinkingDone
<1>4. << >> \in ThinkSeq(p)
  BY DEF ThinkSeq, AllOf, FoundIn
<1> QED
  BY <1>1, <1>2, <1>3, <1>4

(* What a search does once it has ended: no more thinking.                 *)
LEMMA AnswerBodies ==
    /\ None(<< >>, ThinkOp) /\ None(ComputerMove, ThinkOp) /\ None(SearchCb, ThinkOp)
    /\ \A f \in Callback, k \in Nat : None(SetThinkingDoneCb(f, k), ThinkOp)
    /\ \A o \in {"rearm", "exit_on_done", "check_end"} : None(<<Call(o)>>, ThinkOp)
    /\ \A m \in Move \cup {NoMove} :
          None(PrintComputerMove(m), ThinkOp) /\ None(AddMove(m), ThinkOp)
<1> USE Mutexes
<1>1. ASSUME NEW s \in Step, s.op \notin ThinkOp
      PROVE  <<s>> \in Seq(Step) /\ None(<<s>>, ThinkOp)
  <2>1. <<s>> \in Seq(Step) /\ Len(<<s>>) = 1 /\ <<s>>[1] = s
    OBVIOUS
  <2> QED
    BY <1>1, <2>1 DEF None
<1>2. ASSUME NEW mx \in Mutex, NEW b \in Seq(Step), None(b, ThinkOp)
      PROVE  Locked(mx, b) \in Seq(Step) /\ None(Locked(mx, b), ThinkOp)
  <2>1. /\ Lock(mx) \in Step /\ Lock(mx).op = "lock"
        /\ Unlock(mx) \in Step /\ Unlock(mx).op = "unlock"
    BY CallSafe
  <2>2. "lock" \notin ThinkOp /\ "unlock" \notin ThinkOp
    BY DEF ThinkOp
  <2>3. /\ <<Lock(mx)>> \in Seq(Step) /\ None(<<Lock(mx)>>, ThinkOp)
        /\ <<Unlock(mx)>> \in Seq(Step) /\ None(<<Unlock(mx)>>, ThinkOp)
    BY <1>1, <2>1, <2>2
  <2> DEFINE l == <<Lock(mx)>>
             u == <<Unlock(mx)>>
  <2>4. Locked(mx, b) = (l \o b) \o u
    BY DEF Locked
  <2>5. /\ l \in Seq(Step) /\ None(l, ThinkOp)
        /\ u \in Seq(Step) /\ None(u, ThinkOp)
    BY <2>3
  <2> HIDE DEF l, u
  <2>6. l \o b \in Seq(Step) /\ (l \o b) \o u \in Seq(Step)
    BY <2>5
  <2>7. None(l \o b, ThinkOp)
    BY <1>2, <2>5, NoneConcat
  <2>8. None((l \o b) \o u, ThinkOp)
    BY <2>5, <2>6, <2>7, NoneConcat
  <2> QED
    BY <2>4, <2>6, <2>8
<1>3. << >> \in Seq(Step) /\ None(<< >>, ThinkOp)
  BY DEF None
<1>4. ASSUME NEW o \in {"answer", "report", "rearm", "exit_on_done", "check_end"}
      PROVE  <<Call(o)>> \in Seq(Step) /\ None(<<Call(o)>>, ThinkOp)
  <2>1. o \in Op \ {"process_move"} /\ o \notin ThinkOp
    BY DEF Op, SearchOp, GameOp, ThinkOp
  <2>2. Call(o) \in Step /\ Call(o).op = o
    BY <2>1, CallSafe
  <2> QED
    BY <1>1, <2>1, <2>2
<1>5. None(ComputerMove, ThinkOp) /\ None(SearchCb, ThinkOp)
  BY <1>2, <1>4 DEF ComputerMove, SearchCb
<1>6. ASSUME NEW f \in Callback, NEW k \in Nat
      PROVE  None(SetThinkingDoneCb(f, k), ThinkOp)
  <2>1. "set_cb" \in Op \ {"process_move"} /\ "set_cb" \notin ThinkOp
    BY DEF Op, EngineOp, ThinkOp
  <2>2. CallCb("set_cb", f, k) \in Step /\ CallCb("set_cb", f, k).op = "set_cb"
    BY <2>1, CallSafe
  <2> QED
    BY <1>1, <1>2, <2>1, <2>2 DEF SetThinkingDoneCb
<1>7. ASSUME NEW m \in Move \cup {NoMove}
      PROVE  None(PrintComputerMove(m), ThinkOp) /\ None(AddMove(m), ThinkOp)
  <2>1. ASSUME NEW o \in {"announce", "append"}
        PROVE  <<CallMove(o, m)>> \in Seq(Step) /\ None(<<CallMove(o, m)>>, ThinkOp)
    <3>1. o \in Op /\ o # "process_move" /\ o \notin ThinkOp
      BY DEF Op, GameOp, ThinkOp
    <3>2. CallMove(o, m) \in Step /\ CallMove(o, m).op = o
      BY <3>1, CallSafe
    <3> QED
      BY <1>1, <3>1, <3>2
  <2>2. /\ Locked("stdout", <<CallMove("announce", m)>>) \in Seq(Step)
        /\ None(Locked("stdout", <<CallMove("announce", m)>>), ThinkOp)
        /\ Locked("game", << >>) \in Seq(Step) /\ None(Locked("game", << >>), ThinkOp)
    BY <1>2, <1>3, <2>1
  <2>3. None(AddMove(m), ThinkOp)
    BY <1>2, <2>1 DEF AddMove
  <2> QED
    BY <2>2, <2>3, NoneConcat DEF PrintComputerMove
<1> QED
  BY <1>3, <1>4, <1>5, <1>6, <1>7

LEMMA NoThinkFound ==
    ASSUME NEW b, None(b, ThinkOp), NEW p
    PROVE  FoundIn(b, p)
BY DEF None, FoundIn, ThinkOp

LEMMA FirstMoveBest == \A p \in Position : BestFor(p, FirstMove[p])
BY FirstMoveAssumption DEF BestFor

(* The search, as long as it thinks.                                       *)
LEMMA ThinkActions ==
    ASSUME IndInv, PlayInv,
           \/ SetupSearch \/ Deepen \/ SearchCompletes \/ SearchTerminated
           \/ Update \/ PrintPv \/ NextDepth
    PROVE  PlayInv'
<1> USE DEF game, gameStarted, isForceMode, bestMove
<1> DEFINE p == worker.root
           Follows(o, body) ==
               /\ body \in Handler /\ body \in ThinkSeq(p)
               /\ o \in FinalOp \/ body \in Helper
<1>0. /\ p \in Position /\ engine.pos \in Position /\ worker.depth \in Nat
      /\ bestMove \in Move \cup {NoMove}
  BY StateTypes DEF IndInv, TypeOK, WorkerType, EngineType
<1>1. ASSUME NEW o \in {"setup_search", "deepen", "search", "update", "print_pv",
                        "next_depth"},
             At("search", o), NEW body, Follows(o, body), Continue("search", body),
             owner' = owner, worker'.root = p, engine'.pos = engine.pos,
             BestFor(engine.pos, engine'.best), exited' # "failure", cli' = cli
      PROVE  PlayInv'
  <2>1. o \notin LockOp \cup {"process_move"} /\ ThinksOn(o)
    BY DEF LockOp, ThinksOn, ThinkOp
  <2>2. SearcherBody(o, body)
    BY <1>1, <2>1 DEF Handler, Helper, ThinkSeq, SearcherBody
  <2>3. SearcherKeeps
    BY <1>1 DEF SearcherKeeps
  <2> QED
    BY <1>1, <2>2, <2>3, SearcherStep
<1>2. BestFor(engine.pos, engine.best) /\ exited # "failure"
  BY DEF PlayInv, BestLegal, NoInternalError
<1>3. \A o \in {"setup_search", "deepen", "search", "update", "next_depth"} :
          o \in FinalOp
  BY DEF FinalOp
<1>4. ASSUME NEW o \in ThinkOp, At("search", o)
      PROVE  p = engine.pos /\ p = CurrentPosition(game)
  <2>1. o \notin LockOp
    BY DEF ThinkOp, LockOp
  <2>2. Thinking
    BY <1>4, <2>1, ThinkingHead
  <2> QED
    BY <2>2 DEF PlayInv, ThinkingSound
<1>5. ASSUME NEW m \in Legal[p], NEW o \in ThinkOp, At("search", o)
      PROVE  BestFor(engine.pos, m)
  BY <1>4, <1>5 DEF BestFor
<1>6. /\ \A o \in {"deepen", "search", "next_depth"} :
             <<Call(o)>> \in Handler /\ <<Call(o)>> \in ThinkSeq(p)
      /\ \A m \in Legal[p] \cup {NoMove} :
             /\ <<CallMove("update", m)>> \in Handler
             /\ <<CallMove("update", m)>> \in ThinkSeq(p)
             /\ PrintCurrentResult(m) \in Helper
             /\ PrintCurrentResult(m) \in ThinkSeq(p)
      /\ ThinkingDone \in Handler /\ ThinkingDone \in ThinkSeq(p)
      /\ << >> \in Helper /\ << >> \in ThinkSeq(p)
      /\ <<Lock("engine")>> \in Helper /\ <<Lock("engine")>> \in ThinkSeq(p)
      /\ <<Unlock("engine")>> \in Helper /\ <<Unlock("engine")>> \in ThinkSeq(p)
  <2>1. \A o \in {"deepen", "search", "next_depth"} :
             <<Call(o)>> \in Handler /\ <<Call(o)>> \in ThinkSeq(p)
    BY <1>0, CallHandler, ThinkBodies DEF FinalOp, ThinkOp, Disorderly
  <2>2. \A m \in Legal[p] \cup {NoMove} :
             /\ <<CallMove("update", m)>> \in Handler
             /\ <<CallMove("update", m)>> \in ThinkSeq(p)
             /\ PrintCurrentResult(m) \in Helper
             /\ PrintCurrentResult(m) \in ThinkSeq(p)
    <3>1. Legal[p] \subseteq Move
      BY <1>0, LegalAssumption
    <3> QED
      BY <1>0, <3>1, CallHandler, ThinkBodies, MoveHelpers
  <2>3. << >> \in ThinkSeq(p) /\ ThinkingDone \in ThinkSeq(p)
    BY <1>0, ThinkBodies
  <2>4. <<Lock("engine")>> \in ThinkSeq(p) /\ <<Unlock("engine")>> \in ThinkSeq(p)
    BY <2>3, ThinkSeqLocked, Mutexes
  <2> QED
    BY <2>1, <2>2, <2>3, <2>4, EngineHelpers, HelperIsHandler, LockIsHelper, Mutexes
<1> HIDE DEF p
<1>7. CASE SetupSearch
  <2>1. Follows("setup_search", <<Call("deepen")>>)
    BY <1>3, <1>6
  <2>2. /\ At("search", "setup_search") /\ Continue("search", <<Call("deepen")>>)
        /\ UNCHANGED <<locks, cli, callbackKey, outside>>
    BY <1>7 DEF SetupSearch
  <2>3. PICK d \in 1..(MaxDepth + 1), m \in {bestMove} \cup Legal[p] :
            /\ worker' = [worker EXCEPT !.depth = d]
            /\ engine' = [engine EXCEPT !.best = m]
    BY <1>7 DEF SetupSearch, p
  <2>4. worker'.root = p /\ engine'.pos = engine.pos /\ engine'.best = m
    BY <2>3 DEF IndInv, TypeOK, WorkerType, EngineType, p
  <2>5. BestFor(engine.pos, engine'.best)
    BY <1>2, <1>5, <2>2, <2>3, <2>4 DEF ThinkOp
  <2> HIDE DEF Follows
  <2> QED
    BY <1>1, <1>2, <2>1, <2>2, <2>4, <2>5 DEF locks, outside
<1>8. CASE Deepen
  <2>1. PICK body \in {<<Unlock("engine"), Call("search")>>, ThinkingDone} :
            /\ Continue("search", body) /\ At("search", "deepen")
            /\ UNCHANGED <<locks, cli, callbackKey, engine, worker, outside>>
    BY <1>8 DEF Deepen, Only
  <2>2. <<Unlock("engine"), Call("search")>> = <<Unlock("engine")>> \o <<Call("search")>>
    OBVIOUS
  <2>3. /\ <<Unlock("engine")>> \o <<Call("search")>> \in Handler
        /\ <<Unlock("engine")>> \o <<Call("search")>> \in ThinkSeq(p)
    BY <1>6, HandlerConcat, ThinkSeqConcat, HelperIsHandler
  <2>4. Follows("deepen", body)
    BY <1>3, <1>6, <2>1, <2>2, <2>3
  <2> HIDE DEF Follows
  <2> QED
    BY <1>1, <1>2, <2>1, <2>4 DEF locks, outside, p
<1>9. CASE SearchCompletes
  <2>1. PICK m \in Legal[p] \cup {NoMove} :
            /\ Continue("search", <<Lock("engine"), CallMove("update", m)>>)
            /\ At("search", "search")
            /\ UNCHANGED <<locks, cli, callbackKey, engine, worker, outside>>
    BY <1>9 DEF SearchCompletes, Only, p
  <2>2. <<Lock("engine"), CallMove("update", m)>>
            = <<Lock("engine")>> \o <<CallMove("update", m)>>
    OBVIOUS
  <2>3. /\ <<Lock("engine")>> \o <<CallMove("update", m)>> \in Handler
        /\ <<Lock("engine")>> \o <<CallMove("update", m)>> \in ThinkSeq(p)
    BY <1>6, HandlerConcat, ThinkSeqConcat, HelperIsHandler
  <2>4. Follows("search", <<Lock("engine"), CallMove("update", m)>>)
    BY <1>3, <2>2, <2>3
  <2> HIDE DEF Follows
  <2> QED
    BY <1>1, <1>2, <2>1, <2>4 DEF locks, outside, p
<1>10. CASE SearchTerminated
  <2>1. /\ Continue("search", <<Lock("engine")>> \o ThinkingDone)
        /\ At("search", "search")
        /\ UNCHANGED <<locks, cli, callbackKey, engine, worker, outside>>
    BY <1>10 DEF SearchTerminated, Only
  <2>2. Follows("search", <<Lock("engine")>> \o ThinkingDone)
    BY <1>3, <1>6, HandlerConcat, ThinkSeqConcat, HelperIsHandler
  <2> HIDE DEF Follows
  <2> QED
    BY <1>1, <1>2, <2>1, <2>2 DEF locks, outside, p
<1>11. CASE Update
  <2> DEFINE m == Arg("search").mv
             body == (IF worker.show THEN PrintCurrentResult(m) ELSE << >>)
                         \o <<Call("next_depth")>>
  <2>1. /\ At("search", "update") /\ Continue("search", body)
        /\ engine' = [engine EXCEPT !.best = IF m # NoMove THEN m ELSE @]
        /\ UNCHANGED <<locks, cli, callbackKey, worker, outside>>
    BY <1>11 DEF Update, EngineStep
  <2>2. m \in Legal[p] \cup {NoMove}
    <3>1. /\ todo["search"] \in Seq(Step) /\ todo["search"] # << >>
          /\ Head(todo["search"]).op = "update"
      BY <2>1, TodoType DEF At, Thread
    <3>2. FoundIn(todo["search"], p)
      BY DEF PlayInv, SearchSteps, p
    <3> QED
      BY <3>1, <3>2, TailOf DEF FoundIn, Arg
  <2>3. engine'.pos = engine.pos /\ engine'.best \in {bestMove} \cup Legal[p]
    BY <2>1, <2>2 DEF IndInv, TypeOK, EngineType
  <2>4. BestFor(engine.pos, engine'.best)
    BY <1>2, <1>5, <2>1, <2>3 DEF ThinkOp
  <2>5. Follows("update", body)
    BY <1>3, <1>6, <2>2, HandlerConcat, ThinkSeqConcat, HelperIsHandler
  <2> HIDE DEF Follows, body
  <2> QED
    BY <1>1, <1>2, <2>1, <2>3, <2>4, <2>5 DEF locks, outside, p
<1>12. CASE PrintPv
  <2> DEFINE m == Arg("search").mv
  <2>1. /\ At("search", "print_pv") /\ Continue("search", << >>)
        /\ exited' = IF m = NoMove \/ CanAppend(game, m) THEN "no" ELSE "failure"
        /\ UNCHANGED <<locks, cli, callbackKey, engine, worker>>
    BY <1>12 DEF PrintPv, ExitStep
  <2>2. m \in Legal[p] \cup {NoMove}
    <3>1. /\ todo["search"] \in Seq(Step) /\ todo["search"] # << >>
          /\ Head(todo["search"]).op = "print_pv"
      BY <2>1, TodoType DEF At, Thread
    <3>2. FoundIn(todo["search"], p)
      BY DEF PlayInv, SearchSteps, p
    <3> QED
      BY <3>1, <3>2, TailOf DEF FoundIn, Arg
  <2>3. p = CurrentPosition(game)
    BY <1>4, <2>1 DEF ThinkOp
  <2>4. exited' # "failure"
    BY <2>1, <2>2, <2>3 DEF CanAppend
  <2>5. Follows("print_pv", << >>)
    BY <1>6, HelperIsHandler
  <2> HIDE DEF Follows
  <2> QED
    BY <1>1, <1>2, <2>1, <2>4, <2>5 DEF locks, p
<1>13. CASE NextDepth
  <2>1. PICK body \in {ThinkingDone, <<Call("deepen")>>} :
            /\ Continue("search", body) /\ At("search", "next_depth")
            /\ UNCHANGED <<locks, cli, callbackKey, engine, outside>>
            /\ worker' = worker \/ \E d : worker' = [worker EXCEPT !.depth = d]
    BY <1>13 DEF NextDepth, Only, WorkerStep
  <2>2. worker'.root = p
    BY <2>1 DEF IndInv, TypeOK, WorkerType, p
  <2>3. Follows("next_depth", body)
    BY <1>3, <1>6, <2>1
  <2> HIDE DEF Follows
  <2> QED
    BY <1>1, <1>2, <2>1, <2>2, <2>3 DEF locks, outside
<1> QED
  BY <1>7, <1>8, <1>9, <1>10, <1>11, <1>12, <1>13

(* The callback, once the search has ended.                                *)
LEMMA AnswerActions ==
    ASSUME IndInv, PlayInv,
           ThinkingCb \/ Answer \/ Report \/ Rearm \/ ExitOnDone
    PROVE  PlayInv'
<1> USE DEF bestMove
<1> DEFINE Calls(body) == body \in Helper /\ None(body, ThinkOp)
<1>1. ASSUME NEW o \in {"thinking_cb", "answer", "report", "rearm", "exit_on_done"},
             At("search", o), NEW body, Calls(body), Continue("search", body),
             UNCHANGED <<owner, worker, engine, cli>>, exited' # "failure"
      PROVE  PlayInv'
  <2>1. o \notin LockOp \cup {"process_move"} /\ ~ThinksOn(o)
    BY DEF LockOp, ThinksOn, ThinkOp
  <2>2. body \in ShapeSeq /\ None(body, FinalOp) /\ FoundIn(body, worker.root)
    BY <1>1, NoThinkFound DEF Handler, Helper
  <2>3. SearcherBody(o, body)
    BY <1>1, <2>1, <2>2 DEF SearcherBody
  <2>4. BestFor(engine.pos, engine.best)
    BY DEF PlayInv, BestLegal
  <2>5. SearcherKeeps
    BY <1>1, <2>4 DEF SearcherKeeps
  <2> HIDE DEF Calls
  <2> QED
    BY <1>1, <2>3, <2>5, SearcherStep
<1>2. exited # "failure"
  BY DEF PlayInv, NoInternalError
<1>3. /\ Calls(<< >>) /\ Calls(ComputerMove) /\ Calls(SearchCb)
      /\ Calls(<<Call("rearm")>>) /\ Calls(<<Call("exit_on_done")>>)
      /\ \A m \in Move \cup {NoMove} :
             Calls(PrintComputerMove(m)) /\ Calls(AddMove(m))
      /\ Calls(SetThinkingDoneCb("computer_move", callbackKey + 1))
  <2>1. <<Call("rearm")>> \in Helper /\ <<Call("exit_on_done")>> \in Helper
    BY CallHandler DEF PassingOp
  <2>2. callbackKey + 1 \in Nat /\ "computer_move" \in Callback
    BY StateTypes DEF Callback
  <2> QED
    BY <2>1, <2>2, EngineHelpers, MoveHelpers, HelperIsHandler, AnswerBodies
<1>4. ASSUME NEW a, NEW b, Calls(a), Calls(b)
      PROVE  Calls(a \o b)
  <2>1. a \in Seq(Step) /\ b \in Seq(Step) /\ a \in Handler /\ b \in Handler
    BY <1>4 DEF Helper, Handler, ShapeSeq
  <2> QED
    BY <1>4, <2>1, HandlerConcat, NoneConcat
<1>5. bestMove \in Move \cup {NoMove}
  BY StateTypes
<1> HIDE DEF Calls
<1>6. CASE ThinkingCb
  <2>1. PICK body \in {<< >>, ComputerMove, SearchCb} : Only("search", body)
    BY <1>6 DEF ThinkingCb
  <2> QED
    BY <1>1, <1>2, <1>3, <1>6, <2>1 DEF ThinkingCb, Only, locks, outside
<1>7. CASE Answer
  <2> DEFINE m == bestMove
             body == PrintComputerMove(m) \o <<Call("exit_on_done")>> \o AddMove(m)
  <2>1. Calls(body)
    BY <1>3, <1>4, <1>5
  <2>2. At("search", "answer") /\ (Only("search", << >>) \/ Only("search", body))
    BY <1>7 DEF Answer
  <2> HIDE DEF body
  <2> QED
    BY <1>1, <1>2, <1>3, <2>1, <2>2 DEF Only, locks, outside
<1>8. CASE Report
  <2> DEFINE m == bestMove
             a == << >> \o <<Call("exit_on_done")>>
             b == (PrintComputerMove(m) \o <<Call("rearm")>>) \o <<Call("exit_on_done")>>
  <2>1. Calls(a) /\ Calls(b)
    BY <1>3, <1>4, <1>5
  <2>2. At("search", "report") /\ (Only("search", a) \/ Only("search", b))
    BY <1>8 DEF Report
  <2> HIDE DEF a, b
  <2> QED
    BY <1>1, <1>2, <2>1, <2>2 DEF Only, locks, outside
<1>9. CASE Rearm
  BY <1>1, <1>2, <1>3, <1>9 DEF Rearm, KeyStep, locks, outside
<1>10. CASE ExitOnDone
  <2>1. /\ At("search", "exit_on_done") /\ Continue("search", << >>)
        /\ UNCHANGED <<owner, worker, engine, cli>> /\ exited' # "failure"
    BY <1>10 DEF ExitOnDone, ExitStep, locks
  <2> QED
    BY <1>1, <1>3, <2>1
<1> QED
  BY <1>6, <1>7, <1>8, <1>9, <1>10

-----------------------------------------------------------------------------
(* The steps of either thread.                                             *)

LEMMA AnnounceStep ==
    ASSUME IndInv, PlayInv, NEW t \in Thread, Announce(t)
    PROVE  PlayInv'
<1> USE DEF bestMove
<1>1. /\ At(t, "announce") /\ Continue(t, << >>)
      /\ UNCHANGED <<owner, worker, engine, exited, cli>>
  BY DEF Announce, Only, locks, outside
<1>2. << >> \in Helper /\ << >> \in Handler
  BY HelperIsHandler
<1>3. CASE t = "main"
  <2>1. MainBody("announce", << >>)
    BY <1>2 DEF MainBody, SpecialOp, JoinOp, LockOp, CalmSeq
  <2> QED
    BY <1>1, <1>3, <2>1, MainCall
<1>4. CASE t = "search"
  <2>1. /\ << >> \in ShapeSeq /\ None(<< >>, FinalOp)
        /\ None(<< >>, ThinkOp) /\ FoundIn(<< >>, worker.root)
    BY <1>2 DEF Helper, Handler, None, FoundIn
  <2>2. SearcherBody("announce", << >>)
    BY <2>1 DEF SearcherBody, LockOp, ThinksOn, ThinkOp
  <2>3. SearcherKeeps
    BY <1>1 DEF SearcherKeeps, PlayInv, BestLegal, NoInternalError
  <2> QED
    BY <1>1, <1>4, <2>2, <2>3, SearcherStep
<1> QED
  BY <1>3, <1>4 DEF Thread

LEMMA CheckEndStep ==
    ASSUME IndInv, PlayInv, NEW t \in Thread, CheckEnd(t)
    PROVE  PlayInv'
<1> USE DEF game, gameStarted, bestMove
<1>1. /\ At(t, "check_end") /\ Continue(t, << >>)
      /\ cli' = [cli EXCEPT !.started = @ /\ ~GameIsEnded(cli.game)]
      /\ UNCHANGED <<owner, worker, engine, exited>>
  BY DEF CheckEnd, CliStep, locks, outside
<1>2. << >> \in Helper /\ << >> \in Handler
  BY HelperIsHandler
<1>3. /\ cli'.game = cli.game /\ cli'.force = cli.force
      /\ cli.started /\ ~GameIsEnded(cli.game) => cli'.started
  BY <1>1 DEF IndInv, TypeOK, CliType
<1>4. CASE t = "main"
  <2>1. MainBody("check_end", << >>)
    BY <1>2 DEF MainBody, SpecialOp, JoinOp, LockOp, CalmSeq
  <2>2. MainKeeps
    BY <1>1 DEF MainKeeps, PlayInv, NoInternalError
  <2>3. ~JoinComing(todo["main"])
    <3>1. /\ todo["main"] \in Seq(Step) /\ todo["main"] # << >>
          /\ Head(todo["main"]).op = "check_end"
      BY <1>1, <1>4, TodoType DEF At, Thread
    <3> QED
      BY <3>1, NoJoinComing DEF JoinOp, LockOp
  <2>4. Thinking => ~GameIsEnded(cli.game)
    BY <2>3 DEF PlayInv, ThinkingSound, Undecided
  <2>5. CliKept(todo'["main"])
    BY <1>3, <2>4 DEF CliKept
  <2> QED
    BY <1>1, <1>4, <2>1, <2>2, <2>5, MainStep
<1>5. CASE t = "search"
  <2>1. /\ << >> \in ShapeSeq /\ None(<< >>, FinalOp)
        /\ None(<< >>, ThinkOp) /\ FoundIn(<< >>, worker.root)
    BY <1>2 DEF Helper, Handler, None, FoundIn
  <2>2. SearcherBody("check_end", << >>)
    BY <2>1 DEF SearcherBody, LockOp, ThinksOn, ThinkOp
  <2>3. SearcherKeeps
    BY <1>1, <1>3 DEF SearcherKeeps, PlayInv, BestLegal, NoInternalError
  <2> QED
    BY <1>1, <1>5, <2>2, <2>3, SearcherStep
<1> QED
  BY <1>4, <1>5 DEF Thread

(* What stands before a spawn may be replaced by more of its like.         *)
LEMMA SpawnFront ==
    ASSUME NEW q \in Seq(Step), q # << >>, SpawnSeq(q), NEW b \in Seq(Step),
           \A j \in 1..Len(b) : b[j] \in BeforeSpawn
    PROVE  /\ SpawnSeq(b \o Tail(q))
           /\ \A i \in 1..Len(b \o Tail(q)) : (b \o Tail(q))[i].op = "spawn" =>
                 \E k \in 1..Len(q) :
                     /\ q[k].op = "spawn"
                     /\ Head(q) \in BeforeSpawn
                     /\ WaitsAfter(q, k) => WaitsAfter(b \o Tail(q), i)
<1> DEFINE r == b \o Tail(q)
           n == Len(b)
<1>1. /\ Len(r) = n + Len(q) - 1
      /\ n \in Nat /\ Len(q) \in Nat /\ Len(q) > 0 /\ Head(q) = q[1]
      /\ \A i \in 1..n : i \in 1..Len(r) /\ r[i] = b[i]
      /\ \A i \in 2..Len(q) : n + i - 1 \in 1..Len(r) /\ r[n + i - 1] = q[i]
      /\ \A i \in 1..Len(r) : i \in 1..n \/ i - n + 1 \in 2..Len(q)
  BY FrontOf
<1> HIDE DEF r, n
<1>2. \A i \in 1..Len(r) : i - n + 1 \in 2..Len(q) => r[i] = q[i - n + 1]
  <2>1. ASSUME NEW i \in 1..Len(r), i - n + 1 \in 2..Len(q)
        PROVE  r[i] = q[i - n + 1]
    <3>1. n + (i - n + 1) - 1 = i
      BY <1>1
    <3> QED
      BY <1>1, <2>1, <3>1
  <2> QED
    BY <2>1
<1>3. \A s \in BeforeSpawn : s.op # "spawn"
  BY CallSafe, Mutexes DEF BeforeSpawn, JoinOp
<1>4. ASSUME NEW i \in 1..Len(r), r[i].op = "spawn"
      PROVE  /\ i - n + 1 \in 2..Len(q) /\ i > n /\ q[i - n + 1].op = "spawn"
             /\ 1 \in 1..Len(q) /\ q[1] \in BeforeSpawn
  <2>1. i \notin 1..n
    BY <1>1, <1>3, <1>4 DEF n
  <2>2. i - n + 1 \in 2..Len(q) /\ i > n
    BY <1>1, <2>1
  <2>3. q[i - n + 1].op = "spawn" /\ 1 < i - n + 1 /\ i - n + 1 \in 1..Len(q)
            /\ 1 \in 1..Len(q)
    BY <1>1, <1>2, <1>4, <2>2
  <2> QED
    BY <2>2, <2>3 DEF SpawnSeq
<1>5. SpawnSeq(r)
  <2>1. ASSUME NEW i \in 1..Len(r), NEW j \in 1..Len(r), r[i].op = "spawn"
        PROVE  /\ j < i => r[j] \in BeforeSpawn
               /\ i < j => r[j].op \in LockOp \cup JoinOp
    <3>1. /\ i - n + 1 \in 1..Len(q) /\ q[i - n + 1].op = "spawn" /\ i > n
      BY <1>4, <2>1
    <3>2. CASE j \in 1..n
      <4>1. r[j] = b[j] /\ b[j] \in BeforeSpawn
        BY <1>1, <3>2 DEF n
      <4>2. n \in Nat /\ i \in Int /\ j \in Int /\ j <= n
        BY <1>1, <3>2
      <4>3. j < i /\ ~(i < j)
        BY <3>1, <4>2
      <4> QED
        BY <4>1, <4>3
    <3>3. CASE j - n + 1 \in 2..Len(q)
      <4>1. /\ j - n + 1 \in 1..Len(q) /\ r[j] = q[j - n + 1]
            /\ j < i => j - n + 1 < i - n + 1
            /\ i < j => i - n + 1 < j - n + 1
        BY <1>1, <1>2, <3>3
      <4> QED
        BY <3>1, <4>1 DEF SpawnSeq
    <3> QED
      BY <1>1, <3>2, <3>3
  <2> QED
    BY <2>1 DEF SpawnSeq
<1>6. ASSUME NEW i \in 1..Len(r), r[i].op = "spawn", WaitsAfter(q, i - n + 1)
      PROVE  WaitsAfter(r, i)
  <2>1. PICK k \in 1..Len(q) :
            /\ i - n + 1 < k /\ q[k].op \in JoinOp
            /\ \A j \in 1..Len(q) : i - n + 1 < j /\ j < k => q[j].op \in LockOp
    BY <1>6 DEF WaitsAfter
  <2>2. i > n /\ i - n + 1 \in 2..Len(q)
    BY <1>4, <1>6
  <2>3. k \in 2..Len(q) /\ i < n + k - 1
    <3>1. n \in Nat /\ Len(q) \in Nat /\ i \in Int /\ k \in 1..Len(q)
      BY <1>1
    <3>2. i - n + 1 < k /\ i > n
      BY <2>1, <2>2
    <3> QED
      BY <3>1, <3>2
  <2>4. n + k - 1 \in 1..Len(r) /\ r[n + k - 1].op \in JoinOp
    BY <1>1, <2>1, <2>3
  <2>5. ASSUME NEW j \in 1..Len(r), i < j, j < n + k - 1
        PROVE  r[j].op \in LockOp
    <3>1. j - n + 1 \in 2..Len(q)
      BY <1>1, <2>2, <2>5
    <3>2. j - n + 1 \in 1..Len(q) /\ i - n + 1 < j - n + 1 /\ j - n + 1 < k
      BY <1>1, <2>2, <2>5, <3>1
    <3> QED
      BY <1>2, <2>1, <3>1, <3>2
  <2> QED
    BY <2>3, <2>4, <2>5 DEF WaitsAfter
<1>7. ASSUME NEW i \in 1..Len(r), r[i].op = "spawn"
      PROVE  \E k \in 1..Len(q) : /\ q[k].op = "spawn"
                                  /\ Head(q) \in BeforeSpawn
                                  /\ WaitsAfter(q, k) => WaitsAfter(r, i)
  <2>1. i - n + 1 \in 1..Len(q)
    BY <1>4, <1>7
  <2> QED
    BY <1>1, <1>4, <1>6, <1>7, <2>1
<1> QED
  BY <1>5, <1>7 DEF r

(* A lock or an unlock is taken off.                                       *)
LEMMA LockTail ==
    ASSUME NEW q \in Seq(Step), q # << >>, NEW owns, NEW ownsNext, Shape(q, owns),
           Head(q).op \in LockOp,
           Head(q).op = "lock" /\ (owns \/ Head(q) = Lock("game")) => ownsNext
    PROVE  Shape(Tail(q), ownsNext)
<1> DEFINE r == Tail(q)
<1>1. /\ r \in Seq(Step) /\ Len(q) \in Nat /\ Len(q) > 0 /\ Len(r) = Len(q) - 1
      /\ Head(q) = q[1] /\ 1 \in 1..Len(q)
      /\ \A i \in 1..Len(r) : i + 1 \in 1..Len(q) /\ r[i] = q[i + 1]
      /\ \A i \in 1..Len(q) : i > 1 => i - 1 \in 1..Len(r) /\ r[i - 1] = q[i]
  BY TailOf
<1>2. None(r, Disorderly)
  BY NoneTail DEF Shape
<1>3. CASE Head(q).op # "lock"
  <2>1. r \in ShapeSeq
    BY <1>3, TailShape
  <2> QED
    BY <2>1, ShapeWeaker
<1>4. CASE Head(q).op = "lock"
  <2> HIDE DEF r
  <2>1. FinalLast(r)
    <3>1. ASSUME NEW i \in 1..Len(r), NEW j \in 1..Len(r), r[i].op \in FinalOp, i < j
          PROVE  r[j].op = "unlock"
      <4>1. i + 1 \in 1..Len(q) /\ j + 1 \in 1..Len(q) /\ i + 1 < j + 1
        BY <1>1, <3>1
      <4>2. q[i + 1].op \in FinalOp
        BY <1>1, <3>1
      <4>3. q[j + 1].op = "unlock"
        BY <4>1, <4>2 DEF Shape, FinalLast
      <4> QED
        BY <1>1, <4>3
    <3> QED
      BY <3>1 DEF FinalLast
  <2>2. ResetFollows(r)
    <3>1. ASSUME NEW i \in 1..Len(r), r[i].op \in ReplacingOp
          PROVE  \E j \in 1..Len(r) : i < j /\ r[j].op = "reset_history"
      <4>1. i + 1 \in 1..Len(q) /\ q[i + 1].op \in ReplacingOp
        BY <1>1, <3>1
      <4>2. PICK j \in 1..Len(q) : i + 1 < j /\ q[j].op = "reset_history"
        BY <4>1 DEF Shape, ResetFollows
      <4>3. j > 1 /\ i < j - 1
        BY <4>2
      <4> QED
        BY <1>1, <4>2, <4>3
    <3> QED
      BY <3>1 DEF ResetFollows
  <2>3. Guarded(r, ownsNext)
    <3>1. ASSUME NEW i \in 1..Len(r), r[i].op \in GameLockedOp
          PROVE  (i = 1 /\ ownsNext) \/ (i > 1 /\ r[i - 1] = Lock("game"))
      <4>1. i + 1 \in 1..Len(q) /\ q[i + 1].op \in GameLockedOp /\ i + 1 # 1
                /\ i + 1 - 1 = i
        BY <1>1, <3>1
      <4>2. q[i] = Lock("game")
        BY <4>1 DEF Shape, Guarded
      <4>3. CASE i = 1
        BY <1>1, <1>4, <4>2, <4>3
      <4>4. CASE i # 1
        <5>1. i - 1 \in 1..Len(r) /\ i - 1 + 1 = i /\ i > 1
          BY <4>4
        <5> QED
          BY <1>1, <4>2, <5>1
      <4> QED
        BY <4>3, <4>4
    <3> QED
      BY <3>1 DEF Guarded
  <2>4. Processes(r, ownsNext)
    <3>1. ASSUME NEW i \in 1..Len(r), r[i].op = "process_move"
          PROVE  ownsNext /\ i = 1
      <4>1. i + 1 \in 1..Len(q) /\ q[i + 1].op = "process_move" /\ i + 1 # 1
        BY <1>1, <3>1
      <4>2. owns /\ i + 1 = 2
        BY <4>1 DEF Shape, Processes
      <4> QED
        BY <1>4, <4>2
    <3> QED
      BY <3>1 DEF Processes
  <2> QED
    BY <1>2, <2>1, <2>2, <2>3, <2>4 DEF r, Shape
<1> QED
  BY <1>3, <1>4

LEMMA LockStep ==
    ASSUME IndInv, PlayInv, NEW t \in Thread, MtxLock(t) \/ MtxUnlock(t)
    PROVE  PlayInv'
<1> USE DEF game, gameStarted, isForceMode, bestMove
<1> DEFINE q == todo[t]
           u == IF t = "main" THEN "search" ELSE "main"
<1>0. "main" \in Thread /\ "search" \in Thread /\ "search" # "main" /\ u \in Thread
          /\ u # t /\ u # NoOwner /\ \A v \in Thread : v = t \/ v = u
  BY DEF Thread, NoOwner
<1>1. /\ \E o \in LockOp : At(t, o) /\ Continue(t, << >>)
      /\ UNCHANGED <<cli, engine, worker, exited>>
  BY DEF MtxLock, MtxUnlock, outside, LockOp
<1>2. /\ q \in Seq(Step) /\ q # << >> /\ Head(q).op \in LockOp
      /\ todo'[t] = << >> \o Tail(q) /\ todo'[t] = Tail(q) /\ Tail(q) \in Seq(Step)
      /\ \A v \in Thread \ {t} : todo'[v] = todo[v]
  <2>1. PICK o \in LockOp : At(t, o) /\ Continue(t, << >>)
    BY <1>1
  <2>2. /\ q \in Seq(Step) /\ q # << >> /\ Head(q).op = o
        /\ todo'[t] = << >> \o Tail(q)
        /\ \A v \in Thread \ {t} : todo'[v] = todo[v]
    BY <2>1, StepTaken
  <2>3. << >> \o Tail(q) = Tail(q) /\ Tail(q) \in Seq(Step)
    BY <2>2
  <2> QED
    BY <2>1, <2>2, <2>3
<1>3. /\ \A v \in Thread \ {t} : (owner["game"] = v) <=> (owner'["game"] = v)
      /\ Head(q).op = "lock" /\ (owner["game"] = t \/ Head(q) = Lock("game"))
             => owner'["game"] = t
      /\ Head(q).mx # "game" => owner'["game"] = owner["game"]
  <2>1. owner \in [Mutex -> Thread \cup {NoOwner}] /\ "game" \in Mutex
    BY Mutexes DEF IndInv, TypeOK
  <2>2. Lock("game").mx = "game"
    BY DEF Lock, Call
  <2>3. CASE MtxLock(t)
    <3>1. /\ owner[Head(q).mx] \in {NoOwner, t}
          /\ owner' = [owner EXCEPT ![Head(q).mx] = t]
      BY <2>3 DEF MtxLock, Arg
    <3> QED
      BY <1>0, <2>1, <2>2, <3>1
  <2>4. CASE MtxUnlock(t)
    <3>1. /\ Head(q).op = "unlock"
          /\ \/ owner' = owner
             \/ /\ owner[Head(q).mx] = t
                /\ owner' = [owner EXCEPT ![Head(q).mx] =
                                 IF held[Head(q).mx] = 1 THEN NoOwner ELSE t]
      BY <2>4 DEF MtxUnlock, Arg, At, locks
    <3> QED
      BY <1>0, <2>1, <3>1
  <2> QED
    BY <2>3, <2>4
<1>4. Disciplined'
  <2>1. Shape(q, owner["game"] = t)
    BY DEF PlayInv, Disciplined
  <2>2. Shape(todo'[t], owner'["game"] = t)
    <3> DEFINE owns == owner["game"] = t
               ownsNext == owner'["game"] = t
    <3>1. /\ q \in Seq(Step) /\ q # << >> /\ Shape(q, owns) /\ Head(q).op \in LockOp
          /\ Head(q).op = "lock" /\ (owns \/ Head(q) = Lock("game")) => ownsNext
          /\ todo'[t] = Tail(q)
      BY <1>2, <1>3, <2>1
    <3> HIDE DEF q, owns, ownsNext
    <3>2. Shape(Tail(q), ownsNext)
      BY <3>1, LockTail
    <3> QED
      BY <3>1, <3>2 DEF ownsNext
  <2>3. ASSUME NEW v \in Thread \ {t} PROVE Shape(todo'[v], owner'["game"] = v)
    <3>1. Shape(todo[v], owner["game"] = v)
      BY DEF PlayInv, Disciplined
    <3>2. todo'[v] = todo[v] /\ ((owner["game"] = v) <=> (owner'["game"] = v))
      BY <1>2, <1>3
    <3> QED
      BY <3>1, <3>2 DEF Shape, Guarded, Processes
  <2> QED
    BY <2>2, <2>3 DEF Disciplined
<1>5. ASSUME NEW v \in Thread, NEW ops
      PROVE  /\ None(todo[v], ops) => None(todo'[v], ops)
             /\ AllOf(todo[v], ops) => AllOf(todo'[v], ops)
  <2>1. v = t => /\ None(todo[v], ops) => None(todo'[v], ops)
                 /\ AllOf(todo[v], ops) => AllOf(todo'[v], ops)
    BY <1>2, NoneTail
  <2> QED
    BY <1>2, <2>1
<1>6. Thinking' => Thinking
  BY <1>0, <1>5 DEF Thinking
<1>7. todo'["search"] # << >> => todo["search"] # << >>
  BY <1>0, <1>2
<1>8. JoinComing(todo["main"]) => JoinComing(todo'["main"])
  BY <1>0, <1>2, JoinCloser
<1>9. SearchSteps'
  <2>1. FoundIn(<< >>, worker.root)
    BY DEF FoundIn
  <2>2. FoundIn(todo["search"], worker.root)
    BY DEF PlayInv, SearchSteps
  <2>3. FoundIn(todo'["search"], worker.root)
    <3>1. << >> \in Seq(Step)
      OBVIOUS
    <3> QED
      BY <1>0, <1>2, <2>1, <2>2, <3>1, FoundConcat
  <2> QED
    BY <1>0, <1>1, <1>5, <1>6, <2>3 DEF PlayInv, SearchSteps
<1>10. ThinkingSound'
  BY <1>1, <1>6, <1>8 DEF PlayInv, ThinkingSound, Undecided
<1>11. ForceSound'
  BY <1>1, <1>7, <1>8 DEF PlayInv, ForceSound
<1>12. Calm'
  <2>1. SUFFICES ASSUME Thinking PROVE CalmSeq(todo'["main"])
    BY <1>6 DEF Calm
  <2>2. CalmSeq(todo["main"])
    BY <2>1 DEF PlayInv, Calm
  <2>3. Head(q).op \notin JoinOp
    BY <1>2 DEF LockOp, JoinOp
  <2> QED
    BY <1>0, <1>2, <2>2, <2>3, CalmTail
<1>13. SpawnSound'
  <2>1. CASE t = "search"
    <3>1. MayThink => MayThink'
      BY <1>0, <1>1, <1>3, <2>1 DEF MayThink, Undecided
    <3> QED
      BY <1>0, <1>2, <2>1, <3>1 DEF PlayInv, SpawnSound
  <2>2. CASE t = "main"
    <3> DEFINE r == << >> \o Tail(q)
    <3>1. q = todo["main"] /\ r = todo'["main"]
      BY <1>2, <2>2
    <3>2. /\ SpawnSeq(q)
          /\ \A k \in 1..Len(q) : q[k].op = "spawn" => MayThink \/ WaitsAfter(q, k)
      BY <3>1 DEF PlayInv, SpawnSound
    <3>3. << >> \in Seq(Step) /\ \A j \in 1..Len(<< >>) : << >>[j] \in BeforeSpawn
      OBVIOUS
    <3>4. /\ SpawnSeq(r)
          /\ \A i \in 1..Len(r) : r[i].op = "spawn" =>
                \E k \in 1..Len(q) : /\ q[k].op = "spawn"
                                     /\ Head(q) \in BeforeSpawn
                                     /\ WaitsAfter(q, k) => WaitsAfter(r, i)
      BY <1>2, <3>2, <3>3, SpawnFront
    <3>5. ASSUME Head(q) \in BeforeSpawn, MayThink PROVE MayThink'
      <4>1. Head(q) = Lock("engine") \/ Head(q) = Unlock("engine")
        BY <1>2, <3>5 DEF BeforeSpawn, LockOp, JoinOp
      <4>2. Head(q).mx # "game"
        BY <4>1 DEF Lock, Unlock, Call
      <4>3. owner'["game"] = owner["game"]
        BY <1>3, <4>2
      <4> QED
        BY <1>1, <3>5, <4>3 DEF MayThink, Undecided
    <3> HIDE DEF q, r
    <3>6. ASSUME NEW i \in 1..Len(r), r[i].op = "spawn"
          PROVE  MayThink' \/ WaitsAfter(r, i)
      BY <3>2, <3>4, <3>5, <3>6
    <3> QED
      BY <3>1, <3>4, <3>6 DEF SpawnSound
  <2> QED
    BY <2>1, <2>2 DEF Thread
<1>14. Mirror'
  <2>1. CASE Has(todo["main"], "reset_history")
    <3>1. Head(q).op # "reset_history" /\ << >> \in Seq(Step)
      BY <1>2 DEF LockOp
    <3>2. Has(todo'["main"], "reset_history")
      BY <1>0, <1>2, <2>1, <3>1, ResetStays
    <3> QED
      BY <3>2 DEF Mirror
  <2>2. CASE ~Has(todo["main"], "reset_history")
    <3>1. /\ \A v \in Thread : PlaysTo(todo[v], engine.pos, CurrentPosition(cli.game))
          /\ NobodyPlays => engine.pos = CurrentPosition(cli.game)
      BY <2>2 DEF PlayInv, Mirror
    <3>2. PlaysTo(Tail(q), engine.pos, CurrentPosition(cli.game))
      BY <1>2, <3>1, TailOf DEF PlaysTo
    <3>3. None(Tail(q), {"process_move"}) => None(q, {"process_move"})
      <4>1. /\ Head(q) = q[1] /\ Len(q) \in Nat
            /\ \A i \in 1..Len(q) : i > 1 => /\ i - 1 \in 1..Len(Tail(q))
                                             /\ Tail(q)[i - 1] = q[i]
        BY <1>2, TailOf
      <4>2. q[1].op # "process_move"
        BY <1>2, <4>1 DEF LockOp
      <4>3. \A i \in 1..Len(q) : i = 1 \/ i > 1
        BY <4>1
      <4> HIDE DEF q
      <4> QED
        BY <4>1, <4>2, <4>3 DEF None
    <3>4. NobodyPlays' => NobodyPlays
      BY <1>0, <1>2, <3>3 DEF NobodyPlays
    <3>5. \A v \in Thread : PlaysTo(todo'[v], engine.pos, CurrentPosition(cli.game))
      BY <1>2, <3>1, <3>2
    <3> QED
      BY <1>1, <3>1, <3>4, <3>5 DEF Mirror
  <2> QED
    BY <2>1, <2>2
<1>15. BestLegal' /\ NoInternalError'
  BY <1>1 DEF PlayInv, BestLegal, NoInternalError
<1> QED
  BY <1>4, <1>9, <1>10, <1>11, <1>12, <1>13, <1>14, <1>15 DEF PlayInv

-----------------------------------------------------------------------------
(* The join, and the steps that may stand before a spawn.                  *)

JoinerBody(o, body) ==
    /\ o \in JoinOp \cup {"set_cb"} /\ body \in Helper
    /\ \A j \in 1..Len(body) : body[j] \in BeforeSpawn

(* next: the steps that the main thread is left with.                      *)
JoinerKeeps(next) ==
    /\ UNCHANGED <<owner, cli, exited>>
    /\ worker'.root = worker.root
    /\ engine'.pos = engine.pos /\ engine'.best = engine.best
    /\ Thinking => CalmSeq(next)
    /\ todo["search"] # << >> /\ JoinComing(todo["main"]) => JoinComing(next)

LEMMA JoinerStep ==
    ASSUME IndInv, PlayInv, NEW o, At("main", o), NEW body, JoinerBody(o, body),
           Continue("main", body), JoinerKeeps(todo'["main"])
    PROVE  PlayInv'
<1> USE DEF game, gameStarted, isForceMode, bestMove, JoinerBody, JoinerKeeps
<1> DEFINE q == todo["main"]
           r == todo'["main"]
<1>0. "main" \in Thread /\ "search" \in Thread /\ "search" # "main"
  BY DEF Thread
<1>1. /\ q \in Seq(Step) /\ q # << >> /\ Head(q).op = o
      /\ r = body \o Tail(q) /\ todo'["search"] = todo["search"]
      /\ Tail(q) \in Seq(Step)
  BY <1>0, StepTaken, TailOf
<1>2. body \in ShapeSeq /\ body \in Seq(Step) /\ None(body, FinalOp)
  BY DEF Helper, Handler, ShapeSeq
<1>3. o # "lock" /\ o # "process_move" /\ o # "reset_history"
  BY DEF JoinOp
<1>4. Disciplined' /\ r \in ShapeSeq
  BY <1>0, <1>2, <1>3, DisciplinedStep DEF PlayInv
<1>5. Thinking' <=> Thinking
  BY <1>1 DEF Thinking
<1>6. SearchSteps'
  BY <1>1, <1>5 DEF PlayInv, SearchSteps
<1>7. Thinking => todo["search"] # << >>
  BY DEF Thinking, None
<1> HIDE DEF q
<1>8. ThinkingSound'
  BY <1>1, <1>5, <1>7 DEF PlayInv, ThinkingSound, Undecided, q
<1>9. ForceSound'
  BY <1>1 DEF PlayInv, ForceSound, q
<1>10. Calm'
  BY <1>5 DEF Calm
<1>11. SpawnSound'
  <2>1. /\ SpawnSeq(q)
        /\ \A k \in 1..Len(q) : q[k].op = "spawn" => MayThink \/ WaitsAfter(q, k)
    BY DEF PlayInv, SpawnSound, q
  <2>2. /\ SpawnSeq(r)
        /\ \A i \in 1..Len(r) : r[i].op = "spawn" =>
              \E k \in 1..Len(q) : /\ q[k].op = "spawn"
                                   /\ WaitsAfter(q, k) => WaitsAfter(r, i)
    BY <1>1, <1>2, <2>1, SpawnFront
  <2>3. MayThink => MayThink'
    BY DEF MayThink, Undecided
  <2> HIDE DEF r
  <2>4. \A i \in 1..Len(r) : r[i].op = "spawn" => MayThink' \/ WaitsAfter(r, i)
    BY <2>1, <2>2, <2>3
  <2> QED
    BY <2>2, <2>4 DEF SpawnSound, r
<1> HIDE DEF r
<1>12. Mirror'
  <2>1. SUFFICES ASSUME ~Has(r, "reset_history") PROVE Mirror'
    BY DEF Mirror, r
  <2>2. ~Has(q, "reset_history")
    BY <1>1, <1>2, <1>3, <2>1, ResetStays
  <2>3. None(q, {"process_move"}) /\ None(r, {"process_move"})
    <3>1. Shape(q, owner["game"] = "main")
      BY <1>0 DEF PlayInv, Disciplined, q
    <3> QED
      BY <1>1, <1>3, <1>4, <3>1, NotProcessing, ShapeWeaker
  <2>4. /\ \A t \in Thread : PlaysTo(todo[t], engine.pos, CurrentPosition(cli.game))
        /\ NobodyPlays => engine.pos = CurrentPosition(cli.game)
    BY <2>2 DEF PlayInv, Mirror, q
  <2>5. PlaysTo(todo'["search"], engine'.pos, CurrentPosition(cli'.game))
    BY <1>0, <1>1, <2>4
  <2>6. PlaysTo(r, engine'.pos, CurrentPosition(cli'.game))
    BY <2>3 DEF None, PlaysTo
  <2>7. NobodyPlays' => NobodyPlays
    BY <1>0, <1>1, <2>3 DEF NobodyPlays, Thread, q
  <2> QED
    BY <1>0, <2>4, <2>5, <2>6, <2>7 DEF Mirror, Thread, r
<1>13. BestLegal' /\ NoInternalError'
  BY DEF PlayInv, BestLegal, NoInternalError
<1> QED
  BY <1>4, <1>6, <1>8, <1>9, <1>10, <1>11, <1>12, <1>13 DEF PlayInv

LEMMA SetCbStep ==
    ASSUME IndInv, PlayInv, NEW t \in Thread, SetCb(t)
    PROVE  PlayInv'
<1> USE DEF bestMove
<1>1. /\ At(t, "set_cb") /\ Continue(t, << >>)
      /\ UNCHANGED <<owner, worker, exited, cli>>
      /\ engine' = [engine EXCEPT !.cb = Arg(t).cb, !.arg = Arg(t).key]
  BY DEF SetCb, EngineStep, locks, outside
<1>2. engine'.pos = engine.pos /\ engine'.best = engine.best
  BY <1>1 DEF IndInv, TypeOK, EngineType
<1>3. << >> \in Helper /\ << >> \in Handler
  BY HelperIsHandler
<1>4. CASE t = "main"
  <2>1. JoinerBody("set_cb", << >>)
    BY <1>3 DEF JoinerBody
  <2>2. /\ todo["main"] \in Seq(Step) /\ todo["main"] # << >>
        /\ Head(todo["main"]).op = "set_cb"
        /\ todo'["main"] = << >> \o Tail(todo["main"])
    BY <1>1, <1>4, StepTaken DEF Thread
  <2>3. todo'["main"] = Tail(todo["main"])
    BY <2>2
  <2>4. ~JoinComing(todo["main"])
    BY <2>2, NoJoinComing DEF JoinOp, LockOp
  <2>5. Thinking => CalmSeq(todo'["main"])
    <3>1. Thinking => CalmSeq(todo["main"])
      BY DEF PlayInv, Calm
    <3> QED
      BY <2>2, <2>3, <3>1, CalmTail DEF JoinOp
  <2>6. JoinerKeeps(todo'["main"])
    BY <1>1, <1>2, <2>4, <2>5 DEF JoinerKeeps
  <2> QED
    BY <1>1, <1>4, <2>1, <2>6, JoinerStep
<1>5. CASE t = "search"
  <2>1. /\ << >> \in ShapeSeq /\ None(<< >>, FinalOp)
        /\ None(<< >>, ThinkOp) /\ FoundIn(<< >>, worker.root)
    BY <1>3 DEF Helper, Handler, None, FoundIn
  <2>2. SearcherBody("set_cb", << >>)
    BY <2>1 DEF SearcherBody, LockOp, ThinksOn, ThinkOp
  <2>3. SearcherKeeps
    BY <1>1, <1>2 DEF SearcherKeeps, PlayInv, BestLegal, NoInternalError
  <2> QED
    BY <1>1, <1>5, <2>2, <2>3, SearcherStep
<1> QED
  BY <1>4, <1>5 DEF Thread

(* The signal leaves the unlock of the engine and, unless it came before,  *)
(* the join.                                                               *)
LEMMA SignalBodies ==
    /\ JoinerBody("stop_signal", <<Unlock("engine")>>)
    /\ JoinerBody("stop_signal", <<Unlock("engine"), Call("thrd_join")>>)
    /\ JoinerBody("wait_signal", <<Unlock("engine")>>)
    /\ JoinerBody("wait_signal", <<Unlock("engine"), Call("thrd_join")>>)
    /\ JoinerBody("thrd_join", << >>)
    /\ CalmSeq(<<Unlock("engine"), Call("thrd_join")>>)
    /\ \A b \in Seq(Step) :
          /\ JoinComing(<<Unlock("engine"), Call("thrd_join")>> \o b)
          /\ CalmSeq(<<Unlock("engine"), Call("thrd_join")>> \o b)
<1> DEFINE u == Unlock("engine")
           j == Call("thrd_join")
           a == <<u, j>>
<1>1. u \in Step /\ u.op = "unlock" /\ j \in Step /\ j.op = "thrd_join"
  BY CallSafe, Mutexes DEF Op, JoinOp
<1>2. u \in BeforeSpawn /\ j \in BeforeSpawn
  BY <1>1 DEF BeforeSpawn, JoinOp
<1>3. <<u>> \in Helper /\ <<j>> \in Helper
  BY LockIsHelper, CallHandler, Mutexes DEF PassingOp
<1> HIDE DEF u, j
<1>4. a = <<u>> \o <<j>> /\ a \in Seq(Step) /\ Len(a) = 2 /\ a[1] = u /\ a[2] = j
  BY <1>1, TwoSteps
<1>5. a \in Helper
  BY <1>3, <1>4, HandlerConcat, HelperIsHandler
<1>6. /\ \A i \in 1..Len(a) : a[i] \in BeforeSpawn
      /\ \A i \in 1..Len(<<u>>) : <<u>>[i] \in BeforeSpawn
  BY <1>2
<1>7. /\ \A o \in {"stop_signal", "wait_signal"} :
             JoinerBody(o, <<u>>) /\ JoinerBody(o, a)
      /\ JoinerBody("thrd_join", << >>)
  BY <1>3, <1>5, <1>6, HelperIsHandler DEF JoinerBody, JoinOp
<1>8. CalmSeq(a)
  <2>1. None(a, CalmOp)
    BY <1>1, <1>4 DEF None, CalmOp
  <2> QED
    BY <2>1, NoCalmOp
<1>9. ASSUME NEW b \in Seq(Step)
      PROVE  JoinComing(a \o b) /\ CalmSeq(a \o b)
  <2> DEFINE r == a \o b
  <2> HIDE DEF a
  <2>1. /\ \A i \in 1..Len(a) : i \in 1..Len(r) /\ r[i] = a[i]
        /\ Len(r) = Len(a) + Len(b) /\ Len(b) \in Nat
    BY <1>4, ConcatOf
  <2>2. r[1] = u /\ r[2] = j /\ 2 \in 1..Len(r)
    BY <1>4, <2>1
  <2> HIDE DEF r
  <2>3. JoinFirst(r, 2)
    <3>1. ASSUME NEW i \in 1..Len(r), i < 2 PROVE r[i].op \in LockOp
      <4>1. i = 1
        BY <3>1
      <4> QED
        BY <1>1, <2>2, <4>1 DEF LockOp
    <3> QED
      BY <1>1, <2>2, <3>1 DEF JoinFirst, JoinOp
  <2>4. \E i \in 1..Len(a) : a[i].op \in JoinOp
    BY <1>1, <1>4 DEF JoinOp
  <2> QED
    BY <1>4, <1>8, <2>2, <2>3, <2>4, CalmConcat DEF JoinComing, r
<1> QED
  BY <1>7, <1>8, <1>9 DEF u, j

LEMMA JoinActions ==
    ASSUME IndInv, SearchInv, PlayInv,
           \/ JoinSignal("stop_signal", TRUE) \/ JoinSignal("wait_signal", FALSE)
           \/ ThrdJoin
    PROVE  PlayInv'
<1> DEFINE q == todo["main"]
<1>1. ASSUME NEW o \in {"stop_signal", "wait_signal"}, NEW stop \in BOOLEAN,
             JoinSignal(o, stop)
      PROVE  PlayInv'
  <2>1. At("main", o)
    BY <1>1 DEF JoinSignal
  <2>2. q \in Seq(Step) /\ q # << >> /\ Head(q).op = o /\ Tail(q) \in Seq(Step)
    BY <2>1, TodoType DEF At, Thread
  <2>3. CASE worker.started
    <3> DEFINE body == <<Unlock("engine"), Call("thrd_join")>>
    <3>1. /\ Continue("main", body) /\ UNCHANGED <<owner, cli, exited, engine>>
          /\ worker' = [worker EXCEPT !.started = FALSE, !.run = @ /\ ~stop]
      BY <1>1, <2>3 DEF JoinSignal, WorkerStep, locks, outside
    <3>2. worker'.root = worker.root
      BY <3>1 DEF IndInv, TypeOK, WorkerType
    <3>3. todo'["main"] = body \o Tail(q)
      BY <2>1, <3>1, StepTaken, SignalBodies DEF Thread, JoinerBody
    <3>4. JoinerKeeps(todo'["main"])
      BY <2>2, <3>1, <3>2, <3>3, SignalBodies DEF JoinerKeeps
    <3>5. JoinerBody(o, body)
      BY SignalBodies
    <3> HIDE DEF body
    <3> QED
      BY <2>1, <3>1, <3>4, <3>5, JoinerStep
  <2>4. CASE ~worker.started
    <3> DEFINE body == <<Unlock("engine")>>
    <3>1. /\ Continue("main", body)
          /\ UNCHANGED <<owner, cli, exited, engine, worker>>
      BY <1>1, <2>4 DEF JoinSignal, Only, locks, outside
    <3>2. todo["search"] = << >>
      <4>1. ~JoinPending(q)
        BY <2>2 DEF JoinPending
      <4> QED
        BY <2>4, <4>1 DEF SearchInv, SearchOver
    <3>3. ~Thinking
      BY <3>2 DEF Thinking, None
    <3>4. JoinerKeeps(todo'["main"])
      BY <3>1, <3>2, <3>3 DEF JoinerKeeps
    <3>5. JoinerBody(o, body)
      BY SignalBodies
    <3> HIDE DEF body
    <3> QED
      BY <2>1, <3>1, <3>4, <3>5, JoinerStep
  <2> QED
    BY <2>3, <2>4
<1>2. CASE ThrdJoin
  <2>1. /\ At("main", "thrd_join") /\ Continue("main", << >>)
        /\ UNCHANGED <<owner, cli, exited, engine>> /\ todo["search"] = << >>
        /\ worker' = [worker EXCEPT !.joinable = FALSE, !.run = FALSE]
    BY <1>2 DEF ThrdJoin, WorkerStep, locks, outside
  <2>2. worker'.root = worker.root
    BY <2>1 DEF IndInv, TypeOK, WorkerType
  <2>3. ~Thinking
    BY <2>1 DEF Thinking, None
  <2>4. JoinerKeeps(todo'["main"])
    BY <2>1, <2>2, <2>3 DEF JoinerKeeps
  <2> QED
    BY <2>1, <2>4, JoinerStep, SignalBodies
<1> QED
  BY <1>1, <1>2

-----------------------------------------------------------------------------
(* The search starts, and the engine is set to the game.                   *)

(* The main thread is at a step that must find the search joined.          *)
LEMMA JoinedThen ==
    ASSUME IndInv, SearchInv, NEW o \in AfterJoin, At("main", o)
    PROVE  todo["search"] = << >> /\ ~Thinking
<1>1. /\ todo["main"] \in Seq(Step) /\ todo["main"] # << >>
      /\ Head(todo["main"]).op = o
  BY TodoType DEF At, Thread
<1>2. 1 \in 1..Len(todo["main"]) /\ todo["main"][1].op = o
  BY <1>1, TailOf
<1>3. SearchOver
  BY <1>2 DEF SearchInv, SpawnsReady, JoinOp
<1> QED
  BY <1>3 DEF SearchOver, Thinking, None

LEMMA SpawnStepPlay ==
    ASSUME IndInv, SearchInv, PlayInv, Spawn
    PROVE  PlayInv'
<1> USE DEF game, gameStarted, isForceMode, bestMove
<1> DEFINE q == todo["main"]
           r == Tail(q)
           s == IterativeDeepening
<1>0. "main" \in Thread /\ "search" \in Thread /\ "search" # "main"
        /\ \A t \in Thread : t = "main" \/ t = "search"
  BY DEF Thread
<1>1. /\ At("main", "spawn") /\ UNCHANGED <<owner, cli, engine, exited>>
      /\ worker' = [worker EXCEPT !.started = TRUE, !.run = TRUE, !.joinable = TRUE,
                                  !.root = engine.pos, !.show = engine.show]
      /\ todo' = [todo EXCEPT !["main"] = Tail(@), !["search"] = IterativeDeepening]
  BY DEF Spawn, locks, outside
<1>2. /\ q \in Seq(Step) /\ q # << >> /\ Head(q).op = "spawn"
      /\ r \in Seq(Step) /\ todo'["main"] = r /\ todo'["search"] = s
      /\ worker'.root = engine.pos
  BY <1>1, TodoType DEF At, Thread, IndInv, TypeOK, WorkerType
<1>3. todo["search"] = << >>
  BY <1>1, JoinedThen DEF AfterJoin
<1>4. /\ Len(q) \in Nat /\ q[1] = Head(q) /\ 1 \in 1..Len(q)
      /\ \A i \in 1..Len(r) : i + 1 \in 1..Len(q) /\ r[i] = q[i + 1]
      /\ \A i \in 1..Len(q) : i > 1 => i - 1 \in 1..Len(r) /\ r[i - 1] = q[i]
  BY <1>2, TailOf
<1>5. SpawnSeq(q) /\ (MayThink \/ WaitsAfter(q, 1))
  BY <1>2, <1>4 DEF PlayInv, SpawnSound
<1>6. s \in Handler /\ s \in ThinkSeq(engine.pos)
  <2>1. <<Call("setup_search")>> \in Handler
    BY CallHandler DEF FinalOp, Disorderly
  <2>2. <<Lock("engine")>> \in Helper /\ <<Lock("engine")>> \in Handler
    BY LockIsHelper, HelperIsHandler, Mutexes
  <2>3. engine.pos \in Position
    BY StateTypes
  <2>4. << >> \in ThinkSeq(engine.pos) /\ <<Call("setup_search")>> \in ThinkSeq(engine.pos)
    BY <2>3, ThinkBodies DEF ThinkOp
  <2>5. <<Lock("engine")>> \in ThinkSeq(engine.pos)
    BY <2>4, ThinkSeqLocked, Mutexes
  <2>6. s = <<Lock("engine")>> \o <<Call("setup_search")>>
    BY DEF IterativeDeepening
  <2> HIDE DEF s
  <2> QED
    BY <2>1, <2>2, <2>4, <2>5, <2>6, HandlerConcat, ThinkSeqConcat
<1> HIDE DEF q, r, s
<1>7. \A i \in 1..Len(q) : i > 1 => q[i].op \in LockOp \cup JoinOp
  BY <1>2, <1>4, <1>5 DEF SpawnSeq
<1>8. AllOf(r, LockOp \cup JoinOp)
  <2>1. ASSUME NEW i \in 1..Len(r) PROVE r[i].op \in LockOp \cup JoinOp
    <3>1. i + 1 \in 1..Len(q) /\ i + 1 > 1 /\ r[i] = q[i + 1]
      BY <1>4
    <3> QED
      BY <1>7, <3>1
  <2> QED
    BY <2>1 DEF AllOf
<1>9. None(r, CalmOp) /\ None(r, {"spawn"}) /\ None(r, {"process_move"})
  BY <1>8 DEF AllOf, None, CalmOp, LockOp, JoinOp
<1>10. Disciplined'
  <2>1. Shape(q, owner["game"] = "main")
    BY <1>0 DEF PlayInv, Disciplined, q
  <2>2. r \in ShapeSeq
    BY <1>2, <2>1, TailShape DEF r
  <2>3. s \in ShapeSeq
    BY <1>6 DEF Handler
  <2>4. Shape(r, owner["game"] = "main") /\ Shape(s, owner["game"] = "search")
    BY <2>2, <2>3, ShapeWeaker
  <2> QED
    BY <1>0, <1>1, <1>2, <2>4 DEF Disciplined
<1>11. engine.pos = CurrentPosition(cli.game)
  <2>1. ~Has(q, "reset_history")
    <3>1. ASSUME NEW i \in 1..Len(q) PROVE q[i].op # "reset_history"
      <4>1. i = 1 \/ i > 1
        BY <1>4
      <4> QED
        BY <1>2, <1>4, <1>7, <4>1 DEF LockOp, JoinOp
    <3> QED
      BY <3>1 DEF Has
  <2>2. None(q, {"process_move"})
    <3>1. Shape(q, owner["game"] = "main")
      BY <1>0 DEF PlayInv, Disciplined, q
    <3> QED
      BY <1>2, <3>1, NotProcessing
  <2>3. None(todo["search"], {"process_move"})
    BY <1>3 DEF None
  <2>4. NobodyPlays
    BY <1>0, <2>2, <2>3 DEF NobodyPlays, q
  <2> QED
    BY <2>1, <2>4 DEF PlayInv, Mirror, q
<1>12. (cli.started /\ ~cli.force /\ Undecided(cli.game)) \/ JoinComing(r)
  <2>1. CASE MayThink
    BY <2>1 DEF MayThink
  <2>2. CASE WaitsAfter(q, 1)
    <3>1. PICK k \in 1..Len(q) :
              /\ 1 < k /\ q[k].op \in JoinOp
              /\ \A j \in 1..Len(q) : 1 < j /\ j < k => q[j].op \in LockOp
      BY <2>2 DEF WaitsAfter
    <3>2. k - 1 \in 1..Len(r) /\ r[k - 1].op \in JoinOp
      BY <1>4, <3>1
    <3>3. ASSUME NEW j \in 1..Len(r), j < k - 1 PROVE r[j].op \in LockOp
      <4>1. j + 1 \in 1..Len(q) /\ 1 < j + 1 /\ j + 1 < k
        BY <1>4, <3>3
      <4> QED
        BY <1>4, <3>1, <4>1
    <3> QED
      BY <3>2, <3>3 DEF JoinComing, JoinFirst
  <2> QED
    BY <1>5, <2>1, <2>2
<1>13. SearchSteps'
  BY <1>2, <1>6 DEF SearchSteps, ThinkSeq
<1>14. ThinkingSound'
  BY <1>1, <1>2, <1>11, <1>12 DEF ThinkingSound, Undecided
<1>15. ForceSound'
  BY <1>1, <1>2, <1>12 DEF ForceSound
<1>16. Calm'
  BY <1>2, <1>9, NoCalmOp DEF Calm
<1>17. SpawnSound'
  BY <1>2, <1>9, NoSpawnSound DEF SpawnSound
<1>18. Mirror'
  <2>1. None(s, {"process_move"})
    <3>1. s \in ShapeSeq
      BY <1>6 DEF Handler
    <3> QED
      BY <3>1, ShapeWeaker
  <2>2. \A t \in Thread : PlaysTo(todo'[t], engine'.pos, CurrentPosition(cli'.game))
    BY <1>0, <1>2, <1>9, <2>1 DEF None, PlaysTo
  <2> QED
    BY <1>1, <1>11, <2>2 DEF Mirror
<1>19. BestLegal' /\ NoInternalError'
  BY <1>1 DEF PlayInv, BestLegal, NoInternalError
<1> QED
  BY <1>10, <1>13, <1>14, <1>15, <1>16, <1>17, <1>18, <1>19 DEF PlayInv

LEMMA ResetStep ==
    ASSUME IndInv, SearchInv, PlayInv, ResetHistory
    PROVE  PlayInv'
<1> USE DEF game, gameStarted, isForceMode, bestMove
<1> DEFINE q == todo["main"]
           r == todo'["main"]
           p == CurrentPosition(game)
<1>0. "main" \in Thread /\ "search" \in Thread /\ "search" # "main"
        /\ \A t \in Thread : t = "main" \/ t = "search"
  BY DEF Thread
<1>1. /\ At("main", "reset_history") /\ UNCHANGED <<owner, cli, worker, exited>>
      /\ engine' = EngineAt(p) /\ Continue("main", << >>)
  BY DEF ResetHistory, EngineStep, locks, outside
<1>2. /\ q \in Seq(Step) /\ q # << >> /\ Head(q).op = "reset_history"
      /\ todo'["search"] = todo["search"] /\ r = << >> \o Tail(q)
  BY <1>0, <1>1, StepTaken
<1>3. todo["search"] = << >> /\ ~Thinking
  BY <1>1, JoinedThen DEF AfterJoin
<1>4. ~Thinking'
  BY <1>2, <1>3 DEF Thinking
<1>5. << >> \in ShapeSeq /\ None(<< >>, FinalOp)
  BY HelperIsHandler DEF Helper, Handler
<1>6. Disciplined' /\ r \in ShapeSeq
  BY <1>0, <1>1, <1>5, DisciplinedStep DEF PlayInv
<1>7. p \in Position
  BY StateTypes
<1>8. engine'.pos = p /\ engine'.best = FirstMove[p]
  BY <1>1 DEF EngineAt, IndInv, TypeOK, EngineType
<1>9. None(r, {"spawn"})
  <2>1. SpawnSeq(q)
    BY DEF PlayInv, SpawnSound
  <2>2. None(q, {"spawn"})
    BY <1>2, <2>1, NoSpawn DEF JoinOp, LockOp
  <2>3. r = Tail(q)
    BY <1>2
  <2> QED
    BY <1>2, <2>2, <2>3, NoneTail
<1> HIDE DEF q
<1>10. SearchSteps'
  BY <1>2, <1>3, <1>4 DEF SearchSteps, FoundIn
<1>11. ThinkingSound' /\ ForceSound' /\ Calm'
  BY <1>2, <1>3, <1>4 DEF ThinkingSound, ForceSound, Calm
<1>12. SpawnSound'
  BY <1>9, NoSpawnSound DEF SpawnSound
<1>13. Mirror'
  <2>1. PlaysTo(todo'["search"], engine'.pos, CurrentPosition(cli'.game))
    BY <1>2, <1>3 DEF PlaysTo
  <2>2. PlaysTo(r, engine'.pos, CurrentPosition(cli'.game))
    BY <1>6, ShapeWeaker DEF None, PlaysTo
  <2> QED
    BY <1>0, <1>1, <1>8, <2>1, <2>2 DEF Mirror
<1>14. BestLegal' /\ NoInternalError'
  BY <1>1, <1>7, <1>8, FirstMoveBest DEF PlayInv, BestLegal, NoInternalError
<1> QED
  BY <1>6, <1>10, <1>11, <1>12, <1>13, <1>14 DEF PlayInv

-----------------------------------------------------------------------------
(* A move is played, in the game and then in the engine.                   *)

(* Nobody thinks, and nobody else changes the game, when a thread plays.   *)
LEMMA PlayingAlone ==
    ASSUME IndInv, PlayInv, NEW t \in Thread,
           NEW o \in {"append", "process_move"}, At(t, o)
    PROVE  /\ owner["game"] = t /\ ~Thinking
           /\ t = "search" => ~MayThink
           /\ t = "main" => ~JoinComing(todo["main"]) /\ None(todo["main"], {"spawn"})
           /\ \A u \in Thread \ {t} : None(todo[u], {"process_move"})
<1> DEFINE q == todo[t]
<1>1. q \in Seq(Step) /\ q # << >> /\ Head(q).op = o
  BY TodoType DEF At
<1>2. Head(q) = q[1] /\ 1 \in 1..Len(q) /\ Len(q) \in Nat
  BY <1>1, TailOf
<1>3. Shape(q, owner["game"] = t)
  BY DEF PlayInv, Disciplined
<1> HIDE DEF q
<1>4. owner["game"] = t
  BY <1>1, <1>2, <1>3 DEF Shape, Guarded, Processes, GameLockedOp
<1>5. t = "search" => ~MayThink
  BY <1>4 DEF MayThink
<1>6. ~Thinking
  <2>1. CASE t = "main"
    <3>1. Thinking => CalmSeq(q)
      BY <2>1 DEF PlayInv, Calm, q
    <3> QED
      BY <1>1, <3>1, CalmTail DEF JoinOp, CalmOp
  <2>2. CASE t = "search"
    <3>1. o \notin LockOp /\ o \notin ThinkOp
      BY DEF LockOp, ThinkOp
    <3> QED
      BY <2>2, <3>1, ThinkingHead
  <2> QED
    BY <2>1, <2>2 DEF Thread
<1>7. ASSUME t = "main"
      PROVE  ~JoinComing(todo["main"]) /\ None(todo["main"], {"spawn"})
  <2>1. SpawnSeq(q)
    BY <1>7 DEF PlayInv, SpawnSound, q
  <2>2. Head(q).op \notin JoinOp \cup LockOp \cup {"set_cb", "spawn"}
    BY <1>1 DEF JoinOp, LockOp
  <2>3. ~JoinComing(q) /\ None(q, {"spawn"})
    BY <1>1, <2>1, <2>2, NoJoinComing, NoSpawn
  <2> QED
    BY <1>7, <2>3 DEF q
<1>8. ASSUME NEW u \in Thread \ {t} PROVE None(todo[u], {"process_move"})
  <2>1. Shape(todo[u], owner["game"] = u) /\ owner["game"] # u
    BY <1>4 DEF PlayInv, Disciplined
  <2> QED
    BY <2>1 DEF Shape, Processes, None
<1> QED
  BY <1>4, <1>5, <1>6, <1>7, <1>8

LEMMA ProcessStep ==
    ASSUME IndInv, PlayInv, NEW t \in Thread, ProcessMove(t)
    PROVE  PlayInv'
<1> USE DEF game, gameStarted, isForceMode, bestMove
<1> DEFINE q == todo[t]
           r == todo'[t]
           p == Play[engine.pos][Arg(t).mv]
<1>0. "main" \in Thread /\ "search" \in Thread /\ "search" # "main"
        /\ \A v \in Thread : v = "main" \/ v = "search"
  BY DEF Thread
<1>1. /\ At(t, "process_move") /\ UNCHANGED <<owner, cli, worker, exited>>
      /\ engine' = EngineAt(p) /\ Continue(t, << >>)
  BY DEF ProcessMove, EngineStep, locks, outside
<1>2. /\ q \in Seq(Step) /\ q # << >> /\ Head(q).op = "process_move"
      /\ r = Tail(q) /\ Tail(q) \in Seq(Step)
      /\ \A u \in Thread \ {t} : todo'[u] = todo[u]
  <2>1. /\ q \in Seq(Step) /\ q # << >> /\ Head(q).op = "process_move"
        /\ r = << >> \o Tail(q) /\ \A u \in Thread \ {t} : todo'[u] = todo[u]
    BY <1>1, StepTaken
  <2>2. << >> \o Tail(q) = Tail(q) /\ Tail(q) \in Seq(Step)
    BY <2>1
  <2> QED
    BY <2>1, <2>2
<1>3. /\ owner["game"] = t /\ ~Thinking
      /\ t = "search" => ~MayThink
      /\ t = "main" => ~JoinComing(todo["main"]) /\ None(todo["main"], {"spawn"})
      /\ \A u \in Thread \ {t} : None(todo[u], {"process_move"})
  BY <1>1, PlayingAlone
<1>4. << >> \in ShapeSeq /\ None(<< >>, FinalOp)
  BY HelperIsHandler DEF Helper, Handler
<1>5. Disciplined' /\ r \in ShapeSeq
  BY <1>1, <1>4, DisciplinedStep DEF PlayInv
<1>6. p \in Position
  <2>1. Arg(t).mv \in Move
    BY <1>1, ArgType
  <2> QED
    BY <2>1, StateTypes, PlayAssumption
<1>7. engine'.pos = p /\ engine'.best = FirstMove[p]
  BY <1>1 DEF EngineAt, IndInv, TypeOK, EngineType
<1> HIDE DEF p
<1>8. ASSUME NEW ops, None(q, ops) PROVE None(r, ops)
  BY <1>2, <1>8, NoneTail
<1>9. ~Thinking'
  BY <1>0, <1>2, <1>3, <1>8 DEF Thinking
<1>10. todo'["search"] # << >> => todo["search"] # << >>
  BY <1>0, <1>2
<1>11. SearchSteps'
  <2>1. FoundIn(todo'["search"], worker.root)
    <3>1. None(todo'["search"], ThinkOp)
      BY <1>9 DEF Thinking
    <3> QED
      BY <3>1, NoThinkFound
  <2> QED
    BY <1>1, <1>9, <2>1 DEF SearchSteps
<1>12. ThinkingSound' /\ Calm'
  BY <1>9 DEF ThinkingSound, Calm
<1>13. ForceSound'
  BY <1>0, <1>1, <1>2, <1>3, <1>10 DEF PlayInv, ForceSound
<1>14. SpawnSound'
  <2>1. CASE t = "main"
    BY <1>3, <1>8, <2>1, NoSpawnSound DEF SpawnSound
  <2>2. CASE t = "search"
    BY <1>0, <1>2, <1>3, <2>2 DEF PlayInv, SpawnSound
  <2> QED
    BY <1>0, <2>1, <2>2
<1>15. Mirror'
  <2>1. CASE Has(todo["main"], "reset_history")
    <3>1. CASE t = "main"
      <4>1. r = << >> \o Tail(q) /\ << >> \in Seq(Step)
        BY <1>2
      <4>2. Has(q, "reset_history") => Has(r, "reset_history")
        BY <1>2, <4>1, ResetStays
      <4> QED
        BY <2>1, <3>1, <4>2 DEF Mirror
    <3>2. CASE t = "search"
      BY <1>0, <1>2, <2>1, <3>2 DEF Mirror
    <3> QED
      BY <1>0, <3>1, <3>2
  <2>2. CASE ~Has(todo["main"], "reset_history")
    <3>1. PlaysTo(q, engine.pos, CurrentPosition(cli.game))
      BY <2>2 DEF PlayInv, Mirror
    <3>2. q[1] = Head(q) /\ 1 \in 1..Len(q)
      BY <1>2, TailOf
    <3>3. p = CurrentPosition(cli.game)
      BY <1>2, <3>1, <3>2 DEF PlaysTo, p, Arg
    <3>4. ASSUME NEW v \in Thread PROVE None(todo'[v], {"process_move"})
      BY <1>2, <1>3, <1>5, ShapeWeaker
    <3>5. \A v \in Thread : PlaysTo(todo'[v], engine'.pos, CurrentPosition(cli'.game))
      BY <3>4 DEF None, PlaysTo
    <3> QED
      BY <1>1, <1>7, <3>3, <3>5 DEF Mirror
  <2> QED
    BY <2>1, <2>2
<1>16. BestLegal' /\ NoInternalError'
  BY <1>1, <1>6, <1>7, FirstMoveBest DEF PlayInv, BestLegal, NoInternalError
<1> QED
  BY <1>5, <1>11, <1>12, <1>13, <1>14, <1>15, <1>16 DEF PlayInv

(* A move being handed to the engine in front of other steps.              *)
LEMMA PlayShape ==
    ASSUME NEW s \in ShapeSeq, NEW x \in Step, x.op = "process_move"
    PROVE  /\ <<Lock("engine"), x>> \o s \in Seq(Step)
           /\ Shape(<<Lock("engine"), x>> \o s, TRUE)
           /\ \A i \in 1..Len(<<Lock("engine"), x>> \o s) :
                 (<<Lock("engine"), x>> \o s)[i].op = "process_move" =>
                     (<<Lock("engine"), x>> \o s)[i] = x
           /\ Has(<<Lock("engine"), x>> \o s, "process_move")
<1> DEFINE a == <<Lock("engine"), x>>
           r == a \o s
<1>1. Lock("engine") \in Step /\ Lock("engine").op = "lock" /\ x \in Step
  BY CallSafe, Mutexes
<1>2. /\ a \in Seq(Step) /\ Len(a) = 2 /\ a[1] = Lock("engine") /\ a[2] = x
      /\ s \in Seq(Step) /\ Shape(s, FALSE)
  <2>1. s \in Seq(Step) /\ Shape(s, FALSE)
    BY DEF ShapeSeq
  <2> QED
    BY <1>1, <2>1, TwoSteps
<1> HIDE DEF a
<1>3. /\ r \in Seq(Step) /\ Len(r) = 2 + Len(s) /\ Len(s) \in Nat
      /\ 1 \in 1..Len(r) /\ 2 \in 1..Len(r) /\ r[1] = a[1] /\ r[2] = a[2]
      /\ \A i \in 1..Len(s) : 2 + i \in 1..Len(r) /\ r[2 + i] = s[i]
      /\ \A i \in 1..Len(r) : i = 1 \/ i = 2 \/ i - 2 \in 1..Len(s)
  <2>1. /\ r \in Seq(Step) /\ Len(r) = Len(a) + Len(s) /\ Len(s) \in Nat
        /\ \A i \in 1..Len(a) : i \in 1..Len(r) /\ r[i] = a[i]
        /\ \A i \in 1..Len(s) : Len(a) + i \in 1..Len(r) /\ r[Len(a) + i] = s[i]
        /\ \A i \in 1..Len(r) : i \in 1..Len(a) \/ i - Len(a) \in 1..Len(s)
    BY <1>2, ConcatOf
  <2>2. 1 \in 1..Len(a) /\ 2 \in 1..Len(a)
    BY <1>2
  <2> HIDE DEF r
  <2>3. \A i \in 1..Len(r) : i = 1 \/ i = 2 \/ i - 2 \in 1..Len(s)
    BY <1>2, <2>1
  <2> QED
    BY <1>2, <2>1, <2>2, <2>3
<1> HIDE DEF r
<1>4. r[1].op = "lock" /\ r[2].op = "process_move" /\ r[2] = x /\ r[1] = Lock("engine")
  BY <1>1, <1>2, <1>3
<1>5. \A i \in 1..Len(r) : i # 1 /\ i # 2 =>
          /\ i - 2 \in 1..Len(s) /\ r[i] = s[i - 2] /\ i > 2
  <2>1. ASSUME NEW i \in 1..Len(r), i # 1, i # 2
        PROVE  i - 2 \in 1..Len(s) /\ r[i] = s[i - 2] /\ i > 2
    <3>1. i - 2 \in 1..Len(s) /\ 2 + (i - 2) = i /\ i > 2
      BY <1>3, <2>1
    <3> QED
      BY <1>3, <3>1
  <2> QED
    BY <2>1
<1>6. /\ {"lock", "process_move"} \cap (FinalOp \cup ReplacingOp \cup Disorderly) = {}
      /\ {"lock", "process_move"} \cap GameLockedOp = {}
  BY DEF FinalOp, ReplacingOp, GameLockedOp, Disorderly, PlainCommand, OtherCommand
<1>7. FinalLast(r)
  <2>1. ASSUME NEW i \in 1..Len(r), NEW j \in 1..Len(r), r[i].op \in FinalOp, i < j
        PROVE  r[j].op = "unlock"
    <3>1. i # 1 /\ i # 2
      BY <1>4, <1>6, <2>1
    <3>2. j # 1 /\ j # 2
      BY <1>5, <2>1, <3>1
    <3>3. i - 2 < j - 2
      BY <1>5, <2>1, <3>1, <3>2
    <3>4. s[j - 2].op = "unlock"
      BY <1>2, <1>5, <2>1, <3>1, <3>2, <3>3 DEF Shape, FinalLast
    <3> QED
      BY <1>5, <3>2, <3>4
  <2> QED
    BY <2>1 DEF FinalLast
<1>8. ResetFollows(r)
  <2>1. ASSUME NEW i \in 1..Len(r), r[i].op \in ReplacingOp
        PROVE  \E j \in 1..Len(r) : i < j /\ r[j].op = "reset_history"
    <3>1. i # 1 /\ i # 2
      BY <1>4, <1>6, <2>1
    <3>2. PICK j \in 1..Len(s) : i - 2 < j /\ s[j].op = "reset_history"
      BY <1>2, <1>5, <2>1, <3>1 DEF Shape, ResetFollows
    <3>3. i < 2 + j
      BY <1>5, <3>1, <3>2
    <3> QED
      BY <1>3, <3>2, <3>3
  <2> QED
    BY <2>1 DEF ResetFollows
<1>9. Guarded(r, TRUE)
  <2>1. ASSUME NEW i \in 1..Len(r), r[i].op \in GameLockedOp
        PROVE  i > 1 /\ r[i - 1] = Lock("game")
    <3>1. i # 1 /\ i # 2
      BY <1>4, <1>6, <2>1
    <3>2. i - 2 > 1 /\ s[i - 2 - 1] = Lock("game")
      BY <1>2, <1>5, <2>1, <3>1 DEF Shape, Guarded
    <3>3. i - 1 \in 1..Len(r) /\ i - 1 # 1 /\ i - 1 # 2 /\ i > 1
              /\ i - 1 - 2 = i - 2 - 1
      BY <3>2
    <3> QED
      BY <1>5, <3>2, <3>3
  <2> QED
    BY <2>1 DEF Guarded
<1>10. \A i \in 1..Len(r) : r[i].op = "process_move" => i = 2
  <2>1. ASSUME NEW i \in 1..Len(r), r[i].op = "process_move", i # 2 PROVE FALSE
    <3>1. i # 1
      BY <1>4, <2>1
    <3> QED
      BY <1>2, <1>5, <2>1, <3>1 DEF Shape, Processes
  <2> QED
    BY <2>1
<1>11. Processes(r, TRUE)
  BY <1>4, <1>10 DEF Processes
<1>12. None(r, Disorderly)
  <2>1. ASSUME NEW i \in 1..Len(r) PROVE r[i].op \notin Disorderly
    <3>1. CASE i = 1 \/ i = 2
      BY <1>4, <1>6, <3>1
    <3>2. CASE i # 1 /\ i # 2
      BY <1>2, <1>5, <3>2 DEF Shape, None
    <3> QED
      BY <3>1, <3>2
  <2> QED
    BY <2>1 DEF None
<1>13. Has(r, "process_move")
  BY <1>3, <1>4 DEF Has
<1> QED
  BY <1>3, <1>4, <1>7, <1>8, <1>9, <1>10, <1>11, <1>12, <1>13 DEF r, a, Shape

(* The position a move leads to is the current one once it is appended.    *)
LEMMA AppendCurrent ==
    ASSUME NEW g \in Game, NEW m \in Move
    PROVE  CurrentPosition(GameAppend(g, m)) = Play[CurrentPosition(g)][m]
<1> DEFINE p == Play[CurrentPosition(g)][m]
           s == SubSeq(g.pos, 1, g.cur)
<1>1. g.pos \in Seq(Position) /\ g.cur \in 1..Len(g.pos) /\ g.cur \in Nat
  BY DEF Game
<1>2. p \in Position
  BY CurrentPositionType, PlayAssumption
<1>3. s \in Seq(Position) /\ Len(s) = g.cur
  BY <1>1
<1> HIDE DEF p, s
<1>4. Append(s, p)[g.cur + 1] = p
  BY <1>1, <1>2, <1>3
<1>5. GameAppend(g, m).pos = Append(s, p) /\ GameAppend(g, m).cur = g.cur + 1
  BY DEF GameAppend, p, s
<1> QED
  BY <1>4, <1>5 DEF CurrentPosition, p

LEMMA AppendStep ==
    ASSUME IndInv, PlayInv, NEW t \in Thread, AppendMove(t),
           CanAppend(game, Arg(t).mv)
    PROVE  PlayInv'
<1> USE DEF game, gameStarted, isForceMode, bestMove
<1> DEFINE q == todo[t]
           r == todo'[t]
           m == Arg(t).mv
           x == CallMove("process_move", m)
           s == <<Unlock("engine"), Call("check_end")>> \o Tail(q)
           p == CurrentPosition(game)
<1>0. "main" \in Thread /\ "search" \in Thread /\ "search" # "main"
        /\ \A v \in Thread : v = "main" \/ v = "search"
  BY DEF Thread
<1>1. /\ At(t, "append") /\ UNCHANGED <<owner, engine, worker, exited>>
      /\ cli' = [cli EXCEPT !.game = GameAppend(game, m)]
      /\ Continue(t, EngineProcessMove(m) \o <<Call("check_end")>>)
  BY DEF AppendMove, CliStep, locks, outside
<1>2. /\ q \in Seq(Step) /\ q # << >> /\ Head(q).op = "append"
      /\ r = (EngineProcessMove(m) \o <<Call("check_end")>>) \o Tail(q)
      /\ Tail(q) \in Seq(Step)
      /\ \A u \in Thread \ {t} : todo'[u] = todo[u]
  BY <1>1, StepTaken, TailOf
<1>3. /\ owner["game"] = t /\ ~Thinking
      /\ t = "search" => ~MayThink
      /\ t = "main" => ~JoinComing(todo["main"]) /\ None(todo["main"], {"spawn"})
      /\ \A u \in Thread \ {t} : None(todo[u], {"process_move"})
  BY <1>1, PlayingAlone
<1>4. p \in Position /\ game \in Game /\ m \in Move
  BY StateTypes, LegalAssumption DEF CanAppend
<1>5. /\ x \in Step /\ x.op = "process_move" /\ x.mv = m
      /\ Lock("engine") \in Step /\ Lock("engine").op = "lock"
      /\ Unlock("engine") \in Step /\ Unlock("engine").op = "unlock"
      /\ Call("check_end") \in Step /\ Call("check_end").op = "check_end"
  BY <1>4, CallSafe, Mutexes DEF Op, GameOp, CallMove, Call
<1>6. Shape(q, owner["game"] = t)
  BY DEF PlayInv, Disciplined
<1>7. Tail(q) \in ShapeSeq
  BY <1>2, <1>6, TailShape
<1>8. s \in ShapeSeq
  <2>1. <<Unlock("engine")>> \in Helper /\ <<Call("check_end")>> \in Helper
    BY LockIsHelper, CallHandler, Mutexes DEF PassingOp
  <2>2. <<Unlock("engine"), Call("check_end")>>
            = <<Unlock("engine")>> \o <<Call("check_end")>>
    BY <1>5, TwoSteps
  <2>3. <<Unlock("engine"), Call("check_end")>> \in Helper
    BY <2>1, <2>2, HandlerConcat, HelperIsHandler
  <2>4. /\ <<Unlock("engine"), Call("check_end")>> \in ShapeSeq
        /\ None(<<Unlock("engine"), Call("check_end")>>, FinalOp)
    BY <2>3 DEF Helper, Handler
  <2> QED
    BY <1>7, <2>4, ShapeConcat
<1> HIDE DEF x, m, p
<1>9. r = <<Lock("engine"), x>> \o s
  <2> DEFINE a == <<Lock("engine"), x>>
             n == <<Unlock("engine")>>
             c == <<Call("check_end")>>
  <2>1. a \in Seq(Step) /\ n \in Seq(Step) /\ c \in Seq(Step) /\ Tail(q) \in Seq(Step)
    BY <1>2, <1>5, TwoSteps
  <2>2. a = <<Lock("engine")>> \o <<x>> /\ <<Unlock("engine"), Call("check_end")>> = n \o c
    BY <1>5, TwoSteps
  <2>3. EngineProcessMove(m) = a \o n
    BY <2>2 DEF EngineProcessMove, Locked, x
  <2>4. r = ((a \o n) \o c) \o Tail(q)
    BY <1>2, <2>3
  <2>5. s = (n \o c) \o Tail(q)
    BY <2>2
  <2> HIDE DEF a, n, c, q, r, s
  <2>6. ((a \o n) \o c) \o Tail(q) = a \o ((n \o c) \o Tail(q))
    <3> DEFINE e == n \o c
               f == Tail(q)
    <3>1. e \in Seq(Step) /\ f \in Seq(Step)
      BY <2>1
    <3>2. (a \o n) \o c = a \o e
      BY <2>1, ConcatAssoc, ZenonT(60)
    <3> HIDE DEF e, f
    <3>3. (a \o e) \o f = a \o (e \o f)
      BY <2>1, <3>1, ConcatAssoc, ZenonT(60)
    <3>4. ((a \o n) \o c) \o f = a \o (e \o f)
      BY <3>2, <3>3
    <3> QED
      BY <3>4 DEF e, f
  <2>7. r = a \o s
    BY <2>4, <2>5, <2>6
  <2> QED
    BY <2>7 DEF a
<1> HIDE DEF s
<1>10. /\ r \in Seq(Step) /\ Shape(r, TRUE)
       /\ \A i \in 1..Len(r) : r[i].op = "process_move" => r[i] = x
       /\ Has(r, "process_move")
  BY <1>5, <1>8, <1>9, PlayShape
<1>11. Disciplined'
  <2>1. Shape(r, owner'["game"] = t)
    BY <1>1, <1>3, <1>10 DEF Shape, Guarded, Processes
  <2>2. ASSUME NEW u \in Thread \ {t} PROVE Shape(todo'[u], owner'["game"] = u)
    <3>1. Shape(todo[u], owner["game"] = u)
      BY DEF PlayInv, Disciplined
    <3> QED
      BY <1>1, <1>2, <3>1
  <2> QED
    BY <2>1, <2>2 DEF Disciplined
<1>12. ASSUME NEW ops, "lock" \notin ops, "unlock" \notin ops,
              "process_move" \notin ops, "check_end" \notin ops, None(q, ops)
       PROVE  None(r, ops)
  <2> DEFINE a == <<Lock("engine"), x>>
             b == <<Unlock("engine"), Call("check_end")>>
  <2>1. /\ a \in Seq(Step) /\ Len(a) = 2 /\ a[1] = Lock("engine") /\ a[2] = x
        /\ b \in Seq(Step) /\ Len(b) = 2
        /\ b[1] = Unlock("engine") /\ b[2] = Call("check_end")
    BY <1>5, TwoSteps
  <2> HIDE DEF a, b
  <2>2. None(a, ops) /\ None(b, ops)
    BY <1>5, <1>12, <2>1 DEF None
  <2>3. None(Tail(q), ops)
    BY <1>2, <1>12, NoneTail
  <2>4. None(b \o Tail(q), ops) /\ b \o Tail(q) \in Seq(Step)
    <3>1. Tail(q) \in Seq(Step) /\ b \in Seq(Step) /\ None(b, ops)
      BY <1>2, <2>1, <2>2
    <3> QED
      BY <2>3, <3>1, NoneConcat, ConcatOf
  <2>5. None(a \o (b \o Tail(q)), ops)
    BY <2>1, <2>2, <2>4, NoneConcat
  <2> QED
    BY <1>9, <2>5 DEF a, b, s
<1>13. cli'.game = GameAppend(game, m) /\ cli'.force = cli.force
  BY <1>1 DEF IndInv, TypeOK, CliType
<1> HIDE DEF q
<1>14. ~Thinking'
  <2>1. CASE t = "search"
    <3>1. None(q, ThinkOp)
      BY <1>3, <2>1 DEF Thinking, q
    <3>2. None(r, ThinkOp)
      BY <1>12, <3>1 DEF ThinkOp
    <3> QED
      BY <2>1, <3>2 DEF Thinking
  <2>2. CASE t = "main"
    BY <1>0, <1>2, <1>3, <2>2 DEF Thinking
  <2> QED
    BY <1>0, <2>1, <2>2
<1>15. SearchSteps'
  <2>1. FoundIn(todo'["search"], worker.root)
    <3>1. None(todo'["search"], ThinkOp)
      BY <1>14 DEF Thinking
    <3> QED
      BY <3>1, NoThinkFound
  <2> QED
    BY <1>1, <1>14, <2>1 DEF SearchSteps
<1>16. ThinkingSound' /\ Calm'
  BY <1>14 DEF ThinkingSound, Calm
<1>17. ForceSound'
  <2>1. CASE t = "search"
    BY <1>0, <1>2, <1>13, <2>1 DEF PlayInv, ForceSound, q
  <2>2. CASE t = "main"
    BY <1>0, <1>2, <1>3, <1>13, <2>2 DEF PlayInv, ForceSound
  <2> QED
    BY <1>0, <2>1, <2>2
<1>18. SpawnSound'
  <2>1. CASE t = "main"
    <3>1. None(q, {"spawn"})
      BY <1>3, <2>1 DEF q
    <3>2. None(r, {"spawn"})
      BY <1>12, <3>1
    <3> QED
      BY <2>1, <3>2, NoSpawnSound DEF SpawnSound
  <2>2. CASE t = "search"
    BY <1>0, <1>2, <1>3, <2>2 DEF PlayInv, SpawnSound
  <2> QED
    BY <1>0, <2>1, <2>2
<1>19. Mirror'
  <2>1. CASE Has(todo["main"], "reset_history")
    <3>1. CASE t = "main"
      <4>1. EngineProcessMove(m) \o <<Call("check_end")>> \in Seq(Step)
        <5>1. <<Lock("engine")>> \in Seq(Step) /\ <<x>> \in Seq(Step)
                /\ <<Unlock("engine")>> \in Seq(Step) /\ <<Call("check_end")>> \in Seq(Step)
          BY <1>5
        <5>2. EngineProcessMove(m) = (<<Lock("engine")>> \o <<x>>) \o <<Unlock("engine")>>
          BY DEF EngineProcessMove, Locked, x
        <5> QED
          BY <5>1, <5>2, ConcatOf
      <4>2. Has(r, "reset_history")
        BY <1>2, <2>1, <3>1, <4>1, ResetStays DEF q
      <4> QED
        BY <3>1, <4>2 DEF Mirror
    <3>2. CASE t = "search"
      BY <1>0, <1>2, <2>1, <3>2 DEF Mirror
    <3> QED
      BY <1>0, <3>1, <3>2
  <2>2. CASE ~Has(todo["main"], "reset_history")
    <3>1. None(q, {"process_move"})
      BY <1>2, <1>6, NotProcessing
    <3>2. NobodyPlays
      BY <1>3, <3>1 DEF NobodyPlays, q
    <3>3. engine.pos = p
      BY <2>2, <3>2 DEF PlayInv, Mirror, p
    <3>4. CurrentPosition(cli'.game) = Play[engine.pos][m]
      BY <1>4, <1>13, <3>3, AppendCurrent DEF p
    <3>5. PlaysTo(r, engine.pos, CurrentPosition(cli'.game))
      BY <1>5, <1>10, <3>4 DEF PlaysTo
    <3>6. \A u \in Thread \ {t} : None(todo'[u], {"process_move"})
      BY <1>2, <1>3
    <3>7. ASSUME NEW v \in Thread
          PROVE  PlaysTo(todo'[v], engine'.pos, CurrentPosition(cli'.game))
      <4>1. CASE v = t
        BY <1>1, <3>5, <4>1
      <4>2. CASE v # t
        BY <3>6, <4>2 DEF None, PlaysTo
      <4> QED
        BY <4>1, <4>2
    <3>8. ~NobodyPlays'
      BY <1>10 DEF NobodyPlays, None, Has
    <3> QED
      BY <3>7, <3>8 DEF Mirror
  <2> QED
    BY <2>1, <2>2
<1>20. BestLegal' /\ NoInternalError'
  BY <1>1 DEF PlayInv, BestLegal, NoInternalError
<1> QED
  BY <1>11, <1>15, <1>16, <1>17, <1>18, <1>19, <1>20 DEF PlayInv

(* A move that is illegal by now changes nothing.                          *)
LEMMA AppendIgnored ==
    ASSUME IndInv, PlayInv, NEW t \in Thread, AppendMove(t),
           ~CanAppend(game, Arg(t).mv)
    PROVE  PlayInv'
<1> USE DEF bestMove
<1>1. /\ At(t, "append") /\ Continue(t, << >>)
      /\ UNCHANGED <<owner, worker, engine, exited, cli>>
  BY DEF AppendMove, Only, locks, outside
<1>2. << >> \in Helper /\ << >> \in Handler
  BY HelperIsHandler
<1>3. CASE t = "main"
  <2>1. MainBody("append", << >>)
    BY <1>2 DEF MainBody, SpecialOp, JoinOp, LockOp, CalmSeq
  <2> QED
    BY <1>1, <1>3, <2>1, MainCall
<1>4. CASE t = "search"
  <2>1. /\ << >> \in ShapeSeq /\ None(<< >>, FinalOp)
        /\ None(<< >>, ThinkOp) /\ FoundIn(<< >>, worker.root)
    BY <1>2 DEF Helper, Handler, None, FoundIn
  <2>2. SearcherBody("append", << >>)
    BY <2>1 DEF SearcherBody, LockOp, ThinksOn, ThinkOp
  <2>3. SearcherKeeps
    BY <1>1 DEF SearcherKeeps, PlayInv, BestLegal, NoInternalError
  <2> QED
    BY <1>1, <1>4, <2>2, <2>3, SearcherStep
<1> QED
  BY <1>3, <1>4 DEF Thread

LEMMA AnyThreadStep ==
    ASSUME IndInv, PlayInv, NEW t \in Thread, AnyThread(t)
    PROVE  PlayInv'
BY LockStep, AppendStep, AppendIgnored, ProcessStep, CheckEndStep, AnnounceStep,
   SetCbStep
   DEF AnyThread

LEMMA SearcherActions ==
    ASSUME IndInv, PlayInv, SearchThread
    PROVE  PlayInv'
BY AnyThreadStep, ThinkActions, AnswerActions DEF SearchThread, Thread

-----------------------------------------------------------------------------
(* The steps of the commands that need no calm.                            *)

Easy == {b \in Handler : None(b, CalmOp)}

LEMMA EasyConcat ==
    ASSUME NEW a \in Easy, NEW b \in Easy, a \in Helper
    PROVE  /\ a \o b \in Easy
           /\ b \in Helper => a \o b \in Helper
<1>1. a \in Handler /\ b \in Handler /\ None(a, CalmOp) /\ None(b, CalmOp)
  BY DEF Easy
<1>2. a \in Seq(Step) /\ b \in Seq(Step)
  BY <1>1 DEF Handler, ShapeSeq
<1>3. None(a \o b, CalmOp)
  BY <1>1, <1>2, NoneConcat
<1>4. a \o b \in Handler /\ (b \in Helper => a \o b \in Helper)
  BY <1>1, HandlerConcat
<1> QED
  BY <1>3, <1>4 DEF Easy

LEMMA EasyOne ==
    ASSUME NEW s \in Step, s.op \notin CalmOp
    PROVE  <<s>> \in Handler => <<s>> \in Easy
<1> DEFINE q == <<s>>
<1>1. Len(q) = 1 /\ q[1] = s
  OBVIOUS
<1> HIDE DEF q
<1>2. None(q, CalmOp)
  BY <1>1 DEF None
<1> QED
  BY <1>2 DEF q, Easy

LEMMA EasyLocked ==
    ASSUME NEW mx \in Mutex, NEW body \in Easy
    PROVE  /\ Locked(mx, body) \in Easy
           /\ body \in Helper => Locked(mx, body) \in Helper
<1> DEFINE a == <<Lock(mx)>>
           z == <<Unlock(mx)>>
<1>1. /\ Lock(mx) \in Step /\ Lock(mx).op = "lock"
      /\ Unlock(mx) \in Step /\ Unlock(mx).op = "unlock"
  BY CallSafe
<1>2. "lock" \notin CalmOp /\ "unlock" \notin CalmOp
  BY DEF CalmOp
<1>3. a \in Helper /\ z \in Helper /\ a \in Handler /\ z \in Handler
  BY LockIsHelper, HelperIsHandler
<1>4. a \in Easy /\ z \in Easy
  BY <1>1, <1>2, <1>3, EasyOne
<1> HIDE DEF a, z
<1>5. /\ None(a, CalmOp) /\ None(z, CalmOp) /\ None(body, CalmOp)
      /\ a \in Seq(Step) /\ z \in Seq(Step) /\ body \in Seq(Step)
  BY <1>4 DEF Easy, Handler, ShapeSeq
<1>6. a \o body \in Seq(Step) /\ None(a \o body, CalmOp)
  BY <1>5, NoneConcat, ConcatOf
<1>7. None((a \o body) \o z, CalmOp)
  BY <1>5, <1>6, NoneConcat
<1>8. None(Locked(mx, body), CalmOp)
  BY <1>7 DEF Locked, a, z
<1> QED
  BY <1>8, LockedHandler DEF Easy

LEMMA EasyBodies ==
    /\ << >> \in Easy
    /\ StopThinking \in Easy /\ WaitThinking \in Easy /\ ResetEngine \in Easy
    /\ LockedSetter \in Easy /\ SetTimeInc \in Easy /\ DecideMove \in Easy
    /\ \A o \in (PassingOp \cup (FinalOp \ {"decide"})) \ (CalmOp \cup Disorderly) :
          <<Call(o)>> \in Easy
    /\ \A f \in Callback, k \in Nat : SetThinkingDoneCb(f, k) \in Easy
<1>0. << >> \in Easy
  BY HelperIsHandler DEF Easy, None
<1>1. ASSUME NEW o \in (PassingOp \cup (FinalOp \ {"decide"})) \ (CalmOp \cup Disorderly)
      PROVE  <<Call(o)>> \in Easy
  <2>1. o \in Op \ {"process_move"}
    BY DEF PassingOp, Op, JoinOp, SearchOp, GameOp, EngineOp, InsideCommand, FinalOp,
           PlainCommand, OtherCommand
  <2>2. Call(o) \in Step /\ Call(o).op = o
    BY <2>1, CallSafe
  <2>3. <<Call(o)>> \in Handler
    BY CallHandler, HelperIsHandler
  <2> QED
    BY <2>2, <2>3, EasyOne
<1>2. \A o \in {"stop_signal", "wait_signal", "reset_history"} : <<Call(o)>> \in Easy
  BY <1>1 DEF PassingOp, CalmOp, Disorderly
<1>3. /\ \A o \in {"stop_signal", "wait_signal", "reset_history"} : <<Call(o)>> \in Helper
      /\ StopThinking \in Helper /\ WaitThinking \in Helper
  BY CallHandler, EngineHelpers DEF PassingOp
<1>4. <<Lock("engine")>> \in Easy /\ <<Lock("engine")>> \in Helper
  <2>1. Lock("engine") \in Step /\ Lock("engine").op = "lock" /\ "lock" \notin CalmOp
    BY CallSafe, Mutexes DEF CalmOp
  <2> QED
    BY <2>1, EasyOne, LockIsHelper, HelperIsHandler, Mutexes
<1>5. StopThinking \in Easy /\ WaitThinking \in Easy
  <2>1. \A o \in {"stop_signal", "wait_signal"} :
            <<Lock("engine")>> \o <<Call(o)>> \in Easy
    BY <1>2, <1>4, EasyConcat
  <2>2. /\ StopThinking = <<Lock("engine")>> \o <<Call("stop_signal")>>
        /\ WaitThinking = <<Lock("engine")>> \o <<Call("wait_signal")>>
    BY DEF StopThinking, WaitThinking
  <2> QED
    BY <2>1, <2>2
<1>6. ResetEngine \in Easy /\ SetTimeInc \in Easy /\ LockedSetter \in Easy
  <2>1. StopThinking \o <<Call("reset_history")>> \in Easy
    BY <1>2, <1>3, <1>5, EasyConcat
  <2> QED
    BY <1>0, <1>5, <2>1, EasyLocked, Mutexes DEF ResetEngine, SetTimeInc, LockedSetter
<1>7. ASSUME NEW s \in Step, s.op \notin CalmOp,
             NEW mx \in Mutex, Locked(mx, <<s>>) \in Handler
      PROVE  Locked(mx, <<s>>) \in Easy
  <2> DEFINE a == <<Lock(mx)>>
             b == <<s>>
             z == <<Unlock(mx)>>
  <2>2. /\ Lock(mx) \in Step /\ Lock(mx).op = "lock"
        /\ Unlock(mx) \in Step /\ Unlock(mx).op = "unlock"
    BY CallSafe
  <2>3. \A x \in Step : x.op \notin CalmOp => <<x>> \in Seq(Step) /\ None(<<x>>, CalmOp)
    BY DEF None
  <2>4. /\ a \in Seq(Step) /\ b \in Seq(Step) /\ z \in Seq(Step)
        /\ None(a, CalmOp) /\ None(b, CalmOp) /\ None(z, CalmOp)
    BY <1>7, <2>2, <2>3 DEF CalmOp
  <2> HIDE DEF a, b, z
  <2> DEFINE ab == a \o b
  <2>5. ab \in Seq(Step) /\ None(ab, CalmOp)
    BY <2>4, NoneConcat, ConcatOf
  <2> HIDE DEF ab
  <2>6. None(ab \o z, CalmOp)
    BY <2>4, <2>5, NoneConcat
  <2>7. None(Locked(mx, <<s>>), CalmOp)
    BY <2>6 DEF Locked, ab, a, b, z
  <2> QED
    BY <1>7, <2>7 DEF Easy
<1>8. DecideMove \in Easy
  <2>1. Call("decide") \in Step /\ Call("decide").op \notin CalmOp
    BY CallSafe DEF Op, GameOp, CalmOp
  <2> QED
    BY <1>7, <2>1, EngineHelpers, Mutexes DEF DecideMove
<1>9. ASSUME NEW f \in Callback, NEW k \in Nat
      PROVE  SetThinkingDoneCb(f, k) \in Easy
  <2>1. CallCb("set_cb", f, k) \in Step /\ CallCb("set_cb", f, k).op \notin CalmOp
    BY CallSafe DEF Op, EngineOp, CalmOp
  <2> QED
    BY <1>7, <2>1, EngineHelpers, HelperIsHandler, Mutexes DEF SetThinkingDoneCb
<1> QED
  BY <1>0, <1>1, <1>5, <1>6, <1>8, <1>9

LEMMA EasyPlainBody ==
    ASSUME NEW c \in PlainCommand
    PROVE  PlainBody[c] \in Easy
<1> USE Mutexes
<1>1. \A o \in {"set_show", "set_no_show"} : Locked("engine", <<Call(o)>>) \in Easy
  BY EasyBodies, EasyLocked DEF PassingOp, CalmOp, Disorderly
<1>2. \A mx \in Mutex : /\ Locked(mx, << >>) \in Easy /\ Locked(mx, << >>) \in Helper
                        /\ Locked(mx, LockedSetter) \in Easy
  BY EasyBodies, EasyLocked, HelperIsHandler
<1>3. LockedSetter \o LockedSetter \in Easy /\ LockedSetter \o LockedSetter \in Helper
  BY EasyBodies, EngineHelpers, EasyConcat
<1>4. (LockedSetter \o LockedSetter) \o SetTimeInc \in Easy
  BY <1>3, EasyBodies, EasyConcat
<1>5. /\ Locked("game", << >>) \o Locked("stdout", << >>) \in Easy
      /\ Locked("stdout", Locked("game", << >>)) \in Easy
  BY <1>2, EasyConcat, EasyLocked
<1>6. /\ PlainBody["stop"] \in Easy
      /\ PlainBody["hard"] \in Easy
      /\ PlainBody["hint"] \in Easy
      /\ PlainBody["level"] \in Easy
      /\ PlainBody["set_option"] \in Easy
  BY <1>2, <1>4, EasyBodies DEF PlainBody
<1>7. /\ PlainBody["post"] \in Easy
      /\ PlainBody["nopost"] \in Easy
      /\ PlainBody["hash_size"] \in Easy
      /\ PlainBody["ping"] \in Easy
      /\ PlainBody["divide"] \in Easy
      /\ PlainBody["position_info"] \in Easy
  BY <1>1, <1>2, <1>5 DEF PlainBody
<1> QED
  BY <1>6, <1>7 DEF PlainCommand

LEMMA EasyBody ==
    ASSUME NEW o, o \notin SpecialOp, NEW body \in Easy, o \in FinalOp \/ body \in Helper
    PROVE  MainBody(o, body)
<1>1. body \in Handler /\ CalmSeq(body)
  BY NoCalmOp DEF Easy
<1> QED
  BY <1>1 DEF MainBody

LEMMA StopBody ==
    ASSUME NEW o, o \notin SpecialOp, NEW b \in Handler, o \in FinalOp \/ b \in Helper
    PROVE  MainBody(o, StopThinking \o b)
<1>1. b \in Seq(Step)
  BY DEF Handler, ShapeSeq
<1>2. CalmSeq(StopThinking \o b)
  BY <1>1, StopFirst
<1>3. /\ StopThinking \o b \in Handler
      /\ b \in Helper => StopThinking \o b \in Helper
  BY EngineHelpers, HelperIsHandler, HandlerConcat
<1> QED
  BY <1>2, <1>3 DEF MainBody

LEMMA QuietBody ==
    ASSUME NEW o, o \notin SpecialOp, NEW b \in Handler, o \in FinalOp \/ b \in Helper,
           ~Thinking
    PROVE  MainBody(o, b)
BY DEF MainBody

(* A search that thinks, while the main thread is about to do something    *)
(* else than to join it, thinks of the move of a started game.             *)
LEMMA ThinkingHere ==
    ASSUME IndInv, PlayInv, NEW o, At("main", o), o \notin SpecialOp
    PROVE  /\ Thinking => gameStarted /\ Undecided(game) /\ engine.pos = CurrentPosition(game)
           /\ todo["search"] # << >> => ~isForceMode
           /\ o \in CalmOp => ~Thinking
<1> USE DEF gameStarted, isForceMode, game
<1>1. /\ todo["main"] \in Seq(Step) /\ todo["main"] # << >>
      /\ Head(todo["main"]).op = o
  BY TodoType DEF At, Thread
<1>2. ~JoinComing(todo["main"])
  BY <1>1, NoJoinComing DEF SpecialOp
<1>3. ASSUME Thinking, o \in CalmOp PROVE FALSE
  <2>1. CalmSeq(todo["main"])
    BY <1>3 DEF PlayInv, Calm
  <2>2. o \notin JoinOp
    BY DEF SpecialOp
  <2> QED
    BY <1>1, <1>3, <2>1, <2>2, CalmTail
<1> QED
  BY <1>2, <1>3 DEF PlayInv, ThinkingSound, ForceSound

LEMMA Commanding ==
    \A o \in PlainCommand \cup OtherCommand \cup {"try_move", "redo_forward", "decide"} :
        o \in FinalOp /\ o \notin SpecialOp
BY DEF FinalOp, SpecialOp, JoinOp, LockOp, PlainCommand, OtherCommand

(* A command that calls and changes nothing but the key.                   *)
LEMMA CallingActions ==
    ASSUME IndInv, PlayInv,
           \/ PlainCmd \/ CmdEasy \/ CmdQuit \/ CmdNew \/ CmdResult \/ CmdRedo
           \/ CmdSetboard \/ TryMove
    PROVE  PlayInv'
<1> USE DEF locks, outside
<1> DEFINE Calls(o, body) ==
               /\ At("main", o) /\ Continue("main", body)
               /\ UNCHANGED <<owner, worker, engine, exited, cli>>
<1>0. ASSUME NEW o, NEW body, Calls(o, body), MainBody(o, body)
      PROVE  PlayInv'
  BY <1>0, MainCall
<1>20. ASSUME NEW o \in PlainCommand \cup OtherCommand \cup {"try_move"}, NEW body \in Easy,
             Calls(o, body)
      PROVE  PlayInv'
  <2>1. MainBody(o, body)
    BY Commanding, EasyBody
  <2> QED
    BY <1>0, <1>20, <2>1
<1>21. ASSUME NEW o \in PlainCommand \cup OtherCommand \cup {"try_move"}, NEW b \in Handler,
             Calls(o, StopThinking \o b)
      PROVE  PlayInv'
  <2>1. MainBody(o, StopThinking \o b)
    BY Commanding, StopBody
  <2> QED
    BY <1>0, <1>21, <2>1
<1>1. CASE PlainCmd
  <2>1. PICK c \in PlainCommand : At("main", c) /\ Only("main", PlainBody[c])
    BY <1>1 DEF PlainCmd
  <2>2. Calls(c, PlainBody[c])
    BY <2>1 DEF Only
  <2>3. PlainBody[c] \in Easy
    BY EasyPlainBody
  <2> HIDE DEF Calls
  <2> QED
    BY <1>20, <2>2, <2>3
<1>2. CASE CmdEasy
  <2>1. PICK body \in {StopThinking, << >>} : Calls("easy", body)
    BY <1>2 DEF CmdEasy, Only
  <2>2. body \in Easy
    BY EasyBodies
  <2> HIDE DEF Calls
  <2> QED
    BY <1>20, <2>1, <2>2 DEF OtherCommand
<1>3. CASE CmdQuit
  <2>1. Calls("quit", StopThinking \o <<Call("exit")>>)
    BY <1>3 DEF CmdQuit, KeyStep
  <2>2. <<Call("exit")>> \in Handler
    BY CallHandler, HelperIsHandler DEF PassingOp
  <2> HIDE DEF Calls
  <2> QED
    BY <1>21, <2>1, <2>2 DEF OtherCommand
<1>4. CASE CmdNew
  <2> DEFINE b == <<Call("new_reset")>> \o ResetEngine \o <<Call("new_rearm")>>
  <2>1. Calls("new", StopThinking \o Locked("game", b))
    BY <1>4 DEF CmdNew, KeyStep
  <2>2. <<Call("new_rearm")>> \in Helper
    BY CallHandler DEF PassingOp
  <2>3. (<<Call("new_reset")>> \o ResetEngine) \o <<Call("new_rearm")>> \in Handler
    BY <2>2, ReplacingHelpers, HandlerConcat, HelperIsHandler
  <2>4. Locked("game", b) \in Handler
    BY <2>3, LockedHandler, Mutexes
  <2> HIDE DEF Calls, b
  <2> QED
    BY <1>21, <2>1, <2>4 DEF OtherCommand
<1>5. CASE CmdResult
  <2>1. Calls("result", StopThinking \o <<Call("result_done")>>)
    BY <1>5 DEF CmdResult, Only
  <2>2. <<Call("result_done")>> \in Handler
    BY CallHandler, HelperIsHandler DEF PassingOp
  <2> HIDE DEF Calls
  <2> QED
    BY <1>21, <2>1, <2>2 DEF OtherCommand
<1>6. CASE CmdRedo
  <2>1. Calls("redo", Locked("game", <<Call("redo_forward")>>))
    BY <1>6 DEF CmdRedo, Only
  <2>2. Locked("game", <<Call("redo_forward")>>) \in Easy
    BY EasyBodies, EasyLocked, Mutexes DEF FinalOp, CalmOp, Disorderly
  <2> HIDE DEF Calls
  <2> QED
    BY <1>20, <2>1, <2>2 DEF OtherCommand
<1>7. CASE CmdSetboard
  <2> DEFINE b == Locked("game", <<Call("set_board")>> \o ResetEngine)
  <2>1. Calls("setboard", << >>) \/ (~gameStarted /\ Calls("setboard", b))
    BY <1>7 DEF CmdSetboard, Only
  <2>2. CASE Calls("setboard", << >>)
    <3> HIDE DEF Calls
    <3> QED
      BY <1>20, <2>2, EasyBodies DEF OtherCommand
  <2>3. CASE ~gameStarted /\ Calls("setboard", b)
    <3>1. At("main", "setboard") /\ "setboard" \in FinalOp /\ "setboard" \notin SpecialOp
      BY <2>3, Commanding DEF OtherCommand
    <3>2. ~Thinking
      BY <2>3, <3>1, ThinkingHere
    <3>3. b \in Handler
      BY ReplacingHelpers, LockedHandler, HelperIsHandler, Mutexes
    <3> HIDE DEF b
    <3>4. MainBody("setboard", b)
      BY <3>1, <3>2, <3>3, QuietBody
    <3> HIDE DEF Calls
    <3> QED
      BY <1>0, <2>3, <3>4
  <2> QED
    BY <2>1, <2>2, <2>3
<1>8. CASE TryMove
  <2> DEFINE m == Arg("main").mv
  <2>1. At("main", "try_move")
    BY <1>8 DEF TryMove
  <2>2. m \in Move \cup {NoMove}
    <3>1. /\ todo["main"] \in Seq(Step) /\ todo["main"] # << >>
      BY <2>1, TodoType DEF At, Thread
    <3>2. Head(todo["main"]) \in Step
      BY <3>1, TailOf
    <3> QED
      BY <3>2 DEF Step, Arg
  <2> HIDE DEF m
  <2>3. Calls("try_move", << >>) \/ Calls("try_move", OperatorMove(m))
    BY <1>8 DEF TryMove, Only, m
  <2>4. \E b \in Handler : OperatorMove(m) = StopThinking \o b
    <3> DEFINE b == Locked("game", <<Call("start_game")>> \o AddMove(m) \o DecideMove)
    <3>1. <<Call("start_game")>> \in Helper
      BY CallHandler DEF PassingOp
    <3>2. <<Call("start_game")>> \o AddMove(m) \in Helper
      BY <2>2, <3>1, MoveHelpers, HandlerConcat, HelperIsHandler
    <3>3. (<<Call("start_game")>> \o AddMove(m)) \o DecideMove \in Handler
      BY <3>2, EngineHelpers, HandlerConcat, HelperIsHandler
    <3>4. b \in Handler
      BY <3>3, LockedHandler, Mutexes
    <3> QED
      BY <3>4 DEF OperatorMove
  <2>5. CASE Calls("try_move", << >>)
    <3> HIDE DEF Calls
    <3> QED
      BY <1>20, <2>5, EasyBodies
  <2>6. CASE Calls("try_move", OperatorMove(m))
    <3> HIDE DEF Calls
    <3> QED
      BY <1>21, <2>4, <2>6
  <2> QED
    BY <2>3, <2>5, <2>6
<1> QED
  BY <1>1, <1>2, <1>3, <1>4, <1>5, <1>6, <1>7, <1>8

LEMMA KeptGame ==
    ASSUME cli'.game = cli.game, (cli.started => cli'.started) \/ ~Thinking,
           cli'.force => cli.force, NEW next
    PROVE  CliKept(next)
BY DEF CliKept

(* A command that sets a flag, a side or the engine's show flag.           *)
LEMMA SettingActions ==
    ASSUME IndInv, PlayInv,
           \/ StartGame \/ SetShow("set_show", TRUE) \/ SetShow("set_no_show", FALSE)
           \/ NewRearm \/ NewFlags \/ ResultDone \/ GoStart \/ CmdExitondone \/ Exit
    PROVE  PlayInv'
<1> USE DEF locks, outside, game, gameStarted, isForceMode
<1> DEFINE Takes(o, body) ==
               /\ At("main", o) /\ Continue("main", body) /\ MainKeeps
               /\ cli'.game = cli.game /\ (cli'.force => cli.force)
<1>0. ASSUME NEW o, NEW body, Takes(o, body), MainBody(o, body),
             (cli.started => cli'.started) \/ ~Thinking
      PROVE  PlayInv'
  <2>1. CliKept(todo'["main"])
    BY <1>0, KeptGame
  <2> QED
    BY <1>0, <2>1, MainStep
<1>1. /\ cli = [game |-> cli.game, uciGame |-> cli.uciGame, side |-> cli.side,
                force |-> cli.force, started |-> cli.started,
                exitOnDone |-> cli.exitOnDone]
      /\ cli.started \in BOOLEAN /\ cli.force \in BOOLEAN
  BY DEF IndInv, TypeOK, CliType
<1>2. << >> \in Easy /\ << >> \in Helper
  BY EasyBodies, HelperIsHandler
<1>3. \A o \in {"start_game", "set_show", "set_no_show", "new_rearm", "new_flags",
                "result_done", "go_start", "exitondone", "exit"} : o \notin SpecialOp
  BY DEF SpecialOp, JoinOp, LockOp
<1>4. ASSUME NEW o \in {"new_rearm", "new_flags", "result_done"}, At("main", o)
      PROVE  ~Thinking
  BY <1>3, <1>4, ThinkingHere DEF CalmOp
<1>5. exited = "no" /\ exited' = exited => exited' # "failure"
  OBVIOUS
<1>6. CASE StartGame \/ GoStart \/ CmdExitondone
  <2>1. PICK o \in {"start_game", "go_start", "exitondone"} :
            /\ Takes(o, << >>)
            /\ (cli.started => cli'.started)
    <3>1. /\ \E o \in {"start_game", "go_start", "exitondone"} :
                At("main", o) /\ Continue("main", << >>)
          /\ UNCHANGED <<owner, worker, engine, exited>>
          /\ \/ cli' = [cli EXCEPT !.started = @ \/ ~isForceMode]
             \/ cli' = [cli EXCEPT !.force = FALSE, !.started = TRUE]
             \/ \E on \in BOOLEAN : cli' = [cli EXCEPT !.exitOnDone = on]
      BY <1>6 DEF StartGame, GoStart, CmdExitondone, CliStep
    <3>2. /\ cli'.game = cli.game /\ (cli'.force => cli.force)
          /\ (cli.started => cli'.started)
      BY <1>1, <3>1
    <3>3. MainKeeps
      BY <3>1 DEF MainKeeps, At
    <3> QED
      BY <3>1, <3>2, <3>3
  <2>2. MainBody(o, << >>)
    BY <1>2, <1>3, EasyBody
  <2> HIDE DEF Takes
  <2> QED
    BY <1>0, <2>1, <2>2
<1>7. CASE NewFlags \/ ResultDone
  <2>1. PICK o \in {"new_flags", "result_done"} : Takes(o, << >>)
    <3>1. /\ \E o \in {"new_flags", "result_done"} :
                At("main", o) /\ Continue("main", << >>)
          /\ UNCHANGED <<owner, worker, engine, exited>>
          /\ \/ cli' = [cli EXCEPT !.started = FALSE, !.force = FALSE]
             \/ cli' = [cli EXCEPT !.started = FALSE]
      BY <1>7 DEF NewFlags, ResultDone, CliStep
    <3>2. cli'.game = cli.game /\ (cli'.force => cli.force)
      BY <1>1, <3>1
    <3>3. MainKeeps
      BY <3>1 DEF MainKeeps, At
    <3> QED
      BY <3>1, <3>2, <3>3
  <2>2. ~Thinking
    BY <1>4, <2>1
  <2>3. MainBody(o, << >>)
    BY <1>2, <1>3, EasyBody
  <2> HIDE DEF Takes
  <2> QED
    BY <1>0, <2>1, <2>2, <2>3
<1>8. CASE NewRearm
  <2> DEFINE set == SetThinkingDoneCb("computer_move", callbackKey + 1)
             body == set \o LockedSetter \o <<Call("new_flags")>>
  <2>1. /\ At("main", "new_rearm") /\ Continue("main", body)
        /\ UNCHANGED <<owner, worker, engine, exited>>
        /\ cli' = [cli EXCEPT !.side = "black"]
    BY <1>8 DEF NewRearm, KeyStep
  <2>2. set \in Helper
    BY StateTypes, EngineHelpers DEF Callback
  <2>3. <<Call("new_flags")>> \in Helper
    BY CallHandler DEF PassingOp
  <2> HIDE DEF set
  <2>4. (set \o LockedSetter) \o <<Call("new_flags")>> \in Helper
    BY <2>2, <2>3, EngineHelpers, HandlerConcat, HelperIsHandler
  <2>5. body \in Handler /\ body \in Helper
    BY <2>4, HelperIsHandler
  <2> HIDE DEF body
  <2>6. cli'.game = cli.game /\ (cli'.force => cli.force) /\ MainKeeps
    BY <1>1, <2>1 DEF MainKeeps, At
  <2>7. ~Thinking
    BY <1>4, <2>1
  <2>8. MainBody("new_rearm", body)
    BY <1>3, <2>5, <2>7, QuietBody
  <2>9. Takes("new_rearm", body)
    BY <2>1, <2>6
  <2> HIDE DEF Takes
  <2> QED
    BY <1>0, <2>7, <2>8, <2>9
<1>9. CASE SetShow("set_show", TRUE) \/ SetShow("set_no_show", FALSE) \/ Exit
  <2>1. PICK o \in {"set_show", "set_no_show", "exit"} :
            Takes(o, << >>) /\ cli' = cli
    <3>1. /\ \E o \in {"set_show", "set_no_show", "exit"} :
                At("main", o) /\ Continue("main", << >>)
          /\ UNCHANGED <<owner, worker, cli>>
          /\ \/ \E on \in BOOLEAN : engine' = [engine EXCEPT !.show = on] /\ exited' = exited
             \/ engine' = engine /\ exited' = "success"
      BY <1>9 DEF SetShow, Exit, EngineStep, ExitStep
    <3>2. engine'.pos = engine.pos /\ engine'.best = engine.best
      BY <3>1 DEF IndInv, TypeOK, EngineType
    <3>3. MainKeeps
      BY <3>1, <3>2 DEF MainKeeps, At
    <3> QED
      BY <3>1, <3>3
  <2>2. MainBody(o, << >>)
    BY <1>2, <1>3, EasyBody
  <2> HIDE DEF Takes
  <2> QED
    BY <1>0, <2>1, <2>2
<1> QED
  BY <1>6, <1>7, <1>8, <1>9

(* Another game takes the place of the present one.                        *)
LEMMA ReplacingActions ==
    ASSUME IndInv, PlayInv, NewReset \/ SetBoard
    PROVE  PlayInv'
<1> USE DEF locks, outside, game, gameStarted, isForceMode
<1>1. PICK o \in {"new_reset", "set_board"} :
          /\ At("main", o) /\ Continue("main", << >>)
          /\ UNCHANGED <<owner, worker, engine, exited>>
          /\ \E g : cli' = [cli EXCEPT !.game = g]
  BY DEF NewReset, SetBoard, CliStep
<1>2. o \in ReplacingOp /\ o \in CalmOp /\ o \notin SpecialOp /\ o # "reset_history"
  BY DEF ReplacingOp, CalmOp, SpecialOp, JoinOp, LockOp
<1>3. ~Thinking
  BY <1>1, <1>2, ThinkingHere
<1>4. MainBody(o, << >>)
  BY <1>2, EasyBodies, HelperIsHandler, EasyBody
<1>5. MainKeeps
  BY <1>1 DEF MainKeeps, At
<1>6. cli'.force = cli.force
  BY <1>1 DEF IndInv, TypeOK, CliType
<1>7. Has(todo'["main"], "reset_history")
  <2> DEFINE q == todo["main"]
  <2>1. /\ q \in Seq(Step) /\ q # << >> /\ Head(q).op = o
        /\ todo'["main"] = << >> \o Tail(q)
    BY <1>1, StepTaken DEF Thread
  <2>2. ResetFollows(q)
    BY DEF PlayInv, Disciplined, Shape, Thread
  <2> HIDE DEF q
  <2>3. Head(q) = q[1] /\ 1 \in 1..Len(q)
    BY <2>1, TailOf
  <2>4. Has(q, "reset_history")
    BY <1>2, <2>1, <2>2, <2>3 DEF ResetFollows, Has
  <2>5. << >> \in Seq(Step)
    OBVIOUS
  <2> QED
    BY <1>2, <2>1, <2>4, <2>5, ResetStays
<1>8. CliKept(todo'["main"])
  BY <1>3, <1>6, <1>7 DEF CliKept
<1> QED
  BY <1>1, <1>4, <1>5, <1>8, MainStep

(* A command that may have the computer decide on its move.                *)
LEMMA TurningActions ==
    ASSUME IndInv, PlayInv, OrderlyCommands,
           CmdGo \/ CmdSide("black") \/ CmdSide("white") \/ CmdPlayother
    PROVE  PlayInv'
<1> USE DEF locks, outside
<1> DEFINE Takes(o, body) ==
               /\ At("main", o) /\ Continue("main", body)
               /\ UNCHANGED <<owner, worker, engine, exited>>
               /\ \E side : cli' = [cli EXCEPT !.side = side]
<1>0. ASSUME NEW o \in OtherCommand, NEW body, Takes(o, body), MainBody(o, body)
      PROVE  PlayInv'
  <2>1. /\ cli'.game = cli.game /\ cli'.started = cli.started
        /\ cli'.force = cli.force
    BY <1>0 DEF IndInv, TypeOK, CliType
  <2>2. CliKept(todo'["main"])
    BY <2>1, KeptGame
  <2>3. MainKeeps
    BY <1>0 DEF MainKeeps, At
  <2> QED
    BY <1>0, <2>2, <2>3, MainStep
<1>1. cli \in CliType /\ cli = [cli EXCEPT !.side = cli.side]
  BY DEF IndInv, TypeOK, CliType
<1>2. \A o \in OtherCommand, body \in Easy : MainBody(o, body)
  BY Commanding, EasyBody
<1>3. << >> \in Easy /\ DecideMove \in Easy
  BY EasyBodies
<1>4. CASE CmdGo
  <2> DEFINE b(options) == options \o <<Call("go_start")>> \o DecideMove
  <2>1. "bad_argument" \notin Commands
    BY DEF OrderlyCommands, Disorderly
  <2>2. \E body \in {<< >>, b(<< >>), b(LockedSetter), b(SetTimeInc)} : Takes("go", body)
    BY <1>1, <1>4, <2>1 DEF CmdGo, Only, CliStep
  <2>3. ASSUME NEW options \in {<< >>, LockedSetter, SetTimeInc}
        PROVE  b(options) \in Easy
    <3>1. options \in Easy /\ options \in Helper
      BY EasyBodies, EngineHelpers, HelperIsHandler
    <3>2. <<Call("go_start")>> \in Easy /\ <<Call("go_start")>> \in Helper
      BY EasyBodies, CallHandler DEF PassingOp, CalmOp, Disorderly
    <3>3. options \o <<Call("go_start")>> \in Easy /\ options \o <<Call("go_start")>> \in Helper
      BY <3>1, <3>2, EasyConcat
    <3> QED
      BY <1>3, <3>3, EasyConcat
  <2>4. \A body \in {<< >>, b(<< >>), b(LockedSetter), b(SetTimeInc)} : body \in Easy
    BY <1>3, <2>3
  <2> HIDE DEF b, Takes
  <2> QED
    BY <1>0, <1>2, <2>2, <2>4 DEF OtherCommand
<1>5. CASE CmdSide("black") \/ CmdSide("white")
  <2>1. \E o \in {"black", "white"}, body \in {<< >>, DecideMove} : Takes(o, body)
    BY <1>5 DEF CmdSide, CliStep
  <2> HIDE DEF Takes
  <2> QED
    BY <1>0, <1>2, <1>3, <2>1 DEF OtherCommand
<1>6. CASE CmdPlayother
  <2>1. \/ Takes("playother", << >>)
        \/ Takes("playother", StopThinking \o DecideMove)
    BY <1>1, <1>6 DEF CmdPlayother, KeyStep
  <2>2. MainBody("playother", StopThinking \o DecideMove)
    BY <1>3, Commanding, StopBody DEF Easy, OtherCommand
  <2> HIDE DEF Takes
  <2> QED
    BY <1>0, <1>2, <1>3, <2>1, <2>2 DEF OtherCommand
<1> QED
  BY <1>4, <1>5, <1>6

(* force and position stop the search that they leave no room for.         *)
LEMMA ForceActions ==
    ASSUME IndInv, PlayInv, CmdForce \/ CmdPosition
    PROVE  PlayInv'
<1> USE DEF locks, outside
<1> DEFINE p == Locked("stdout", Locked("game", <<Call("set_position")>>))
           r == todo'["main"]
<1>1. PICK o \in {"force", "position"}, b \in {<< >>, p} :
          /\ At("main", o) /\ Continue("main", StopThinking \o b)
          /\ UNCHANGED <<owner, worker, engine, exited>>
          /\ cli' = [cli EXCEPT !.force = TRUE, !.started = FALSE]
  BY DEF CmdForce, CmdPosition, EnterForceMode, KeyStep
<1>2. b \in Handler
  <2>1. <<Call("set_position")>> \in Handler /\ << >> \in Handler
    BY CallHandler, HelperIsHandler DEF PassingOp
  <2>2. Locked("game", <<Call("set_position")>>) \in Handler
    BY <2>1, LockedHandler, Mutexes
  <2>3. p \in Handler
    BY <2>2, LockedHandler, Mutexes
  <2> QED
    BY <1>1, <2>1, <2>3
<1>3. MainBody(o, StopThinking \o b)
  BY <1>1, <1>2, Commanding, StopBody DEF OtherCommand
<1>4. MainKeeps
  BY <1>1 DEF MainKeeps, At
<1>5. cli'.game = cli.game
  BY <1>1 DEF IndInv, TypeOK, CliType
<1>6. JoinComing(r)
  <2> DEFINE t == Tail(todo["main"])
             s == StopThinking
  <2>1. r = (s \o b) \o t /\ t \in Seq(Step) /\ b \in Seq(Step) /\ s \in Seq(Step)
    <3>1. b \in Seq(Step) /\ s \in Seq(Step)
      BY <1>2, EngineHelpers DEF Helper, Handler, ShapeSeq
    <3>2. r = (s \o b) \o t /\ t \in Seq(Step)
      BY <1>1, StepTaken, TailOf DEF Thread
    <3> QED
      BY <3>1, <3>2
  <2> HIDE DEF s, t
  <2>2. r = s \o (b \o t) /\ b \o t \in Seq(Step)
    BY <2>1, ConcatAssoc, ConcatOf
  <2> HIDE DEF r
  <2> DEFINE w == b \o t
  <2>3. w \in Seq(Step) /\ r = s \o w
    BY <2>2
  <2> HIDE DEF w
  <2>4. JoinComing(s \o w)
    BY <2>3, StopFirst DEF s
  <2> QED
    BY <2>3, <2>4
<1>7. CliKept(r)
  BY <1>5, <1>6 DEF CliKept
<1> QED
  BY <1>1, <1>3, <1>4, <1>7, MainStep

LEMMA TruncateCurrent ==
    ASSUME NEW g \in Game
    PROVE  CurrentPosition(GameTruncate(g)) = CurrentPosition(g)
<1>1. g.cur \in 1..Len(g.pos) /\ g.pos \in Seq(Position)
  BY DEF Game
<1>2. SubSeq(g.pos, 1, g.cur)[g.cur] = g.pos[g.cur]
  BY <1>1
<1> QED
  BY <1>2 DEF GameTruncate, CurrentPosition

(* The argument of position.                                               *)
LEMMA PositionActions ==
    ASSUME IndInv, PlayInv, SetPosition \/ Replay
    PROVE  PlayInv'
<1> USE DEF locks, outside, game
<1> DEFINE Takes(o, body) ==
               /\ At("main", o) /\ Continue("main", body)
               /\ UNCHANGED <<owner, worker, engine>> /\ exited' # "failure"
               /\ cli'.force = cli.force
<1>0. ASSUME NEW o \in {"set_position", "replay"}, NEW body \in Helper, Takes(o, body),
             \/ Has(body, "reset_history")
             \/ CurrentPosition(cli'.game) = CurrentPosition(cli.game)
      PROVE  PlayInv'
  <2>1. o \in CalmOp /\ o \notin SpecialOp
    BY DEF CalmOp, SpecialOp, JoinOp, LockOp
  <2>2. ~Thinking
    BY <1>0, <2>1, ThinkingHere
  <2>3. MainBody(o, body)
    BY <2>1, <2>2, HelperIsHandler, QuietBody
  <2>4. MainKeeps
    BY <1>0 DEF MainKeeps, At
  <2>5. Has(body, "reset_history") => Has(todo'["main"], "reset_history")
    <3> DEFINE q == todo["main"]
    <3>1. /\ q \in Seq(Step) /\ q # << >> /\ todo'["main"] = body \o Tail(q)
      BY <1>0, StepTaken DEF Thread
    <3>2. body \in Seq(Step)
      BY DEF Helper, Handler, ShapeSeq
    <3> QED
      BY <3>1, <3>2, ResetStays
  <2>6. CliKept(todo'["main"])
    BY <1>0, <2>2, <2>5 DEF CliKept
  <2> QED
    BY <1>0, <2>3, <2>4, <2>6, MainStep
<1>1. cli \in CliType /\ game \in Game /\ cli.uciGame \in Game
  BY StateTypes
<1>2. /\ << >> \in Helper /\ ResetEngine \in Helper
      /\ Has(ResetEngine, "reset_history")
      /\ \A m \in Move \cup {NoMove} : <<CallMove("replay", m)>> \in Helper
  BY HelperIsHandler, CallHandler, EngineHelpers, ReplacingHelpers
<1>5. exited = "no" => exited # "failure"
  OBVIOUS
<1>3. CASE SetPosition
  <2>1. At("main", "set_position")
    BY <1>3 DEF SetPosition
  <2>2. CASE Only("main", << >>)
    <3>1. Takes("set_position", << >>) /\ cli' = cli
      BY <1>5, <2>1, <2>2 DEF Only, At
    <3> HIDE DEF Takes
    <3> QED
      BY <1>0, <1>2, <3>1
  <2>3. ASSUME NEW g \in UciGame, NEW u, NEW y \in EndMove(g),
               CliStep("main", [cli EXCEPT !.game = GameTruncate(game), !.uciGame = u],
                       <<CallMove("replay", y)>>)
        PROVE  PlayInv'
    <3>1. /\ Takes("set_position", <<CallMove("replay", y)>>)
          /\ cli'.game = GameTruncate(game)
      BY <1>1, <1>5, <2>1, <2>3 DEF CliStep, CliType, At
    <3>3. <<CallMove("replay", y)>> \in Helper
      BY <1>2, <2>3, InputAssumption DEF EndMove
    <3>2. CurrentPosition(cli'.game) = CurrentPosition(cli.game)
      BY <1>1, <3>1, TruncateCurrent
    <3> HIDE DEF Takes
    <3> QED
      BY <1>0, <3>1, <3>2, <3>3
  <2>4. ASSUME NEW g, CliStep("main", [cli EXCEPT !.game = g], ResetEngine)
        PROVE  PlayInv'
    <3>1. Takes("set_position", ResetEngine)
      BY <1>1, <1>5, <2>1, <2>4 DEF CliStep, CliType, At
    <3> HIDE DEF Takes
    <3> QED
      BY <1>0, <1>2, <3>1
  <2>5. CASE ExitStep("main", "crash")
    <3>1. Takes("set_position", << >>) /\ cli' = cli
      BY <2>1, <2>5 DEF ExitStep
    <3> HIDE DEF Takes
    <3> QED
      BY <1>0, <1>2, <3>1
  <2> QED
    BY <1>3, <2>2, <2>3, <2>4, <2>5 DEF SetPosition
<1>4. CASE Replay
  <2> DEFINE m == MoveToNext(cli.uciGame)
             end == Arg("main").mv
             again == <<CallMove("replay", end)>>
             body == IF HasMoveToNext(cli.uciGame) THEN AddMove(m) \o again
                     ELSE IF end # NoMove THEN AddMove(end) \o again ELSE << >>
  <2>1. /\ At("main", "replay") /\ Continue("main", body)
        /\ UNCHANGED <<owner, worker, engine, exited>>
        /\ (\E u : cli' = [cli EXCEPT !.uciGame = u]) \/ cli' = cli
    BY <1>4 DEF Replay, CliStep, Only
  <2>2. Takes("replay", body) /\ cli'.game = cli.game
    <3>1. cli'.game = cli.game /\ cli'.force = cli.force
      BY <1>1, <2>1 DEF CliType
    <3> QED
      BY <1>5, <2>1, <3>1 DEF At
  <2>3. body \in Helper
    <3>1. end \in Move \cup {NoMove} /\ (HasMoveToNext(cli.uciGame) => m \in Move)
      BY <1>1, <2>1, ArgMove, MoveToNextType
    <3>2. again \in Helper
      BY <1>2, <3>1
    <3> HIDE DEF m, end, again
    <3>3. ASSUME NEW y \in Move \cup {NoMove} PROVE AddMove(y) \o again \in Helper
      <4>1. AddMove(y) \in Helper
        BY MoveHelpers
      <4> QED
        BY <3>2, <4>1, HandlerConcat, HelperIsHandler
    <3> QED
      BY <1>2, <3>1, <3>3
  <2> HIDE DEF Takes, body
  <2> QED
    BY <1>0, <2>2, <2>3
<1> QED
  BY <1>3, <1>4

(* A command is given up while no search is under way.                     *)
LEMMA GivenUp ==
    ASSUME IndInv, PlayInv, NEW o \in FinalOp, o \notin SpecialOp, At("main", o),
           todo["search"] = << >>, CommandError
    PROVE  PlayInv'
<1> USE DEF game, gameStarted, isForceMode, bestMove
<1> DEFINE q == todo["main"]
<1>0. \A t \in Thread : t = "main" \/ t = "search"
  BY DEF Thread
<1>1. /\ \A t \in Thread : todo'[t] = << >>
      /\ UNCHANGED <<cli, engine, worker, exited>>
  BY <1>0 DEF CommandError, outside, IndInv, TypeOK, Thread
<1>2. q \in Seq(Step) /\ q # << >> /\ Head(q).op = o
  BY TodoType DEF At, Thread
<1>3. Shape(q, owner["game"] = "main")
  BY DEF PlayInv, Disciplined, Thread
<1>4. o # "lock" /\ o \notin {"process_move", "reset_history"}
  BY DEF SpecialOp, LockOp
<1>5. NobodyPlays
  <2>1. None(q, {"process_move"})
    BY <1>2, <1>3, <1>4, NotProcessing
  <2>2. None(todo["search"], {"process_move"})
    BY DEF None
  <2> QED
    BY <1>0, <2>1, <2>2 DEF NobodyPlays
<1>6. ~Has(q, "reset_history")
  <2>1. AllOf(Tail(q), {"unlock"})
    BY <1>2, <1>3, <1>4, TailShape
  <2> HIDE DEF q
  <2>2. /\ q[1] = Head(q)
        /\ \A i \in 1..Len(q) : i = 1 \/ i > 1
        /\ \A i \in 1..Len(q) : i > 1 => i - 1 \in 1..Len(Tail(q)) /\ Tail(q)[i - 1] = q[i]
    BY <1>2, TailOf
  <2>3. ASSUME NEW i \in 1..Len(q) PROVE q[i].op # "reset_history"
    BY <1>2, <1>4, <2>1, <2>2 DEF AllOf
  <2> QED
    BY <2>3 DEF Has
<1>7. engine.pos = CurrentPosition(game)
  BY <1>5, <1>6 DEF PlayInv, Mirror
<1> HIDE DEF q
<1>8. \A owns : Shape(<< >>, owns)
  BY HelperIsHandler, ShapeWeaker DEF Helper, Handler
<1>9. Disciplined'
  BY <1>1, <1>8 DEF Disciplined
<1>10. ~Thinking'
  BY <1>1 DEF Thinking, None, Thread
<1>11. SearchSteps' /\ ThinkingSound' /\ ForceSound' /\ Calm'
  BY <1>1, <1>10 DEF SearchSteps, FoundIn, ThinkingSound, ForceSound, Calm, Thread
<1>12. SpawnSound'
  BY <1>1 DEF SpawnSound, SpawnSeq, Thread
<1>13. Mirror'
  BY <1>1, <1>7 DEF Mirror, PlaysTo, Thread
<1>14. BestLegal' /\ NoInternalError'
  BY <1>1 DEF PlayInv, BestLegal, NoInternalError
<1> QED
  BY <1>9, <1>11, <1>12, <1>13, <1>14 DEF PlayInv

(* undo and redo.                                                          *)
LEMMA CursorActions ==
    ASSUME IndInv, PlayInv, CmdUndo \/ RedoForward
    PROVE  PlayInv'
<1> USE DEF locks, outside, isForceMode
<1>1. PICK o \in {"undo", "redo_forward"} :
          /\ At("main", o)
          /\ \/ Only("main", << >>)
             \/ isForceMode /\ CommandError
             \/ /\ isForceMode
                /\ \E g \in {GameRevert(game), GameForward(game)} :
                       CliStep("main", [cli EXCEPT !.game = g], ResetEngine)
  BY DEF CmdUndo, RedoForward, MoveCursor
<1>2. o \in FinalOp /\ o \notin SpecialOp
  BY Commanding DEF OtherCommand
<1>3. CASE Only("main", << >>)
  <2>1. MainBody(o, << >>)
    BY <1>2, EasyBodies, EasyBody
  <2>2. Continue("main", << >>) /\ UNCHANGED <<owner, worker, engine, exited, cli>>
    BY <1>3 DEF Only
  <2> QED
    BY <1>1, <2>1, <2>2, MainCall
<1>4. CASE isForceMode /\ CommandError
  <2>1. todo["search"] = << >>
    BY <1>1, <1>2, <1>4, ThinkingHere
  <2> QED
    BY <1>1, <1>2, <1>4, <2>1, GivenUp
<1>5. ASSUME isForceMode, NEW g, CliStep("main", [cli EXCEPT !.game = g], ResetEngine)
      PROVE  PlayInv'
  <2>1. /\ Continue("main", ResetEngine) /\ UNCHANGED <<owner, worker, engine, exited>>
        /\ cli' = [cli EXCEPT !.game = g]
    BY <1>5 DEF CliStep
  <2>2. todo["search"] = << >> /\ ~Thinking
    BY <1>1, <1>2, <1>5, ThinkingHere DEF Thinking, None
  <2>3. MainBody(o, ResetEngine)
    BY <1>2, EasyBodies, EasyBody
  <2>4. MainKeeps
    BY <1>1, <2>1 DEF MainKeeps, At
  <2>5. Has(todo'["main"], "reset_history")
    <3> DEFINE q == todo["main"]
    <3>1. q \in Seq(Step) /\ q # << >> /\ todo'["main"] = ResetEngine \o Tail(q)
      BY <1>1, <2>1, StepTaken DEF Thread
    <3>2. ResetEngine \in Seq(Step)
      BY EngineHelpers DEF Helper, Handler, ShapeSeq
    <3> QED
      BY <3>1, <3>2, ReplacingHelpers, ResetStays
  <2>6. CliKept(todo'["main"])
    BY <2>2, <2>5 DEF CliKept
  <2> QED
    BY <1>1, <2>1, <2>3, <2>4, <2>6, MainStep
<1> QED
  BY <1>1, <1>3, <1>4, <1>5

(* decide_move that has not to think.                                      *)
LEMMA DecideAtOnce ==
    ASSUME IndInv, PlayInv, Decide,
           \/ ~gameStarted \/ GameIsEnded(game) \/ isForceMode
           \/ HasSingleResponse(CurrentPosition(game))
           \/ BookMove[CurrentPosition(game)] # NoMove
    PROVE  PlayInv'
<1> USE DEF locks, outside
<1> DEFINE p == CurrentPosition(game)
<1>1. At("main", "decide") /\ "decide" \in FinalOp /\ "decide" \notin SpecialOp
  BY Commanding DEF Decide
<1>2. ~Thinking
  <2>1. todo["search"] = << >> => ~Thinking
    BY DEF Thinking, None
  <2> QED
    BY <1>1, <2>1, ThinkingHere DEF Undecided
<1>3. CASE CliStep("main", [cli EXCEPT !.started = FALSE], << >>)
  <2>1. /\ Continue("main", << >>) /\ UNCHANGED <<owner, worker, engine, exited>>
        /\ cli' = [cli EXCEPT !.started = FALSE]
    BY <1>3 DEF CliStep
  <2>2. cli'.game = cli.game /\ cli'.force = cli.force
    BY <2>1 DEF IndInv, TypeOK, CliType
  <2>3. CliKept(todo'["main"])
    BY <1>2, <2>2, KeptGame
  <2>4. MainKeeps
    BY <1>1, <2>1 DEF MainKeeps, At
  <2>5. MainBody("decide", << >>)
    BY <1>1, EasyBodies, EasyBody
  <2> QED
    BY <1>1, <2>1, <2>3, <2>4, <2>5, MainStep
<1>4. ASSUME NEW m \in Move \cup {NoMove}, Only("main", AnswerAtOnce(m))
      PROVE  PlayInv'
  <2>1. /\ Continue("main", AnswerAtOnce(m))
        /\ UNCHANGED <<owner, worker, engine, exited, cli>>
    BY <1>4 DEF Only
  <2>2. AnswerAtOnce(m) \in Handler
    BY MoveHelpers, HelperIsHandler
  <2>3. MainBody("decide", AnswerAtOnce(m))
    BY <1>1, <1>2, <2>2, QuietBody
  <2> QED
    BY <1>1, <2>1, <2>3, MainCall
<1>5. FirstMove[p] \in Move \cup {NoMove} /\ BookMove[p] \in Move \cup {NoMove}
  BY StateTypes, FirstMoveAssumption, BookAssumption
<1> HIDE DEF p
<1>6. \/ CliStep("main", [cli EXCEPT !.started = FALSE], << >>)
      \/ Only("main", AnswerAtOnce(FirstMove[p]))
      \/ Only("main", AnswerAtOnce(BookMove[p]))
  BY DEF Decide, p
<1> QED
  BY <1>3, <1>4, <1>5, <1>6

-----------------------------------------------------------------------------
(* A search is started.                                                    *)

(* Behind the spawn, nothing but locks and unlocks.                        *)
EndsSpawn(q) ==
    \A i, j \in 1..Len(q) : q[i].op = "spawn" /\ i < j => q[j].op \in LockOp

Launch(q) ==
    /\ q \in ShapeSeq /\ None(q, FinalOp) /\ None(q, CalmOp)
    /\ SpawnSeq(q) /\ EndsSpawn(q)

LEMMA SpawnSeqConcat ==
    ASSUME NEW a \in Seq(Step), NEW b \in Seq(Step)
    PROVE  /\ (\A j \in 1..Len(a) : a[j] \in BeforeSpawn) /\ SpawnSeq(b)
                  => SpawnSeq(a \o b)
           /\ SpawnSeq(a) /\ AllOf(b, LockOp \cup JoinOp) => SpawnSeq(a \o b)
<1> DEFINE r == a \o b
<1>1. /\ Len(a) \in Nat /\ Len(b) \in Nat
      /\ \A i \in 1..Len(r) : i \in 1..Len(a) => r[i] = a[i]
      /\ \A i \in 1..Len(r) : i - Len(a) \in 1..Len(b) => r[i] = b[i - Len(a)]
      /\ \A i \in 1..Len(r) : i \in 1..Len(a) \/ i - Len(a) \in 1..Len(b)
  <2>1. /\ Len(a) \in Nat /\ Len(b) \in Nat
        /\ \A i \in 1..Len(a) : r[i] = a[i]
        /\ \A i \in 1..Len(b) : r[Len(a) + i] = b[i]
        /\ \A i \in 1..Len(r) : i \in 1..Len(a) \/ i - Len(a) \in 1..Len(b)
    BY ConcatOf
  <2> HIDE DEF r
  <2>2. \A i \in 1..Len(r) : Len(a) + (i - Len(a)) = i
    BY <2>1
  <2>3. \A i \in 1..Len(r) : i - Len(a) \in 1..Len(b) => r[i] = b[i - Len(a)]
    BY <2>1, <2>2
  <2> QED
    BY <2>1, <2>3
<1> HIDE DEF r
<1>2. \A i, j \in 1..Len(r) : i - Len(a) < j - Len(a) <=> i < j
  BY <1>1
<1>3. \A i, j \in 1..Len(r) : i \in 1..Len(a) /\ j - Len(a) \in 1..Len(b) => i < j
  BY <1>1
<1>4. ASSUME \A j \in 1..Len(a) : a[j] \in BeforeSpawn, SpawnSeq(b)
      PROVE  SpawnSeq(r)
  <2>1. \A s \in BeforeSpawn : s.op # "spawn"
    BY CallSafe, Mutexes DEF BeforeSpawn, JoinOp
  <2>2. ASSUME NEW i \in 1..Len(r), NEW j \in 1..Len(r), r[i].op = "spawn"
        PROVE  /\ j < i => r[j] \in BeforeSpawn
               /\ i < j => r[j].op \in LockOp \cup JoinOp
    <3>1. i - Len(a) \in 1..Len(b) /\ b[i - Len(a)].op = "spawn"
      BY <1>1, <1>4, <2>1, <2>2
    <3>2. CASE j \in 1..Len(a)
      <4>1. r[j] \in BeforeSpawn /\ ~(i < j)
        BY <1>1, <1>2, <1>3, <1>4, <3>1, <3>2
      <4> QED
        BY <4>1
    <3>3. CASE j - Len(a) \in 1..Len(b)
      <4>1. /\ j - Len(a) < i - Len(a) => b[j - Len(a)] \in BeforeSpawn
            /\ i - Len(a) < j - Len(a) => b[j - Len(a)].op \in LockOp \cup JoinOp
        BY <1>4, <3>1, <3>3 DEF SpawnSeq
      <4> QED
        BY <1>1, <1>2, <3>3, <4>1
    <3> QED
      BY <1>1, <3>2, <3>3
  <2> QED
    BY <2>2 DEF SpawnSeq
<1>5. ASSUME SpawnSeq(a), AllOf(b, LockOp \cup JoinOp)
      PROVE  SpawnSeq(r)
  <2>1. "spawn" \notin LockOp \cup JoinOp
    BY DEF LockOp, JoinOp
  <2>2. ASSUME NEW i \in 1..Len(r), NEW j \in 1..Len(r), r[i].op = "spawn"
        PROVE  /\ j < i => r[j] \in BeforeSpawn
               /\ i < j => r[j].op \in LockOp \cup JoinOp
    <3>1. i \in 1..Len(a) /\ a[i].op = "spawn"
      BY <1>1, <1>5, <2>1, <2>2 DEF AllOf
    <3>2. CASE j \in 1..Len(a)
      BY <1>1, <1>5, <3>1, <3>2 DEF SpawnSeq
    <3>3. CASE j - Len(a) \in 1..Len(b)
      <4>1. r[j].op \in LockOp \cup JoinOp
        BY <1>1, <1>5, <3>3 DEF AllOf
      <4>2. ~(j < i)
        BY <1>3, <3>1, <3>3
      <4> QED
        BY <4>1, <4>2
    <3> QED
      BY <1>1, <3>2, <3>3
  <2> QED
    BY <2>2 DEF SpawnSeq
<1> QED
  BY <1>4, <1>5 DEF r

LEMMA EndsSpawnConcat ==
    ASSUME NEW a \in Seq(Step), NEW b \in Seq(Step)
    PROVE  /\ None(a, {"spawn"}) /\ EndsSpawn(b) => EndsSpawn(a \o b)
           /\ EndsSpawn(a) /\ AllOf(b, LockOp) => EndsSpawn(a \o b)
<1> DEFINE r == a \o b
<1>1. /\ Len(a) \in Nat /\ Len(b) \in Nat
      /\ \A i \in 1..Len(a) : i \in 1..Len(r) /\ r[i] = a[i]
      /\ \A i \in 1..Len(b) : Len(a) + i \in 1..Len(r) /\ r[Len(a) + i] = b[i]
      /\ \A i \in 1..Len(r) : i \in 1..Len(a) \/ i - Len(a) \in 1..Len(b)
  BY ConcatOf
<1> HIDE DEF r
<1>2. \A i \in 1..Len(r) : i - Len(a) \in 1..Len(b) => r[i] = b[i - Len(a)]
  BY <1>1
<1>3. \A i, j \in 1..Len(r) : i - Len(a) < j - Len(a) <=> i < j
  BY <1>1
<1>4. ASSUME None(a, {"spawn"}), EndsSpawn(b),
             NEW i \in 1..Len(r), NEW j \in 1..Len(r), r[i].op = "spawn", i < j
      PROVE  r[j].op \in LockOp
  <2>1. i - Len(a) \in 1..Len(b) /\ b[i - Len(a)].op = "spawn"
    BY <1>1, <1>2, <1>4 DEF None
  <2>2. j - Len(a) \in 1..Len(b)
    <3>1. ~(j \in 1..Len(a))
      BY <1>1, <1>4, <2>1
    <3> QED
      BY <1>1, <3>1
  <2>3. b[j - Len(a)].op \in LockOp
    BY <1>3, <1>4, <2>1, <2>2 DEF EndsSpawn
  <2> QED
    BY <1>2, <2>2, <2>3
<1>5. ASSUME EndsSpawn(a), AllOf(b, LockOp),
             NEW i \in 1..Len(r), NEW j \in 1..Len(r), r[i].op = "spawn", i < j
      PROVE  r[j].op \in LockOp
  <2>1. "spawn" \notin LockOp
    BY DEF LockOp
  <2>2. i \in 1..Len(a) /\ a[i].op = "spawn"
    BY <1>1, <1>2, <1>5, <2>1 DEF AllOf
  <2>3. CASE j \in 1..Len(a)
    BY <1>1, <1>5, <2>2, <2>3 DEF EndsSpawn
  <2>4. CASE j - Len(a) \in 1..Len(b)
    BY <1>2, <1>5, <2>4 DEF AllOf
  <2> QED
    BY <1>1, <2>3, <2>4
<1> QED
  BY <1>4, <1>5 DEF r, EndsSpawn

(* The command that waits for the search.                                  *)
LEMMA WaitBehind ==
    ASSUME NEW a \in Seq(Step), NEW b \in Seq(Step), EndsSpawn(a), JoinComing(b),
           None(b, {"spawn"}), NEW i \in 1..Len(a \o b), (a \o b)[i].op = "spawn"
    PROVE  WaitsAfter(a \o b, i)
<1> DEFINE r == a \o b
           n == Len(a)
<1>1. /\ n \in Nat /\ Len(b) \in Nat
      /\ \A j \in 1..n : j \in 1..Len(r) /\ r[j] = a[j]
      /\ \A j \in 1..Len(b) : n + j \in 1..Len(r) /\ r[n + j] = b[j]
      /\ \A j \in 1..Len(r) : j \in 1..n \/ j - n \in 1..Len(b)
      /\ i \in 1..Len(r) /\ r[i].op = "spawn"
  BY ConcatOf
<1> HIDE DEF r, n
<1>2. \A j \in 1..Len(r) : j - n \in 1..Len(b) => r[j] = b[j - n]
  BY <1>1
<1>3. i \in 1..n /\ a[i].op = "spawn"
  BY <1>1, <1>2 DEF None
<1>4. PICK k \in 1..Len(b) : JoinFirst(b, k)
  BY DEF JoinComing
<1>5. n + k \in 1..Len(r) /\ i < n + k /\ r[n + k].op \in JoinOp
  BY <1>1, <1>3, <1>4 DEF JoinFirst
<1>6. ASSUME NEW j \in 1..Len(r), i < j, j < n + k
      PROVE  r[j].op \in LockOp
  <2>1. CASE j \in 1..n
    BY <1>1, <1>3, <1>6, <2>1 DEF EndsSpawn, n
  <2>2. CASE j - n \in 1..Len(b)
    <3>1. j - n < k
      BY <1>1, <1>6, <2>2
    <3> QED
      BY <1>2, <1>4, <2>2, <3>1 DEF JoinFirst
  <2> QED
    BY <1>1, <2>1, <2>2
<1> QED
  BY <1>5, <1>6 DEF r, WaitsAfter

LEMMA LaunchConcat ==
    ASSUME NEW a, NEW b, a \in Easy /\ a \in Helper
    PROVE  /\ (\A j \in 1..Len(a) : a[j] \in BeforeSpawn) /\ Launch(b) => Launch(a \o b)
           /\ Launch(b) /\ AllOf(a, LockOp) => Launch(b \o a)
<1>1. /\ a \in ShapeSeq /\ None(a, FinalOp) /\ None(a, CalmOp) /\ None(a, {"spawn"})
      /\ a \in Seq(Step)
  BY DEF Easy, Helper, Handler, ShapeSeq
<1>2. ASSUME Launch(b)
      PROVE  /\ a \o b \in ShapeSeq /\ None(a \o b, FinalOp) /\ None(a \o b, CalmOp)
             /\ b \o a \in ShapeSeq /\ None(b \o a, FinalOp) /\ None(b \o a, CalmOp)
             /\ b \in Seq(Step) /\ SpawnSeq(b) /\ EndsSpawn(b)
  <2>1. b \in ShapeSeq /\ None(b, FinalOp) /\ None(b, CalmOp) /\ b \in Seq(Step)
    BY <1>2 DEF Launch, ShapeSeq
  <2>2. a \o b \in ShapeSeq /\ b \o a \in ShapeSeq
    BY <1>1, <2>1, ShapeConcat
  <2>3. /\ None(a \o b, FinalOp) /\ None(a \o b, CalmOp)
        /\ None(b \o a, FinalOp) /\ None(b \o a, CalmOp)
    BY <1>1, <2>1, NoneConcat
  <2> QED
    BY <1>2, <2>1, <2>2, <2>3 DEF Launch
<1>3. AllOf(a, LockOp) => AllOf(a, LockOp \cup JoinOp)
  BY DEF AllOf
<1>4. ASSUME Launch(b), \A j \in 1..Len(a) : a[j] \in BeforeSpawn
      PROVE  SpawnSeq(a \o b) /\ EndsSpawn(a \o b)
  BY <1>1, <1>2, <1>4, SpawnSeqConcat, EndsSpawnConcat
<1>5. ASSUME Launch(b), AllOf(a, LockOp)
      PROVE  SpawnSeq(b \o a) /\ EndsSpawn(b \o a)
  BY <1>1, <1>2, <1>3, <1>5, SpawnSeqConcat, EndsSpawnConcat
<1> QED
  BY <1>2, <1>4, <1>5 DEF Launch

LEMMA ThinkLaunches ==
    ASSUME NEW f \in Callback, NEW k \in Nat
    PROVE  Launch(SetThinkingDoneCb(f, k) \o Think)
<1> DEFINE s == <<Call("spawn")>>
           l == <<Lock("engine")>>
           u == <<Unlock("engine")>>
           set == CallCb("set_cb", f, k)
           done == SetThinkingDoneCb(f, k)
<1>1. /\ Lock("engine") \in Step /\ Unlock("engine") \in Step
      /\ Lock("engine").op = "lock" /\ Unlock("engine").op = "unlock"
      /\ Call("spawn") \in Step /\ Call("spawn").op = "spawn"
      /\ Call("stop_signal") \in Step /\ Call("stop_signal").op = "stop_signal"
      /\ set \in Step /\ set.op = "set_cb"
  BY CallSafe, Mutexes DEF Op, EngineOp, JoinOp
<1>2. /\ Lock("engine") \in BeforeSpawn /\ Unlock("engine") \in BeforeSpawn
      /\ Call("stop_signal") \in BeforeSpawn /\ set \in BeforeSpawn
  BY <1>1 DEF BeforeSpawn, JoinOp
<1> HIDE DEF set
<1>3. Launch(s)
  <2>1. /\ "spawn" \notin FinalOp /\ "spawn" \notin CalmOp /\ "spawn" \notin Disorderly
    BY DEF FinalOp, CalmOp, Disorderly, PlainCommand, OtherCommand
  <2>2. s \in ShapeSeq
    BY <1>1, <2>1, ShapeOne
  <2>3. Len(s) = 1 /\ s[1].op = "spawn"
    BY <1>1
  <2> HIDE DEF s
  <2> QED
    BY <2>1, <2>2, <2>3 DEF Launch, None, SpawnSeq, EndsSpawn
<1>4. /\ l \in Easy /\ l \in Helper /\ u \in Easy /\ u \in Helper
      /\ StopThinking \in Easy /\ StopThinking \in Helper
      /\ done \in Easy /\ done \in Helper
  <2>1. l \in Helper /\ u \in Helper /\ l \in Handler /\ u \in Handler
    BY LockIsHelper, Mutexes, HelperIsHandler
  <2>2. l \in Easy /\ u \in Easy
    BY <1>1, <2>1, EasyOne DEF CalmOp
  <2> QED
    BY <2>1, <2>2, EasyBodies, EngineHelpers
<1>5. /\ \A j \in 1..Len(l) : l[j] \in BeforeSpawn
      /\ \A j \in 1..Len(StopThinking) : StopThinking[j] \in BeforeSpawn
  BY <1>2 DEF StopThinking
<1>6. \A j \in 1..Len(done) : done[j] \in BeforeSpawn
  <2>1. done = (l \o <<set>>) \o u
    BY DEF SetThinkingDoneCb, Locked, set
  <2> DEFINE Before(b) == b \in Seq(Step) /\ \A j \in 1..Len(b) : b[j] \in BeforeSpawn
             m == <<set>>
  <2>2. ASSUME NEW a, NEW b, Before(a), Before(b) PROVE Before(a \o b)
    BY <2>2, ConcatOf
  <2>3. Before(l) /\ Before(u) /\ Before(m)
    BY <1>1, <1>2
  <2> HIDE DEF Before, done, m
  <2>4. Before(l \o m)
    BY <2>2, <2>3
  <2>5. Before((l \o m) \o u)
    BY <2>2, <2>3, <2>4
  <2> QED
    BY <2>1, <2>5 DEF Before, m
<1>7. AllOf(u, LockOp)
  BY <1>1 DEF AllOf, LockOp
<1> HIDE DEF s, l, u, done
<1>8. Launch(StopThinking \o s)
  BY <1>3, <1>4, <1>5, LaunchConcat
<1>9. Launch(l \o (StopThinking \o s))
  BY <1>4, <1>5, <1>8, LaunchConcat
<1>10. Launch((l \o (StopThinking \o s)) \o u)
  BY <1>4, <1>7, <1>9, LaunchConcat
<1>11. Think = (l \o (StopThinking \o s)) \o u
  BY DEF Think, Locked, l, u, s
<1>12. Launch(Think)
  BY <1>10, <1>11
<1> QED
  BY <1>4, <1>6, <1>12, LaunchConcat DEF done

(* decide_move that has to think.                                          *)
LEMMA DecideToThink ==
    ASSUME IndInv, PlayInv, Decide,
           ~(~gameStarted \/ GameIsEnded(game) \/ isForceMode),
           ~HasSingleResponse(CurrentPosition(game)),
           BookMove[CurrentPosition(game)] = NoMove
    PROVE  PlayInv'
<1> USE DEF locks, outside
<1> DEFINE q == todo["main"]
           t == Tail(q)
           x == SetThinkingDoneCb("computer_move", callbackKey + 1) \o Think
           r == todo'["main"]
<1>1. At("main", "decide") /\ "decide" \in FinalOp /\ "decide" \notin SpecialOp
  BY Commanding DEF Decide
<1>2. Continue("main", x) /\ UNCHANGED <<owner, worker, engine, exited, cli>>
  BY DEF Decide, KeyStep
<1>3. Launch(x)
  BY StateTypes, ThinkLaunches DEF Callback
<1> HIDE DEF x
<1>4. /\ q \in Seq(Step) /\ q # << >> /\ Head(q).op = "decide"
      /\ r = x \o t /\ t \in Seq(Step)
  BY <1>1, <1>2, StepTaken, TailOf DEF Thread
<1>5. Shape(q, owner["game"] = "main")
  BY DEF PlayInv, Disciplined, Thread
<1>6. AllOf(t, {"unlock"})
  BY <1>1, <1>4, <1>5, TailShape
<1>7. AllOf(t, LockOp \cup JoinOp)
  BY <1>6 DEF AllOf, LockOp
<1>8. owner["game"] = "main"
  <2>1. Head(q) = q[1] /\ 1 \in 1..Len(q)
    BY <1>4, TailOf
  <2> HIDE DEF q
  <2> QED
    BY <1>4, <1>5, <2>1 DEF Shape, Guarded, GameLockedOp
<1> HIDE DEF q, t, r
<1>9. MayThink'
  <2>1. MayThink
    BY <1>8 DEF MayThink, Undecided
  <2> QED
    BY <1>2, <2>1 DEF MayThink, game, gameStarted, isForceMode
<1>10. SpawnSeq(r)
  <2>1. x \in Seq(Step) /\ SpawnSeq(x)
    BY <1>3 DEF Launch, ShapeSeq
  <2> QED
    BY <1>4, <1>7, <2>1, SpawnSeqConcat
<1>11. SpawnSound'
  BY <1>9, <1>10 DEF SpawnSound, r
<1>12. AnyBody("decide", x)
  <2>1. x \in ShapeSeq /\ None(x, CalmOp)
    BY <1>3 DEF Launch
  <2>2. CalmSeq(x)
    BY <2>1, NoCalmOp
  <2> QED
    BY <1>1, <2>1, <2>2 DEF AnyBody
<1>13. MainKeeps
  BY <1>1, <1>2 DEF MainKeeps, At
<1>14. CliKept(todo'["main"])
  BY <1>2 DEF CliKept
<1> QED
  BY <1>1, <1>2, <1>11, <1>12, <1>13, <1>14, MainStepKeeps

(* search_sync, which waits for the search it starts.                      *)
LEMMA SearchSyncStep ==
    ASSUME IndInv, PlayInv, CmdSearch("search_sync", WaitThinking)
    PROVE  PlayInv'
<1> USE DEF locks, outside
<1> DEFINE q == todo["main"]
           t == Tail(q)
           x == SetThinkingDoneCb("search_cb", callbackKey + 1) \o Think
           w == WaitThinking
           r == todo'["main"]
<1>1. /\ At("main", "search_sync")
      /\ "search_sync" \in FinalOp /\ "search_sync" \notin SpecialOp
  BY Commanding DEF CmdSearch, OtherCommand
<1>2. CASE gameStarted
  <2>1. Continue("main", << >>) /\ UNCHANGED <<owner, worker, engine, exited, cli>>
    BY <1>2 DEF CmdSearch, Only
  <2>2. MainBody("search_sync", << >>)
    BY <1>1, EasyBodies, EasyBody
  <2> QED
    BY <1>1, <2>1, <2>2, MainCall
<1>3. CASE ~gameStarted
  <2>1. Continue("main", x \o w) /\ UNCHANGED <<owner, worker, engine, exited, cli>>
    BY <1>3 DEF CmdSearch, KeyStep
  <2>2. Launch(x)
    BY StateTypes, ThinkLaunches DEF Callback
  <2> HIDE DEF x
  <2>3. /\ q \in Seq(Step) /\ q # << >> /\ Head(q).op = "search_sync"
        /\ r = (x \o w) \o t /\ t \in Seq(Step)
    BY <1>1, <2>1, StepTaken, TailOf DEF Thread
  <2>4. AllOf(t, {"unlock"})
    <3>1. Shape(q, owner["game"] = "main")
      BY DEF PlayInv, Disciplined, Thread
    <3> QED
      BY <1>1, <2>3, <3>1, TailShape
  <2>5. AllOf(t, LockOp \cup JoinOp) /\ None(t, {"spawn"})
    BY <2>4 DEF AllOf, None, LockOp
  <2>6. AllOf(w, LockOp \cup JoinOp)
    <3>1. /\ Lock("engine").op = "lock" /\ Call("wait_signal").op = "wait_signal"
      BY CallSafe, Mutexes DEF Op, JoinOp
    <3> QED
      BY <3>1 DEF AllOf, WaitThinking, LockOp, JoinOp
  <2>7. w \in Easy /\ w \in ShapeSeq /\ w \in Seq(Step) /\ None(w, {"spawn"})
    BY EasyBodies DEF Easy, Handler, ShapeSeq
  <2>8. x \in ShapeSeq /\ x \in Seq(Step) /\ SpawnSeq(x) /\ EndsSpawn(x)
    BY <2>2 DEF Launch, ShapeSeq
  <2>9. JoinComing(w \o t)
    BY <2>3, StopFirst
  <2> HIDE DEF q, t, r, w
  <2> DEFINE y == w \o t
  <2>10. /\ y \in Seq(Step) /\ JoinComing(y) /\ None(y, {"spawn"})
         /\ AllOf(y, LockOp \cup JoinOp) /\ r = x \o y
    <3>1. y \in Seq(Step) /\ None(y, {"spawn"}) /\ AllOf(y, LockOp \cup JoinOp)
      BY <2>3, <2>5, <2>6, <2>7, NoneConcat, ConcatOf
    <3>2. (x \o w) \o t = x \o (w \o t)
      <4>1. x \in Seq(Step) /\ w \in Seq(Step) /\ t \in Seq(Step)
        BY <2>3, <2>7, <2>8
      <4> HIDE DEF y
      <4> QED
        BY <4>1, ConcatAssoc
    <3> QED
      BY <2>3, <2>9, <3>1, <3>2
  <2> HIDE DEF y
  <2>11. SpawnSeq(r)
    BY <2>8, <2>10, SpawnSeqConcat
  <2>12. \A i \in 1..Len(r) : r[i].op = "spawn" => WaitsAfter(r, i)
    <3>1. \A i \in 1..Len(x \o y) : (x \o y)[i].op = "spawn" => WaitsAfter(x \o y, i)
      BY <2>8, <2>10, WaitBehind
    <3> QED
      BY <2>10, <3>1
  <2>13. SpawnSound'
    BY <2>11, <2>12 DEF SpawnSound, r
  <2> DEFINE b == x \o w
  <2>14. b \in ShapeSeq /\ None(b, CalmOp)
    BY <2>2, <2>7, <2>8, ShapeConcat, NoneConcat DEF Launch, Easy
  <2>15. Continue("main", b)
    BY <2>1 DEF w
  <2> HIDE DEF b
  <2>16. AnyBody("search_sync", b)
    BY <1>1, <2>14, NoCalmOp DEF AnyBody
  <2>17. MainKeeps
    BY <1>1, <2>1 DEF MainKeeps, At
  <2>18. CliKept(todo'["main"])
    BY <2>1 DEF CliKept
  <2> QED
    BY <1>1, <2>13, <2>15, <2>16, <2>17, <2>18, MainStepKeeps
<1> QED
  BY <1>2, <1>3

(* A line is read, or the end of the input.                                *)
LEMMA BeginPlay ==
    ASSUME IndInv, PlayInv, todo["main"] = << >>, NEW body \in Easy, Begin(body)
    PROVE  PlayInv'
<1> USE DEF game, gameStarted, isForceMode, bestMove
<1>0. \A t \in Thread : t = "main" \/ t = "search"
  BY DEF Thread
<1>1. /\ todo'["main"] = body /\ todo'["search"] = todo["search"]
      /\ UNCHANGED <<owner, cli, engine, worker, exited>>
  BY DEF Begin, locks, IndInv, TypeOK, Thread
<1>2. /\ body \in ShapeSeq /\ None(body, {"spawn"}) /\ CalmSeq(body)
      /\ \A owns : Shape(body, owns)
      /\ None(body, {"process_move"})
  BY NoCalmOp, ShapeWeaker DEF Easy, Handler
<1>3. ~JoinComing(todo["main"]) /\ ~Has(todo["main"], "reset_history")
  BY DEF JoinComing, Has
<1>4. Thinking' <=> Thinking
  BY <1>1 DEF Thinking
<1>5. Disciplined'
  <2>1. Shape(todo["search"], owner["game"] = "search")
    BY DEF PlayInv, Disciplined, Thread
  <2> QED
    BY <1>0, <1>1, <1>2, <2>1 DEF Disciplined
<1>6. SearchSteps'
  BY <1>1, <1>4 DEF PlayInv, SearchSteps
<1>7. ThinkingSound' /\ ForceSound'
  BY <1>1, <1>3, <1>4 DEF PlayInv, ThinkingSound, ForceSound
<1>8. Calm'
  BY <1>1, <1>2 DEF Calm
<1>9. SpawnSound'
  BY <1>1, <1>2, NoSpawnSound DEF SpawnSound
<1>10. Mirror'
  <2>1. /\ PlaysTo(todo["search"], engine.pos, CurrentPosition(game))
        /\ NobodyPlays => engine.pos = CurrentPosition(game)
    BY <1>3 DEF PlayInv, Mirror, Thread
  <2>2. PlaysTo(body, engine.pos, CurrentPosition(game))
    BY <1>2 DEF None, PlaysTo
  <2>3. None(todo["main"], {"process_move"})
    BY DEF None
  <2>4. NobodyPlays' => NobodyPlays
    BY <1>0, <1>1, <2>3 DEF NobodyPlays
  <2> QED
    BY <1>0, <1>1, <2>1, <2>2, <2>4 DEF Mirror
<1>11. BestLegal' /\ NoInternalError'
  BY <1>1 DEF PlayInv, BestLegal, NoInternalError
<1> QED
  BY <1>5, <1>6, <1>7, <1>8, <1>9, <1>10, <1>11 DEF PlayInv

LEMMA ReadingActions ==
    ASSUME IndInv, PlayInv, OrderlyCommands, ReadMove \/ ReadCommand \/ EndOfInput
    PROVE  PlayInv'
<1>1. todo["main"] = << >>
  BY DEF ReadMove, ReadCommand, EndOfInput, Idle
<1>2. CASE ReadMove
  <2>1. PICK m \in TypedMove : Begin(Locked("game", <<CallMove("try_move", m)>>))
    BY <1>2 DEF ReadMove
  <2>2. m \in Move \cup {NoMove}
    BY InputAssumption
  <2>3. CallMove("try_move", m) \in Step /\ CallMove("try_move", m).op \notin CalmOp
    BY <2>2, CallSafe DEF Op, GameOp, CalmOp
  <2>4. <<CallMove("try_move", m)>> \in Handler
    BY <2>2, CallHandler
  <2>5. <<CallMove("try_move", m)>> \in Easy
    BY <2>3, <2>4, EasyOne
  <2>6. Locked("game", <<CallMove("try_move", m)>>) \in Easy
    BY <2>5, EasyLocked, Mutexes
  <2> QED
    BY <1>1, <2>1, <2>6, BeginPlay
<1>3. CASE ReadCommand
  <2>1. PICK c \in Commands : Begin(Locked("game", << >>) \o <<Call(c)>>)
    BY <1>3 DEF ReadCommand
  <2>2. c \in PlainCommand \cup OtherCommand /\ c \notin Disorderly
    BY CommandAssumption DEF OrderlyCommands
  <2>3. c \in FinalOp \ {"decide"} /\ c \notin CalmOp
    BY <2>2 DEF FinalOp, CalmOp, PlainCommand, OtherCommand
  <2>4. <<Call(c)>> \in Easy
    BY <2>2, <2>3, EasyBodies
  <2>5. Locked("game", << >>) \in Easy /\ Locked("game", << >>) \in Helper
    BY EasyBodies, HelperIsHandler, EasyLocked, Mutexes
  <2>6. Locked("game", << >>) \o <<Call(c)>> \in Easy
    BY <2>4, <2>5, EasyConcat
  <2> QED
    BY <1>1, <2>1, <2>6, BeginPlay
<1>4. CASE EndOfInput
  <2>1. PICK w \in {WaitThinking, << >>} : Begin(w \o <<Call("exit")>>)
    BY <1>4 DEF EndOfInput
  <2>2. w \in Easy /\ w \in Helper
    BY EasyBodies, EngineHelpers, HelperIsHandler
  <2>3. <<Call("exit")>> \in Easy
    BY EasyBodies DEF PassingOp, CalmOp, Disorderly
  <2>4. w \o <<Call("exit")>> \in Easy
    BY <2>2, <2>3, EasyConcat
  <2> QED
    BY <1>1, <2>1, <2>4, BeginPlay
<1> QED
  BY <1>2, <1>3, <1>4

-----------------------------------------------------------------------------
(* The invariant holds.                                                    *)

LEMMA InitPlay == Init => PlayInv
<1> SUFFICES ASSUME Init PROVE PlayInv
  OBVIOUS
<1> USE DEF game, gameStarted, isForceMode, bestMove
<1>1. /\ \A t \in Thread : todo[t] = << >>
      /\ todo["main"] = << >> /\ todo["search"] = << >>
      /\ cli.game = GameCreate /\ engine.pos = Start /\ engine.best = FirstMove[Start]
      /\ exited = "no"
  BY DEF Init, Thread
<1>2. \A owns : Shape(<< >>, owns)
  BY HelperIsHandler, ShapeWeaker DEF Helper, Handler
<1>3. Disciplined
  BY <1>1, <1>2 DEF Disciplined
<1>4. ~Thinking
  BY <1>1 DEF Thinking, None
<1>5. SearchSteps /\ ThinkingSound /\ ForceSound /\ Calm
  BY <1>1, <1>4 DEF SearchSteps, FoundIn, ThinkingSound, ForceSound, Calm
<1>6. SpawnSound
  BY <1>1 DEF SpawnSound, SpawnSeq
<1>7. engine.pos = CurrentPosition(cli.game)
  BY <1>1 DEF GameCreate, GameFrom, CurrentPosition
<1>8. Mirror
  BY <1>1, <1>7 DEF Mirror, PlaysTo
<1>9. BestLegal
  BY <1>1, FirstMoveBest, StartAssumption DEF BestLegal
<1> QED
  BY <1>1, <1>3, <1>5, <1>6, <1>8, <1>9 DEF PlayInv, NoInternalError

LEMMA DecideStep ==
    ASSUME IndInv, PlayInv, Decide
    PROVE  PlayInv'
BY DecideAtOnce, DecideToThink

(* An orderly user never comes to a disorderly step.                       *)
LEMMA StaysOrderly ==
    ASSUME IndInv, PlayInv
    PROVE  ~CmdBadArgument /\ ~CmdSearch("search_cmd", << >>)
<1> SUFFICES ASSUME NEW o \in Disorderly, At("main", o) PROVE FALSE
  BY DEF CmdBadArgument, CmdSearch, Disorderly
<1> DEFINE q == todo["main"]
<1>1. q \in Seq(Step) /\ q # << >> /\ Head(q).op = o
  BY TodoType DEF At, Thread
<1>2. None(q, Disorderly)
  BY DEF PlayInv, Disciplined, Shape, Thread
<1> HIDE DEF q
<1>3. Head(q) = q[1] /\ 1 \in 1..Len(q)
  BY <1>1, TailOf
<1> QED
  BY <1>1, <1>2, <1>3 DEF None

LEMMA MainPlay ==
    ASSUME IndInv, SearchInv, PlayInv, OrderlyCommands, MainThread
    PROVE  PlayInv'
<1>1. \/ AnyThread("main")
      \/ JoinSignal("stop_signal", TRUE) \/ JoinSignal("wait_signal", FALSE)
      \/ ThrdJoin     \/ Spawn        \/ ResetHistory
      \/ SetShow("set_show", TRUE)    \/ SetShow("set_no_show", FALSE)
      \/ Decide       \/ TryMove      \/ StartGame    \/ PlainCmd
      \/ CmdEasy      \/ CmdQuit      \/ CmdNew       \/ NewReset
      \/ NewRearm     \/ NewFlags     \/ CmdForce     \/ CmdPosition
      \/ SetPosition  \/ Replay       \/ CmdGo        \/ GoStart
      \/ CmdResult    \/ ResultDone   \/ CmdSide("black") \/ CmdSide("white")
      \/ CmdPlayother \/ CmdSearch("search_sync", WaitThinking)
      \/ CmdSetboard  \/ SetBoard     \/ CmdExitondone
      \/ CmdUndo      \/ CmdRedo      \/ RedoForward  \/ Exit
  BY StaysOrderly DEF MainThread
<1>2. CASE AnyThread("main")
  BY <1>2, AnyThreadStep DEF Thread
<1>3. CASE JoinSignal("stop_signal", TRUE) \/ JoinSignal("wait_signal", FALSE) \/ ThrdJoin
  BY <1>3, JoinActions
<1>4. CASE Spawn \/ ResetHistory
  BY <1>4, SpawnStepPlay, ResetStep
<1>5. CASE \/ StartGame \/ SetShow("set_show", TRUE) \/ SetShow("set_no_show", FALSE)
           \/ NewRearm \/ NewFlags \/ ResultDone \/ GoStart \/ CmdExitondone \/ Exit
  BY <1>5, SettingActions
<1>6. CASE \/ PlainCmd \/ CmdEasy \/ CmdQuit \/ CmdNew \/ CmdResult \/ CmdRedo
           \/ CmdSetboard \/ TryMove
  BY <1>6, CallingActions
<1>7. CASE NewReset \/ SetBoard
  BY <1>7, ReplacingActions
<1>8. CASE CmdGo \/ CmdSide("black") \/ CmdSide("white") \/ CmdPlayother
  BY <1>8, TurningActions
<1>9. CASE CmdForce \/ CmdPosition
  BY <1>9, ForceActions
<1>10. CASE SetPosition \/ Replay
  BY <1>10, PositionActions
<1>11. CASE Decide \/ CmdSearch("search_sync", WaitThinking)
  BY <1>11, DecideStep, SearchSyncStep
<1>12. CASE CmdUndo \/ RedoForward
  BY <1>12, CursorActions
<1> QED
  BY <1>1, <1>2, <1>3, <1>4, <1>5, <1>6, <1>7, <1>8, <1>9, <1>10, <1>11, <1>12

LEMMA PlayInductive ==
    ASSUME IndInv, SearchInv, PlayInv, OrderlyCommands, [Next]_vars
    PROVE  PlayInv'
<1>1. CASE SearchThread
  BY <1>1, SearcherActions
<1>2. CASE MainThread
  BY <1>2, MainPlay
<1>3. CASE ReadMove \/ ReadCommand \/ EndOfInput
  BY <1>3, ReadingActions
<1>4. CASE UNCHANGED vars
  <2>1. UNCHANGED <<owner, todo, cli, engine, worker, exited>>
    BY <1>4 DEF vars
  <2>2. /\ Disciplined' /\ SearchSteps' /\ ThinkingSound'
        /\ ForceSound' /\ Calm'
    BY <2>1 DEF PlayInv, Disciplined, SearchSteps, ThinkingSound, ForceSound, Calm,
                Thinking, game, gameStarted, isForceMode
  <2>3. SpawnSound' /\ Mirror' /\ BestLegal' /\ NoInternalError'
    BY <2>1 DEF PlayInv, SpawnSound, MayThink, Mirror, NobodyPlays, BestLegal,
                NoInternalError, game, gameStarted, isForceMode, bestMove
  <2> QED
    BY <2>2, <2>3 DEF PlayInv
<1> QED
  BY <1>1, <1>2, <1>3, <1>4 DEF Next, Exited

LEMMA PlayAlways == OrderlyCommands => (Spec => [](IndInv /\ PlayInv))
<1> SUFFICES ASSUME OrderlyCommands PROVE Spec => [](IndInv /\ PlayInv)
  OBVIOUS
<1>1. Init => SearchInv
  BY DEF Init, SearchInv, SpawnsReady, SearchOver, Thread
<1>2. IndInv /\ SearchInv /\ PlayInv /\ [Next]_vars => PlayInv'
  BY PlayInductive
<1> QED
  BY <1>1, <1>2, InitPlay, Inductive, SearchInductive, PTL DEF Spec

-----------------------------------------------------------------------------
(* What follows from it.                                                   *)

(* The engine thinks about the position on the board: whenever no command  *)
(* is under way and nobody holds the game mutex, the engine's current      *)
(* position is the game's, whatever moves, new games, undos, setboards and *)
(* position commands went before and whichever thread played the moves.    *)
THEOREM EngineFollowsGame == OrderlyCommands => (Spec => []EngineMirrorsGame)
<1> SUFFICES ASSUME OrderlyCommands PROVE Spec => []EngineMirrorsGame
  OBVIOUS
<1>1. IndInv /\ PlayInv => EngineMirrorsGame
  <2> SUFFICES ASSUME IndInv, PlayInv, todo["main"] = << >>, owner["game"] = NoOwner
               PROVE  engine.pos = CurrentPosition(game)
    BY DEF EngineMirrorsGame
  <2>1. None(todo["main"], {"process_move"})
    BY DEF None
  <2>2. None(todo["search"], {"process_move"})
    <3>1. Shape(todo["search"], owner["game"] = "search")
      BY DEF PlayInv, Disciplined, Thread
    <3> QED
      BY <3>1 DEF Shape, Processes, None, NoOwner
  <2>3. NobodyPlays
    BY <2>1, <2>2 DEF NobodyPlays, Thread
  <2>4. ~Has(todo["main"], "reset_history")
    BY DEF Has
  <2> QED
    BY <2>3, <2>4 DEF PlayInv, Mirror
<1> QED
  BY <1>1, PlayAlways, PTL

(* The move that engine_best_move gives away is legal in the engine's      *)
(* current position, or there is none to give away, whatever the searches  *)
(* that were stopped, answered late or were overtaken had written there.   *)
THEOREM BestMoveIsKnown == OrderlyCommands => (Spec => []BestMoveKnown)
<1> SUFFICES ASSUME OrderlyCommands PROVE Spec => []BestMoveKnown
  OBVIOUS
<1>1. IndInv /\ PlayInv => BestMoveKnown
  BY DEF PlayInv, BestLegal, BestFor, BestMoveKnown
<1> QED
  BY <1>1, PlayAlways, PTL

(* No search ever prints a line whose move is illegal on the board, which  *)
(* print_move_path would end the program for: a search that still thinks   *)
(* does so about the position on the board.                                *)
THEOREM NoLineIsIllegal == OrderlyCommands => (Spec => []NoInternalError)
<1> SUFFICES ASSUME OrderlyCommands PROVE Spec => []NoInternalError
  OBVIOUS
<1>1. IndInv /\ PlayInv => NoInternalError
  BY DEF PlayInv
<1> QED
  BY <1>1, PlayAlways, PTL

(* In force mode, and with no command under way, no step changes the game: *)
(* the search that force stopped was joined before the command was done.   *)
THEOREM ForceFreezesGame == OrderlyCommands => (Spec => ForceModeFreezesGame)
<1> SUFFICES ASSUME OrderlyCommands PROVE Spec => ForceModeFreezesGame
  OBVIOUS
<1>1. SearchThread => todo["search"] # << >>
  BY DEF SearchThread, AnyThread, MtxLock, MtxUnlock, AppendMove, ProcessMove, CheckEnd,
         Announce, SetCb, SetupSearch, Deepen, SearchCompletes, SearchTerminated,
         Update, PrintPv, NextDepth, ThinkingCb, Answer, Report, Rearm, ExitOnDone, At
<1>2. MainThread => todo["main"] # << >>
  <2>1. AnyThread("main") => todo["main"] # << >>
    BY DEF AnyThread, MtxLock, MtxUnlock, AppendMove, ProcessMove, CheckEnd, Announce,
           SetCb, At
  <2> QED
    BY <2>1
       DEF MainThread, JoinSignal, ThrdJoin, Spawn, ResetHistory, SetShow, Decide,
           TryMove, StartGame, PlainCmd, CmdEasy, CmdQuit, CmdNew, NewReset, NewRearm,
           NewFlags, CmdForce, CmdPosition, SetPosition, Replay, CmdGo, GoStart,
           CmdResult, ResultDone, CmdSide, CmdPlayother, CmdSearch, CmdSetboard,
           SetBoard, CmdExitondone, CmdBadArgument, CmdUndo, CmdRedo, RedoForward,
           Exit, At
<1>3. PlayInv /\ [Next]_vars => (Idle /\ isForceMode => cli'.game = game)
  <2> SUFFICES ASSUME PlayInv, [Next]_vars, Idle, isForceMode PROVE cli'.game = game
    OBVIOUS
  <2>1. todo["main"] = << >> /\ todo["search"] = << >>
    BY DEF Idle, PlayInv, ForceSound, JoinComing
  <2>2. ReadMove \/ ReadCommand \/ EndOfInput \/ UNCHANGED vars
    BY <1>1, <1>2, <2>1 DEF Next, Exited
  <2>3. cli' = cli
    BY <2>2 DEF ReadMove, ReadCommand, EndOfInput, Begin, vars
  <2> QED
    BY <2>3 DEF game
<1>4. PlayInv /\ [Next]_vars => [Idle /\ isForceMode => cli'.game = game]_vars
  BY <1>3
<1> QED
  BY <1>4, PlayAlways, PTL DEF Spec, ForceModeFreezesGame

=============================================================================
