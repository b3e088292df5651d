--------------------------- MODULE EngineThreads ---------------------------
(***************************************************************************)
(* The two threads of Taltos and the locks between them.                   *)
(*                                                                         *)
(* The main thread reads lines (src/src/command_loop.c) and runs one       *)
(* command at a time.  The search thread (iterative_deepening in           *)
(* src/src/engine.c) deepens a search, prints what it found after each     *)
(* depth and, at the end, calls back into the command loop, which plays    *)
(* the move.  They share the game, the engine's copy of the current        *)
(* position, and three recursive mutexes.                                  *)
(*                                                                         *)
(* A C function is a sequence of steps, what a thread has still to do is   *)
(* the sequence todo[t], and a call puts the callee's steps in front.  The *)
(* code between two lock operations is one step where only one thread can  *)
(* observe it; each unlocked access the other thread can observe is a step *)
(* of its own.                                                             *)
(***************************************************************************)
EXTENDS GameLine

CONSTANTS
    BookMove,       \* BookMove[p]: what book_get_move may return in p
    TypedMove,      \* the moves a line may hold
    Commands,       \* the commands a line may hold
    SetupPosition,  \* the positions setboard may be given
    UciGame,        \* the games the position command may be given
    Uninitialised,  \* what an unwritten move_to_next may hold
    Limited,        \* TRUE when the search has a time or a node limit
    MaxLines,       \* bound: lines read before the end of the input
    MaxDepth        \* bound: depth_limit, or MAX_PLY

ASSUME BookAssumption ==
    /\ BookMove \in [Position -> Move \cup {NoMove}]
    /\ \A p \in Position : BookMove[p] \in Legal[p] \cup {NoMove}

ASSUME InputAssumption ==
    /\ SetupPosition \subseteq Position
    /\ UciGame \subseteq Game
    /\ TypedMove \subseteq Move
    /\ Uninitialised \subseteq Move \cup {NoMove}
    /\ Limited \in BOOLEAN

ASSUME BoundAssumption == MaxLines \in Nat /\ MaxDepth \in Nat \ {0}

Thread == {"main", "search"}
Mutex == {"game", "engine", "stdout"}
NoOwner == "nobody"
Callback == {"computer_move", "search_cb"}

VARIABLES
    owner,          \* owner[mx]: the thread that holds the mutex
    held,           \* held[mx]: how many times it has locked it
    todo,           \* todo[t]: the steps the thread has still to take
    cli,            \* the command loop: game, uciGame (what cmd_position
                    \*   builds), side, force, started, exitOnDone
    callbackKey,    \* identifies the last request to think
    engine,         \* pos (history[history_length - 1]), best, cb, arg, show
    worker,         \* the thread's data: started and run (the two flags),
                    \*   joinable (created, not joined), root, depth, show
    lines,          \* lines read so far
    exited          \* "no", or the exit status

locks == <<owner, held>>
outside == <<lines, exited>>
vars == <<owner, held, todo, cli, callbackKey, engine, worker, lines, exited>>

game == cli.game
gameStarted == cli.started
isForceMode == cli.force
bestMove == engine.best

-----------------------------------------------------------------------------
(* Steps: an operation with a mutex, a move or a callback key.             *)

LockOp == {"lock", "unlock"}
JoinOp == {"stop_signal", "wait_signal", "thrd_join"}
SearchOp == {"setup_search", "deepen", "search", "update", "print_pv",
             "next_depth", "thinking_cb", "answer", "report", "rearm"}
GameOp == {"append", "process_move", "check_end", "announce",
           "exit_on_done", "decide", "try_move", "start_game", "replay"}
EngineOp == {"spawn", "reset_history", "set_cb", "set_show", "set_no_show"}
PlainCommand == {"stop", "hard", "hint", "level", "set_option", "post",
                 "nopost", "hash_size", "ping", "divide", "position_info"}
OtherCommand == {"quit", "new", "force", "go", "result", "easy", "black",
                 "white", "playother", "search_cmd", "search_sync",
                 "setboard", "undo", "redo", "position", "exitondone",
                 "bad_argument"}
InsideCommand == {"exit", "new_reset", "new_rearm", "new_flags",
                  "go_start", "result_done", "set_board", "redo_forward",
                  "set_position"}
Op == LockOp \cup JoinOp \cup SearchOp \cup GameOp \cup EngineOp
        \cup PlainCommand \cup OtherCommand \cup InsideCommand

ASSUME CommandAssumption == Commands \subseteq PlainCommand \cup OtherCommand

NoMutex == "none"

(* A step that plays a move in the engine has one to play.                 *)
Step ==
    {s \in [op : Op, mx : Mutex \cup {NoMutex}, mv : Move \cup {NoMove},
            key : Nat, cb : Callback] :
        s.op = "process_move" => s.mv \in Move}

(* Steps that know of no key later than k.                                 *)
StepUpTo(k) == {s \in Step : s.key <= k}

Call(o) == [op |-> o, mx |-> NoMutex, mv |-> NoMove, key |-> 0,
            cb |-> "computer_move"]
CallMove(o, m) == [Call(o) EXCEPT !.mv = m]
CallCb(o, f, k) ==
    [op |-> o, mx |-> NoMutex, mv |-> NoMove, key |-> k, cb |-> f]
Lock(mx) == [Call("lock") EXCEPT !.mx = mx]
Unlock(mx) == [Call("unlock") EXCEPT !.mx = mx]

Locked(mx, body) == <<Lock(mx)>> \o body \o <<Unlock(mx)>>

-----------------------------------------------------------------------------
(* The functions, as the steps they take.                                  *)

StopThinking == <<Lock("engine"), Call("stop_signal")>>
WaitThinking == <<Lock("engine"), Call("wait_signal")>>

(* Wrong variant: the key is passed before it is incremented.              *)
SetThinkingDoneCbOldKey(f, k) == Locked("engine", <<CallCb("set_cb", f, k - 1)>>)

SetThinkingDoneCb(f, k) == Locked("engine", <<CallCb("set_cb", f, k)>>)

(* Wrong variant: the previous search is not joined.                       *)
ThinkWithoutJoin == Locked("engine", <<Call("spawn")>>)

Think == Locked("engine", StopThinking \o <<Call("spawn")>>)

ResetEngine == Locked("engine", StopThinking \o <<Call("reset_history")>>)

(* Wrong variant: the engine is not told of the move.                      *)
EngineProcessMoveForgotten(m) == Locked("engine", << >>)

EngineProcessMove(m) == Locked("engine", <<CallMove("process_move", m)>>)

AddMove(m) == Locked("game", <<CallMove("append", m)>>)

PrintComputerMove(m) ==
    Locked("game", << >>) \o Locked("stdout", <<CallMove("announce", m)>>)

DecideMove == Locked("game", <<Call("decide")>>)

OperatorMove(m) ==
    StopThinking
        \o Locked("game", <<Call("start_game")>> \o AddMove(m) \o DecideMove)

PrintCurrentResult(m) ==
    Locked("game", Locked("stdout", <<CallMove("print_pv", m)>>))

(* thinking_done, and the unlock that ends iterative_deepening.            *)
ThinkingDone ==
    Locked("engine", <<Call("thinking_cb")>>) \o <<Unlock("engine")>>

IterativeDeepening == <<Lock("engine"), Call("setup_search")>>

ComputerMove == Locked("game", <<Call("answer")>>)
SearchCb == Locked("game", <<Call("report")>>)

SetTimeInc == Locked("engine", StopThinking)
LockedSetter == Locked("engine", << >>)

-----------------------------------------------------------------------------
Init ==
    /\ owner = [mx \in Mutex |-> NoOwner]
    /\ held = [mx \in Mutex |-> 0]
    /\ todo = [t \in Thread |-> << >>]
    /\ cli = [game |-> GameCreate, uciGame |-> GameCreate, side |-> "black",
              force |-> FALSE, started |-> FALSE, exitOnDone |-> FALSE]
    /\ callbackKey = 0
    /\ engine = [pos |-> Start, best |-> FirstMove[Start],
                 cb |-> "computer_move", arg |-> 0, show |-> TRUE]
    /\ worker = [started |-> FALSE, run |-> FALSE, joinable |-> FALSE,
                 root |-> Start, depth |-> 1, show |-> FALSE]
    /\ lines = 0
    /\ exited = "no"

(* The next step of thread t is an o.                                      *)
At(t, o) ==
    /\ exited = "no"
    /\ todo[t] # << >>
    /\ Head(todo[t]).op = o

Arg(t) == Head(todo[t])

(* Thread t takes its next step, which calls body and changes nothing, or  *)
(* the command loop's state, the engine's, or the search thread's data.    *)
Continue(t, body) == todo' = [todo EXCEPT ![t] = body \o Tail(@)]

Only(t, body) ==
    /\ Continue(t, body)
    /\ UNCHANGED <<locks, cli, callbackKey, engine, worker, outside>>

CliStep(t, c, body) ==
    /\ cli' = c
    /\ Continue(t, body)
    /\ UNCHANGED <<locks, callbackKey, engine, worker, outside>>

(* A command that gives out the next key, too.                             *)
KeyStep(t, c, body) ==
    /\ cli' = c
    /\ callbackKey' = callbackKey + 1
    /\ Continue(t, body)
    /\ UNCHANGED <<locks, engine, worker, outside>>

EngineStep(t, e, body) ==
    /\ engine' = e
    /\ Continue(t, body)
    /\ UNCHANGED <<locks, cli, callbackKey, worker, outside>>

WorkerStep(t, w, body) ==
    /\ worker' = w
    /\ Continue(t, body)
    /\ UNCHANGED <<locks, cli, callbackKey, engine, outside>>

ExitStep(t, status) ==
    /\ exited' = status
    /\ Continue(t, << >>)
    /\ UNCHANGED <<locks, cli, callbackKey, engine, worker, lines>>

(* Wrong variant: fill_best_move is not called.                            *)
EngineAtWithoutFill(p) == [engine EXCEPT !.pos = p]

(* The engine at a new position, its best move filled in by fill_best_move. *)
EngineAt(p) == [engine EXCEPT !.pos = p, !.best = FirstMove[p]]

-----------------------------------------------------------------------------
(* Recursive mutexes.  An unlock by a thread that does not own the mutex   *)
(* fails and changes nothing.                                              *)

MtxLock(t) ==
    /\ At(t, "lock")
    /\ LET mx == Arg(t).mx IN
        /\ owner[mx] \in {NoOwner, t}
        /\ owner' = [owner EXCEPT ![mx] = t]
        /\ held' = [held EXCEPT ![mx] = @ + 1]
    /\ Continue(t, << >>)
    /\ UNCHANGED <<cli, callbackKey, engine, worker, outside>>

MtxUnlock(t) ==
    /\ At(t, "unlock")
    /\ LET mx == Arg(t).mx IN
        IF owner[mx] = t
        THEN /\ held' = [held EXCEPT ![mx] = @ - 1]
             /\ owner' = [owner EXCEPT ![mx] = IF held[mx] = 1 THEN NoOwner ELSE t]
        ELSE UNCHANGED locks
    /\ Continue(t, << >>)
    /\ UNCHANGED <<cli, callbackKey, engine, worker, outside>>

-----------------------------------------------------------------------------
(* join_all_threads: the engine's part under its mutex, then the join.     *)
JoinSignal(o, stop) ==
    /\ At("main", o)
    /\ IF worker.started
       THEN WorkerStep("main",
                       [worker EXCEPT !.started = FALSE, !.run = @ /\ ~stop],
                       <<Unlock("engine"), Call("thrd_join")>>)
       ELSE Only("main", <<Unlock("engine")>>)

ThrdJoin ==
    /\ At("main", "thrd_join")
    /\ todo["search"] = << >>
    /\ WorkerStep("main", [worker EXCEPT !.joinable = FALSE, !.run = FALSE], << >>)

(* think, from the point where the previous search is joined.              *)
Spawn ==
    /\ At("main", "spawn")
    /\ worker' = [worker EXCEPT !.started = TRUE, !.run = TRUE, !.joinable = TRUE,
                                !.root = engine.pos, !.show = engine.show]
    /\ todo' = [todo EXCEPT !["main"] = Tail(@), !["search"] = IterativeDeepening]
    /\ UNCHANGED <<locks, cli, callbackKey, engine, outside>>

(* reset_engine, once the search is joined.                                *)
ResetHistory ==
    /\ At("main", "reset_history")
    /\ EngineStep("main", EngineAt(CurrentPosition(game)), << >>)

SetCb(t) ==
    /\ At(t, "set_cb")
    /\ EngineStep(t, [engine EXCEPT !.cb = Arg(t).cb, !.arg = Arg(t).key], << >>)

SetShow(o, on) ==
    /\ At("main", o)
    /\ EngineStep("main", [engine EXCEPT !.show = on], << >>)

(* engine_process_move, its mutex locked.                                  *)
ProcessMove(t) ==
    /\ At(t, "process_move")
    /\ EngineStep(t, EngineAt(Play[engine.pos][Arg(t).mv]), << >>)

-----------------------------------------------------------------------------
(* The search thread: iterative_deepening.                                 *)

(* An exact entry of the hash table may start the search deeper, and with  *)
(* the entry's move.                                                       *)
SetupSearch ==
    /\ At("search", "setup_search")
    /\ \E d \in 1..(MaxDepth + 1), m \in {bestMove} \cup Legal[worker.root] :
        /\ d = 1 => m = bestMove
        /\ worker' = [worker EXCEPT !.depth = d]
        /\ engine' = [engine EXCEPT !.best = m]
    /\ Continue("search", <<Call("deepen")>>)
    /\ UNCHANGED <<locks, cli, callbackKey, outside>>

Deepen ==
    /\ At("search", "deepen")
    /\ Only("search", IF worker.depth <= MaxDepth
                      THEN <<Unlock("engine"), Call("search")>>
                      ELSE ThinkingDone)

(* search of one depth.  It looks at the run flag and the limits only now  *)
(* and then, so it may finish although it was told to stop.                *)
SearchCompletes ==
    /\ At("search", "search")
    /\ \E m \in IF Legal[worker.root] = {} THEN {NoMove} ELSE Legal[worker.root] :
        Only("search", <<Lock("engine"), CallMove("update", m)>>)

SearchTerminated ==
    /\ At("search", "search")
    /\ ~worker.run \/ Limited
    /\ Only("search", <<Lock("engine")>> \o ThinkingDone)

(* A completed depth: export the best move and show the line found.        *)
Update ==
    /\ At("search", "update")
    /\ LET m == Arg("search").mv IN
        EngineStep("search",
                   [engine EXCEPT !.best = IF m # NoMove THEN m ELSE @],
                   (IF worker.show THEN PrintCurrentResult(m) ELSE << >>)
                       \o <<Call("next_depth")>>)

(* print_move_path replays the line on a copy of the game and ends the     *)
(* program when a move of it is illegal there.                             *)
PrintPv ==
    /\ At("search", "print_pv")
    /\ LET m == Arg("search").mv IN
        ExitStep("search",
                 IF m = NoMove \/ CanAppend(game, m) THEN "no" ELSE "failure")

(* Wrong variant: the next iteration searches the same depth again.        *)
NextDepthStuck ==
    /\ At("search", "next_depth")
    /\ Only("search", <<Call("deepen")>>)

(* A mate found ends the search.                                           *)
NextDepth ==
    /\ At("search", "next_depth")
    /\ \/ Only("search", ThinkingDone)
       \/ WorkerStep("search", [worker EXCEPT !.depth = @ + 1], <<Call("deepen")>>)

(* The callback first compares its key with the last one given out; a      *)
(* search nobody waits for any more does nothing.                          *)
ThinkingCb ==
    /\ At("search", "thinking_cb")
    /\ Only("search", IF engine.arg # callbackKey THEN << >>
                      ELSE IF engine.cb = "computer_move" THEN ComputerMove
                      ELSE SearchCb)

(* computer_move, its game mutex locked.                                   *)
Answer ==
    /\ At("search", "answer")
    /\ Only("search",
            IF bestMove = NoMove THEN << >>
            ELSE PrintComputerMove(bestMove) \o <<Call("exit_on_done")>>
                    \o AddMove(bestMove))

(* search_cb, its game mutex locked.                                       *)
Report ==
    /\ At("search", "report")
    /\ Only("search",
            (IF bestMove = NoMove THEN << >>
             ELSE PrintComputerMove(bestMove) \o <<Call("rearm")>>)
                \o <<Call("exit_on_done")>>)

Rearm ==
    /\ At("search", "rearm")
    /\ KeyStep("search", cli, SetThinkingDoneCb("computer_move", callbackKey + 1))

-----------------------------------------------------------------------------
(* Moves of the game, on either thread.                                    *)

Announce(t) == At(t, "announce") /\ Only(t, << >>)

ExitOnDone ==
    /\ At("search", "exit_on_done")
    /\ ExitStep("search", IF cli.exitOnDone THEN "success" ELSE "no")

(* add_move, its game mutex locked; an illegal move is ignored.            *)
AppendMove(t) ==
    /\ At(t, "append")
    /\ LET m == Arg(t).mv IN
        IF CanAppend(game, m)
        THEN CliStep(t, [cli EXCEPT !.game = GameAppend(game, m)],
                     EngineProcessMove(m) \o <<Call("check_end")>>)
        ELSE Only(t, << >>)

CheckEnd(t) ==
    /\ At(t, "check_end")
    /\ CliStep(t, [cli EXCEPT !.started = @ /\ ~GameIsEnded(game)], << >>)

(* decide_move, its game mutex locked: answer at once when there is a      *)
(* single move or a book move, think otherwise.                            *)
AnswerAtOnce(m) == PrintComputerMove(m) \o AddMove(m)

Decide ==
    /\ At("main", "decide")
    /\ LET p == CurrentPosition(game) IN
        IF ~gameStarted \/ GameIsEnded(game) \/ isForceMode
        THEN CliStep("main", [cli EXCEPT !.started = FALSE], << >>)
        ELSE IF HasSingleResponse(p)
        THEN Only("main", AnswerAtOnce(FirstMove[p]))
        ELSE IF BookMove[p] # NoMove
        THEN Only("main", AnswerAtOnce(BookMove[p]))
        ELSE KeyStep("main", cli,
                     SetThinkingDoneCb("computer_move", callbackKey + 1) \o Think)

-----------------------------------------------------------------------------
(* The main thread: one line at a time.                                    *)

(* The handlers that are nothing but locks and calls.                      *)
PlainBody ==
    [stop          |-> StopThinking,
     hard          |-> DecideMove,
     hint          |-> Locked("game", LockedSetter),
     level         |-> LockedSetter \o LockedSetter \o SetTimeInc,
     set_option    |-> LockedSetter,
     post          |-> Locked("engine", <<Call("set_show")>>),
     nopost        |-> Locked("engine", <<Call("set_no_show")>>),
     hash_size     |-> Locked("stdout", LockedSetter),
     ping          |-> Locked("stdout", << >>),
     divide        |-> Locked("game", << >>) \o Locked("stdout", << >>),
     position_info |-> Locked("stdout", Locked("game", << >>))]

Idle == exited = "no" /\ todo["main"] = << >>

Begin(body) ==
    /\ todo' = [todo EXCEPT !["main"] = body]
    /\ UNCHANGED <<locks, cli, callbackKey, engine, worker, exited>>

(* A line that reads as a move.                                            *)
ReadMove ==
    /\ Idle
    /\ lines < MaxLines
    /\ lines' = lines + 1
    /\ \E m \in TypedMove : Begin(Locked("game", <<CallMove("try_move", m)>>))

(* Every other line; the game mutex is taken to see that it is no move.    *)
ReadCommand ==
    /\ Idle
    /\ lines < MaxLines
    /\ lines' = lines + 1
    /\ \E c \in Commands : Begin(Locked("game", << >>) \o <<Call(c)>>)

EndOfInput ==
    /\ Idle
    /\ Begin((IF cli.exitOnDone THEN WaitThinking ELSE << >>) \o <<Call("exit")>>)
    /\ UNCHANGED lines

Exit == At("main", "exit") /\ ExitStep("main", "success")

CompTurn == Turn(game) = cli.side

TryMove ==
    /\ At("main", "try_move")
    /\ LET m == Arg("main").mv IN
        Only("main", IF /\ ~GameIsEnded(game)
                        /\ CanAppend(game, m)
                        /\ isForceMode \/ ~CompTurn
                     THEN OperatorMove(m) ELSE << >>)

StartGame ==
    /\ At("main", "start_game")
    /\ CliStep("main", [cli EXCEPT !.started = @ \/ ~isForceMode], << >>)

PlainCmd == \E c \in PlainCommand : At("main", c) /\ Only("main", PlainBody[c])

CmdEasy ==
    /\ At("main", "easy")
    /\ Only("main", IF CompTurn THEN StopThinking ELSE << >>)

CmdQuit ==
    /\ At("main", "quit")
    /\ KeyStep("main", cli, StopThinking \o <<Call("exit")>>)

CmdNew ==
    /\ At("main", "new")
    /\ KeyStep("main", cli,
               StopThinking
                   \o Locked("game", <<Call("new_reset")>> \o ResetEngine
                                         \o <<Call("new_rearm")>>))

NewReset ==
    /\ At("main", "new_reset")
    /\ CliStep("main", [cli EXCEPT !.game = GameCreate], << >>)

(* Wrong variant: a new game starts the keys anew.                         *)
NewRearmResetsKey ==
    /\ At("main", "new_rearm")
    /\ cli' = [cli EXCEPT !.side = "black"]
    /\ callbackKey' = 0
    /\ Continue("main", SetThinkingDoneCb("computer_move", 0) \o LockedSetter
                            \o <<Call("new_flags")>>)
    /\ UNCHANGED <<locks, engine, worker, outside>>

NewRearm ==
    /\ At("main", "new_rearm")
    /\ KeyStep("main", [cli EXCEPT !.side = "black"],
               SetThinkingDoneCb("computer_move", callbackKey + 1) \o LockedSetter
                   \o <<Call("new_flags")>>)

NewFlags ==
    /\ At("main", "new_flags")
    /\ CliStep("main", [cli EXCEPT !.started = FALSE, !.force = FALSE], << >>)

(* Wrong variant: force does not stop the search.                          *)
EnterForceModeWithoutStop(body) ==
    KeyStep("main", [cli EXCEPT !.force = TRUE, !.started = FALSE], body)

(* Wrong variant: force stops the search with the game locked.             *)
EnterForceModeUnderLock(body) ==
    KeyStep("main", [cli EXCEPT !.force = TRUE, !.started = FALSE],
            Locked("game", StopThinking) \o body)

(* cmd_force; the position command begins with it too.                     *)
EnterForceMode(body) ==
    KeyStep("main", [cli EXCEPT !.force = TRUE, !.started = FALSE],
            StopThinking \o body)

CmdForce == At("main", "force") /\ EnterForceMode(<< >>)

CmdPosition ==
    /\ At("main", "position")
    /\ EnterForceMode(Locked("stdout", Locked("game", <<Call("set_position")>>)))

(* What move_to_next of a game's last item holds: 0 once a move was played, *)
(* but nobody writes it in a head.                                         *)
EndMove(g) == IF g.mv = << >> THEN Uninitialised ELSE {NoMove}

(* The argument of position: a game that continues the present one is      *)
(* replayed from the cursor on, any other game replaces it, and one that   *)
(* cannot be read changes nothing.  game_continues takes a head for the    *)
(* end of the present game only if it happens to hold 0, and follows its   *)
(* null pointer if it happens to hold the new game's first move.           *)
SetPosition ==
    /\ At("main", "set_position")
    /\ \/ Only("main", << >>)
       \/ \E g \in UciGame, x \in EndMove(game) :
            IF GameContinues(g, game) /\ x = NoMove
            THEN LET kept == GameTruncate(game) IN
                 \E y \in EndMove(g) :
                    CliStep("main",
                            [cli EXCEPT !.game = kept,
                                        !.uciGame = [g EXCEPT !.cur = Len(kept.pos)]],
                            <<CallMove("replay", y)>>)
            ELSE IF GameContinues(g, game) /\ g.mv # << >> /\ x = g.mv[1]
            THEN ExitStep("main", "crash")
            ELSE CliStep("main", [cli EXCEPT !.game = g], ResetEngine)

(* The loop of replay_new_moves.  It only ends at a move_to_next of 0; at  *)
(* a head that holds anything else it tries that move again and again.     *)
Replay ==
    /\ At("main", "replay")
    /\ LET end == Arg("main").mv
           again == <<CallMove("replay", end)>>
       IN
        IF HasMoveToNext(cli.uciGame)
        THEN CliStep("main", [cli EXCEPT !.uciGame = GameForward(@)],
                     AddMove(MoveToNext(cli.uciGame)) \o again)
        ELSE IF end # NoMove
        THEN Only("main", AddMove(end) \o again)
        ELSE CliStep("main", [cli EXCEPT !.uciGame = GameCreate], << >>)

(* go takes over the side to move.  Its options set the clock, or an       *)
(* increment or a node count, which also stops a search, or are no numbers. *)
CmdGo ==
    /\ At("main", "go")
    /\ IF gameStarted /\ CompTurn
       THEN Only("main", << >>)
       ELSE \E options \in {<< >>, LockedSetter, SetTimeInc}
                             \cup {<<Call(c)>> : c \in Commands \cap {"bad_argument"}} :
                CliStep("main", [cli EXCEPT !.side = Turn(game)],
                        options \o <<Call("go_start")>> \o DecideMove)

(* Wrong variant: go leaves the force mode on.                             *)
GoStartKeepsForce ==
    /\ At("main", "go_start")
    /\ CliStep("main", [cli EXCEPT !.started = TRUE], << >>)

GoStart ==
    /\ At("main", "go_start")
    /\ CliStep("main", [cli EXCEPT !.force = FALSE, !.started = TRUE], << >>)

CmdResult ==
    /\ At("main", "result")
    /\ Only("main", StopThinking \o <<Call("result_done")>>)

ResultDone ==
    /\ At("main", "result_done")
    /\ CliStep("main", [cli EXCEPT !.started = FALSE], << >>)

(* black and white.                                                        *)
CmdSide(side) ==
    /\ At("main", side)
    /\ CliStep("main", [cli EXCEPT !.side = side],
               IF Turn(game) = side /\ ~isForceMode /\ gameStarted
               THEN DecideMove ELSE << >>)

(* The key is given up before the guard is looked at.                      *)
CmdPlayother ==
    /\ At("main", "playother")
    /\ IF gameStarted /\ isForceMode /\ ~CompTurn
       THEN KeyStep("main", [cli EXCEPT !.side = Opponent(@)],
                    StopThinking \o DecideMove)
       ELSE KeyStep("main", cli, << >>)

(* search and search_sync, ignored during a game.                          *)
CmdSearch(c, wait) ==
    /\ At("main", c)
    /\ IF gameStarted
       THEN Only("main", << >>)
       ELSE KeyStep("main", cli,
                    SetThinkingDoneCb("search_cb", callbackKey + 1) \o Think \o wait)

(* setboard, ignored during a game and when the FEN cannot be read.        *)
CmdSetboard ==
    /\ At("main", "setboard")
    /\ \/ Only("main", << >>)
       \/ /\ ~gameStarted
          /\ Only("main", Locked("game", <<Call("set_board")>> \o ResetEngine))

SetBoard ==
    /\ At("main", "set_board")
    /\ \E p \in SetupPosition :
        CliStep("main", [cli EXCEPT !.game = GameFrom(p, 0)], << >>)

CmdExitondone ==
    /\ At("main", "exitondone")
    /\ \E on \in BOOLEAN : CliStep("main", [cli EXCEPT !.exitOnDone = on], << >>)

(* param_error and general_error: the command is given up, and the mutexes *)
(* are made anew, whoever holds them.                                      *)
CommandError ==
    /\ todo' = [todo EXCEPT !["main"] = << >>]
    /\ owner' = [owner EXCEPT !["game"] = NoOwner, !["stdout"] = NoOwner]
    /\ held' = [held EXCEPT !["game"] = 0, !["stdout"] = 0]
    /\ UNCHANGED <<cli, callbackKey, engine, worker, outside>>

CmdBadArgument == At("main", "bad_argument") /\ CommandError

(* Undo moves the cursor without the game mutex, redo with it.             *)
MoveCursor(can, g) ==
    IF ~isForceMode THEN Only("main", << >>)
    ELSE IF ~can THEN CommandError
    ELSE CliStep("main", [cli EXCEPT !.game = g], ResetEngine)

CmdUndo == At("main", "undo") /\ MoveCursor(CanRevert(game), GameRevert(game))

CmdRedo ==
    /\ At("main", "redo")
    /\ Only("main", Locked("game", <<Call("redo_forward")>>))

RedoForward ==
    /\ At("main", "redo_forward")
    /\ MoveCursor(CanForward(game), GameForward(game))

-----------------------------------------------------------------------------
AnyThread(t) ==
    \/ MtxLock(t)      \/ MtxUnlock(t)
    \/ AppendMove(t)   \/ ProcessMove(t)   \/ CheckEnd(t)
    \/ Announce(t)     \/ SetCb(t)

SearchThread ==
    \/ AnyThread("search")
    \/ SetupSearch  \/ Deepen     \/ SearchCompletes  \/ SearchTerminated
    \/ Update       \/ PrintPv    \/ NextDepth        \/ ThinkingCb
    \/ Answer       \/ Report     \/ Rearm            \/ ExitOnDone

MainThread ==
    \/ AnyThread("main")
    \/ JoinSignal("stop_signal", TRUE) \/ JoinSignal("wait_signal", FALSE)
    \/ ThrdJoin     \/ Spawn        \/ ResetHistory
    \/ SetShow("set_show", TRUE)       \/ SetShow("set_no_show", FALSE)
    \/ Decide       \/ TryMove      \/ StartGame    \/ PlainCmd
    \/ CmdEasy      \/ CmdQuit      \/ CmdNew       \/ NewReset
    \/ NewRearm     \/ NewFlags     \/ CmdForce     \/ CmdPosition
    \/ SetPosition  \/ Replay       \/ CmdGo        \/ GoStart
    \/ CmdResult    \/ ResultDone   \/ CmdSide("black") \/ CmdSide("white")
    \/ CmdPlayother \/ CmdSearch("search_cmd", << >>)
    \/ CmdSearch("search_sync", WaitThinking)
    \/ CmdSetboard  \/ SetBoard     \/ CmdExitondone
    \/ CmdBadArgument \/ CmdUndo    \/ CmdRedo      \/ RedoForward
    \/ Exit

(* A process that has exited stays exited.                                 *)
Exited == exited # "no" /\ UNCHANGED vars

Next ==
    \/ SearchThread
    \/ MainThread
    \/ ReadMove
    \/ ReadCommand
    \/ EndOfInput
    \/ Exited

Spec == Init /\ [][Next]_vars

(* The scheduler runs every thread that can run, and search() returns:     *)
(* each depth is a finite search.  Nothing makes the user type.            *)
FairSpec == Spec /\ WF_vars(SearchThread) /\ WF_vars(MainThread)

-----------------------------------------------------------------------------
(* Properties.                                                             *)

CliType ==
    [game : Game, uciGame : Game, side : Player, force : BOOLEAN,
     started : BOOLEAN, exitOnDone : BOOLEAN]
EngineType ==
    [pos : Position, best : Move \cup {NoMove}, cb : Callback, arg : Nat,
     show : BOOLEAN]
WorkerType ==
    [started : BOOLEAN, run : BOOLEAN, joinable : BOOLEAN, root : Position,
     depth : Nat, show : BOOLEAN]

TypeOK ==
    /\ owner \in [Mutex -> Thread \cup {NoOwner}]
    /\ held \in [Mutex -> Nat]
    /\ \A mx \in Mutex : owner[mx] = NoOwner <=> held[mx] = 0
    /\ todo \in [Thread -> Seq(Step)]
    /\ cli \in CliType
    /\ callbackKey \in Nat
    /\ engine \in EngineType
    /\ worker \in WorkerType
    /\ lines \in Nat
    /\ exited \in {"no", "success", "failure", "crash"}

(* The position the engine thinks about is the one on the board, whenever  *)
(* no command is under way and nobody is changing the game: add_move,      *)
(* new, setboard, position, undo and redo all keep both in step.           *)
EngineMirrorsGame ==
    todo["main"] = << >> /\ owner["game"] = NoOwner
        => engine.pos = CurrentPosition(game)

(* The comment on engine_best_move in engine.c: "The best move known by    *)
(* the engine in the current position", at least a legal one.              *)
BestMoveKnown ==
    owner["engine"] = NoOwner =>
        IF Legal[engine.pos] = {} THEN bestMove = NoMove
                                 ELSE bestMove \in Legal[engine.pos]

(* think overwrites the search thread's data and its handle: the previous  *)
(* search must have ended and been joined by then.                         *)
OneSearch ==
    todo["main"] # << >> /\ Head(todo["main"]).op = "spawn"
        => todo["search"] = << >> /\ ~worker.joinable

(* No line the search prints is illegal on the board: print_move_path      *)
(* would end the program with an internal error.                           *)
NoInternalError == exited # "failure"

(* force, new, go and the moves keep the two modes apart, which is why the *)
(* guard of playother never passes.                                        *)
StartedExcludesForce == ~(gameStarted /\ isForceMode)

(* A key given to the engine has been given out by the command loop.       *)
KeyNeverAhead == engine.arg <= callbackKey

(* Nor has any key that is on its way to the engine.                       *)
KeysGivenOut ==
    /\ KeyNeverAhead
    /\ todo \in [Thread -> Seq(StepUpTo(callbackKey))]

(* A search whose key was given up never gets a valid key back: a late     *)
(* answer stays ignored until somebody asks the engine to think again.     *)
StaleAnswerStaysStale ==
    [][engine.arg # callbackKey /\ engine'.arg = callbackKey'
        => engine'.arg > engine.arg]_vars

(* Once the force command is done, the game changes only by a command of   *)
(* the user, whatever a search that was under way finds.                   *)
ForceModeFreezesGame ==
    [][Idle /\ isForceMode => cli'.game = game]_vars

(* The comment on run_flag in engine.c: "cleared by the engine to signal   *)
(* to the search thread that it needs to stop".                            *)
RunFlagStopsSearch ==
    ~worker.run /\ todo["search"] # << >>
        ~> (todo["search"] = << >> \/ exited # "no")

(* The main thread has still to do one of the operations ops.              *)
Pending(ops) == \E i \in DOMAIN todo["main"] : todo["main"][i].op \in ops

(* Thread t waits for thread u.                                            *)
WaitsFor(t, u) ==
    /\ todo[t] # << >>
    /\ \/ Arg(t).op = "lock" /\ owner[Arg(t).mx] = u
       \/ Arg(t).op = "thrd_join" /\ todo[u] # << >>

Hung == WaitsFor("main", "search") /\ WaitsFor("search", "main")

(* replay_new_moves at a head that holds a move.                           *)
Spinning ==
    \E i \in DOMAIN todo["main"] :
        todo["main"][i].op = "replay" /\ todo["main"][i].mv # NoMove

(* The lines that join the search, or take a second mutex, while they hold *)
(* one that the search may want.                                           *)
MayHang ==
    {"try_move", "go", "black", "white", "hard", "search_cmd", "search_sync",
     "hint", "level", "hash_size", "position_info", "setboard", "undo", "redo"}

SurelyEnds == (PlainCommand \cup OtherCommand \cup {"exit"}) \ MayHang

(* Every line gets processed, unless the two threads come to wait for each *)
(* other, which no line but those named can bring about, or position reads *)
(* what nobody wrote and never ends.                                       *)
MainResponsive ==
    /\ todo["main"] # << >>
        ~> (todo["main"] = << >> \/ exited # "no" \/ Hung \/ Spinning)
    /\ Pending(SurelyEnds)
        ~> (todo["main"] = << >> \/ exited # "no" \/ Spinning)

(* Whoever asks the computer for a move when it is to move in a started    *)
(* game - by a move, go with good arguments, hard, white or black - gets *)
(* it in the end, or takes the game or the side from it, or gives its key  *)
(* up by playother; unless the threads wait for each other.                *)
ComputerToMove ==
    gameStarted /\ ~isForceMode /\ CompTurn /\ ~GameIsEnded(game)

ComputerAnswers ==
    Pending({"decide"}) /\ ~Pending({"bad_argument"}) /\ ComputerToMove
        ~> (exited # "no" \/ Hung \/ At("main", "playother") \/ ~ComputerToMove)

=============================================================================
