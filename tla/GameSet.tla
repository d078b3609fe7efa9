------------------------------ MODULE GameSet ------------------------------
(***************************************************************************)
(* The reader of game sets (gameset/reader.{h,cpp}, types.{h,cpp}) and the *)
(* GameConsumer of make_dataset, as operators on a file.                   *)
(*                                                                         *)
(* A file is a sequence of lines: a line is what its text amounts to.  A   *)
(* move is "quiet", "capture" (or a promotion), "check", or "illegal"; a   *)
(* board is known by where it comes from: the line of the command that set *)
(* it up, and the moves made since.                                        *)
(***************************************************************************)
EXTENDS Integers, Sequences, SequencesExt, FiniteSets, FiniteSetsExt

CONSTANTS
  NoBoard,     \* no value of lastBoard_
  SkipFirst    \* 5, the boards at the start of a game that are filtered out

\* The lines, after trimming.  A line to skip is empty, a comment, or has an
\* unknown command.
Skip == [kind |-> "skip"]
GameLine(ok, winner) == [kind |-> "game", ok |-> ok, winner |-> winner]
Title == [kind |-> "title"]
Start == [kind |-> "start"]
BoardLine(ok) == [kind |-> "board", ok |-> ok]
MovesLine(moves) == [kind |-> "moves", moves |-> moves]

Winners == {"white", "black", "draw", "unknown"}
MoveKinds == {"quiet", "capture", "check", "illegal"}

Lines == {Skip, Title, Start}
  \union [kind : {"game"}, ok : BOOLEAN, winner : Winners]
  \union [kind : {"board"}, ok : BOOLEAN]
  \union [kind : {"moves"}, moves : Seq(MoveKinds)]

\* What readLine() gives after the last of them.
NoLine == [kind |-> "noLine"]
LineAfter(n, file) == IF n < Len(file) THEN file[n + 1] ELSE NoLine

(***************************************************************************)
(* tryReadCommand(): the command of a line to skip is NoCommand.           *)
(***************************************************************************)
NoCommand == [kind |-> "none"]
EndOfStream == [kind |-> "endOfStream"]
Error(line) == [kind |-> "error", line |-> line]
IsErr(command) == command.kind \in {"endOfStream", "error"}

SetBoard(r) ==
    LET board == [from |-> r.line, moves |-> <<>>]
    IN  [r EXCEPT !.lastBoard = board,
                  !.captured = Append(@, board),
                  !.command = [kind |-> "board"]]

\* The first move that is illegal ends the command with an error, but the
\* moves before it stay made.
MakeMoves(r, moves) ==
    LET bad == {i \in DOMAIN moves : moves[i] = "illegal"}
        made == IF bad = {} THEN Len(moves) ELSE Min(bad) - 1
        board(n) == [r.lastBoard EXCEPT !.moves = @ \o SubSeq(moves, 1, n)]
    IN  [r EXCEPT !.lastBoard = board(made),
                  !.captured = @ \o [n \in 1..made |-> board(n)],
                  !.command = IF bad = {} THEN [kind |-> "moves", moves |-> moves]
                                          ELSE Error(r.line)]

\* Mutant: the board of the game before is still there.
GameKeepsBoard(r, l) ==
    IF l.ok THEN [r EXCEPT !.command = [kind |-> "game", winner |-> l.winner]]
            ELSE [r EXCEPT !.command = Error(r.line)]

OpenGame(r, l) ==
    IF l.ok THEN [r EXCEPT !.lastBoard = NoBoard,
                           !.command = [kind |-> "game", winner |-> l.winner]]
            ELSE [r EXCEPT !.command = Error(r.line)]

Interpret(r, l) ==
    CASE l.kind = "skip"  -> [r EXCEPT !.command = NoCommand]
      [] l.kind = "game"  -> OpenGame(r, l)
      [] l.kind = "title" -> [r EXCEPT !.command = [kind |-> "title"]]
      [] l.kind = "start" \/ (l.kind = "board" /\ l.ok) -> SetBoard(r)
      [] l.kind = "moves" /\ r.lastBoard # NoBoard /\ l.moves # <<>> -> MakeMoves(r, l.moves)
      [] OTHER -> [r EXCEPT !.command = Error(r.line)]

TryReadCommand(r, l) ==
    IF l = NoLine THEN [r EXCEPT !.command = EndOfStream]
                  ELSE Interpret([r EXCEPT !.line = @ + 1], l)

(***************************************************************************)
(* The constructor and nextGame() read line after line.  phase says for    *)
(* whom: "opening" for the first command, "reading" inside a game, "idle"  *)
(* for nobody.  last is lastCommand_, the command the game before ended    *)
(* with.                                                                   *)
(***************************************************************************)
NewReader ==
    [phase |-> "opening", line |-> 0, last |-> EndOfStream, lastBoard |-> NoBoard,
     captured |-> <<>>, command |-> NoCommand,
     game |-> [winner |-> "unknown", commands |-> <<>>]]

ReadFirst(r, l) ==
    LET s == TryReadCommand(r, l)
    IN  IF s.command = NoCommand THEN s ELSE [s EXCEPT !.last = s.command, !.phase = "idle"]

\* The call of nextGame(): a command that is not "game" is an error every time.
BeginGame(r) ==
    CASE IsErr(r.last) -> [r EXCEPT !.command = r.last]
      [] r.last.kind = "game" ->
            [r EXCEPT !.phase = "reading", !.captured = <<>>,
                      !.game = [winner |-> r.last.winner, commands |-> <<>>]]
      [] OTHER -> [r EXCEPT !.command = Error(r.line)]

\* Its loop: the next game or the end of the file ends the game.
ReadInner(r, l) ==
    LET s == TryReadCommand(r, l)
    IN  CASE IsErr(s.command) \/ s.command.kind = "game" ->
               [s EXCEPT !.last = s.command, !.phase = "idle"]
          [] s.command.kind \in {"board", "moves"} ->
               [s EXCEPT !.game.commands = Append(@, s.command)]
          [] OTHER -> s

(***************************************************************************)
(* GameConsumer::consume()                                                 *)
(***************************************************************************)
IsCanonical(game) ==
    /\ game.commands # <<>>
    /\ Cardinality({n \in DOMAIN game.commands : game.commands[n].kind = "board"}) = 1

CanConsume(game) == IsCanonical(game) /\ game.winner # "unknown"

MovesOf(game) ==
    FoldLeft(LAMBDA moves, c : IF c.kind = "moves" THEN moves \o c.moves ELSE moves,
             <<>>, game.commands)

IsCheck(board) == board.moves # <<>> /\ Last(board.moves) = "check"

\* boards[i + 1] is what moves[i] makes of boards[i]: idx of the code is i - 1.
IsFiltered(boards, moves, i) ==
    \/ i <= SkipFirst
    \/ i > 1 /\ (moves[i - 1] = "capture" \/ IsCheck(boards[i - 1]))
    \/ IsCheck(boards[i])

\* The rows of a game: RichBoard, with the number of the game.
Rows(game, boards, number, filter) ==
    LET moves == MovesOf(game)
        kept == FoldLeftDomain(LAMBDA before, i :
                                   IF filter /\ IsFiltered(boards, moves, i) THEN before
                                                                             ELSE Append(before, i),
                               <<>>, boards)
    IN  [k \in DOMAIN kept |->
            [winner |-> game.winner, gameId |-> number, total |-> Len(boards),
             left |-> Len(boards) - kept[k], board |-> boards[kept[k]]]]

(***************************************************************************)
(* The format, as docs/gameset.md gives it: a file is cut into games at    *)
(* its "game" lines, and each game is a list of boards.                    *)
(***************************************************************************)
GameStarts(file) == {i \in DOMAIN file : file[i].kind = "game"}

\* Where the game that starts at line i ends: the line of the next one.
EndOf(file, i) == Min({j \in GameStarts(file) : j > i} \cup {Len(file) + 1})

Body(file, i) == SubSeq(file, i + 1, EndOf(file, i) - 1)

SetsUp(l) == l.kind \in {"start", "board"}

BoardsIn(file, i) ==
    LET added(l) == CASE SetsUp(l) -> 1 [] l.kind = "moves" -> Len(l.moves) [] OTHER -> 0
    IN  FoldLeft(LAMBDA n, l : n + added(l), 0, Body(file, i))

IsValidLine(body, n) ==
    CASE body[n].kind = "board" -> body[n].ok
      [] body[n].kind = "moves" ->
            /\ body[n].moves # <<>>
            /\ "illegal" \notin ToSet(body[n].moves)
            /\ \E k \in 1..(n - 1) : SetsUp(body[k])
      [] OTHER -> TRUE

\* A game that make_dataset can take: valid, canonical, and finished.
IsUsableGame(file, i) ==
    LET body == Body(file, i)
    IN  /\ file[i].ok /\ file[i].winner # "unknown"
        /\ \A n \in DOMAIN body : IsValidLine(body, n)
        /\ Cardinality({n \in DOMAIN body : SetsUp(body[n])}) = 1

\* Nothing that is known comes before the first game.
StartsWithGame(file) ==
    \A i \in DOMAIN file : file[i].kind # "skip" => \E j \in GameStarts(file) : j <= i

IsUsable(file) ==
    StartsWithGame(file) /\ \A i \in GameStarts(file) : IsUsableGame(file, i)

\* The games before the first line that stops the reader.  A game goes with
\* the line that ends it: if that is broken, the game is lost.
UsableGames(file) ==
    {i \in GameStarts(file) :
        /\ StartsWithGame(file)
        /\ \A j \in GameStarts(file) : j <= i => IsUsableGame(file, j)
        /\ EndOf(file, i) \in DOMAIN file => file[EndOf(file, i)].ok}
=============================================================================
