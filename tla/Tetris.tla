-------------------------------- MODULE Tetris --------------------------------
(***************************************************************************)
(* The Tetris application (src/apps/TetrisApp.c).  The board is the set of *)
(* its filled cells <<x, y>>, y growing downwards: the colour of a cell is *)
(* only drawn.  The tick counter chooses the next piece and the ticks at   *)
(* which a piece falls by itself, so it is kept modulo Period.             *)
(***************************************************************************)
EXTENDS Integers, FiniteSets

CONSTANTS
  Width, Height,   (* BOARD_WIDTH, BOARD_HEIGHT: 10 and 20                 *)
  PieceCount,      (* 7: the first ones of the table                       *)
  FallEvery,       (* 20 ticks                                             *)
  ScoreWrap        (* 2^32                                                 *)

ASSUME TetrisAssumption ==
  /\ Width \in Nat /\ Width >= 4
  /\ Height \in Nat /\ Height >= 4
  /\ PieceCount \in 1 .. 7
  /\ FallEvery \in Nat \ {0}
  /\ ScoreWrap \in Nat \ {0}

VARIABLES board, x, y, piece, rotation, score, ticks, gameOver

vars == <<board, x, y, piece, rotation, score, ticks, gameOver>>

Keys == {"left", "right", "down", "up", "enter", "none"}

(* TETROMINOES[piece][rotation]. *)
Tetrominoes == <<
  << {<<0,1>>, <<1,1>>, <<2,1>>, <<3,1>>}, {<<2,0>>, <<2,1>>, <<2,2>>, <<2,3>>},
     {<<0,2>>, <<1,2>>, <<2,2>>, <<3,2>>}, {<<1,0>>, <<1,1>>, <<1,2>>, <<1,3>>} >>,
  [r \in 1 .. 4 |-> {<<1,1>>, <<1,2>>, <<2,1>>, <<2,2>>}],
  << {<<1,0>>, <<0,1>>, <<1,1>>, <<2,1>>}, {<<1,0>>, <<1,1>>, <<2,1>>, <<1,2>>},
     {<<0,1>>, <<1,1>>, <<2,1>>, <<1,2>>}, {<<1,0>>, <<0,1>>, <<1,1>>, <<1,2>>} >>,
  [r \in 1 .. 4 |-> IF r % 2 = 1 THEN {<<1,1>>, <<2,1>>, <<0,2>>, <<1,2>>}
                                 ELSE {<<1,0>>, <<1,1>>, <<2,1>>, <<2,2>>}],
  [r \in 1 .. 4 |-> IF r % 2 = 1 THEN {<<0,1>>, <<1,1>>, <<1,2>>, <<2,2>>}
                                 ELSE {<<2,0>>, <<1,1>>, <<2,1>>, <<1,2>>}],
  << {<<0,0>>, <<0,1>>, <<1,1>>, <<2,1>>}, {<<1,0>>, <<2,0>>, <<1,1>>, <<1,2>>},
     {<<0,1>>, <<1,1>>, <<2,1>>, <<2,2>>}, {<<1,0>>, <<1,1>>, <<0,2>>, <<1,2>>} >>,
  << {<<2,0>>, <<0,1>>, <<1,1>>, <<2,1>>}, {<<1,0>>, <<1,1>>, <<1,2>>, <<2,2>>},
     {<<0,1>>, <<1,1>>, <<2,1>>, <<0,2>>}, {<<0,0>>, <<1,0>>, <<1,1>>, <<1,2>>} >> >>

CellsAt(p, r, px, py) == {<<px + c[1], py + c[2]>> : c \in Tetrominoes[p + 1][r + 1]}
Cells == CellsAt(piece, rotation, x, y)

Period == PieceCount * FallEvery
Board == (0 .. Width - 1) \X (0 .. Height - 1)
StartX == Width \div 2 - 2

-------------------------------------------------------------------------------
(* spawn_piece on the board b, t ticks after the start; a piece that has    *)
(* no room ends the game.                                                  *)
Spawn(b, t, over) ==
  /\ piece' = t % PieceCount
  /\ rotation' = 0
  /\ x' = StartX
  /\ y' = 0
  /\ gameOver' = (over \/ CellsAt(t % PieceCount, 0, StartX, 0) \cap b # {})

(* tetris_app_init. *)
Fresh ==
  /\ board' = {}
  /\ score' = 0
  /\ ticks' = 0
  /\ Spawn({}, 0, FALSE)

(* check_collision. *)
Collides(dx, dy, dr) ==
  \E c \in CellsAt(piece, (rotation + dr) % 4, x + dx, y + dy) :
    c[1] < 0 \/ c[1] >= Width \/ c[2] >= Height \/ c \in board

Full(b, row) == \A i \in 0 .. Width - 1 : <<i, row>> \in b

(* The rows above a full one move down onto it; the top row is cleared. *)
ShiftDown(b, row) ==
  {c \in b : c[2] > row} \cup {<<c[1], c[2] + 1>> : c \in {d \in b : d[2] < row}}

(* Mutant: the row that came down into a cleared one is not looked at. *)
MutRound(s) ==
  CASE s.row < 0 -> s
    [] s.row >= 0 /\ Full(s.board, s.row) ->
         [row |-> s.row - 1, board |-> ShiftDown(s.board, s.row), points |-> s.points + 100]
    [] s.row >= 0 /\ ~Full(s.board, s.row) ->
         [row |-> s.row - 1, board |-> s.board, points |-> s.points]

(* A round of the loop of lock_piece, which goes up the rows: one that is  *)
(* full is cleared and looked at again.                                    *)
Round(s) ==
  CASE s.row < 0 -> s
    [] s.row >= 0 /\ Full(s.board, s.row) ->
         [row |-> s.row, board |-> ShiftDown(s.board, s.row), points |-> s.points + 100]
    [] s.row >= 0 /\ ~Full(s.board, s.row) ->
         [row |-> s.row - 1, board |-> s.board, points |-> s.points]

(* Every round clears a row or goes up one, so this many end the loop. *)
Rounds == 2 * Height

Swept(b) ==
  LET after[n \in 0 .. Rounds] ==
        IF n = 0 THEN [row |-> Height - 1, board |-> b, points |-> 0] ELSE Round(after[n - 1])
  IN  after[Rounds]

(* lock_piece, at tick t. *)
Lock(t) ==
  LET s == Swept(board \cup Cells)
  IN  /\ board' = s.board
      /\ score' = (score + s.points) % ScoreWrap
      /\ Spawn(s.board, t, gameOver)

Move(dx, dy, dr) ==
  /\ x' = x + dx
  /\ y' = y + dy
  /\ rotation' = (rotation + dr) % 4
  /\ UNCHANGED <<board, piece, score, gameOver>>

Stay == UNCHANGED <<board, x, y, piece, rotation, score, gameOver>>

(* Mutant: a turn is checked where the piece is, not as it will be. *)
MutTry(dx, dy, dr) == IF Collides(dx, dy, 0) THEN Stay ELSE Move(dx, dy, dr)

Try(dx, dy, dr) == IF Collides(dx, dy, dr) THEN Stay ELSE Move(dx, dy, dr)

Fall(t) == IF Collides(0, 1, 0) THEN Lock(t) ELSE Move(0, 1, 0)

(* Any other key, or none, lets the piece fall at some of the ticks. *)
Gravity(t) == IF t % FallEvery = 0 THEN Fall(t) ELSE Stay

(* tetris_app_update while a game is on. *)
Play(key) ==
  /\ ~gameOver
  /\ LET t == (ticks + 1) % Period
     IN  /\ ticks' = t
         /\ CASE key = "left"  -> Try(-1, 0, 0)
              [] key = "right" -> Try(1, 0, 0)
              [] key = "down"  -> Fall(t)
              [] key = "up"    -> Try(0, 0, 1)
              [] OTHER         -> Gravity(t)

(* tetris_app_update when it is over: ENTER starts again. *)
Over(key) ==
  /\ gameOver
  /\ IF key = "enter" THEN Fresh
     ELSE ticks' = (ticks + 1) % Period /\ Stay

Init ==
  /\ board = {}
  /\ x = StartX /\ y = 0 /\ piece = 0 /\ rotation = 0
  /\ score = 0
  /\ ticks = 0
  /\ gameOver = FALSE

Next ==
  \/ \E key \in Keys : Play(key)
  \/ \E key \in Keys : Over(key)

Spec == Init /\ [][Next]_vars

-------------------------------------------------------------------------------
(* The array accesses stay in the board, and the piece lies on free cells   *)
(* exactly as long as the game is on: no key moves it into another one, and *)
(* the game does not end while the new piece still has room.               *)
PieceFits ==
  /\ Cells \subseteq Board
  /\ gameOver <=> Cells \cap board # {}

(* Clearing rows is stacking the others: each cell sinks by the number of   *)
(* full rows below it, and each full row scores 100.                       *)
Below(b, row) == Cardinality({r \in row + 1 .. Height - 1 : Full(b, r)})
Stacked(b) == {<<c[1], c[2] + Below(b, c[2])>> : c \in {d \in b : ~Full(b, d[2])}}
RowsAreStacked ==
  [][board' # board /\ ~gameOver =>
       LET b == board \cup Cells
       IN  /\ board' = Stacked(b)
           /\ score' = (score + 100 * Below(b, -1)) % ScoreWrap]_vars
===============================================================================
