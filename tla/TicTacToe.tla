------------------------------ MODULE TicTacToe ------------------------------
(***************************************************************************)
(* leetcode/medium/348.cpp: who wins is counted, per player, in rows,      *)
(* columns and the two diagonals.  The callers make valid moves, and none  *)
(* after a win.                                                            *)
(***************************************************************************)
EXTENDS Integers, FiniteSets

CONSTANT N   \* the side of the board

ASSUME BoardAssumption == N \in Nat \ {0}

VARIABLES
    players,   \* the counters of each player
    board,     \* the cells each player has taken
    winner     \* what the last move returned

ticVars == <<players, board, winner>>

Side == 0 .. N - 1
Cells == Side \X Side
NoCounts == [rows |-> [i \in Side |-> 0], cols |-> [i \in Side |-> 0], diagonal |-> 0, antidiag |-> 0]

TicInit ==
    /\ players = [p \in 1 .. 2 |-> NoCounts]
    /\ board = [p \in 1 .. 2 |-> {}]
    /\ winner = 0

\* Mutant: the antidiagonal counts only on the diagonal.
PlacedOnDiagonal(player, row, col) ==
    [player EXCEPT !.rows[row] = @ + 1, !.cols[col] = @ + 1,
                   !.diagonal = IF row = col THEN @ + 1 ELSE @,
                   !.antidiag = IF row = col /\ row + col = N - 1 THEN @ + 1 ELSE @]

\* Player::place; the else after the second if is the other of two ways to
\* count the antidiagonal.
Placed(player, row, col) ==
    [player EXCEPT !.rows[row] = @ + 1, !.cols[col] = @ + 1,
                   !.diagonal = IF row = col THEN @ + 1 ELSE @,
                   !.antidiag = IF row + col = N - 1 THEN @ + 1 ELSE @]

Wins(player, row, col) == N \in {player.rows[row], player.cols[col], player.diagonal, player.antidiag}

MoveTo(p, row, col) ==
    /\ winner = 0 /\ <<row, col>> \notin board[1] \cup board[2]
    /\ players' = [players EXCEPT ![p] = Placed(@, row, col)]
    /\ board' = [board EXCEPT ![p] = @ \cup {<<row, col>>}]
    /\ winner' = IF Wins(players'[p], row, col) THEN p ELSE 0

\* The players move in turn.
TicNext ==
    \E p \in 1 .. 2, row, col \in Side :
       Cardinality(board[p]) + (p - 1) = Cardinality(board[3 - p]) /\ MoveTo(p, row, col)

Row(i)       == {i} \X Side
Column(j)    == Side \X {j}
Diagonal     == {cell \in Cells : cell[1] = cell[2]}
AntiDiagonal == {cell \in Cells : cell[1] + cell[2] = N - 1}

Lines == {Row(i) : i \in Side} \cup {Column(j) : j \in Side} \cup {Diagonal, AntiDiagonal}

\* The move that completes a line, and no other, returns its player.
WinnerHasLine ==
    \A p \in 1 .. 2 : winner = p <=> \E line \in Lines : line \subseteq board[p]
=============================================================================
