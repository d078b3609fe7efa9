---------------------------- MODULE Dodecahedron ----------------------------
(***************************************************************************)
(* The chess rules as Dodecahedron implements them: the baseline that the  *)
(* self-tests compare the chess core with (selftest/dodecahedron/).  It    *)
(* keeps the pieces of each kind in a list as well as in bitboards, and    *)
(* generates moves piece by piece.                                         *)
(*                                                                         *)
(* Names are those of the source.  pieces[c][k] is the list of the cells   *)
(* of a kind (its length is piece_count[c][k]) and list_pos the place of a *)
(* cell in its list; lists count from 1 here.                              *)
(***************************************************************************)
EXTENDS Integers, FiniteSets, Sequences, SequencesExt

NONE == 0
PAWN == 1
KNIGHT == 2
BISHOP == 3
ROOK == 4
QUEEN == 5
KING == 6
WHITE == 0
BLACK == 1
SLASH == 0
SHORT == "short"
LONG == "long"

Cells == 0..63
Colors == {WHITE, BLACK}
Kinds == 1..6
arrpos(x, y) == 8 * x + y
cell_x(c) == c \div 8
cell_y(c) == c % 8
make_piece(color, kind) == 8 * color + kind
get_color(piece) == piece \div 8
get_kind(piece) == piece % 8
other(color) == 1 - color

enpassant_row == [c \in Colors |-> IF c = WHITE THEN 3 ELSE 4]
castling_row == [c \in Colors |-> IF c = WHITE THEN 7 ELSE 0]
castling_rook_col(side) == IF side = SHORT THEN 7 ELSE 0
castling_tmp_col(side) == IF side = SHORT THEN 5 ELSE 3
castling_dst_col(side) == IF side = SHORT THEN 6 ELSE 2
castling_king_col == 4

(***************************************************************************)
(* gen_bitboards(): where the pieces go from each cell.                    *)
(***************************************************************************)
inside(x, y) == x \in 0..7 /\ y \in 0..7
steps(offsets) ==
    [c \in Cells |-> {arrpos(cell_x(c) + o[1], cell_y(c) + o[2]) :
                        o \in {p \in offsets : inside(cell_x(c) + p[1], cell_y(c) + p[2])}}]

diagonal_dirs == {<<-1, -1>>, <<-1, 1>>, <<1, -1>>, <<1, 1>>}
straight_dirs == {<<-1, 0>>, <<0, -1>>, <<0, 1>>, <<1, 0>>}
king == steps(diagonal_dirs \cup straight_dirs)
knight == steps({<<-2, -1>>, <<-2, 1>>, <<2, -1>>, <<2, 1>>,
                 <<-1, -2>>, <<-1, 2>>, <<1, -2>>, <<1, 2>>})
forward(color) == IF color = WHITE THEN -1 ELSE 1
pawn_single == [c \in Colors |-> steps({<<forward(c), 0>>})]
pawn_double == [c \in Colors |-> [cell \in Cells |->
                  IF cell_x(cell) = (IF c = WHITE THEN 6 ELSE 1)
                  THEN {arrpos(cell_x(cell) + 2 * forward(c), cell_y(cell))} ELSE {}]]
pawn_eat == [c \in Colors |-> steps({<<forward(c), -1>>, <<forward(c), 1>>})]
pawn_attacked_by == [c \in Colors |-> pawn_eat[other(c)]]
pawn_promote_from(color) == {c \in Cells : cell_x(c) = IF color = WHITE THEN 1 ELSE 6}
pawn_enpassant_src(line, color) ==
    {arrpos(enpassant_row[color], y) : y \in {line - 1, line + 1} \cap 0..7}
pawn_enpassant_move(line, color) == arrpos(IF color = WHITE THEN 2 ELSE 5, line)

\* dir_moves: the cells in a direction, nearest first.
dir_moves ==
    [d \in diagonal_dirs \cup straight_dirs |-> [c \in Cells |->
        [k \in 1..Cardinality({n \in 1..7 : inside(cell_x(c) + n * d[1], cell_y(c) + n * d[2])})
            |-> arrpos(cell_x(c) + k * d[1], cell_y(c) + k * d[2])]]]

free_castling(color, side) ==
    {arrpos(castling_row[color], y) : y \in IF side = SHORT THEN {5, 6} ELSE {1, 2, 3}}

(***************************************************************************)
(* recalc_board() and validate_board()                                     *)
(***************************************************************************)
where(board, c, k) == {i \in Cells : board[i] = make_piece(c, k)}
of_color(board, c) == UNION {where(board, c, k) : k \in Kinds}

ascending(cells) ==
    [n \in 1..Cardinality(cells) |->
        CHOOSE i \in cells : Cardinality({j \in cells : j < i}) = n - 1]

recalc_board(board, castling, side, line, counter) ==
    LET lists == [c \in Colors |-> [k \in Kinds |-> ascending(where(board, c, k))]]
    IN  [board |-> board, castling |-> castling, move_side |-> side,
         enpassant_line |-> line, move_counter |-> counter,
         pieces |-> lists,
         list_pos |-> [i \in Cells |->
             IF board[i] = NONE THEN 1
             ELSE CHOOSE n \in 1..64 :
                    LET list == lists[get_color(board[i])][get_kind(board[i])]
                    IN  n \in DOMAIN list /\ list[n] = i],
         all_piece |-> of_color(board, WHITE) \cup of_color(board, BLACK),
         col_piece |-> [c \in Colors |-> of_color(board, c)],
         piece_bit |-> [c \in Colors |-> [k \in Kinds |-> where(board, c, k)]]]

(***************************************************************************)
(* is_attacked(): by a step, or by the nearest piece in a direction.       *)
(***************************************************************************)
nearest(b, d, cell) ==
    LET ray == dir_moves[d][cell]
        hits == {i \in DOMAIN ray : ray[i] \in b.all_piece}
    IN  IF hits = {} THEN {} ELSE {ray[CHOOSE i \in hits : \A j \in hits : i <= j]}

is_attacked(b, col, cell) ==
    LET bits == b.piece_bit[col]
    IN  \/ bits[PAWN] \cap pawn_attacked_by[col][cell] # {}
        \/ bits[KNIGHT] \cap knight[cell] # {}
        \/ bits[KING] \cap king[cell] # {}
        \/ \E d \in diagonal_dirs :
              (bits[BISHOP] \cup bits[QUEEN]) \cap nearest(b, d, cell) # {}
        \/ \E d \in straight_dirs :
              (bits[ROOK] \cup bits[QUEEN]) \cap nearest(b, d, cell) # {}

is_opponent_king_attacked(b) ==
    is_attacked(b, b.move_side, b.pieces[other(b.move_side)][KING][1])
is_check(b) == is_attacked(b, other(b.move_side), b.pieces[b.move_side][KING][1])

\* The corrections validate_board() makes once it has accepted the pieces.
fix_board(b) ==
    [b EXCEPT
        !.castling = {f \in @ :
            /\ b.board[arrpos(castling_row[f[1]], castling_king_col)] = make_piece(f[1], KING)
            /\ b.board[arrpos(castling_row[f[1]], castling_rook_col(f[2]))]
                  = make_piece(f[1], ROOK)},
        !.enpassant_line =
            IF @ >= 0 /\ b.board[arrpos(enpassant_row[b.move_side], @)]
                            # make_piece(other(b.move_side), PAWN)
            THEN -1 ELSE @]

validate_board(b) ==
    /\ \A c \in Colors : Len(b.pieces[c][KING]) = 1
    /\ \A c \in Colors : Cardinality(b.col_piece[c]) <= 16
    /\ \A c \in Colors : \A i \in b.piece_bit[c][PAWN] : cell_x(i) \notin {0, 7}
    /\ ~is_opponent_king_attacked(b)

(***************************************************************************)
(* load_from_fen(), of a FEN given field by field; a token of the cells is *)
(* a piece, -n for n empty cells, or SLASH.  Rows are not checked for their  *)
(* length: only a piece put outside the board is an error.                 *)
(***************************************************************************)
read_token(r, token) ==
    CASE ~r.ok -> r
      [] r.ok /\ token = SLASH -> [r EXCEPT !.x = @ + 1, !.y = 0]
      [] r.ok /\ token < 0 -> [r EXCEPT !.y = @ - token]
      [] r.ok /\ token > 0 ->
           IF ~inside(r.x, r.y) THEN [r EXCEPT !.ok = FALSE]
           ELSE [r EXCEPT !.board[arrpos(r.x, r.y)] = token, !.y = @ + 1]

load_from_fen(tokens, side, castling, line, counter) ==
    LET r == FoldLeft(read_token,
                      [x |-> 0, y |-> 0, ok |-> TRUE, board |-> [i \in Cells |-> NONE]],
                      tokens)
    IN  fix_board(recalc_board(r.board, castling, side, line, counter))

\* board_ok(): the lists and bitboards agree with the cells.
board_ok(b) ==
    /\ \A c \in Colors : \A k \in Kinds :
          /\ Len(b.pieces[c][k]) = Cardinality(where(b.board, c, k))
          /\ b.piece_bit[c][k] = where(b.board, c, k)
    /\ \A c \in Colors : b.col_piece[c] = of_color(b.board, c)
    /\ b.all_piece = of_color(b.board, WHITE) \cup of_color(b.board, BLACK)
    /\ \A i \in Cells : b.board[i] # NONE =>
          LET list == b.pieces[get_color(b.board[i])][get_kind(b.board[i])]
          IN  /\ b.list_pos[i] <= Len(list)
              /\ list[b.list_pos[i]] = i

(***************************************************************************)
(* change_piece(): take a cell out of its list by moving the last entry    *)
(* into its place, then append it to the list of its new piece.            *)
(***************************************************************************)
del_val(b, cell) ==
    IF b.board[cell] = NONE THEN b
    ELSE LET k == get_kind(b.board[cell])
             c == get_color(b.board[cell])
             list == b.pieces[c][k]
             lp == b.list_pos[cell]
             last == list[Len(list)]
         IN  [b EXCEPT
                !.pieces[c][k] = Front([list EXCEPT ![lp] = last]),
                !.list_pos[last] = lp,
                !.all_piece = @ \ {cell},
                !.col_piece[c] = @ \ {cell},
                !.piece_bit[c][k] = @ \ {cell}]

push_val(b, cell, new_val) ==
    IF new_val = NONE THEN b
    ELSE LET k == get_kind(new_val)
             c == get_color(new_val)
         IN  [b EXCEPT
                !.pieces[c][k] = Append(@, cell),
                !.list_pos[cell] = Len(b.pieces[c][k]) + 1,
                !.all_piece = @ \cup {cell},
                !.col_piece[c] = @ \cup {cell},
                !.piece_bit[c][k] = @ \cup {cell}]

change_piece(b, cell, new_val) ==
    [push_val(del_val(b, cell), cell, new_val) EXCEPT !.board[cell] = new_val]

(***************************************************************************)
(* Moves.                                                                  *)
(***************************************************************************)
move(src, dst, promote, flags, double_move) ==
    [src |-> src, dst |-> dst, promote |-> promote, flags |-> flags,
     double_move |-> double_move]

empty_move == move(0, 0, NONE, "null", FALSE)
enpassant_eat_cell(side, m) == IF side = WHITE THEN m.dst + 8 ELSE m.dst - 8
castling_side(flags) == IF flags = "short_castling" THEN SHORT ELSE LONG

persistence(b, m) ==
    [castling |-> b.castling, enpassant_line |-> b.enpassant_line,
     move_counter |-> b.move_counter, piece |-> b.board[m.dst]]

\* The flags a simple move takes away: those of the corners and king cells it touches.
touched(castling, m) ==
    {f \in castling :
        {m.src, m.dst} \cap {arrpos(castling_row[f[1]], castling_king_col),
                             arrpos(castling_row[f[1]], castling_rook_col(f[2]))} # {}}

make_simple(b, m) ==
    LET piece == IF m.promote # NONE THEN m.promote ELSE b.board[m.src]
        moved == change_piece(change_piece(b, m.dst, piece), m.src, NONE)
    IN  [moved EXCEPT !.castling = @ \ touched(@, m)]

make_enpassant(b, m) ==
    change_piece(change_piece(change_piece(b, m.dst, b.board[m.src]), m.src, NONE),
                 enpassant_eat_cell(b.move_side, m), NONE)

make_castling(b, m) ==
    LET side == castling_side(m.flags)
        row == castling_row[b.move_side]
        king_moved == change_piece(change_piece(b, m.dst, b.board[m.src]), m.src, NONE)
        rook_moved == change_piece(
            change_piece(king_moved, arrpos(row, castling_tmp_col(side)),
                         make_piece(b.move_side, ROOK)),
            arrpos(row, castling_rook_col(side)), NONE)
    IN  [rook_moved EXCEPT !.castling = {f \in @ : f[1] # b.move_side}]

resets_counter(b, m) ==
    \/ m.flags = "none" /\ (get_kind(b.board[m.src]) = PAWN \/ b.board[m.dst] # NONE)
    \/ m.flags = "enpassant"

make_move(b, m) ==
    LET made == CASE m.flags = "none" -> make_simple(b, m)
                  [] m.flags = "enpassant" -> make_enpassant(b, m)
                  [] m.flags \in {"short_castling", "long_castling"} -> make_castling(b, m)
                  [] m.flags = "null" -> b
    IN  [made EXCEPT
            !.enpassant_line = IF m.double_move THEN cell_y(m.dst) ELSE -1,
            !.move_side = other(@),
            !.move_counter = IF resets_counter(b, m) THEN 0 ELSE @ + 1]

unmake_move(after, m, p) ==
    LET b == [after EXCEPT !.castling = p.castling, !.enpassant_line = p.enpassant_line,
                           !.move_counter = p.move_counter, !.move_side = other(@)]
        c == b.move_side
        row == castling_row[c]
        side == castling_side(m.flags)
        piece == IF m.promote # NONE THEN make_piece(c, PAWN) ELSE b.board[m.dst]
        lifted == change_piece(change_piece(b, m.src, b.board[m.dst]), m.dst, NONE)
    IN  CASE m.flags = "none" ->
               change_piece(change_piece(b, m.src, piece), m.dst, p.piece)
          [] m.flags = "enpassant" ->
               change_piece(lifted, enpassant_eat_cell(c, m), make_piece(other(c), PAWN))
          [] m.flags \in {"short_castling", "long_castling"} ->
               change_piece(change_piece(lifted, arrpos(row, castling_tmp_col(side)), NONE),
                            arrpos(row, castling_rook_col(side)), make_piece(c, ROOK))
          [] m.flags = "null" -> b

(***************************************************************************)
(* gen_moves()                                                             *)
(***************************************************************************)
pieces_of(b, k) == Range(b.pieces[b.move_side][k])

push_pawn(b, src, dst) ==
    IF src \in pawn_promote_from(b.move_side)
    THEN {move(src, dst, make_piece(b.move_side, k), "none", FALSE) : k \in KNIGHT..QUEEN}
    ELSE {move(src, dst, NONE, "none", FALSE)}

gen_pawn(b, src) ==
    LET c == b.move_side
        single == pawn_single[c][src] \ b.all_piece
        double == IF single = {} THEN {} ELSE pawn_double[c][src] \ b.all_piece
        eats == pawn_eat[c][src] \cap b.col_piece[other(c)]
        line == b.enpassant_line
        enpassant == /\ line >= 0
                     /\ src \in pawn_enpassant_src(line, c)
                     /\ arrpos(enpassant_row[c], line) \in b.piece_bit[other(c)][PAWN]
    IN  (UNION {push_pawn(b, src, dst) : dst \in single \cup eats})
          \cup {move(src, dst, NONE, "none", TRUE) : dst \in double}
          \cup IF enpassant
               THEN {move(src, pawn_enpassant_move(line, c), NONE, "enpassant", FALSE)}
               ELSE {}

gen_steps(b, src, targets) ==
    {move(src, dst, NONE, "none", FALSE) : dst \in targets \ b.col_piece[b.move_side]}

\* Along a ray through empty cells, and onto the first other one if it is not ours.
gen_dir(b, src, d) ==
    LET ray == dir_moves[d][src]
    IN  gen_steps(b, src, {ray[i] : i \in {n \in DOMAIN ray :
                              \A j \in 1..(n - 1) : ray[j] \notin b.all_piece}})

gen_castling(b, side) ==
    LET c == b.move_side
        row == castling_row[c]
    IN  IF /\ <<c, side>> \in b.castling
           /\ b.all_piece \cap free_castling(c, side) = {}
           /\ ~is_attacked(b, other(c), arrpos(row, castling_king_col))
           /\ ~is_attacked(b, other(c), arrpos(row, castling_tmp_col(side)))
        THEN {move(arrpos(row, castling_king_col), arrpos(row, castling_dst_col(side)), NONE,
                   IF side = SHORT THEN "short_castling" ELSE "long_castling", FALSE)}
        ELSE {}

gen_moves(b) ==
    (UNION {gen_pawn(b, src) : src \in pieces_of(b, PAWN)})
      \cup (UNION {gen_steps(b, src, knight[src]) : src \in pieces_of(b, KNIGHT)})
      \cup (UNION {gen_dir(b, src, d) :
                     src \in pieces_of(b, BISHOP) \cup pieces_of(b, QUEEN), d \in diagonal_dirs})
      \cup (UNION {gen_dir(b, src, d) :
                     src \in pieces_of(b, ROOK) \cup pieces_of(b, QUEEN), d \in straight_dirs})
      \cup LET src == b.pieces[b.move_side][KING][1] IN gen_steps(b, src, king[src])
      \cup gen_castling(b, SHORT)
      \cup gen_castling(b, LONG)

\* move_to_str(), with the text of a move as two cells and a promotion.
move_to_str(m) == <<m.src, m.dst, get_kind(m.promote)>>

\* The legal moves as text (tryMakeMove() of the interface keeps those whose
\* making leaves the mover's king unattacked).
legal_texts(b) ==
    {move_to_str(m) : m \in {n \in gen_moves(b) : ~is_opponent_king_attacked(make_move(b, n))}}
=============================================================================
