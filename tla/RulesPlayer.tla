----------------------------- MODULE RulesPlayer -----------------------------
(***************************************************************************)
(* The reference the searches are held against: a player who follows the   *)
(* rules of the engine from the committed state, with no plans, no table   *)
(* and no selection.                                                       *)
(***************************************************************************)
EXTENDS TetrisEngine, ExhaustiveSearch

Position == [board |-> board, clears |-> NO_CLEARS, queue |-> queue, held |-> held]

Held(p) ==
  IF p.held = NO_PIECE
    THEN [p EXCEPT !.held = Head(p.queue), !.queue = Tail(p.queue)]
    ELSE [p EXCEPT !.held = Head(p.queue), !.queue = <<p.held>> \o Tail(p.queue)]

Dropped(p, d) ==
  LET resting == RestingBoard(p.board, Head(p.queue), d.orientation, d.x)
  IN  [board  |-> ClearLines(resting),
       clears |-> Added(p.clears, Cardinality(FullRows(resting))),
       queue  |-> Tail(p.queue),
       held   |-> p.held]

Decisions(p) == {[hold |-> FALSE, after |-> p], [hold |-> TRUE, after |-> Held(p)]}

\* Every position n moves after one of these first moves, with that move.
Played(firstMoves, n) ==
  LET starts == {[root |-> NO_PIECE, pos |-> Position]}
      nexts(line) ==
        UNION {{[root |-> [orientation |-> d.orientation, x |-> d.x, hold |-> c.hold],
                 pos  |-> Dropped(c.after, d)] :
                  d \in LegalDrops(line.pos.board, Head(c.after.queue))} :
                c \in Decisions(line.pos)}
      lines[k \in 1..n] ==
        IF k = 1
          THEN {line \in UNION {nexts(s) : s \in starts} : line.root \in firstMoves}
          ELSE UNION {{[line EXCEPT !.pos = next.pos] : next \in nexts(line)} :
                        line \in lines[k - 1]}
  IN  lines[n]
=============================================================================
