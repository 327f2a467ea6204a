SPECIFICATION StockSpec
CONSTANTS
  Returners = {c1, c2}
  Orders = {w1, w2}
  Quantities = {1, 2}
  MaxStock = 3
  MaxRows = 2
  NoRow = NoRow
SYMMETRY Symmetry
CONSTRAINT Bounded
INVARIANTS
  BooksBalance
  NeverOverdrawn
