--------------------- MODULE MaintenanceGenerationProofs ---------------------
(***************************************************************************)
(* For any numbers of backend instances, requests, occurrences and         *)
(* failures: an occurrence never has two work orders, none is marked       *)
(* generated or completed without one, and orders, occurrences and         *)
(* workflows find each other.                                              *)
(*                                                                         *)
(* The second needs to know what a process that is about to mark an        *)
(* occurrence has seen: an order for it, which nothing ever removes.  The  *)
(* third needs to know that a job that kept its lock is alone with its     *)
(* list, and has an order in work for the first of it only.                *)
(***************************************************************************)
EXTENDS MaintenanceGeneration, SequenceTheorems, FiniteSetTheorems, TLAPS

\* A process between a read and its write has a row in hand.
RowInHand(p) ==
  pc[p] \in {"next", "mark", "resolve", "insert", "workflow", "link", "skip"} => todo[p] # <<>>

\* A listed row is marked only when an order was found.
MarkedHasOrder(p) == pc[p] = "mark" => OrdersFor(Current(p)) # {}

\* The order a process works on is one that was inserted.
MineIsAnOrder(p) ==
  pc[p] \in {"workflow", "link"} => Mine(p) \in OrderIds /\ orders[Mine(p)] # NoOrder

Local(p) == RowInHand(p) /\ MarkedHasOrder(p) /\ MineIsAnOrder(p)

IInv ==
  /\ TypeOK
  /\ \A p \in Processes : Local(p)
  /\ OneOrderPerOccurrence
  /\ NothingGeneratedForFree

-----------------------------------------------------------------------------
(* What steps have in common *)

\* Only process p moves.
Moves(p) ==
  /\ pc' \in [Processes -> Places]
  /\ todo' \in [Processes -> Seq(Item)]
  /\ \A q \in Processes \ {p} : pc'[q] = pc[q] /\ todo'[q] = todo[q]

\* Orders stay, for the occurrence they were made for.
Kept ==
  /\ orders' \in [OrderIds -> Order \union {NoOrder}]
  /\ \A k \in OrderIds :
       orders[k] # NoOrder => orders'[k] # NoOrder /\ orders'[k].for = orders[k].for

LEMMA InHand ==
  ASSUME TypeOK, NEW p \in Processes, todo[p] # <<>>
  PROVE  /\ todo[p][1] \in Item
         /\ Current(p) \in Occurrences
         /\ todo[p][1].row \in Row
         /\ Mine(p) \in OrderIds \union {NoOrder}
         /\ Tail(todo[p]) \in Seq(Item)
         /\ Len(todo[p]) # 1 => Tail(todo[p]) # <<>>
<1>1. todo[p] \in Seq(Item) BY DEF TypeOK
<1>2. Len(todo[p]) \in Nat /\ Len(todo[p]) # 0 BY <1>1, EmptySeq
<1>3. todo[p][1] \in Item BY <1>1, <1>2, ElementOfSeq
<1>4. /\ Tail(todo[p]) \in Seq(Item)
      /\ Len(Tail(todo[p])) = Len(todo[p]) - 1
  BY <1>1, HeadTailProperties
<1>5. Len(todo[p]) # 1 => Tail(todo[p]) # <<>>
  <2>1. Len(<< >>) = 0 BY EmptySeq
  <2>2. Len(todo[p]) # 1 => Len(Tail(todo[p])) # 0 BY <1>2, <1>4
  <2>3. QED BY <2>1, <2>2
<1>6. QED BY <1>3, <1>4, <1>5 DEF Item, Row, Current, Mine

LEMMA OthersKept ==
  ASSUME IInv, NEW p \in Processes, Moves(p), Kept, Local(p)'
  PROVE  \A q \in Processes : Local(q)'
<1>1. SUFFICES ASSUME NEW q \in Processes, q # p PROVE Local(q)'
  OBVIOUS
<1>2. pc'[q] = pc[q] /\ todo'[q] = todo[q] BY <1>1 DEF Moves
<1>3. Local(q) BY DEF IInv
<1>4. RowInHand(q)' BY <1>2, <1>3 DEF RowInHand, Local
<1>5. MarkedHasOrder(q)'
  BY <1>2, <1>3 DEF MarkedHasOrder, Local, OrdersFor, Current, Kept
<1>6. MineIsAnOrder(q)'
  BY <1>2, <1>3 DEF MineIsAnOrder, Local, Mine, Kept
<1>7. QED BY <1>4, <1>5, <1>6 DEF Local

LEMMA Assemble ==
  ASSUME IInv, NEW p \in Processes, Moves(p), Local(p)', Kept,
         OneOrderPerOccurrence', NothingGeneratedForFree',
         occurrences' \in [Occurrences -> Row],
         schedule' \in {"draft", "active", "paused", "archived"},
         lock' \in Workers \union {Nobody},
         failures' \in 0 .. MaxFailures,
         overlapped' \in BOOLEAN
  PROVE  IInv'
<1>1. \A q \in Processes : Local(q)' BY OthersKept
<1>2. TypeOK' BY DEF TypeOK, Moves, Kept
<1>3. QED BY <1>1, <1>2 DEF IInv

\* A step that writes neither orders nor occurrences.
LEMMA Quiet ==
  ASSUME IInv, NEW p \in Processes, Moves(p), Local(p)',
         UNCHANGED <<orders, occurrences>>,
         schedule' \in {"draft", "active", "paused", "archived"},
         lock' \in Workers \union {Nobody},
         failures' \in 0 .. MaxFailures,
         overlapped' \in BOOLEAN
  PROVE  IInv'
<1>1. Kept BY DEF Kept, IInv, TypeOK
<1>2. OneOrderPerOccurrence' BY DEF IInv, OneOrderPerOccurrence, OrdersFor
<1>3. NothingGeneratedForFree' BY DEF IInv, NothingGeneratedForFree, OrdersFor
<1>4. occurrences' \in [Occurrences -> Row] BY DEF IInv, TypeOK
<1>5. QED BY <1>1, <1>2, <1>3, <1>4, Assemble

LEMMA FinishStep ==
  ASSUME TypeOK, NEW p \in Processes, Finish(p)
  PROVE  Moves(p) /\ Local(p)' /\ lock' \in Workers \union {Nobody}
<1>1. << >> \in Seq(Item) BY EmptySeq
<1>2. Moves(p) BY <1>1 DEF Finish, GoTo, TypeOK, Moves, Places
<1>3. pc'[p] = "idle" BY DEF Finish, GoTo, TypeOK
<1>4. Local(p)' BY <1>3 DEF Local, RowInHand, MarkedHasOrder, MineIsAnOrder
<1>5. QED BY <1>2, <1>4 DEF Finish, TypeOK

LEMMA AdvanceStep ==
  ASSUME TypeOK, NEW p \in Processes, todo[p] # <<>>, Advance(p)
  PROVE  Moves(p) /\ Local(p)' /\ lock' \in Workers \union {Nobody}
<1>1. CASE Len(todo[p]) = 1
  BY <1>1, FinishStep DEF Advance
<1>2. CASE Len(todo[p]) # 1
  <2>1. Tail(todo[p]) \in Seq(Item) /\ Tail(todo[p]) # <<>> BY <1>2, InHand
  <2>2. Moves(p) BY <1>2, <2>1 DEF Advance, GoTo, TypeOK, Moves, Places
  <2>3. pc'[p] = "next" /\ todo'[p] = Tail(todo[p])
    BY <1>2 DEF Advance, GoTo, TypeOK
  <2>4. Local(p)' BY <2>1, <2>3 DEF Local, RowInHand, MarkedHasOrder, MineIsAnOrder
  <2>5. QED BY <1>2, <2>2, <2>4 DEF Advance, TypeOK
<1>3. QED BY <1>1, <1>2

\* A process that goes to a place where it needs nothing it has not got.
LEMMA GoToStep ==
  ASSUME TypeOK, NEW p \in Processes, NEW place \in Places, GoTo(p, place), UNCHANGED todo
  PROVE  Moves(p) /\ pc'[p] = place /\ todo'[p] = todo[p]
BY DEF GoTo, TypeOK, Moves

\* A process gets rows to work on.
LEMMA TakeStep ==
  ASSUME TypeOK, NEW p \in Processes, NEW place \in {"next", "resolve", "skip"}, GoTo(p, place),
         NEW rows \in Seq(Item), rows # <<>>, todo' = [todo EXCEPT ![p] = rows]
  PROVE  Moves(p) /\ Local(p)'
<1>1. Moves(p) BY DEF GoTo, TypeOK, Moves, Places
<1>2. pc'[p] = place /\ todo'[p] = rows BY DEF GoTo, TypeOK
<1>3. QED BY <1>1, <1>2 DEF Local, RowInHand, MarkedHasOrder, MineIsAnOrder

-----------------------------------------------------------------------------
(* The steps *)

LEMMA InitInv == Init => IInv
<1>1. SUFFICES ASSUME Init PROVE IInv
  OBVIOUS
<1>2. TypeOK
  <2>1. overlapped \in BOOLEAN BY <1>1, Zenon DEF Init
  <2>2. todo \in [Processes -> Seq(Item)]
    <3>1. << >> \in Seq(Item) BY EmptySeq
    <3>2. QED BY <1>1, <3>1 DEF Init
  <2>3. pc \in [Processes -> Places] BY <1>1 DEF Init, Places
  <2>4. occurrences \in [Occurrences -> Row] BY <1>1 DEF Init, Row
  <2>5. orders \in [OrderIds -> Order \union {NoOrder}] BY <1>1 DEF Init
  <2>6. schedule \in {"draft", "active", "paused", "archived"} /\ lock \in Workers \union {Nobody}
    BY <1>1 DEF Init
  <2>7. failures \in 0 .. MaxFailures BY <1>1, CountAssumption DEF Init
  <2>8. QED BY <2>1, <2>2, <2>3, <2>4, <2>5, <2>6, <2>7 DEF TypeOK
<1>3. \A p \in Processes : Local(p)
  BY <1>1 DEF Init, Local, RowInHand, MarkedHasOrder, MineIsAnOrder
<1>4. OneOrderPerOccurrence BY <1>1 DEF Init, OneOrderPerOccurrence, OrdersFor
<1>5. NothingGeneratedForFree BY <1>1 DEF Init, NothingGeneratedForFree
<1>6. QED BY <1>2, <1>3, <1>4, <1>5 DEF IInv

\* The job lists what is due.
LEMMA BeginInv == ASSUME IInv, NEW w \in Workers, Begin(w) PROVE IInv'
<1>1. TypeOK /\ w \in Processes BY DEF IInv, Processes
<1>2. Cardinality(Due) \in Nat \ {0} /\ Due \subseteq Occurrences
  <2>1. Due \subseteq Occurrences BY DEF Due
  <2>2. IsFiniteSet(Occurrences) BY CountAssumption, FS_Interval DEF Occurrences
  <2>3. IsFiniteSet(Due) BY <2>1, <2>2, FS_Subset
  <2>4. Due # {} BY DEF Begin
  <2>5. QED BY <2>1, <2>3, <2>4, FS_CardinalityType, FS_EmptySet
<1>3. PICK due \in ByPlannedStart :
        todo' = [todo EXCEPT ![w] =
                   [i \in DOMAIN due |-> [at |-> due[i], row |-> occurrences[due[i]]]]]
  BY DEF Begin
<1> DEFINE n == Cardinality(Due)
           rows == [i \in DOMAIN due |-> [at |-> due[i], row |-> occurrences[due[i]]]]
<1>4. due \in [1 .. n -> Due] BY DEF ByPlannedStart
<1>5. rows \in Seq(Item) /\ rows # <<>>
  <2>1. \A i \in 1 .. n : due[i] \in Occurrences /\ occurrences[due[i]] \in Row
    BY <1>1, <1>2, <1>4 DEF TypeOK
  <2>2. rows \in [1 .. n -> Item] BY <1>4, <2>1 DEF Item
  <2>3. n \in Nat \ {0} BY <1>2
  <2> HIDE DEF rows, n
  <2>4. rows \in Seq(Item) /\ Len(rows) = n BY <2>2, <2>3
  <2>5. Len(<< >>) = 0 BY EmptySeq
  <2>6. QED BY <2>3, <2>4, <2>5
<1>6. todo' = [todo EXCEPT ![w] = rows] BY <1>3
<1> HIDE DEF rows
<1>7. Moves(w) /\ Local(w)' BY <1>1, <1>5, <1>6, TakeStep DEF Begin
<1>8. QED BY <1>1, <1>7, Quiet DEF Begin, TypeOK

LEMMA LookUpInv == ASSUME IInv, NEW w \in Workers, LookUp(w) PROVE IInv'
<1>1. TypeOK /\ w \in Processes /\ Local(w) BY DEF IInv, Processes
<1>2. todo[w] # <<>> BY <1>1 DEF LookUp, At, Local, RowInHand
<1>3. CASE CodeTaken(Current(w))
  <2>1. GoTo(w, "mark") /\ UNCHANGED todo BY <1>3 DEF LookUp
  <2>2. Moves(w) /\ pc'[w] = "mark" /\ todo'[w] = todo[w]
    BY <1>1, <2>1, GoToStep DEF Places
  <2>3. OrdersFor(Current(w)) # {} BY <1>3 DEF CodeTaken
  <2>4. (OrdersFor(Current(w)) # {})' BY <2>2, <2>3 DEF LookUp, OrdersFor, Current
  <2>5. Local(w)' BY <1>2, <2>2, <2>4 DEF Local, RowInHand, MarkedHasOrder, MineIsAnOrder
  <2>6. QED BY <1>1, <2>2, <2>5, Quiet DEF LookUp, TypeOK
<1>4. CASE ~CodeTaken(Current(w))
  <2>1. GoTo(w, "resolve") /\ UNCHANGED todo BY <1>4 DEF LookUp
  <2>2. Moves(w) /\ pc'[w] = "resolve" /\ todo'[w] = todo[w]
    BY <1>1, <2>1, GoToStep DEF Places
  <2>3. Local(w)' BY <1>2, <2>2 DEF Local, RowInHand, MarkedHasOrder, MineIsAnOrder
  <2>4. QED BY <1>1, <2>2, <2>3, Quiet DEF LookUp, TypeOK
<1>5. QED BY <1>3, <1>4

\* Saving a row for an occurrence that has an order, or as skipped.
LEMMA MarkInv == ASSUME IInv, NEW w \in Workers, Mark(w) PROVE IInv'
<1>1. TypeOK /\ w \in Processes /\ Local(w) BY DEF IInv, Processes
<1>2. todo[w] # <<>> BY <1>1 DEF Mark, At, Local, RowInHand
<1>3. Current(w) \in Occurrences /\ todo[w][1].row \in Row BY <1>1, <1>2, InHand
<1>4. Moves(w) /\ Local(w)' /\ lock' \in Workers \union {Nobody}
  BY <1>1, <1>2, AdvanceStep DEF Mark
<1>5. [todo[w][1].row EXCEPT !.status = "generated"] \in Row BY <1>3 DEF Row
<1>6. occurrences' \in [Occurrences -> Row] BY <1>1, <1>5 DEF Mark, TypeOK
<1>7. Kept BY <1>1 DEF Mark, Kept, TypeOK
<1>8. OneOrderPerOccurrence' BY DEF Mark, IInv, OneOrderPerOccurrence, OrdersFor
<1>9. NothingGeneratedForFree'
  <2>1. OrdersFor(Current(w)) # {} BY <1>1 DEF Mark, At, Local, MarkedHasOrder
  <2>2. \A o \in Occurrences : o # Current(w) => occurrences'[o] = occurrences[o]
    BY <1>1 DEF Mark, TypeOK
  <2>3. \A o \in Occurrences : OrdersFor(o)' = OrdersFor(o) BY DEF Mark, OrdersFor
  <2>4. QED BY <2>1, <2>2, <2>3 DEF IInv, NothingGeneratedForFree
<1>10. QED BY <1>1, <1>4, <1>6, <1>7, <1>8, <1>9, Assemble DEF Mark, TypeOK

LEMMA SkipInv == ASSUME IInv, NEW c \in Callers, Skip(c) PROVE IInv'
<1>1. TypeOK /\ c \in Processes /\ Local(c) BY DEF IInv, Processes
<1>2. todo[c] # <<>> BY <1>1 DEF Skip, At, Local, RowInHand
<1>3. Current(c) \in Occurrences /\ todo[c][1].row \in Row BY <1>1, <1>2, InHand
<1>4. Moves(c) /\ Local(c)' /\ lock' \in Workers \union {Nobody}
  BY <1>1, <1>2, AdvanceStep DEF Skip
<1>5. /\ [todo[c][1].row EXCEPT !.status = "skipped"] \in Row
      /\ [todo[c][1].row EXCEPT !.status = "skipped"].status = "skipped"
  BY <1>3 DEF Row
<1>6. occurrences' \in [Occurrences -> Row] BY <1>1, <1>5 DEF Skip, TypeOK
<1>7. Kept BY <1>1 DEF Skip, Kept, TypeOK
<1>8. OneOrderPerOccurrence' BY DEF Skip, IInv, OneOrderPerOccurrence, OrdersFor
<1>9. NothingGeneratedForFree'
  <2>1. \A o \in Occurrences :
          occurrences'[o].status = "skipped" \/ occurrences'[o] = occurrences[o]
    BY <1>1, <1>3, <1>5 DEF Skip, TypeOK
  <2>2. \A o \in Occurrences : OrdersFor(o)' = OrdersFor(o) BY DEF Skip, OrdersFor
  <2>3. QED BY <2>1, <2>2 DEF IInv, NothingGeneratedForFree
<1>10. QED BY <1>1, <1>4, <1>6, <1>7, <1>8, <1>9, Assemble DEF Skip, TypeOK

\* Handlers that get rows to work on.
LEMMA RequestOrderInv ==
  ASSUME IInv, NEW c \in Callers, NEW o \in Occurrences, RequestOrder(c, o) PROVE IInv'
<1>1. TypeOK /\ c \in Processes BY DEF IInv, Processes
<1>2. [at |-> o, row |-> occurrences[o]] \in Item BY <1>1 DEF TypeOK, Item
<1> DEFINE rows == <<[at |-> o, row |-> occurrences[o]]>>
<1>3. rows \in Seq(Item) /\ rows # <<>> BY <1>2
<1>4. todo' = [todo EXCEPT ![c] = rows] BY DEF RequestOrder
<1> HIDE DEF rows
<1>5. Moves(c) /\ Local(c)' BY <1>1, <1>3, <1>4, TakeStep DEF RequestOrder
<1>6. QED BY <1>1, <1>5, Quiet DEF RequestOrder, TypeOK

LEMMA ReadToSkipInv ==
  ASSUME IInv, NEW c \in Callers, NEW o \in Occurrences, ReadToSkip(c, o) PROVE IInv'
<1>1. TypeOK /\ c \in Processes BY DEF IInv, Processes
<1>2. [at |-> o, row |-> occurrences[o]] \in Item BY <1>1 DEF TypeOK, Item
<1> DEFINE rows == <<[at |-> o, row |-> occurrences[o]]>>
<1>3. rows \in Seq(Item) /\ rows # <<>> BY <1>2
<1>4. todo' = [todo EXCEPT ![c] = rows] BY DEF ReadToSkip
<1> HIDE DEF rows
<1>5. Moves(c) /\ Local(c)' BY <1>1, <1>3, <1>4, TakeStep DEF ReadToSkip
<1>6. QED BY <1>1, <1>5, Quiet DEF ReadToSkip, TypeOK

LEMMA ResolveInv == ASSUME IInv, NEW p \in Processes, Resolve(p) PROVE IInv'
<1>1. TypeOK /\ Local(p) BY DEF IInv
<1>2. todo[p] # <<>> BY <1>1 DEF Resolve, At, Local, RowInHand
<1>3. CASE Finish(p)
  <2>1. Moves(p) /\ Local(p)' /\ lock' \in Workers \union {Nobody}
    BY <1>1, <1>3, FinishStep
  <2>2. QED BY <1>1, <2>1, Quiet DEF Resolve, TypeOK
<1>4. CASE GoTo(p, "insert") /\ UNCHANGED <<lock, todo>>
  <2>1. Moves(p) /\ pc'[p] = "insert" /\ todo'[p] = todo[p]
    BY <1>1, <1>4, GoToStep DEF Places
  <2>2. Local(p)' BY <1>2, <2>1 DEF Local, RowInHand, MarkedHasOrder, MineIsAnOrder
  <2>3. QED BY <1>1, <1>4, <2>1, <2>2, Quiet DEF Resolve, TypeOK
<1>5. QED BY <1>3, <1>4 DEF Resolve

\* The transaction that makes an order: the indexes allow it only where there
\* is none.
LEMMA InsertInv == ASSUME IInv, NEW p \in Processes, Insert(p) PROVE IInv'
<1>1. TypeOK /\ Local(p) BY DEF IInv
<1>2. todo[p] # <<>> BY <1>1 DEF Insert, At, Local, RowInHand
<1> DEFINE o == Current(p)
           k == FreeOrder
<1>3. o \in Occurrences /\ Tail(todo[p]) \in Seq(Item) BY <1>1, <1>2, InHand
<1>4. CASE ~Insertable(p, o)
  <2>1. Finish(p) /\ UNCHANGED <<orders, occurrences>> BY <1>4 DEF Insert
  <2>2. Moves(p) /\ Local(p)' /\ lock' \in Workers \union {Nobody}
    BY <1>1, <2>1, FinishStep
  <2>3. QED BY <1>1, <2>1, <2>2, Quiet DEF Insert, TypeOK
<1>5. CASE Insertable(p, o)
  <2>1. k \in OrderIds /\ orders[k] = NoOrder
    BY <1>5 DEF Insert, HasFreeOrder, FreeOrder
  <2> DEFINE order == [for |-> o, coded |-> p \in Workers, state |-> "created"]
             item == [at |-> o, row |-> LinkTo(o, k)]
             rows == <<item>> \o Tail(todo[p])
  <2>2. /\ orders' = [orders EXCEPT ![k] = order]
        /\ occurrences' = [occurrences EXCEPT ![o] = LinkTo(o, k)]
        /\ todo' = [todo EXCEPT ![p] = rows]
        /\ GoTo(p, "workflow")
        /\ UNCHANGED <<lock, schedule, failures, overlapped>>
    BY <1>5 DEF Insert
  <2>3. order \in Order /\ order # NoOrder /\ order.for = o
    <3>1. (p \in Workers) \in BOOLEAN OBVIOUS
    <3>2. order \in Order BY <1>3, <3>1 DEF Order
    <3>3. order # NoOrder BY <3>2, NullAssumption
    <3>4. QED BY <3>2, <3>3
  <2>4. LinkTo(o, k) \in Row BY <2>1 DEF LinkTo, Row
  <2>5. item \in Item BY <1>3, <2>4 DEF Item
  <2>6. rows \in Seq(Item) /\ rows # <<>> /\ rows[1] = item
    <3>1. <<item>> \in Seq(Item) /\ Len(<<item>>) = 1 /\ <<item>>[1] = item BY <2>5
    <3> HIDE DEF item
    <3>2. /\ rows \in Seq(Item)
          /\ Len(rows) = 1 + Len(Tail(todo[p]))
          /\ rows[1] = item
      BY <1>3, <3>1, ConcatProperties
    <3>3. Len(Tail(todo[p])) \in Nat BY <1>3
    <3>4. Len(<< >>) = 0 BY EmptySeq
    <3>5. QED BY <3>2, <3>3, <3>4
  <2>7. item.row.order = k BY DEF LinkTo
  <2> HIDE DEF order, item, rows, o, k
  <2>8. Moves(p) /\ pc'[p] = "workflow" /\ todo'[p] = rows
    BY <1>1, <2>2, <2>6 DEF GoTo, TypeOK, Moves, Places
  <2>9. orders' \in [OrderIds -> Order \union {NoOrder}] BY <1>1, <2>2, <2>3 DEF TypeOK
  <2>10. Kept BY <1>1, <2>1, <2>2, <2>3, <2>9 DEF Kept, TypeOK
  <2>11. Local(p)'
    <3>1. Mine(p)' = k BY <2>6, <2>7, <2>8 DEF Mine
    <3>2. orders'[k] # NoOrder BY <1>1, <2>1, <2>2, <2>3 DEF TypeOK
    <3>3. QED
      BY <2>1, <2>6, <2>8, <3>1, <3>2 DEF Local, RowInHand, MarkedHasOrder, MineIsAnOrder
  <2>12. \A q \in Occurrences : OrdersFor(q)' = IF q = o THEN {k} ELSE OrdersFor(q)
    <3>1. OrdersFor(o) = {} BY <1>5 DEF Insertable, o
    <3>2. orders'[k] = order /\ \A j \in OrderIds : j # k => orders'[j] = orders[j]
      BY <1>1, <2>1, <2>2 DEF TypeOK
    <3>3. ASSUME NEW q \in Occurrences, q # o PROVE OrdersFor(q)' = OrdersFor(q)
      BY <2>1, <2>3, <3>2, <3>3 DEF OrdersFor
    <3>4. ASSUME NEW q \in Occurrences, q = o PROVE OrdersFor(q)' = {k}
      BY <2>1, <2>3, <3>1, <3>2, <3>4 DEF OrdersFor
    <3>5. QED BY <3>3, <3>4
  <2>13. OneOrderPerOccurrence' BY <2>12 DEF IInv, OneOrderPerOccurrence
  <2>14. occurrences' \in [Occurrences -> Row] BY <1>1, <1>3, <2>2, <2>4 DEF TypeOK
  <2>15. NothingGeneratedForFree'
    <3>1. \A q \in Occurrences : q # o => occurrences'[q] = occurrences[q]
      BY <1>1, <2>2 DEF TypeOK
    <3>2. QED BY <2>12, <3>1 DEF IInv, NothingGeneratedForFree
  <2>16. QED
    BY <1>1, <2>2, <2>8, <2>10, <2>11, <2>13, <2>14, <2>15, Assemble DEF TypeOK
<1>6. QED BY <1>4, <1>5

\* An order gets a new state, and stays the order of its occurrence.
LEMMA OrderMoves ==
  ASSUME TypeOK, NEW k \in OrderIds, orders[k] # NoOrder,
         NEW state \in {"created", "started", "linked", "done"},
         orders' = [orders EXCEPT ![k].state = state]
  PROVE  /\ Kept
         /\ \A j \in OrderIds : orders'[j] # NoOrder <=> orders[j] # NoOrder
         /\ \A o \in Occurrences : OrdersFor(o)' = OrdersFor(o)
<1>1. orders[k] \in Order BY DEF TypeOK
<1>2. /\ [orders[k] EXCEPT !.state = state] \in Order
      /\ [orders[k] EXCEPT !.state = state].for = orders[k].for
  BY <1>1 DEF Order
<1>3. [orders[k] EXCEPT !.state = state] # NoOrder BY <1>2, NullAssumption
<1>4. orders' = [orders EXCEPT ![k] = [orders[k] EXCEPT !.state = state]] OBVIOUS
<1> DEFINE moved == [orders[k] EXCEPT !.state = state]
<1> HIDE DEF moved
<1>5. orders'[k] = moved /\ \A j \in OrderIds : j # k => orders'[j] = orders[j]
  BY <1>4 DEF TypeOK, moved
<1>6. orders' \in [OrderIds -> Order \union {NoOrder}]
  BY <1>2, <1>4 DEF TypeOK
<1>7. moved # NoOrder /\ moved.for = orders[k].for BY <1>2, <1>3 DEF moved
<1>8. \A j \in OrderIds : orders'[j] # NoOrder <=> orders[j] # NoOrder BY <1>5, <1>7
<1>9. \A j \in OrderIds : orders[j] # NoOrder => orders'[j].for = orders[j].for
  BY <1>5, <1>7
<1>10. QED BY <1>6, <1>8, <1>9 DEF Kept, OrdersFor

LEMMA StartWorkflowInv == ASSUME IInv, NEW p \in Processes, StartWorkflow(p) PROVE IInv'
<1>1. TypeOK /\ Local(p) BY DEF IInv
<1>2. todo[p] # <<>> /\ Mine(p) \in OrderIds /\ orders[Mine(p)] # NoOrder
  BY <1>1 DEF StartWorkflow, At, Local, RowInHand, MineIsAnOrder
<1>3. orders' = [orders EXCEPT ![Mine(p)].state = "started"] BY DEF StartWorkflow
<1>4. /\ Kept
      /\ \A j \in OrderIds : orders'[j] # NoOrder <=> orders[j] # NoOrder
      /\ \A o \in Occurrences : OrdersFor(o)' = OrdersFor(o)
  BY <1>1, <1>2, <1>3, OrderMoves
<1>5. Moves(p) /\ pc'[p] = "link" /\ todo'[p] = todo[p]
  BY <1>1, GoToStep DEF StartWorkflow, Places
<1>6. Local(p)'
  <2>1. Mine(p)' = Mine(p) BY <1>5 DEF Mine
  <2>2. QED
    BY <1>2, <1>4, <1>5, <2>1 DEF Local, RowInHand, MarkedHasOrder, MineIsAnOrder
<1>7. OneOrderPerOccurrence' BY <1>4 DEF IInv, OneOrderPerOccurrence
<1>8. NothingGeneratedForFree' BY <1>4 DEF StartWorkflow, IInv, NothingGeneratedForFree
<1>9. QED
  BY <1>1, <1>4, <1>5, <1>6, <1>7, <1>8, Assemble DEF StartWorkflow, TypeOK

LEMMA LinkWorkflowInv == ASSUME IInv, NEW p \in Processes, LinkWorkflow(p) PROVE IInv'
<1>1. TypeOK /\ Local(p) BY DEF IInv
<1>2. todo[p] # <<>> /\ Mine(p) \in OrderIds /\ orders[Mine(p)] # NoOrder
  BY <1>1 DEF LinkWorkflow, At, Local, RowInHand, MineIsAnOrder
<1>3. orders' = [orders EXCEPT ![Mine(p)].state = "linked"] BY DEF LinkWorkflow
<1>4. Kept /\ \A o \in Occurrences : OrdersFor(o)' = OrdersFor(o)
  BY <1>1, <1>2, <1>3, OrderMoves
<1>5. Moves(p) /\ Local(p)' /\ lock' \in Workers \union {Nobody}
  BY <1>1, <1>2, AdvanceStep DEF LinkWorkflow
<1>6. OneOrderPerOccurrence' BY <1>4 DEF IInv, OneOrderPerOccurrence
<1>7. NothingGeneratedForFree' BY <1>4 DEF LinkWorkflow, IInv, NothingGeneratedForFree
<1>8. QED BY <1>1, <1>4, <1>5, <1>6, <1>7, Assemble DEF LinkWorkflow, TypeOK

\* Steps after which every process is where it was.
LEMMA NobodyMoves ==
  ASSUME IInv, UNCHANGED <<pc, todo>>, Kept,
         OneOrderPerOccurrence', NothingGeneratedForFree',
         occurrences' \in [Occurrences -> Row],
         schedule' = schedule,
         lock' \in Workers \union {Nobody},
         failures' \in 0 .. MaxFailures,
         overlapped' \in BOOLEAN
  PROVE  IInv'
<1>1. TypeOK BY DEF IInv
<1>2. TypeOK' BY <1>1 DEF TypeOK, Kept
<1>3. ASSUME NEW q \in Processes PROVE Local(q)'
  <2>1. Local(q) BY DEF IInv
  <2>2. RowInHand(q)' BY <2>1 DEF RowInHand, Local
  <2>3. MarkedHasOrder(q)' BY <2>1 DEF MarkedHasOrder, Local, OrdersFor, Current, Kept
  <2>4. MineIsAnOrder(q)' BY <2>1 DEF MineIsAnOrder, Local, Mine, Kept
  <2>5. QED BY <2>2, <2>3, <2>4 DEF Local
<1>4. QED BY <1>2, <1>3 DEF IInv

LEMMA CompleteInv == ASSUME IInv, NEW k \in OrderIds, Complete(k) PROVE IInv'
<1>1. TypeOK BY DEF IInv
<1>2. orders[k] # NoOrder /\ orders[k] \in Order BY <1>1 DEF Complete, TypeOK
<1>3. Kept /\ \A o \in Occurrences : OrdersFor(o)' = OrdersFor(o)
  BY <1>1, <1>2, OrderMoves DEF Complete
<1>4. orders[k].for \in Occurrences /\ k \in OrdersFor(orders[k].for)
  BY <1>2 DEF Order, OrdersFor
<1>5. occurrences' = [occurrences EXCEPT ![orders[k].for].status = "completed"]
  BY DEF Complete
<1>6. occurrences' \in [Occurrences -> Row] BY <1>1, <1>4, <1>5 DEF TypeOK, Row
<1>7. OneOrderPerOccurrence' BY <1>3 DEF IInv, OneOrderPerOccurrence
<1>8. NothingGeneratedForFree'
  <2>1. \A o \in Occurrences : o # orders[k].for => occurrences'[o] = occurrences[o]
    BY <1>1, <1>5 DEF TypeOK
  <2>2. QED BY <1>3, <1>4, <2>1 DEF IInv, NothingGeneratedForFree
<1>9. QED BY <1>1, <1>3, <1>6, <1>7, <1>8, NobodyMoves DEF Complete, TypeOK

\* Handlers that read, or save the schedule.
LEMMA ReadInv ==
  ASSUME IInv, NEW c \in Callers,
         NEW place \in {"update", "activate", "pause", "archive", "materialize"},
         NEW statuses, Read(c, place, statuses)
  PROVE  IInv'
<1>1. TypeOK /\ c \in Processes BY DEF IInv, Processes
<1>2. Moves(c) /\ pc'[c] = place BY <1>1, GoToStep DEF Read, Places
<1>3. Local(c)' BY <1>2 DEF Local, RowInHand, MarkedHasOrder, MineIsAnOrder
<1>4. QED BY <1>1, <1>2, <1>3, Quiet DEF Read, TypeOK

LEMMA SaveScheduleInv ==
  ASSUME IInv, NEW c \in Callers, NEW from, NEW place \in {"idle", "cancel"},
         NEW status \in {"draft", "active", "paused", "archived"},
         SaveSchedule(c, from, status, place)
  PROVE  IInv'
<1>1. TypeOK /\ c \in Processes BY DEF IInv, Processes
<1>2. Moves(c) /\ pc'[c] = place BY <1>1, GoToStep DEF SaveSchedule, Places
<1>3. Local(c)' BY <1>2 DEF Local, RowInHand, MarkedHasOrder, MineIsAnOrder
<1>4. QED BY <1>1, <1>2, <1>3, Quiet DEF SaveSchedule, TypeOK

\* Cancelling and materializing touch rows that are neither generated nor
\* completed.
LEMMA ArchiveInv == ASSUME IInv, NEW c \in Callers, Archive(c) PROVE IInv'
<1>1. TypeOK /\ c \in Processes BY DEF IInv, Processes
<1>2. CASE Read(c, "archive", {"draft", "active", "paused"})
  BY <1>2, ReadInv
<1>3. CASE SaveSchedule(c, "archive", "archived", "cancel")
  BY <1>3, SaveScheduleInv
<1>4. ASSUME At(c, "cancel"),
             occurrences' = [o \in Occurrences |->
                               IF occurrences[o].status = "planned"
                                 THEN [occurrences[o] EXCEPT !.status = "cancelled"]
                                 ELSE occurrences[o]],
             GoTo(c, "idle"),
             UNCHANGED <<schedule, orders, lock, todo, failures, overlapped>>
      PROVE  IInv'
  <2>1. Moves(c) /\ pc'[c] = "idle" BY <1>1, <1>4, GoToStep DEF Places
  <2>2. Local(c)' BY <2>1 DEF Local, RowInHand, MarkedHasOrder, MineIsAnOrder
  <2>3. Kept BY <1>1, <1>4 DEF Kept, TypeOK
  <2>4. occurrences' \in [Occurrences -> Row] BY <1>1, <1>4 DEF TypeOK, Row
  <2>5. OneOrderPerOccurrence' BY <1>4 DEF IInv, OneOrderPerOccurrence, OrdersFor
  <2>6. NothingGeneratedForFree'
    <3>1. \A o \in Occurrences :
            occurrences'[o].status = "cancelled" \/ occurrences'[o] = occurrences[o]
      BY <1>1, <1>4 DEF TypeOK, Row
    <3>2. \A o \in Occurrences : OrdersFor(o)' = OrdersFor(o) BY <1>4 DEF OrdersFor
    <3>3. QED BY <3>1, <3>2 DEF IInv, NothingGeneratedForFree
  <2>7. QED
    BY <1>1, <1>4, <2>1, <2>2, <2>3, <2>4, <2>5, <2>6, Assemble DEF TypeOK
<1>5. QED BY <1>2, <1>3, <1>4 DEF Archive

LEMMA MaterializeInv == ASSUME IInv, NEW c \in Callers, Materialize(c) PROVE IInv'
<1>1. TypeOK /\ c \in Processes BY DEF IInv, Processes
<1>2. CASE Read(c, "materialize", {"active"})
  BY <1>2, ReadInv
<1>3. ASSUME NEW o \in Occurrences,
             occurrences' = [occurrences EXCEPT ![o].status = "planned"],
             UNCHANGED <<schedule, orders, lock, pc, todo, failures, overlapped>>
      PROVE  IInv'
  <2>1. Kept BY <1>1, <1>3 DEF Kept, TypeOK
  <2>2. occurrences' \in [Occurrences -> Row] BY <1>1, <1>3 DEF TypeOK, Row
  <2>3. OneOrderPerOccurrence' BY <1>3 DEF IInv, OneOrderPerOccurrence, OrdersFor
  <2>4. NothingGeneratedForFree'
    <3>1. \A q \in Occurrences :
            occurrences'[q].status = "planned" \/ occurrences'[q] = occurrences[q]
      BY <1>1, <1>3 DEF TypeOK, Row
    <3>2. \A q \in Occurrences : OrdersFor(q)' = OrdersFor(q) BY <1>3 DEF OrdersFor
    <3>3. QED BY <3>1, <3>2 DEF IInv, NothingGeneratedForFree
  <2>5. QED BY <1>1, <1>3, <2>1, <2>2, <2>3, <2>4, NobodyMoves DEF TypeOK
<1>4. ASSUME GoTo(c, "idle"),
             UNCHANGED <<schedule, occurrences, orders, lock, todo, failures, overlapped>>
      PROVE  IInv'
  <2>1. Moves(c) /\ pc'[c] = "idle" BY <1>1, <1>4, GoToStep DEF Places
  <2>2. Local(c)' BY <2>1 DEF Local, RowInHand, MarkedHasOrder, MineIsAnOrder
  <2>3. QED BY <1>1, <1>4, <2>1, <2>2, Quiet DEF TypeOK
<1>5. QED BY <1>2, <1>3, <1>4 DEF Materialize

LEMMA FailInv == ASSUME IInv, NEW p \in Processes, Fail(p) PROVE IInv'
<1>1. TypeOK BY DEF IInv
<1>2. << >> \in Seq(Item) BY EmptySeq
<1>3. Moves(p) BY <1>1, <1>2 DEF Fail, GoTo, TypeOK, Moves, Places
<1>4. pc'[p] = "idle" BY <1>1 DEF Fail, GoTo, TypeOK
<1>5. Local(p)' BY <1>4 DEF Local, RowInHand, MarkedHasOrder, MineIsAnOrder
<1>6. failures' \in 0 .. MaxFailures BY <1>1, CountAssumption DEF Fail, TypeOK
<1>7. lock' \in Workers \union {Nobody} BY <1>1 DEF Fail, TypeOK
<1>8. QED BY <1>1, <1>3, <1>5, <1>6, <1>7, Quiet DEF Fail, TypeOK

LEMMA LockInv == ASSUME IInv, ExpireLock \/ LoseLock PROVE IInv'
<1>1. TypeOK BY DEF IInv
<1>2. UNCHANGED <<schedule, occurrences, orders, pc, todo>> /\ lock' = Nobody
  BY DEF ExpireLock, LoseLock
<1>3. failures' \in 0 .. MaxFailures
  BY <1>1, CountAssumption DEF ExpireLock, LoseLock, TypeOK
<1>4. overlapped' \in BOOLEAN
  <2>1. overlapped' = overlapped \/ overlapped' = TRUE BY DEF ExpireLock, LoseLock
  <2>2. QED BY <1>1, <2>1, Zenon DEF TypeOK
<1>5. Kept /\ occurrences' \in [Occurrences -> Row] BY <1>1, <1>2 DEF Kept, TypeOK
<1>6. OneOrderPerOccurrence' /\ NothingGeneratedForFree'
  BY <1>2 DEF IInv, OneOrderPerOccurrence, NothingGeneratedForFree, OrdersFor
<1>7. QED BY <1>2, <1>3, <1>4, <1>5, <1>6, NobodyMoves

LEMMA InvStep == IInv /\ [Next]_vars => IInv'
<1>1. SUFFICES ASSUME IInv, [Next]_vars PROVE IInv'
  OBVIOUS
<1>2. ASSUME NEW w \in Workers, Begin(w) \/ Run(w) PROVE IInv'
  BY <1>1, <1>2, BeginInv, LookUpInv, MarkInv DEF Run
<1>3. ASSUME NEW p \in Processes, Create(p) \/ Fail(p) PROVE IInv'
  BY <1>1, <1>3, ResolveInv, InsertInv, StartWorkflowInv, LinkWorkflowInv, FailInv DEF Create
<1>4. ASSUME NEW c \in Callers, NEW o \in Occurrences, RequestOrder(c, o) \/ ReadToSkip(c, o)
      PROVE  IInv'
  BY <1>1, <1>4, RequestOrderInv, ReadToSkipInv
<1>5. ASSUME NEW c \in Callers, Update(c) \/ Activate(c) \/ Pause(c) PROVE IInv'
  BY <1>1, <1>5, ReadInv, SaveScheduleInv DEF Update, Activate, Pause
<1>6. ASSUME NEW c \in Callers, Archive(c) \/ Materialize(c) \/ Skip(c) PROVE IInv'
  BY <1>1, <1>6, ArchiveInv, MaterializeInv, SkipInv
<1>7. ASSUME NEW k \in OrderIds, Complete(k) PROVE IInv'
  BY <1>1, <1>7, CompleteInv
<1>8. ASSUME ExpireLock \/ LoseLock PROVE IInv'
  BY <1>1, <1>8, LockInv
<1>9. CASE UNCHANGED vars
  <2>1. TypeOK BY <1>1 DEF IInv
  <2>2. Kept /\ UNCHANGED <<pc, todo, schedule, occurrences, orders>> BY <1>9, <2>1 DEF vars, Kept, TypeOK
  <2>3. OneOrderPerOccurrence' /\ NothingGeneratedForFree'
    BY <1>1, <2>2 DEF IInv, OneOrderPerOccurrence, NothingGeneratedForFree, OrdersFor
  <2>4. QED BY <1>1, <1>9, <2>1, <2>2, <2>3, NobodyMoves DEF vars, TypeOK
<1>10. QED
  BY <1>1, <1>2, <1>3, <1>4, <1>5, <1>6, <1>7, <1>8, <1>9 DEF Next

LEMMA Invariance == Spec => []IInv
BY InitInv, InvStep, PTL DEF Spec

\* The rows, the lock and every process in progress keep their shape.
THEOREM GenerationTypeCorrect == Spec => []TypeOK
<1>1. IInv => TypeOK BY DEF IInv
<1>2. QED BY <1>1, Invariance, PTL

\* However many instances and requests overlap, with the lock or without it,
\* the unique indexes leave an occurrence at most one work order.
THEOREM AtMostOneOrder == Spec => []OneOrderPerOccurrence
<1>1. IInv => OneOrderPerOccurrence BY DEF IInv
<1>2. QED BY <1>1, Invariance, PTL

\* No save of a row read earlier marks an occurrence that has no work order as
\* generated or completed.
THEOREM GeneratedMeansOrdered == Spec => []NothingGeneratedForFree
<1>1. IInv => NothingGeneratedForFree BY DEF IInv
<1>2. QED BY <1>1, Invariance, PTL

-----------------------------------------------------------------------------
(* Who knows of an order: its occurrence, the rows in hand and the run that made it *)

RightPointer(row, o) == row.order # NoOrder => row.order \in OrdersFor(o)

\* What is planned was never ordered.
Linked(o) ==
  /\ RightPointer(occurrences[o], o)
  /\ occurrences[o].status \in {"absent", "planned"} => OrdersFor(o) = {}
  /\ occurrences[o].status = "generated" /\ ~overlapped => occurrences[o].order # NoOrder

RowsAreRight(p) ==
  \A i \in 1 .. Len(todo[p]) : RightPointer(todo[p][i].row, todo[p][i].at)

\* Whoever runs the job lists an occurrence once; as long as no lock was lost he is alone, and
\* nothing on his list was ordered by the job but what he ordered last.
RunsAlone(p) ==
  p \in Workers /\ pc[p] # "idle" =>
    /\ \A i, j \in 1 .. Len(todo[p]) : i < j => todo[p][i].at # todo[p][j].at
    /\ ~overlapped =>
         /\ lock = p
         /\ pc[p] # "mark"
         /\ \A i \in 1 .. Len(todo[p]) :
              \/ ~CodeTaken(todo[p][i].at)
              \/ i = 1 /\ pc[p] \in {"workflow", "link"}

LInv ==
  /\ \A o \in Occurrences : Linked(o)
  /\ \A p \in Processes : RowsAreRight(p) /\ RunsAlone(p)
  /\ OrdersHaveTheirWorkflow

NothingNewIsCoded == \A o \in Occurrences : CodeTaken(o)' => CodeTaken(o)

LEMMA InAnyHand ==
  ASSUME TypeOK, NEW p \in Processes, NEW i \in 1 .. Len(todo[p])
  PROVE  todo[p][i] \in Item /\ todo[p][i].at \in Occurrences
<1>1. todo[p] \in Seq(Item) BY DEF TypeOK
<1>2. todo[p][i] \in Item BY <1>1, ElementOfSeq
<1>3. QED BY <1>2 DEF Item

LEMMA StaysRight ==
  ASSUME TypeOK, Kept, NEW row \in Row, NEW o \in Occurrences, RightPointer(row, o)
  PROVE  RightPointer(row, o)'
<1>1. OrdersFor(o) \subseteq OrdersFor(o)' BY DEF OrdersFor, Kept
<1>2. QED BY <1>1 DEF RightPointer

\* A row that nobody writes.
LEMMA StaysLinked ==
  ASSUME IInv, LInv, Kept, overlapped => overlapped', NEW o \in Occurrences,
         occurrences'[o] = occurrences[o], OrdersFor(o)' = OrdersFor(o)
  PROVE  Linked(o)'
<1>1. Linked(o) BY DEF LInv
<1>2. QED BY <1>1 DEF Linked, RightPointer

\* A process that does not move.
LEMMA OthersLinked ==
  ASSUME IInv, LInv, NEW p \in Processes, Moves(p), Kept, overlapped' = overlapped,
         lock' = lock \/ lock \in {p, Nobody},
         NothingNewIsCoded \/ (p \in Workers /\ pc[p] # "idle"),
         NEW q \in Processes, q # p
  PROVE  RowsAreRight(q)' /\ RunsAlone(q)'
<1>1. pc'[q] = pc[q] /\ todo'[q] = todo[q] BY DEF Moves
<1>2. TypeOK /\ RowsAreRight(q) /\ RunsAlone(q) /\ RunsAlone(p) BY DEF IInv, LInv
<1>3. RowsAreRight(q)'
  <2>1. SUFFICES ASSUME NEW i \in 1 .. Len(todo[q])
                 PROVE  RightPointer(todo[q][i].row, todo[q][i].at)'
    BY <1>1 DEF RowsAreRight
  <2>2. RightPointer(todo[q][i].row, todo[q][i].at) BY <1>2 DEF RowsAreRight
  <2>3. todo[q][i].row \in Row /\ todo[q][i].at \in Occurrences
    BY <1>2, InAnyHand DEF Item
  <2>4. \A o \in Occurrences : OrdersFor(o) \subseteq OrdersFor(o)' BY DEF OrdersFor, Kept
  <2>5. QED BY <1>1, <2>2, <2>3, <2>4 DEF RightPointer
<1>4. RunsAlone(q)'
  <2>1. SUFFICES ASSUME q \in Workers, pc[q] # "idle", ~overlapped
                 PROVE  /\ lock' = q
                        /\ \A i \in 1 .. Len(todo[q]) :
                             \/ ~CodeTaken(todo[q][i].at)'
                             \/ i = 1 /\ pc[q] \in {"workflow", "link"}
    BY <1>1, <1>2 DEF RunsAlone, CodeTaken, OrdersFor
  <2>2. lock = q BY <1>2, <2>1 DEF RunsAlone
  <2>3. lock \notin {p, Nobody} BY <2>1, <2>2, ProcessAssumption
  <2>4. ~(p \in Workers /\ pc[p] # "idle") BY <1>2, <2>1, <2>2 DEF RunsAlone
  <2>5. ASSUME NEW i \in 1 .. Len(todo[q])
        PROVE  \/ ~CodeTaken(todo[q][i].at)'
               \/ i = 1 /\ pc[q] \in {"workflow", "link"}
    <3>1. todo[q][i].at \in Occurrences BY <1>2, InAnyHand
    <3>2. \A o \in Occurrences : CodeTaken(o)' => CodeTaken(o) BY <2>4 DEF NothingNewIsCoded
    <3>3. \/ ~CodeTaken(todo[q][i].at)
          \/ i = 1 /\ pc[q] \in {"workflow", "link"}
      BY <1>2, <2>1 DEF RunsAlone
    <3>4. QED BY <1>1, <3>1, <3>2, <3>3 DEF CodeTaken, OrdersFor
  <2>6. QED BY <2>2, <2>3, <2>5
<1>5. QED BY <1>3, <1>4

\* The orders that wait for their workflow have a process, and only it can leave them.
LEMMA StillServed ==
  ASSUME LInv, NEW p \in Processes, Moves(p), failures > 0 => failures' > 0,
         \A k \in OrderIds : orders'[k] # NoOrder /\ orders'[k].state \in {"created", "started"} =>
            \/ failures' > 0
            \/ pc'[p] \in {"workflow", "link"} /\ Mine(p)' = k
            \/ /\ orders[k] # NoOrder /\ orders[k].state \in {"created", "started"}
               /\ ~(pc[p] \in {"workflow", "link"} /\ Mine(p) = k)
  PROVE  OrdersHaveTheirWorkflow'
<1>1. SUFFICES ASSUME NEW k \in OrderIds, orders'[k] # NoOrder,
                      orders'[k].state \in {"created", "started"}, ~(failures' > 0)
               PROVE  \E q \in Processes : pc'[q] \in {"workflow", "link"} /\ Mine(q)' = k
  BY DEF OrdersHaveTheirWorkflow
<1>2. CASE pc'[p] \in {"workflow", "link"} /\ Mine(p)' = k
  BY <1>2
<1>3. CASE /\ orders[k] # NoOrder /\ orders[k].state \in {"created", "started"}
           /\ ~(pc[p] \in {"workflow", "link"} /\ Mine(p) = k)
  <2>1. PICK q \in Processes : pc[q] \in {"workflow", "link"} /\ Mine(q) = k
    BY <1>1, <1>3 DEF LInv, OrdersHaveTheirWorkflow
  <2>2. q # p BY <1>3, <2>1
  <2>3. pc'[q] = pc[q] /\ Mine(q)' = Mine(q) BY <2>2 DEF Moves, Mine
  <2>4. QED BY <2>1, <2>3
<1>4. QED BY <1>1, <1>2, <1>3

LEMMA FinishLinks ==
  ASSUME IInv, LInv, NEW p \in Processes, Finish(p), UNCHANGED <<orders, overlapped>>
  PROVE  \A q \in Processes : RowsAreRight(q)' /\ RunsAlone(q)'
<1>1. TypeOK BY DEF IInv
<1>2. Moves(p) BY <1>1, FinishStep
<1>3. Kept /\ NothingNewIsCoded BY <1>1 DEF Kept, TypeOK, NothingNewIsCoded, CodeTaken, OrdersFor
<1>4. lock' = lock \/ lock \in {p, Nobody} BY DEF Finish
<1>5. pc'[p] = "idle" /\ todo'[p] = << >> BY <1>1 DEF Finish, GoTo, TypeOK
<1>6. Len(<< >>) = 0 BY EmptySeq
<1>7. RowsAreRight(p)' /\ RunsAlone(p)' BY <1>5, <1>6 DEF RowsAreRight, RunsAlone
<1>8. QED BY <1>2, <1>3, <1>4, <1>7, OthersLinked

\* A worker drops the first row of its list, and with it what it has just ordered.
LEMMA AdvanceLinks ==
  ASSUME IInv, LInv, NEW p \in Processes, Advance(p), todo[p] # <<>>, pc[p] # "idle",
         Kept, NothingNewIsCoded, overlapped' = overlapped
  PROVE  \A q \in Processes : RowsAreRight(q)' /\ RunsAlone(q)'
<1>1. TypeOK /\ RowsAreRight(p) /\ RunsAlone(p) BY DEF IInv, LInv
<1>2. Moves(p) BY <1>1, AdvanceStep
<1>3. lock' = lock \/ lock \in {p, Nobody} BY DEF Advance, Finish
<1>4. \A o \in Occurrences : OrdersFor(o) \subseteq OrdersFor(o)' BY DEF OrdersFor, Kept
<1>5. CASE Len(todo[p]) = 1
  <2>1. pc'[p] = "idle" /\ todo'[p] = << >> BY <1>1, <1>5 DEF Advance, Finish, GoTo, TypeOK
  <2>2. Len(<< >>) = 0 BY EmptySeq
  <2>3. RowsAreRight(p)' /\ RunsAlone(p)' BY <2>1, <2>2 DEF RowsAreRight, RunsAlone
  <2>4. QED BY <1>2, <1>3, <2>3, OthersLinked
<1>6. CASE Len(todo[p]) # 1
  <2>1. pc'[p] = "next" /\ todo'[p] = Tail(todo[p]) /\ lock' = lock
    BY <1>1, <1>6 DEF Advance, GoTo, TypeOK
  <2>2. todo[p] \in Seq(Item) /\ Len(todo[p]) \in Nat BY <1>1, LenProperties DEF TypeOK
  <2>3. /\ Len(Tail(todo[p])) = Len(todo[p]) - 1
        /\ \A i \in 1 .. Len(Tail(todo[p])) : Tail(todo[p])[i] = todo[p][i + 1]
    BY <2>2, HeadTailProperties
  <2>4. \A i \in 1 .. Len(Tail(todo[p])) : i + 1 \in 1 .. Len(todo[p]) /\ i + 1 # 1
    BY <2>2, <2>3
  <2>5. RowsAreRight(p)'
    <3>1. SUFFICES ASSUME NEW i \in 1 .. Len(Tail(todo[p]))
                   PROVE  RightPointer(todo[p][i].row, todo[p][i].at)'
      BY <2>1 DEF RowsAreRight
    <3>2. i + 1 \in 1 .. Len(todo[p]) /\ todo'[p][i] = todo[p][i + 1] BY <2>1, <2>3, <2>4
    <3>3. /\ RightPointer(todo[p][i + 1].row, todo[p][i + 1].at)
          /\ todo[p][i + 1].at \in Occurrences
      BY <1>1, <3>2, InAnyHand DEF RowsAreRight
    <3>4. QED BY <1>4, <3>2, <3>3 DEF RightPointer
  <2>6. RunsAlone(p)'
    <3>1. CASE ~(p \in Workers)
      BY <3>1 DEF RunsAlone
    <3>2. CASE p \in Workers
      <4>1. \A i, j \in 1 .. Len(todo'[p]) : i < j => todo'[p][i].at # todo'[p][j].at
        <5>1. SUFFICES ASSUME NEW i \in 1 .. Len(Tail(todo[p])), NEW j \in 1 .. Len(Tail(todo[p])),
                              i < j
                       PROVE  todo[p][i + 1].at # todo[p][j + 1].at
          BY <2>1, <2>3
        <5>2. i + 1 < j + 1 BY <2>2, <2>3, <5>1
        <5>3. QED BY <1>1, <2>4, <3>2, <5>2 DEF RunsAlone
      <4>2. ASSUME ~overlapped, NEW i \in 1 .. Len(todo'[p])
            PROVE  ~CodeTaken(todo[p][i].at)'
        <5>1. i \in 1 .. Len(Tail(todo[p])) /\ todo'[p][i] = todo[p][i + 1] BY <2>1, <2>3, <4>2
        <5>2. ~CodeTaken(todo[p][i + 1].at) BY <1>1, <2>4, <3>2, <4>2, <5>1 DEF RunsAlone
        <5>3. todo[p][i + 1].at \in Occurrences BY <1>1, <2>4, <5>1, InAnyHand
        <5>4. QED BY <5>1, <5>2, <5>3 DEF NothingNewIsCoded, CodeTaken, OrdersFor
      <4>3. ~overlapped => lock = p BY <1>1, <3>2 DEF RunsAlone
      <4>4. QED BY <2>1, <4>1, <4>2, <4>3 DEF RunsAlone
    <3>3. QED BY <3>1, <3>2
  <2>7. QED BY <1>2, <1>3, <2>5, <2>6, OthersLinked
<1>7. QED BY <1>5, <1>6

\* A process goes on with the rows it has.
LEMMA GoLinks ==
  ASSUME IInv, LInv, NEW p \in Processes, NEW place \in Places, GoTo(p, place),
         UNCHANGED <<todo, lock, overlapped>>, Kept, NothingNewIsCoded,
         p \in Workers => /\ pc[p] # "idle"
                          /\ place = "mark" => overlapped
                          /\ pc[p] \in {"workflow", "link"} => place \in {"workflow", "link"}
  PROVE  \A q \in Processes : RowsAreRight(q)' /\ RunsAlone(q)'
<1>1. TypeOK /\ RowsAreRight(p) /\ RunsAlone(p) BY DEF IInv, LInv
<1>2. Moves(p) /\ pc'[p] = place /\ todo'[p] = todo[p] BY <1>1, GoToStep
<1>3. \A o \in Occurrences : OrdersFor(o) \subseteq OrdersFor(o)' BY DEF OrdersFor, Kept
<1>4. RowsAreRight(p)'
  <2>1. SUFFICES ASSUME NEW i \in 1 .. Len(todo[p])
                 PROVE  RightPointer(todo[p][i].row, todo[p][i].at)'
    BY <1>2 DEF RowsAreRight
  <2>2. RightPointer(todo[p][i].row, todo[p][i].at) /\ todo[p][i].at \in Occurrences
    BY <1>1, InAnyHand DEF RowsAreRight
  <2>3. QED BY <1>2, <1>3, <2>2 DEF RightPointer
<1>5. RunsAlone(p)'
  <2>1. CASE ~(p \in Workers)
    BY <2>1 DEF RunsAlone
  <2>2. CASE p \in Workers
    <3>1. ASSUME ~overlapped, NEW i \in 1 .. Len(todo[p])
          PROVE  ~CodeTaken(todo[p][i].at)' \/ (i = 1 /\ place \in {"workflow", "link"})
      <4>1. ~CodeTaken(todo[p][i].at) \/ (i = 1 /\ pc[p] \in {"workflow", "link"})
        BY <1>1, <2>2, <3>1 DEF RunsAlone
      <4>2. todo[p][i].at \in Occurrences BY <1>1, InAnyHand
      <4>3. QED BY <1>2, <2>2, <4>1, <4>2 DEF NothingNewIsCoded, CodeTaken, OrdersFor
    <3>2. QED BY <1>1, <1>2, <2>2, <3>1 DEF RunsAlone
  <2>3. QED BY <2>1, <2>2
<1>6. QED BY <1>2, <1>4, <1>5, OthersLinked

\* A request takes the row it read.
LEMMA TakeLinks ==
  ASSUME IInv, LInv, NEW c \in Callers, NEW o \in Occurrences, NEW place \in {"resolve", "skip"},
         GoTo(c, place), todo' = [todo EXCEPT ![c] = <<[at |-> o, row |-> occurrences[o]]>>],
         UNCHANGED <<lock, orders, overlapped>>
  PROVE  \A q \in Processes : RowsAreRight(q)' /\ RunsAlone(q)'
<1>1. TypeOK /\ c \in Processes /\ c \notin Workers
  BY ProcessAssumption DEF IInv, Processes
<1>2. PICK item : item = [at |-> o, row |-> occurrences[o]]
  OBVIOUS
<1>3. item \in Item /\ item.at = o /\ item.row = occurrences[o] BY <1>1, <1>2 DEF TypeOK, Item
<1>4. PICK rows : /\ rows = <<item>> /\ rows \in Seq(Item) /\ rows # <<>>
                  /\ todo' = [todo EXCEPT ![c] = rows]
  <2>1. <<item>> \in Seq(Item) /\ <<item>> # <<>> BY <1>3
  <2>2. todo' = [todo EXCEPT ![c] = <<item>>] BY <1>2
  <2>3. QED BY <2>1, <2>2
<1>5. Moves(c) BY <1>1, <1>4, TakeStep
<1>6. todo'[c] = rows BY <1>1, <1>4 DEF TypeOK
<1>7. Kept /\ NothingNewIsCoded BY <1>1 DEF Kept, TypeOK, NothingNewIsCoded, CodeTaken, OrdersFor
<1>8. RightPointer(occurrences[o], o) BY DEF LInv, Linked
<1>9. RowsAreRight(c)'
  <2>1. \A i \in 1 .. Len(rows) : rows[i] = item BY <1>4
  <2>2. RightPointer(item.row, item.at)' BY <1>3, <1>8 DEF RightPointer, OrdersFor
  <2>3. QED BY <1>6, <2>1, <2>2 DEF RowsAreRight, RightPointer, OrdersFor
<1>10. RunsAlone(c)' BY <1>1 DEF RunsAlone
<1>11. QED BY <1>1, <1>5, <1>7, <1>9, <1>10, OthersLinked

-----------------------------------------------------------------------------
(* The steps again *)

\* Steps that leave rows and orders alone.
LEMMA QuietLinks ==
  ASSUME IInv, LInv, NEW p \in Processes, Moves(p), UNCHANGED <<orders, occurrences>>,
         overlapped => overlapped', failures > 0 => failures' > 0,
         pc[p] \in {"workflow", "link"} => failures' > 0,
         \A q \in Processes : RowsAreRight(q)' /\ RunsAlone(q)'
  PROVE  LInv'
<1>1. Kept BY DEF Kept, IInv, TypeOK
<1>2. \A o \in Occurrences : OrdersFor(o)' = OrdersFor(o) BY DEF OrdersFor
<1>3. \A o \in Occurrences : Linked(o)' BY <1>1, <1>2, StaysLinked
<1>4. OrdersHaveTheirWorkflow' BY StillServed
<1>5. QED BY <1>3, <1>4 DEF LInv

\* What is due was never ordered, and is listed once.
LEMMA BeginLinks == ASSUME IInv, LInv, NEW w \in Workers, Begin(w) PROVE LInv'
<1>1. TypeOK /\ w \in Processes BY DEF IInv, Processes
<1>2. Cardinality(Due) \in Nat \ {0} /\ Due \subseteq Occurrences
  <2>1. Due \subseteq Occurrences BY DEF Due
  <2>2. IsFiniteSet(Occurrences) BY CountAssumption, FS_Interval DEF Occurrences
  <2>3. IsFiniteSet(Due) BY <2>1, <2>2, FS_Subset
  <2>4. Due # {} BY DEF Begin
  <2>5. QED BY <2>1, <2>3, <2>4, FS_CardinalityType, FS_EmptySet
<1>3. PICK due \in ByPlannedStart :
        todo' = [todo EXCEPT ![w] =
                   [i \in DOMAIN due |-> [at |-> due[i], row |-> occurrences[due[i]]]]]
  BY DEF Begin
<1>4. PICK n \in Nat \ {0} : n = Cardinality(Due)
  BY <1>2
<1>5. /\ due \in [1 .. n -> Due]
      /\ \A i, j \in 1 .. n : i < j => due[i] < due[j]
  BY <1>4 DEF ByPlannedStart
<1>6. PICK rows : rows = [i \in 1 .. n |-> [at |-> due[i], row |-> occurrences[due[i]]]]
  OBVIOUS
<1>7. \A i \in 1 .. n : rows[i].at = due[i] /\ rows[i].row = occurrences[due[i]]
  BY <1>6
<1>8. todo' = [todo EXCEPT ![w] = rows] BY <1>3, <1>5, <1>6
<1>9. rows \in Seq(Item) /\ Len(rows) = n /\ rows # <<>>
  <2>1. \A i \in 1 .. n : due[i] \in Occurrences /\ occurrences[due[i]] \in Row
    BY <1>1, <1>2, <1>5 DEF TypeOK
  <2>2. rows \in [1 .. n -> Item] BY <1>6, <2>1 DEF Item
  <2>3. rows \in Seq(Item) /\ Len(rows) = n BY <2>2
  <2>4. Len(<< >>) = 0 BY EmptySeq
  <2>5. QED BY <2>3, <2>4
<1>10. Moves(w) BY <1>1, <1>8, <1>9, TakeStep DEF Begin
<1>11. pc'[w] = "next" /\ todo'[w] = rows /\ lock' = w /\ lock = Nobody
  BY <1>1, <1>8 DEF Begin, GoTo, TypeOK
<1>12. Kept /\ NothingNewIsCoded
  BY <1>1 DEF Begin, Kept, TypeOK, NothingNewIsCoded, CodeTaken, OrdersFor
<1>13. RowsAreRight(w)'
  <2>1. \A i \in 1 .. n : RightPointer(occurrences[due[i]], due[i])
    BY <1>2, <1>5 DEF LInv, Linked
  <2>2. ASSUME NEW i \in 1 .. n, rows[i].row.order # NoOrder
        PROVE  rows[i].row.order \in OrdersFor(rows[i].at)
    BY <1>7, <2>1, <2>2 DEF RightPointer
  <2>3. \A i \in 1 .. n : rows[i].row.order # NoOrder => (rows[i].row.order \in OrdersFor(rows[i].at))'
    BY <2>2 DEF OrdersFor, Begin
  <2>4. QED BY <1>9, <1>11, <2>3 DEF RowsAreRight, RightPointer, OrdersFor
<1>14. RunsAlone(w)'
  <2>1. \A i, j \in 1 .. n : i < j => rows[i].at # rows[j].at
    <3>1. \A i \in 1 .. n : due[i] \in Occurrences
      BY <1>2, <1>5
    <3>2. \A o \in Occurrences : o \in Nat
      BY CountAssumption DEF Occurrences
    <3>3. \A i, j \in 1 .. n : i < j => due[i] # due[j]
      BY <1>5, <3>1, <3>2
    <3>4. QED BY <1>7, <3>3
  <2>2. \A i \in 1 .. n : ~CodeTaken(rows[i].at)
    <3>1. \A i \in 1 .. n : due[i] \in Occurrences /\ occurrences[due[i]].status = "planned"
      BY <1>5 DEF Due
    <3>2. QED BY <1>7, <3>1 DEF LInv, Linked, CodeTaken
  <2>3. \A i \in 1 .. n : ~CodeTaken(todo[w][i].at)'
    BY <1>11, <2>2 DEF Begin, CodeTaken, OrdersFor
  <2>4. QED BY <1>9, <1>11, <2>1, <2>3 DEF RunsAlone
<1>15. \A q \in Processes : RowsAreRight(q)' /\ RunsAlone(q)'
  <2>1. ASSUME NEW q \in Processes, q # w PROVE RowsAreRight(q)' /\ RunsAlone(q)'
    BY <1>1, <1>10, <1>11, <1>12, <2>1, OthersLinked DEF Begin
  <2>2. QED BY <1>13, <1>14, <2>1
<1>16. QED BY <1>1, <1>10, <1>15, QuietLinks DEF Begin, At

LEMMA LookUpLinks == ASSUME IInv, LInv, NEW w \in Workers, LookUp(w) PROVE LInv'
<1>1. TypeOK /\ w \in Processes /\ Local(w) /\ RunsAlone(w) BY DEF IInv, LInv, Processes
<1>2. pc[w] = "next" /\ todo[w] # <<>> BY <1>1 DEF LookUp, At, Local, RowInHand
<1>3. 1 \in 1 .. Len(todo[w])
  <2>1. todo[w] \in Seq(Item) BY <1>1 DEF TypeOK
  <2>2. QED BY <1>2, <2>1, EmptySeq
<1>4. CodeTaken(Current(w)) => overlapped BY <1>1, <1>2, <1>3 DEF RunsAlone, Current
<1>5. PICK place \in {"mark", "resolve"} : GoTo(w, place) /\ (place = "mark" => overlapped)
  BY <1>4 DEF LookUp
<1>6. Moves(w) BY <1>1, <1>5, GoToStep DEF LookUp, Places
<1>7. Kept /\ NothingNewIsCoded
  BY <1>1 DEF LookUp, Kept, TypeOK, NothingNewIsCoded, CodeTaken, OrdersFor
<1>8. \A q \in Processes : RowsAreRight(q)' /\ RunsAlone(q)'
  BY <1>1, <1>2, <1>5, <1>7, GoLinks DEF LookUp, Places
<1>9. QED BY <1>1, <1>2, <1>6, <1>8, QuietLinks DEF LookUp

\* Marking and skipping keep the order of the row that was read; only overlapping runs mark.
LEMMA MarkLinks ==
  ASSUME IInv, LInv, NEW p \in Processes, todo[p] # <<>>, Advance(p),
         NEW status \in {"generated", "skipped"}, status = "generated" => overlapped,
         pc[p] \in {"mark", "skip"},
         occurrences' = [occurrences EXCEPT ![Current(p)] = [todo[p][1].row EXCEPT !.status = status]],
         UNCHANGED <<orders, failures, overlapped>>
  PROVE  LInv'
<1>1. TypeOK /\ RowsAreRight(p) BY DEF IInv, LInv
<1>2. /\ Current(p) \in Occurrences /\ todo[p][1].row \in Row
      /\ todo[p][1].at = Current(p)
  BY <1>1, InHand DEF Current
<1>3. Moves(p) BY <1>1, AdvanceStep
<1>4. Kept /\ NothingNewIsCoded BY <1>1 DEF Kept, TypeOK, NothingNewIsCoded, CodeTaken, OrdersFor
<1>5. \A q \in Processes : RowsAreRight(q)' /\ RunsAlone(q)' BY <1>4, AdvanceLinks
<1>6. \A o \in Occurrences : OrdersFor(o)' = OrdersFor(o) BY DEF OrdersFor
<1>7. PICK o \in Occurrences : o = Current(p) BY <1>2
<1>8. Linked(o)'
  <2>1. 1 \in 1 .. Len(todo[p])
    <3>1. todo[p] \in Seq(Item) BY <1>1 DEF TypeOK
    <3>2. QED BY <3>1, EmptySeq
  <2>2. RightPointer(todo[p][1].row, o) BY <1>1, <1>2, <1>7, <2>1 DEF RowsAreRight
  <2>3. occurrences'[o].order = todo[p][1].row.order /\ occurrences'[o].status = status
    BY <1>1, <1>2, <1>7 DEF TypeOK, Row
  <2>4. QED BY <1>6, <2>2, <2>3 DEF Linked, RightPointer
<1>9. ASSUME NEW r \in Occurrences, r # o PROVE Linked(r)'
  <2>1. occurrences'[r] = occurrences[r] BY <1>1, <1>2, <1>7, <1>9 DEF TypeOK
  <2>2. QED BY <1>4, <1>6, <2>1, StaysLinked
<1>10. OrdersHaveTheirWorkflow' BY <1>3, StillServed
<1>11. QED BY <1>5, <1>8, <1>9, <1>10 DEF LInv

LEMMA ResolveLinks == ASSUME IInv, LInv, NEW p \in Processes, Resolve(p) PROVE LInv'
<1>1. TypeOK BY DEF IInv
<1>2. pc[p] = "resolve" BY DEF Resolve, At
<1>3. CASE Finish(p)
  <2>1. Moves(p) BY <1>1, <1>3, FinishStep
  <2>2. \A q \in Processes : RowsAreRight(q)' /\ RunsAlone(q)' BY <1>3, FinishLinks DEF Resolve
  <2>3. QED BY <1>2, <2>1, <2>2, QuietLinks DEF Resolve
<1>4. CASE GoTo(p, "insert") /\ UNCHANGED <<lock, todo>>
  <2>1. Kept /\ NothingNewIsCoded
    BY <1>1 DEF Resolve, Kept, TypeOK, NothingNewIsCoded, CodeTaken, OrdersFor
  <2>2. Moves(p) BY <1>1, <1>4, GoToStep DEF Places
  <2>3. "insert" \in Places BY DEF Places
  <2>4. \A q \in Processes : RowsAreRight(q)' /\ RunsAlone(q)'
    BY <1>2, <1>4, <2>1, <2>3, GoLinks DEF Resolve
  <2>5. QED BY <1>2, <2>2, <2>4, QuietLinks DEF Resolve
<1>5. QED BY <1>3, <1>4 DEF Resolve

\* The new order, its occurrence and the row in hand point to each other, and whoever made it
\* is about to start its workflow.
LEMMA InsertLinks == ASSUME IInv, LInv, NEW p \in Processes, Insert(p) PROVE LInv'
<1>1. TypeOK /\ Local(p) /\ RowsAreRight(p) /\ RunsAlone(p) BY DEF IInv, LInv
<1>2. pc[p] = "insert" /\ todo[p] # <<>> BY <1>1 DEF Insert, At, Local, RowInHand
<1>3. Current(p) \in Occurrences /\ Tail(todo[p]) \in Seq(Item) BY <1>1, <1>2, InHand
<1>4. CASE ~Insertable(p, Current(p))
  <2>1. Finish(p) /\ UNCHANGED <<orders, occurrences>> BY <1>4 DEF Insert
  <2>2. Moves(p) BY <1>1, <2>1, FinishStep
  <2>3. \A q \in Processes : RowsAreRight(q)' /\ RunsAlone(q)' BY <2>1, FinishLinks DEF Insert
  <2>4. QED BY <1>2, <2>1, <2>2, <2>3, QuietLinks DEF Insert
<1>5. CASE Insertable(p, Current(p))
  <2>1. PICK o \in Occurrences : o = Current(p) BY <1>3
  <2>2. PICK k \in OrderIds : k = FreeOrder /\ orders[k] = NoOrder
    BY <1>5 DEF Insert, HasFreeOrder, FreeOrder
  <2>3. PICK order : order = [for |-> o, coded |-> p \in Workers, state |-> "created"]
    OBVIOUS
  <2>4. PICK item : item = [at |-> o, row |-> LinkTo(o, k)]
    OBVIOUS
  <2>5. order \in Order /\ order # NoOrder /\ order.for = o /\ order.coded = (p \in Workers)
    <3>1. (p \in Workers) \in BOOLEAN OBVIOUS
    <3>2. order \in Order /\ order.for = o /\ order.coded = (p \in Workers) BY <2>3, <3>1 DEF Order
    <3>3. order # NoOrder BY <3>2, NullAssumption
    <3>4. QED BY <3>2, <3>3
  <2>6. /\ item \in Item /\ item.at = o /\ item.row = LinkTo(o, k)
        /\ item.row.order = k /\ item.row.status = "generated"
    BY <2>4 DEF LinkTo, Row, Item
  <2>7. PICK rows : rows = <<item>> \o Tail(todo[p])
    OBVIOUS
  <2>8. /\ orders' = [orders EXCEPT ![k] = order]
        /\ occurrences' = [occurrences EXCEPT ![o] = item.row]
        /\ todo' = [todo EXCEPT ![p] = rows]
        /\ GoTo(p, "workflow")
        /\ UNCHANGED <<lock, schedule, failures, overlapped>>
    BY <1>5, <2>1, <2>2, <2>3, <2>4, <2>6, <2>7 DEF Insert
  <2>9. /\ rows \in Seq(Item) /\ Len(rows) = Len(todo[p]) /\ Len(todo[p]) \in Nat \ {0}
        /\ rows[1] = item /\ \A i \in 1 .. Len(rows) : i # 1 => rows[i] = todo[p][i]
    <3>1. <<item>> \in Seq(Item) /\ Len(<<item>>) = 1 /\ <<item>>[1] = item BY <2>6
    <3>2. todo[p] \in Seq(Item) /\ Len(todo[p]) \in Nat \ {0}
      BY <1>1, <1>2, EmptySeq DEF TypeOK
    <3>3. /\ Len(Tail(todo[p])) = Len(todo[p]) - 1
          /\ \A i \in 1 .. Len(Tail(todo[p])) : Tail(todo[p])[i] = todo[p][i + 1]
      BY <1>2, <3>2, HeadTailProperties
    <3>4. PICK one : one = <<item>>
      OBVIOUS
    <3>5. /\ rows \in Seq(Item) /\ Len(rows) = 1 + Len(Tail(todo[p]))
          /\ \A i \in 1 .. 1 + Len(Tail(todo[p])) :
               rows[i] = IF i <= 1 THEN one[i] ELSE Tail(todo[p])[i - 1]
      BY <1>3, <2>7, <3>1, <3>4, ConcatProperties
    <3>6. rows[1] = item BY <3>1, <3>2, <3>3, <3>4, <3>5
    <3>7. ASSUME NEW i \in 1 .. Len(rows), i # 1 PROVE rows[i] = todo[p][i]
      <4>1. i - 1 \in 1 .. Len(Tail(todo[p])) /\ ~(i <= 1) /\ (i - 1) + 1 = i
        BY <3>2, <3>3, <3>5, <3>7
      <4>2. QED BY <3>2, <3>3, <3>5, <3>7, <4>1
    <3>8. QED BY <3>2, <3>3, <3>5, <3>6, <3>7
  <2>10. pc'[p] = "workflow" /\ todo'[p] = rows /\ Moves(p)
    BY <1>1, <2>8, <2>9 DEF GoTo, TypeOK, Moves, Places
  <2>11. orders'[k] = order /\ \A j \in OrderIds : j # k => orders'[j] = orders[j]
    BY <1>1, <2>2, <2>8 DEF TypeOK
  <2>12. Kept BY <1>1, <2>2, <2>5, <2>8, <2>11 DEF Kept, TypeOK
  <2>13. /\ \A q \in Occurrences : q # o => OrdersFor(q)' = OrdersFor(q)
         /\ k \in OrdersFor(o)'
    BY <2>2, <2>5, <2>11 DEF OrdersFor
  <2>14. \A q \in Occurrences : q # o => (CodeTaken(q)' => CodeTaken(q))
    BY <2>2, <2>11, <2>13 DEF CodeTaken, OrdersFor
  <2>15. p \notin Workers => NothingNewIsCoded
    <3>1. ASSUME p \notin Workers, CodeTaken(o)' PROVE CodeTaken(o)
      <4>1. PICK j \in OrderIds : j \in OrdersFor(o)' /\ orders'[j].coded
        BY <3>1 DEF CodeTaken, OrdersFor
      <4>2. j # k BY <2>5, <2>11, <3>1, <4>1
      <4>3. QED BY <2>11, <4>1, <4>2 DEF CodeTaken, OrdersFor
    <3>2. QED BY <2>14, <3>1 DEF NothingNewIsCoded
  <2>16. Linked(o)'
    <3>1. occurrences'[o] = item.row BY <1>1, <2>8 DEF TypeOK
    <3>2. k # NoOrder BY NullAssumption
    <3>3. QED BY <2>6, <2>13, <3>1, <3>2 DEF Linked, RightPointer
  <2>17. ASSUME NEW q \in Occurrences, q # o PROVE Linked(q)'
    <3>1. occurrences'[q] = occurrences[q] BY <1>1, <2>8, <2>17 DEF TypeOK
    <3>2. QED BY <2>8, <2>12, <2>13, <2>17, <3>1, StaysLinked
  <2>18. RowsAreRight(p)'
    <3>1. ASSUME NEW i \in 1 .. Len(rows), rows[i].row.order # NoOrder
          PROVE  (rows[i].row.order \in OrdersFor(rows[i].at))'
      <4>1. CASE i = 1
        BY <2>6, <2>9, <2>13, <4>1
      <4>2. CASE i # 1
        <5>1. rows[i] = todo[p][i] /\ i \in 1 .. Len(todo[p]) BY <2>9, <4>2
        <5>2. rows[i].row.order \in OrdersFor(rows[i].at) /\ rows[i].at \in Occurrences
          BY <1>1, <3>1, <5>1, InAnyHand DEF RowsAreRight, RightPointer
        <5>3. \A q \in Occurrences : OrdersFor(q) \subseteq OrdersFor(q)' BY <2>12 DEF OrdersFor, Kept
        <5>4. QED BY <5>2, <5>3
      <4>3. QED BY <4>1, <4>2
    <3>2. QED BY <2>10, <3>1 DEF RowsAreRight, RightPointer, OrdersFor
  <2>19. RunsAlone(p)'
    <3>1. CASE p \notin Workers
      BY <3>1 DEF RunsAlone
    <3>2. CASE p \in Workers
      <4>1. \A i \in 1 .. Len(rows) : rows[i].at = todo[p][i].at
        <5>1. rows[1].at = todo[p][1].at BY <2>1, <2>6, <2>9 DEF Current
        <5>2. QED BY <2>9, <5>1
      <4>2. \A i, j \in 1 .. Len(rows) : i < j => rows[i].at # rows[j].at
        BY <1>1, <1>2, <2>9, <3>2, <4>1 DEF RunsAlone
      <4>3. ASSUME ~overlapped, NEW i \in 1 .. Len(rows), i # 1
            PROVE  ~CodeTaken(rows[i].at)'
        <5>1. i \in 1 .. Len(todo[p]) /\ 1 \in 1 .. Len(rows) /\ 1 < i BY <2>9, <4>3
        <5>2. ~CodeTaken(todo[p][i].at) /\ todo[p][i].at \in Occurrences
          BY <1>1, <1>2, <3>2, <4>3, <5>1, InAnyHand DEF RunsAlone
        <5>3. rows[i].at # o BY <2>6, <2>9, <4>2, <5>1
        <5>4. rows[i].at = todo[p][i].at BY <4>1
        <5>5. QED BY <2>14, <5>2, <5>3, <5>4
      <4>4. ~overlapped => lock = p BY <1>1, <1>2, <3>2 DEF RunsAlone
      <4>5. QED BY <2>8, <2>10, <4>2, <4>3, <4>4 DEF RunsAlone, CodeTaken, OrdersFor
    <3>3. QED BY <3>1, <3>2
  <2>20. ASSUME NEW q \in Processes, q # p PROVE RowsAreRight(q)' /\ RunsAlone(q)'
    BY <1>2, <2>8, <2>10, <2>12, <2>15, <2>20, OthersLinked
  <2>21. OrdersHaveTheirWorkflow'
    <3>1. Mine(p)' = k BY <2>6, <2>9, <2>10 DEF Mine
    <3>2. \A j \in OrderIds : orders'[j] # NoOrder =>
             (pc'[p] \in {"workflow", "link"} /\ Mine(p)' = j) \/ orders'[j] = orders[j]
      BY <2>10, <2>11, <3>1
    <3>3. QED BY <1>2, <2>8, <2>10, <3>2, StillServed
  <2>22. QED BY <2>16, <2>17, <2>18, <2>19, <2>20, <2>21 DEF LInv
<1>6. QED BY <1>4, <1>5

\* An order whose state changes is coded as before, and keeps its occurrence.
LEMMA StateLinks ==
  ASSUME TypeOK, NEW k \in OrderIds, orders[k] # NoOrder,
         NEW state \in {"started", "linked", "done"},
         orders' = [orders EXCEPT ![k].state = state]
  PROVE  /\ Kept /\ NothingNewIsCoded
         /\ \A o \in Occurrences : OrdersFor(o)' = OrdersFor(o)
         /\ orders'[k].state = state /\ \A j \in OrderIds : j # k => orders'[j] = orders[j]
<1>1. orders[k] \in Order BY DEF TypeOK
<1>2. /\ [orders[k] EXCEPT !.state = state].coded = orders[k].coded
      /\ [orders[k] EXCEPT !.state = state].state = state
  BY <1>1 DEF Order
<1>3. orders' = [orders EXCEPT ![k] = [orders[k] EXCEPT !.state = state]] OBVIOUS
<1>4. PICK moved : moved = [orders[k] EXCEPT !.state = state]
  OBVIOUS
<1>5. orders'[k] = moved /\ \A j \in OrderIds : j # k => orders'[j] = orders[j]
  BY <1>3, <1>4 DEF TypeOK
<1>6. Kept /\ \A o \in Occurrences : OrdersFor(o)' = OrdersFor(o) BY OrderMoves
<1>7. \A j \in OrderIds : orders'[j].coded = orders[j].coded BY <1>2, <1>4, <1>5
<1>8. NothingNewIsCoded BY <1>6, <1>7 DEF NothingNewIsCoded, CodeTaken, OrdersFor
<1>9. QED BY <1>2, <1>4, <1>5, <1>6, <1>8

LEMMA StartWorkflowLinks ==
  ASSUME IInv, LInv, NEW p \in Processes, StartWorkflow(p) PROVE LInv'
<1>1. TypeOK /\ Local(p) BY DEF IInv
<1>2. pc[p] = "workflow" /\ Mine(p) \in OrderIds /\ orders[Mine(p)] # NoOrder
  BY <1>1 DEF StartWorkflow, At, Local, MineIsAnOrder
<1>3. PICK k \in OrderIds : k = Mine(p) /\ orders[k] # NoOrder BY <1>2
<1>4. orders' = [orders EXCEPT ![k].state = "started"] BY <1>3 DEF StartWorkflow
<1>5. /\ Kept /\ NothingNewIsCoded
      /\ \A o \in Occurrences : OrdersFor(o)' = OrdersFor(o)
      /\ \A j \in OrderIds : j # k => orders'[j] = orders[j]
  BY <1>1, <1>3, <1>4, StateLinks
<1>6. Moves(p) /\ pc'[p] = "link" /\ todo'[p] = todo[p]
  BY <1>1, GoToStep DEF StartWorkflow, Places
<1>7. "link" \in Places BY DEF Places
<1>8. \A q \in Processes : RowsAreRight(q)' /\ RunsAlone(q)'
  BY <1>2, <1>5, <1>7, GoLinks DEF StartWorkflow
<1>9. \A o \in Occurrences : Linked(o)' BY <1>5, StaysLinked DEF StartWorkflow
<1>10. OrdersHaveTheirWorkflow'
  <2>1. Mine(p)' = k BY <1>3, <1>6 DEF Mine
  <2>2. QED BY <1>3, <1>5, <1>6, <2>1, StillServed DEF StartWorkflow
<1>11. QED BY <1>8, <1>9, <1>10 DEF LInv

LEMMA LinkWorkflowLinks ==
  ASSUME IInv, LInv, NEW p \in Processes, LinkWorkflow(p) PROVE LInv'
<1>1. TypeOK /\ Local(p) BY DEF IInv
<1>2. /\ pc[p] = "link" /\ todo[p] # <<>> /\ Mine(p) \in OrderIds /\ orders[Mine(p)] # NoOrder
  BY <1>1 DEF LinkWorkflow, At, Local, RowInHand, MineIsAnOrder
<1>3. PICK k \in OrderIds : k = Mine(p) /\ orders[k] # NoOrder BY <1>2
<1>4. orders' = [orders EXCEPT ![k].state = "linked"] BY <1>3 DEF LinkWorkflow
<1>5. /\ Kept /\ NothingNewIsCoded
      /\ \A o \in Occurrences : OrdersFor(o)' = OrdersFor(o)
      /\ orders'[k].state = "linked" /\ \A j \in OrderIds : j # k => orders'[j] = orders[j]
  BY <1>1, <1>3, <1>4, StateLinks
<1>6. Moves(p) BY <1>1, <1>2, AdvanceStep DEF LinkWorkflow
<1>7. \A q \in Processes : RowsAreRight(q)' /\ RunsAlone(q)'
  BY <1>2, <1>5, AdvanceLinks DEF LinkWorkflow
<1>8. \A o \in Occurrences : Linked(o)' BY <1>5, StaysLinked DEF LinkWorkflow
<1>9. OrdersHaveTheirWorkflow' BY <1>3, <1>5, <1>6, StillServed DEF LinkWorkflow
<1>10. QED BY <1>7, <1>8, <1>9 DEF LInv

\* Steps after which every process is where it was, and the lock where it was or free.
LEMMA NobodyLinks ==
  ASSUME IInv, LInv, UNCHANGED <<pc, todo>>, Kept, NothingNewIsCoded, failures > 0 => failures' > 0,
         \/ UNCHANGED <<lock, overlapped>>
         \/ overlapped'
         \/ lock \in Workers /\ pc[lock] = "idle" /\ overlapped' = overlapped,
         \A o \in Occurrences : Linked(o)',
         \A k \in OrderIds : orders'[k] # NoOrder /\ orders'[k].state \in {"created", "started"} =>
            orders'[k] = orders[k]
  PROVE  LInv'
<1>1. TypeOK BY DEF IInv
<1>2. ASSUME NEW q \in Processes PROVE RowsAreRight(q)' /\ RunsAlone(q)'
  <2>1. RowsAreRight(q) /\ RunsAlone(q) BY DEF LInv
  <2>2. \A i \in 1 .. Len(todo[q]) : todo[q][i].at \in Occurrences BY <1>1, InAnyHand
  <2>3. \A o \in Occurrences : OrdersFor(o) \subseteq OrdersFor(o)' BY DEF OrdersFor, Kept
  <2>4. RowsAreRight(q)' BY <2>1, <2>2, <2>3 DEF RowsAreRight, RightPointer, OrdersFor
  <2>5. q \in Workers /\ pc[q] # "idle" /\ ~overlapped' => lock' = lock /\ ~overlapped
    BY <2>1 DEF RunsAlone
  <2>6. \A i \in 1 .. Len(todo[q]) : CodeTaken(todo[q][i].at)' => CodeTaken(todo[q][i].at)
    BY <2>2 DEF NothingNewIsCoded, CodeTaken, OrdersFor
  <2>7. RunsAlone(q)' BY <2>1, <2>5, <2>6 DEF RunsAlone
  <2>8. QED BY <2>4, <2>7
<1>3. OrdersHaveTheirWorkflow' BY DEF LInv, OrdersHaveTheirWorkflow, Mine
<1>4. QED BY <1>2, <1>3 DEF LInv

LEMMA CompleteLinks == ASSUME IInv, LInv, NEW k \in OrderIds, Complete(k) PROVE LInv'
<1>1. TypeOK BY DEF IInv
<1>2. orders[k] # NoOrder /\ orders[k] \in Order BY <1>1 DEF Complete, TypeOK
<1>3. /\ Kept /\ NothingNewIsCoded
      /\ \A o \in Occurrences : OrdersFor(o)' = OrdersFor(o)
      /\ orders'[k].state = "done" /\ \A j \in OrderIds : j # k => orders'[j] = orders[j]
  BY <1>1, <1>2, StateLinks DEF Complete
<1>4. PICK o \in Occurrences : o = orders[k].for BY <1>2 DEF Order
<1>5. occurrences' = [occurrences EXCEPT ![o].status = "completed"] BY <1>4 DEF Complete
<1>6. Linked(o)'
  <2>1. occurrences'[o].order = occurrences[o].order /\ occurrences'[o].status = "completed"
    BY <1>1, <1>5 DEF TypeOK, Row
  <2>2. RightPointer(occurrences[o], o) BY DEF LInv, Linked
  <2>3. QED BY <1>3, <2>1, <2>2 DEF Linked, RightPointer
<1>7. ASSUME NEW r \in Occurrences, r # o PROVE Linked(r)'
  <2>1. occurrences'[r] = occurrences[r] BY <1>1, <1>5, <1>7 DEF TypeOK
  <2>2. QED BY <1>3, <2>1, StaysLinked DEF Complete
<1>8. QED BY <1>3, <1>6, <1>7, NobodyLinks DEF Complete

\* Handlers that go from one place to another.
LEMMA CallerLinks ==
  ASSUME IInv, LInv, NEW c \in Callers, NEW place \in Places, GoTo(c, place),
         pc[c] \notin {"workflow", "link"},
         UNCHANGED <<occurrences, orders, lock, todo, failures, overlapped>>
  PROVE  LInv'
<1>1. TypeOK /\ c \in Processes /\ c \notin Workers BY ProcessAssumption DEF IInv, Processes
<1>2. Moves(c) BY <1>1, GoToStep
<1>3. Kept /\ NothingNewIsCoded BY <1>1 DEF Kept, TypeOK, NothingNewIsCoded, CodeTaken, OrdersFor
<1>4. \A q \in Processes : RowsAreRight(q)' /\ RunsAlone(q)' BY <1>1, <1>3, GoLinks
<1>5. QED BY <1>1, <1>2, <1>4, QuietLinks

LEMMA ScheduleLinks ==
  ASSUME IInv, LInv, NEW c \in Callers, Update(c) \/ Activate(c) \/ Pause(c)
  PROVE  LInv'
<1>1. \E place \in Places : /\ GoTo(c, place) /\ pc[c] \notin {"workflow", "link"}
                            /\ UNCHANGED <<occurrences, orders, lock, todo, failures, overlapped>>
  BY DEF Update, Activate, Pause, Read, SaveSchedule, At, Places
<1>2. QED BY <1>1, CallerLinks

\* Cancelled rows keep what they point to.
LEMMA ArchiveLinks == ASSUME IInv, LInv, NEW c \in Callers, Archive(c) PROVE LInv'
<1>1. TypeOK /\ c \in Processes /\ c \notin Workers BY ProcessAssumption DEF IInv, Processes
<1>2. CASE \/ Read(c, "archive", {"draft", "active", "paused"})
           \/ SaveSchedule(c, "archive", "archived", "cancel")
  <2>1. \E place \in Places : /\ GoTo(c, place) /\ pc[c] \notin {"workflow", "link"}
                              /\ UNCHANGED <<occurrences, orders, lock, todo, failures, overlapped>>
    BY <1>2 DEF Read, SaveSchedule, At, Places
  <2>2. QED BY <2>1, CallerLinks
<1>3. ASSUME At(c, "cancel"),
             occurrences' = [o \in Occurrences |->
                               IF occurrences[o].status = "planned"
                                 THEN [occurrences[o] EXCEPT !.status = "cancelled"]
                                 ELSE occurrences[o]],
             GoTo(c, "idle"),
             UNCHANGED <<schedule, orders, lock, todo, failures, overlapped>>
      PROVE  LInv'
  <2>1. Moves(c) /\ "idle" \in Places BY <1>1, <1>3, GoToStep DEF Places
  <2>2. Kept /\ NothingNewIsCoded
    BY <1>1, <1>3 DEF Kept, TypeOK, NothingNewIsCoded, CodeTaken, OrdersFor
  <2>3. \A q \in Processes : RowsAreRight(q)' /\ RunsAlone(q)'
    BY <1>1, <1>3, <2>1, <2>2, GoLinks
  <2>4. \A o \in Occurrences : OrdersFor(o)' = OrdersFor(o) BY <1>3 DEF OrdersFor
  <2>5. ASSUME NEW o \in Occurrences PROVE Linked(o)'
    <3>1. /\ occurrences'[o].order = occurrences[o].order
          /\ occurrences'[o].status = "cancelled" \/ occurrences'[o] = occurrences[o]
      BY <1>1, <1>3 DEF TypeOK, Row
    <3>2. Linked(o) BY DEF LInv
    <3>3. QED BY <1>3, <2>4, <3>1, <3>2 DEF Linked, RightPointer
  <2>6. OrdersHaveTheirWorkflow' BY <1>1, <1>3, <2>1, StillServed DEF At
  <2>7. QED BY <2>3, <2>5, <2>6 DEF LInv
<1>4. QED BY <1>2, <1>3 DEF Archive

\* A new row has no order: there is none for an absent one.
LEMMA MaterializeLinks == ASSUME IInv, LInv, NEW c \in Callers, Materialize(c) PROVE LInv'
<1>1. TypeOK BY DEF IInv
<1>2. CASE \/ Read(c, "materialize", {"active"})
           \/ /\ At(c, "materialize")
              /\ GoTo(c, "idle")
              /\ UNCHANGED <<schedule, occurrences, orders, lock, todo, failures, overlapped>>
  <2>1. \E place \in Places : /\ GoTo(c, place) /\ pc[c] \notin {"workflow", "link"}
                              /\ UNCHANGED <<occurrences, orders, lock, todo, failures, overlapped>>
    BY <1>2 DEF Read, At, Places
  <2>2. QED BY <2>1, CallerLinks
<1>3. ASSUME NEW o \in Occurrences, occurrences[o].status = "absent",
             occurrences' = [occurrences EXCEPT ![o].status = "planned"],
             UNCHANGED <<schedule, orders, lock, pc, todo, failures, overlapped>>
      PROVE  LInv'
  <2>1. Kept /\ NothingNewIsCoded
    BY <1>1, <1>3 DEF Kept, TypeOK, NothingNewIsCoded, CodeTaken, OrdersFor
  <2>2. \A r \in Occurrences : OrdersFor(r)' = OrdersFor(r) BY <1>3 DEF OrdersFor
  <2>3. Linked(o)'
    <3>1. occurrences'[o].order = occurrences[o].order /\ occurrences'[o].status = "planned"
      BY <1>1, <1>3 DEF TypeOK, Row
    <3>2. Linked(o) BY DEF LInv
    <3>3. QED BY <1>3, <2>2, <3>1, <3>2 DEF Linked, RightPointer
  <2>4. ASSUME NEW r \in Occurrences, r # o PROVE Linked(r)'
    <3>1. occurrences'[r] = occurrences[r] BY <1>1, <1>3, <2>4 DEF TypeOK
    <3>2. QED BY <1>3, <2>1, <2>2, <3>1, StaysLinked
  <2>5. QED BY <1>3, <2>1, <2>3, <2>4, NobodyLinks
<1>4. QED BY <1>2, <1>3 DEF Materialize

LEMMA TakenLinks ==
  ASSUME IInv, LInv, NEW c \in Callers, NEW o \in Occurrences, RequestOrder(c, o) \/ ReadToSkip(c, o)
  PROVE  LInv'
<1>1. TypeOK /\ c \in Processes BY DEF IInv, Processes
<1>2. PICK place \in {"resolve", "skip"} :
        /\ GoTo(c, place) /\ pc[c] = "idle"
        /\ todo' = [todo EXCEPT ![c] = <<[at |-> o, row |-> occurrences[o]]>>]
        /\ UNCHANGED <<schedule, occurrences, orders, lock, failures, overlapped>>
  BY DEF RequestOrder, ReadToSkip, At
<1>3. \A q \in Processes : RowsAreRight(q)' /\ RunsAlone(q)' BY <1>2, TakeLinks
<1>4. Moves(c)
  <2>1. PICK item : item = [at |-> o, row |-> occurrences[o]]
    OBVIOUS
  <2>2. item \in Item BY <1>1, <2>1 DEF TypeOK, Item
  <2>3. <<item>> \in Seq(Item) /\ <<item>> # <<>> BY <2>2
  <2>4. todo' = [todo EXCEPT ![c] = <<item>>] BY <1>2, <2>1
  <2>5. QED BY <1>1, <1>2, <2>3, <2>4, TakeStep
<1>5. QED BY <1>1, <1>2, <1>3, <1>4, QuietLinks

LEMMA FailLinks == ASSUME IInv, LInv, NEW p \in Processes, Fail(p) PROVE LInv'
<1>1. TypeOK BY DEF IInv
<1>2. << >> \in Seq(Item) /\ Len(<< >>) = 0 BY EmptySeq
<1>3. Moves(p) BY <1>1, <1>2 DEF Fail, GoTo, TypeOK, Moves, Places
<1>4. pc'[p] = "idle" /\ todo'[p] = << >> BY <1>1 DEF Fail, GoTo, TypeOK
<1>5. failures' > 0 BY <1>1, CountAssumption DEF Fail, TypeOK
<1>6. Kept /\ NothingNewIsCoded
  BY <1>1 DEF Fail, Kept, TypeOK, NothingNewIsCoded, CodeTaken, OrdersFor
<1>7. lock' = lock \/ lock \in {p, Nobody} BY DEF Fail
<1>8. RowsAreRight(p)' /\ RunsAlone(p)' BY <1>2, <1>4 DEF RowsAreRight, RunsAlone
<1>9. \A q \in Processes : RowsAreRight(q)' /\ RunsAlone(q)'
  BY <1>3, <1>6, <1>7, <1>8, OthersLinked DEF Fail
<1>10. QED BY <1>3, <1>5, <1>9, QuietLinks DEF Fail

\* The lock of a dead holder is nobody's, and that of a running one is lost for good.
LEMMA LockLinks == ASSUME IInv, LInv, ExpireLock \/ LoseLock PROVE LInv'
<1>1. TypeOK BY DEF IInv
<1>2. Kept /\ NothingNewIsCoded /\ \A o \in Occurrences : OrdersFor(o)' = OrdersFor(o)
  BY <1>1 DEF ExpireLock, LoseLock, Kept, TypeOK, NothingNewIsCoded, CodeTaken, OrdersFor
<1>3. overlapped => overlapped' BY DEF ExpireLock, LoseLock
<1>4. \A o \in Occurrences : Linked(o)' BY <1>2, <1>3, StaysLinked DEF ExpireLock, LoseLock
<1>5. failures > 0 => failures' > 0
  BY <1>1, CountAssumption DEF ExpireLock, LoseLock, TypeOK
<1>6. \/ overlapped'
      \/ lock \in Workers /\ pc[lock] = "idle" /\ overlapped' = overlapped
  BY <1>1 DEF ExpireLock, LoseLock, At, TypeOK
<1>7. QED BY <1>2, <1>4, <1>5, <1>6, NobodyLinks DEF ExpireLock, LoseLock

LEMMA InitLinks == Init => LInv
<1>1. SUFFICES ASSUME Init PROVE LInv
  OBVIOUS
<1>2. Len(<< >>) = 0 BY EmptySeq
<1>3. \A p \in Processes : RowsAreRight(p) /\ RunsAlone(p)
  BY <1>1, <1>2 DEF Init, RowsAreRight, RunsAlone, Processes
<1>4. \A o \in Occurrences : Linked(o) BY <1>1 DEF Init, Linked, RightPointer, OrdersFor
<1>5. OrdersHaveTheirWorkflow BY <1>1 DEF Init, OrdersHaveTheirWorkflow
<1>6. QED BY <1>3, <1>4, <1>5 DEF LInv

LEMMA LinkStep == IInv /\ LInv /\ [Next]_vars => LInv'
<1>1. SUFFICES ASSUME IInv, LInv, [Next]_vars PROVE LInv'
  OBVIOUS
<1>2. ASSUME NEW w \in Workers, Begin(w) \/ LookUp(w) PROVE LInv'
  BY <1>1, <1>2, BeginLinks, LookUpLinks
<1>3. ASSUME NEW w \in Workers, Mark(w) PROVE LInv'
  <2>1. TypeOK /\ w \in Processes /\ Local(w) /\ RunsAlone(w) BY <1>1 DEF IInv, LInv, Processes
  <2>2. pc[w] = "mark" /\ todo[w] # <<>> BY <1>3, <2>1 DEF Mark, At, Local, RowInHand
  <2>3. overlapped BY <2>1, <2>2 DEF RunsAlone
  <2>4. QED BY <1>1, <1>3, <2>1, <2>2, <2>3, MarkLinks DEF Mark
<1>4. ASSUME NEW c \in Callers, Skip(c) PROVE LInv'
  <2>1. c \in Processes /\ Local(c) BY <1>1 DEF IInv, Processes
  <2>2. pc[c] = "skip" /\ todo[c] # <<>> BY <1>4, <2>1 DEF Skip, At, Local, RowInHand
  <2>3. QED BY <1>1, <1>4, <2>1, <2>2, MarkLinks DEF Skip
<1>5. ASSUME NEW p \in Processes, Create(p) \/ Fail(p) PROVE LInv'
  BY <1>1, <1>5, ResolveLinks, InsertLinks, StartWorkflowLinks, LinkWorkflowLinks, FailLinks
  DEF Create
<1>6. ASSUME NEW c \in Callers, NEW o \in Occurrences, RequestOrder(c, o) \/ ReadToSkip(c, o)
      PROVE  LInv'
  BY <1>1, <1>6, TakenLinks
<1>7. ASSUME NEW c \in Callers,
             Update(c) \/ Activate(c) \/ Pause(c) \/ Archive(c) \/ Materialize(c)
      PROVE  LInv'
  BY <1>1, <1>7, ScheduleLinks, ArchiveLinks, MaterializeLinks
<1>8. ASSUME NEW k \in OrderIds, Complete(k) PROVE LInv'
  BY <1>1, <1>8, CompleteLinks
<1>9. ASSUME ExpireLock \/ LoseLock PROVE LInv'
  BY <1>1, <1>9, LockLinks
<1>10. CASE UNCHANGED vars
  BY <1>1, <1>10
  DEF vars, LInv, Linked, RightPointer, RowsAreRight, RunsAlone, CodeTaken, OrdersFor,
      OrdersHaveTheirWorkflow, Mine
<1>11. QED
  BY <1>1, <1>2, <1>3, <1>4, <1>5, <1>6, <1>7, <1>8, <1>9, <1>10 DEF Next, Run

LEMMA LinkInvariance == Spec => []LInv
BY Invariance, InitLinks, LinkStep, PTL DEF Spec

\* An occurrence points to an order that was made for it, the job never marks one as generated
\* without that pointer while the lock keeps its runs apart, and no order is without its
\* workflow unless something failed.
THEOREM OrdersKnowTheirOccurrence == Spec => []OrdersAreLinked
<1>1. LInv => OrdersAreLinked
  BY DEF LInv, Linked, RightPointer, OrdersAreLinked, OccurrenceKnowsItsOrder
<1>2. QED BY <1>1, LinkInvariance, PTL

=============================================================================
