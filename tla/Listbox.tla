------------------------------- MODULE Listbox -------------------------------
(***************************************************************************)
(* GuiListbox with its scroll bar, as operators on a record: the entries,  *)
(* the selected one and the first one on screen, counted from 0, and the   *)
(* largest and the present value of the scroll bar.                        *)
(***************************************************************************)
EXTENDS Integers, Sequences

CONSTANT Rows          \* entries that are visible at a time

ASSUME ListboxAssumption == Rows \in Nat \ {0}

NewList == [entries |-> << >>, selected |-> -1, top |-> 0, max |-> 0, value |-> 0]

Size(lb) == Len(lb.entries)
Within(v, hi) == CASE v < 0 -> 0 [] v > hi -> hi [] OTHER -> v
Chosen(lb) == lb.entries[lb.selected + 1]

(* A new length limits the scroll bar; the list itself is not told.        *)
Recalc(lb) ==
    LET max == IF Size(lb) > Rows THEN Size(lb) - Rows ELSE 0
    IN  [lb EXCEPT !.max = max, !.value = Within(@, max)]

AddEntry(lb, e) == Recalc([lb EXCEPT !.entries = Append(@, e)])

SetTop(lb, i) ==
    IF i < 0 THEN lb ELSE [lb EXCEPT !.top = Within(i, lb.max), !.value = Within(i, lb.max)]

Select(lb, i) ==
    [lb EXCEPT !.selected = IF i < 0 THEN -1 ELSE IF i >= Size(lb) THEN Size(lb) - 1 ELSE i]

(* The scroll bar keeps its range and its value.                           *)
Clear(lb) == [lb EXCEPT !.entries = << >>, !.top = 0, !.selected = -1]

ScrollTo(lb, v) == IF Within(v, lb.max) = lb.value THEN lb ELSE SetTop(lb, Within(v, lb.max))

ClickRow(lb, row) == Select(lb, row + lb.top)

Wheel(lb, step) ==
    LET index == IF lb.selected + step < 0 THEN 0 ELSE lb.selected + step
        up == IF index < lb.top THEN SetTop(lb, index) ELSE lb
        down == IF index - up.top >= Rows THEN SetTop(up, up.top + step) ELSE up
    IN  IF lb.selected = -1 THEN lb ELSE Select(down, index)

(* The list and its scroll bar agree, and the list shows what it has.      *)
ViewOK(lb) ==
    /\ lb.selected \in -1 .. Size(lb) - 1
    /\ lb.top = lb.value
    /\ lb.entries # << >> => lb.top <= lb.max
=============================================================================
