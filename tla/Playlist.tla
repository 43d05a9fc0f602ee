------------------------------- MODULE Playlist -------------------------------
(***************************************************************************)
(* What the playlist of a window promises: a sequence of items, to which   *)
(* one item is appended, from which one is removed, and whose items are    *)
(* put in another order, each in one step.                                 *)
(***************************************************************************)
EXTENDS Naturals, SequencesExt

CONSTANT Items
VARIABLE list

Init == list = <<>>

AppendItem == \E e \in Items \ ToSet(list) : list' = Append(list, e)

RemoveItem == \E k \in DOMAIN list : list' = RemoveAt(list, k)

(* The same items in another order.                                        *)
Rearrange == list' \in [DOMAIN list -> ToSet(list)] /\ ToSet(list') = ToSet(list)

Clear == list' = <<>>

Next == AppendItem \/ RemoveItem \/ Rearrange \/ Clear

Spec == Init /\ [][Next]_list
===============================================================================
