------------------------------ MODULE RouteTable ------------------------------
(***************************************************************************)
(* What the users of static routes may count on, whatever happens to their  *)
(* requests and to the router: a table of rows that are inserted under a    *)
(* new id, changed in place and removed, one at a time; a row's owner is    *)
(* for life, and nobody has two rows for one destination and next hop.      *)
(***************************************************************************)
CONSTANTS
  Row,      \* records with the fields user, dest, hop and others
  Ids

VARIABLE rows   \* id -> Row

Key(row) == <<row.user, row.dest, row.hop>>
Free(row, except) == \A k \in DOMAIN rows \ except : Key(rows[k]) # Key(row)

Init == rows = [k \in {} |-> {}]

Insert(id, row) ==
  /\ id \notin DOMAIN rows
  /\ Free(row, {})
  /\ rows' = [k \in DOMAIN rows \union {id} |-> IF k = id THEN row ELSE rows[k]]

Change(id, row) ==
  /\ id \in DOMAIN rows
  /\ row.user = rows[id].user
  /\ Free(row, {id})
  /\ rows' = [rows EXCEPT ![id] = row]

Remove(id) ==
  /\ id \in DOMAIN rows
  /\ rows' = [k \in DOMAIN rows \ {id} |-> rows[k]]

Next == \E id \in Ids : Remove(id) \/ \E row \in Row : Insert(id, row) \/ Change(id, row)

Spec == Init /\ [][Next]_rows
=============================================================================
