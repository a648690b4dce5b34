------------------------- MODULE NotificationStore -------------------------
(***************************************************************************)
(* The table of notifications and the statements that the handlers of the  *)
(* notification-service run on it, one statement for each request.         *)
(*                                                                         *)
(* The model is soft-deleted: its DeletedAt makes GORM add the condition   *)
(* "deleted_at IS NULL" to every SELECT and UPDATE, and turn a DELETE into *)
(* an UPDATE of deleted_at under that condition.  The statements that look *)
(* for rows in the trash therefore match none.  A statement that matches   *)
(* no row is no error: the handler answers 204 all the same.               *)
(***************************************************************************)
CONSTANTS Id,              \* the ids of notifications
          User,            \* their owners
          NoRow            \* "there is no such row"

ASSUME NoRowAssumption == NoRow \notin [user : User, read : BOOLEAN, trashed : BOOLEAN]

VARIABLE row               \* row[i]: the row with id i

Row == [user : User, read : BOOLEAN, trashed : BOOLEAN]

StoreTypeOK == row \in [Id -> Row \cup {NoRow}]

Exists(i) == row[i] # NoRow
Owned(i, u) == Exists(i) /\ row[i].user = u

\* The condition GORM adds.
VisibleToAll(i) == TRUE
Visible(i) == ~row[i].trashed

Matching(u, Q(_)) == {i \in Id : Owned(i, u) /\ Visible(i) /\ Q(i)}

Set(is, F(_)) == row' = [i \in Id |-> IF i \in is THEN F(row[i]) ELSE row[i]]
Read(r) == [r EXCEPT !.read = TRUE]
Trashed(r) == [r EXCEPT !.trashed = TRUE]
Restored(r) == [r EXCEPT !.trashed = FALSE]

\* Create: BeforeCreate gives an id only to a notification that has none, and
\* an id that is taken violates the primary key.  The owner is the body's.
Create(i, u) ==
  /\ row[i] = NoRow
  /\ row' = [row EXCEPT ![i] = [user |-> u, read |-> FALSE, trashed |-> FALSE]]

GetByUserID(u) == Matching(u, LAMBDA i : TRUE)

MarkAsRead(i, u) == Set(Matching(u, LAMBDA j : j = i), Read)
MarkAllAsRead(u) == Set(Matching(u, LAMBDA j : ~row[j].read), Read)
MoveToTrash(i, u) == Set(Matching(u, LAMBDA j : j = i), Trashed)
RestoreFromTrash(i, u) == Set(Matching(u, LAMBDA j : j = i), Restored)
HardDeleteTrash(u) == Set(Matching(u, LAMBDA j : row[j].trashed), Trashed)
DeletePermanently(i, u) == Set(Matching(u, LAMBDA j : j = i), Trashed)

StoreInit == row \in [Id -> Row \cup {NoRow}]

StoreStep(u) ==
  \/ MarkAllAsRead(u) \/ HardDeleteTrash(u)
  \/ \E i \in Id : \/ MarkAsRead(i, u) \/ MoveToTrash(i, u)
                   \/ RestoreFromTrash(i, u) \/ DeletePermanently(i, u)

StoreNext ==
  \/ \E i \in Id, u \in User : Create(i, u)
  \/ \E u \in User : StoreStep(u)

StoreSpec == StoreInit /\ [][StoreNext]_row

-----------------------------------------------------------------------------
\* Rows are never removed, and never given to another owner: DeletePermanently
\* and ClearTrash only hide rows.
RowsAreKept ==
  [][\A i \in Id : Exists(i) => row'[i] # NoRow /\ row'[i].user = row[i].user]_row
=============================================================================
