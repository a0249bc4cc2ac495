------------------------------ MODULE TypeOrm ------------------------------
(***************************************************************************)
(* How repository.save(entity) stores an entity that has an id: TypeORM    *)
(* reads the row again, compares the entity with it column by column, and  *)
(* updates the columns that differ.  Three steps of a handler, then, with  *)
(* the event loop between them: it finds the entity, save compares it with *)
(* the row of that moment, save writes.  A column the handler never        *)
(* touched is written all the same when another request has changed it     *)
(* between the find and the comparison.                                    *)
(***************************************************************************)

\* The columns save will write.
Differing(entity, stored) == {c \in DOMAIN entity : entity[c] # stored[c]}

\* The row after the UPDATE of these columns.
Updated(stored, entity, columns) ==
  [c \in DOMAIN stored |-> IF c \in columns THEN entity[c] ELSE stored[c]]

=============================================================================
