----------------------------- MODULE UnitOfWork -----------------------------
(***************************************************************************)
(* How a request's database session writes a row back.                     *)
(*                                                                         *)
(* Every request and every scheduled job of the backend works in one       *)
(* AsyncSession (backend/app/deps.py, backend/app/database.py): it loads   *)
(* ORM objects with plain SELECTs, assigns attributes and commits once.    *)
(* PostgreSQL runs it at READ COMMITTED, nothing is selected FOR UPDATE    *)
(* and no model has a version column, so what a request read is a snapshot *)
(* that other transactions may overtake before it commits.                 *)
(*                                                                         *)
(* The flush emits UPDATE ... SET for the attributes whose assigned value  *)
(* differs from the loaded one, and for no others: two requests that       *)
(* loaded the same row merge attribute by attribute.                       *)
(***************************************************************************)

\* The stored value of one attribute after the flush of a session that
\* loaded the attribute as `loaded' and assigned `assigned' to it.
Written(stored, loaded, assigned) ==
    IF assigned = loaded THEN stored ELSE assigned

=============================================================================
