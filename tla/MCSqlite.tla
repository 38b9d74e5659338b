------------------------------ MODULE MCSqlite ------------------------------
(***************************************************************************)
(* Two variables, one holding a literal and one a text of its own, unless  *)
(* it holds a value that cannot be bound; two statements, three objects and*)
(* seven calls, which is room to open, prepare, bind, execute, fetch, bind *)
(* and execute again, or to execute, bind twice, throw and fetch.          *)
(***************************************************************************)
EXTENDS Sqlite
===============================================================================
