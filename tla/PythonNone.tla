----------------------------- MODULE PythonNone -----------------------------
(***************************************************************************)
(* Python's None: one value, whichever components a module puts together.  *)
(***************************************************************************)
CONSTANT None
=============================================================================
