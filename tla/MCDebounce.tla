----------------------------- MODULE MCDebounce -----------------------------
(* Debounce with three distinct thresholds, so that no two are confused. *)
EXTENDS Debounce
=============================================================================
