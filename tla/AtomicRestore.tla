---------------------------- MODULE AtomicRestore ----------------------------
(***************************************************************************)
(* What restoring a backup promises the user, with no file, marker or      *)
(* phase in sight: a library (the database, its write-ahead log and the    *)
(* documents folder, taken together) is edited by sessions; a confirmed    *)
(* package is an offer to replace it at the next start; a start shows      *)
(* either the library the last session left or the offered package, whole, *)
(* and in doing so settles the offer for good.                             *)
(*                                                                         *)
(* RestoreSwap implements this specification.                              *)
(***************************************************************************)
CONSTANTS
  Snapshot,   \* the possible contents of a library
  Nothing     \* "no package is offered"

VARIABLES
  lib,        \* the library the last (or the current) session works in
  offer,      \* the package confirmed for the next start, or Nothing
  up          \* whether a session is running

absVars == <<lib, offer, up>>

AbsInit == lib \in Snapshot /\ offer = Nothing /\ up = TRUE

\* A session changes its library.
AbsEdit == up /\ lib' \in Snapshot /\ UNCHANGED <<offer, up>>

\* The user confirms a package; an earlier offer must have been settled.
AbsOffer == up /\ offer = Nothing /\ offer' \in Snapshot /\ UNCHANGED <<lib, up>>

\* The program ends, by request or by a crash.
AbsStop == up /\ up' = FALSE /\ UNCHANGED <<lib, offer>>

\* The program starts: all of the package or all of the old library.
AbsStart ==
  /\ ~up
  /\ up' = TRUE
  /\ lib' \in {lib} \union ({offer} \ {Nothing})
  /\ offer' = Nothing

AbsNext == AbsEdit \/ AbsOffer \/ AbsStop \/ AbsStart

AbsSpec == AbsInit /\ [][AbsNext]_absVars
=============================================================================
