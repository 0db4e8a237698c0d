----------------------------- MODULE AlbumShow -----------------------------
(***************************************************************************)
(* What the album-by-album sampler shows its callers, whatever its threads *)
(* do and whatever fails: an album is shown to the last picture drawn from *)
(* it, one picture to one caller at a time, then an album that passes the  *)
(* filter in force takes its place. Nothing but a filter cuts an album     *)
(* short, and each announcement of a filter cuts short one album at most.  *)
(*                                                                         *)
(* A setter stores its filter first and announces it then. What is adopted *)
(* is the filter stored last, announced or not: the album that was drawn   *)
(* under it may be cut short by its own announcement.                      *)
(***************************************************************************)
EXTENDS Naturals

CONSTANTS Filters, NoFilter, Passes, None,
          max_pictures,      (* shown of one album at a time, 0 for no limit *)
          Getters, Setters,  (* who takes pictures, and who sets filters     *)
          NoMemory           (* whether there may be no memory to adopt one  *)

VARIABLES
  wanted,   \* the filter that was stored last
  inForce,  \* the filter that albums are chosen by
  album,    \* the album that is being shown, or None
  left,     \* pictures of it that are still to be shown
  taking,   \* the getters that are being handed one, never more than one
  stored,   \* the setters that have a filter stored and not announced
  due       \* announcements that no adoption has answered

showing == <<album, left, taking>>
vars    == <<wanted, inForce, showing, stored, due>>

Init ==
  /\ wanted = NoFilter /\ inForce = NoFilter
  /\ album = None /\ left = 0 /\ taking = {}
  /\ stored = {} /\ due = 0

Want(s) ==
  /\ s \in Setters \ stored /\ wanted' \in Filters
  /\ stored' = stored \cup {s}
  /\ UNCHANGED <<inForce, showing, due>>

(* Announcements that nobody has taken notice of yet are one               *)
Announce(s) ==
  /\ s \in stored /\ stored' = stored \ {s}
  /\ due' = due + 1 \/ (due > 0 /\ due' = due)
  /\ UNCHANGED <<wanted, inForce, showing>>

Adopt ==
  /\ due > 0 /\ due' = due - 1 /\ taking = {}
  /\ inForce' = wanted /\ album' = None /\ left' = 0
  /\ UNCHANGED <<wanted, stored, taking>>

(* The old filter stays, and the album with it                             *)
Drop ==
  /\ NoMemory /\ due > 0 /\ due' = due - 1
  /\ UNCHANGED <<wanted, inForce, showing, stored>>

(* The next picture of the album, or the first of another one, is for g    *)
Take(g) ==
  /\ taking = {} /\ taking' = {g} /\ left > 0
  /\ UNCHANGED <<wanted, inForce, album, left, stored, due>>

Pick(g) ==
  /\ taking = {} /\ taking' = {g}
  /\ left = 0 /\ album' \in Passes[inForce] /\ left' \in Nat \ {0}
  /\ max_pictures > 0 => left' <= max_pictures
  /\ UNCHANGED <<wanted, inForce, stored, due>>

Show(g) ==
  /\ taking = {g} /\ taking' = {}
  /\ left' = left - 1
  /\ album' = IF left' = 0 THEN None ELSE album
  /\ UNCHANGED <<wanted, inForce, stored, due>>

Next ==
  \/ \E s \in Setters : Want(s) \/ Announce(s)
  \/ \E g \in Getters : Take(g) \/ Pick(g) \/ Show(g)
  \/ Adopt \/ Drop

Spec == Init /\ [][Next]_vars
==============================================================================
