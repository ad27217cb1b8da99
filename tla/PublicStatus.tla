---------------------------- MODULE PublicStatus ----------------------------
(***************************************************************************)
(* The title of a public status page (public-status.ts): the tenant's own, *)
(* trimmed; else the tenant's name; else the text that stands for both.  A *)
(* text is its words and the blanks around them.                           *)
(***************************************************************************)

Text(words, blanks) == [words |-> words, blanks |-> blanks]
Empty      == Text("", FALSE)
Trimmed(x) == [x EXCEPT !.blanks = FALSE]
Blank(x)   == x.words = ""

(* Mutant: blanks count as a title.                                        *)
resolvePublicStatusTitleUntrimmed(title, name, fallback) ==
  IF title # Empty THEN title ELSE IF name # Empty THEN name ELSE fallback

resolvePublicStatusTitle(title, name, fallback) ==
  IF ~Blank(title) THEN Trimmed(title) ELSE IF ~Blank(name) THEN Trimmed(name) ELSE fallback
=============================================================================
