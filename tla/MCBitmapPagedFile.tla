------------------------- MODULE MCBitmapPagedFile -------------------------
(* Three pages and one header page; page contents are opaque tokens. *)
EXTENDS BitmapPagedFile

CONSTANTS zero, bitmap, a

Contents == {zero, bitmap, a}
=============================================================================
